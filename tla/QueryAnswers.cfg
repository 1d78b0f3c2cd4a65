SPECIFICATION Spec
CONSTANTS
  BatchSize = 2
  MaxTableRows = 3
  DblMax = 100
  Schema <- MCSchema
  Tables <- MCTables
  Stmts <- MCStmts
INVARIANTS
  TypeOK
  AnswerIsWhole
  AnswerIsOrdered
  ErrorsAreWhole
  NoRowInBetween
PROPERTIES
  Terminates
CHECK_DEADLOCK FALSE
