SPECIFICATION Spec
CONSTANTS
  BatchSize = 2
  MaxTableRows = 3
  DblMax = 100
  Schema <- MCSchema
  Tables <- MCTables
  Stmts <- MCStmts
INVARIANTS
  AggregatesAreAnswered
CHECK_DEADLOCK FALSE
