SPECIFICATION Spec
CONSTANTS
  c1 = c1
  c2 = c2
  a = a
  b = b
  r1 = r1
  r2 = r2
  r3 = r3
  junk = junk
  Conns <- MCConns
  Junk = junk
  NumCols = 2
  Names <- MCNames
  Home <- MCApart
  AloneToCreate = TRUE
  Rows <- MCRows
  MaxId = 2
  MaxReads = 2
  Created <- MCNone
INVARIANTS
  TypeOK
  RaceFree
  QuietIsDurable
  ReadsAcked
CHECK_DEADLOCK FALSE
