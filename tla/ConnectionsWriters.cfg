SPECIFICATION Spec
CONSTANTS
  c1 = c1
  c2 = c2
  a = a
  b = b
  r1 = r1
  r2 = r2
  r3 = r3
  junk = junk
  Conns <- MCConns
  Junk = junk
  NumCols = 2
  Names <- MCOneName
  Home <- MCShared
  AloneToCreate = TRUE
  Rows <- MCTwoRows
  MaxId = 1
  MaxReads = 0
  Created <- MCOneName
INVARIANTS
  StoredRowsAreWhole
CHECK_DEADLOCK FALSE
