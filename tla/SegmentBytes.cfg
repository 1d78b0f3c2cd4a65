SPECIFICATION Spec
CONSTANTS
  Base = 8
  Word = 2
  Long = 3
  MAGIC <- MCMagic
  Tables <- MCTables
INVARIANTS
  LoadsOnlyWhole
  ComesBack
  InExtent
CHECK_DEADLOCK FALSE
