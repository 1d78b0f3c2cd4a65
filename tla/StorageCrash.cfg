SPECIFICATION Spec
CONSTANTS
  a = a
  b = b
  scrap = scrap
  r1 = r1
  r2 = r2
  junk = junk
  Garbage = junk
  NumCols = 2
  Names <- MCOneName
  Scraps <- MCNoScraps
  Values <- MCValues
  MaxId = 1
  MaxRows = 3
  Faults = {}
INVARIANTS
  CrashLosesAtMostOneRow
