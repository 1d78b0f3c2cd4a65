SPECIFICATION Spec
CONSTANTS
  a = a
  b = b
  scrap = scrap
  r1 = r1
  r2 = r2
  junk = junk
  Garbage = junk
  NumCols = 3
  Names <- MCOneName
  Scraps <- MCNoScraps
  Values <- MCValues
  MaxId = 1
  MaxRows = 2
  Faults = {}
PROPERTIES
  RestartLosesNothing
