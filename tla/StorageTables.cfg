SPECIFICATION Spec
CONSTANTS
  a = a
  b = b
  scrap = scrap
  r1 = r1
  r2 = r2
  junk = junk
  Garbage = junk
  NumCols = 3
  Names <- MCNames
  Scraps <- MCScraps
  Values <- MCOneValue
  MaxId = 2
  MaxRows = 2
  Faults = {"open", "write"}
SYMMETRY MCSymmetry
INVARIANTS
  TypeOK
  TableIdentity
  NumRowsIsLongest
  AckedInMemory
  AckedOnDisk
  OkMeansWritten
PROPERTIES
  RestartKeepsAcked
