SPECIFICATION Spec
CONSTANTS
  MaxShort = 0
  MaxInt = 100
  NoDoubles <- MCNoDoubles
  Sources <- MCInserts
  Spaces <- MCSpaces
  Digits <- MCDigits
  Letters <- MCLetters
  toupper <- MCtoupper
  Keywords <- MCKeywords
  Documented <- MCDocumented
INVARIANTS
  DocumentedRowsAreStored
CHECK_DEADLOCK FALSE
