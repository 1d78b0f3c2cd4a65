SPECIFICATION Spec
CONSTANTS
  MaxShort = 4
  MaxInt = 100
  NoDoubles <- MCNoDoubles
  Sources <- MCSources
  Spaces <- MCSpaces
  Digits <- MCDigits
  Letters <- MCLetters
  toupper <- MCtoupper
  Keywords <- MCKeywords
  Documented <- MCNothing
INVARIANTS
  TokensAreTheSource
  TokensAreLongest
  LexerErrors
  PeekInBounds
  StmtIsWritten
  ThrowsAtFirstWrong
PROPERTIES
  Terminates
CHECK_DEADLOCK FALSE
