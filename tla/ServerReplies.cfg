SPECIFICATION Spec
CONSTANTS
  SeqMod = 4
  OneByte = 2
  TwoBytes = 8
  ThreeBytes = 9
  Window = 4
  MaxCommands = 2
  Commands <- MCCommands
  Results <- MCResults
  Names <- MCNames
INVARIANTS
  InStep
  WritesAreTold
PROPERTIES
  IsService
  AllAnswered
  ThreadEnds
CHECK_DEADLOCK FALSE
