SPECIFICATION Spec
CONSTANTS
  Base = 2
  MaxPackets = 2
  Payloads <- MCPayloads
INVARIANTS
  Framed
PROPERTIES
  IsChannel
  AllArrives
CHECK_DEADLOCK FALSE
