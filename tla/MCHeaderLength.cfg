SPECIFICATION Spec
CONSTANTS
  Packets <- MCPackets
  MaxCalls = 1
INVARIANTS
  HLENIsTheLength
CHECK_DEADLOCK FALSE
