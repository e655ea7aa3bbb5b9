SPECIFICATION Spec
CONSTANTS
  Packets <- MCPackets
  MaxCalls = 2
INVARIANTS
  TypeOK
  WrittenIsRead
  PartsFollowFlags
  CutShortIsRefused
CHECK_DEADLOCK FALSE
