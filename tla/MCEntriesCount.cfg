SPECIFICATION Spec
CONSTANTS
  MaxCount = 2
  MaxEntries = 3
  Elements <- MCElements
  MaxElements = 3
  MaxBuffers = 2
INVARIANTS
  AsManyAsCounted
CHECK_DEADLOCK FALSE
