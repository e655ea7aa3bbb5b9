SPECIFICATION MCSpec
CONSTANTS
  Type <- MCType
  Element <- MCElement
  Messages <- MCMessages
  Buffers <- MCBuffers
  MaxCalls = 2
  MaxFrames = 3
  MaxReused = 2
INVARIANTS
  TypeOK
  OnFrameBoundary
  VerdictIsExact
  CapsHold
  StoredAreValidated
  DecodesTheBuffer
PROPERTIES
  EveryCallReturns
CHECK_DEADLOCK FALSE
