SPECIFICATION MCSpec
CONSTANTS
  Type <- MCType
  Element <- Catalogue
  Messages <- MCMessages
  Buffers <- MCBuffers
  MaxCalls = 1
INVARIANTS
  ConformingIsAccepted
  AcceptedMeetsRFC
CHECK_DEADLOCK FALSE
