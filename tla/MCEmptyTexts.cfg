SPECIFICATION MCSpec
CONSTANTS
  Type <- MCType
  Element <- Catalogue
  Messages <- ControlMessages
  Buffers <- MCBuffers
  MaxCalls = 1
INVARIANTS
  AcceptedTextsAreNotEmpty
CHECK_DEADLOCK FALSE
