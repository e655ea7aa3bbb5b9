SPECIFICATION MCSpec
CONSTANTS
  Type <- MCType
  Element <- Catalogue
  Messages <- ControlMessages
  Buffers <- MCBuffers
  MaxCalls = 1
INVARIANTS
  EventRequestHasAnEvent
CHECK_DEADLOCK FALSE
