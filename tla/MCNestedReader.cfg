SPECIFICATION Spec
CONSTANTS
  Readers <- MCReaders
  Buffers <- MCBuffers
  MaxCalls = 2
  Given <- MCGiven
INVARIANTS
  TypeOK
  SubElementsInside
  KeptAreValidated
  EncryptionsCovered
  WrittenIsReadBack
  DecodesAsAWhole
PROPERTIES
  ImplementsOneStep
  EveryWalkEnds
CHECK_DEADLOCK FALSE
