SPECIFICATION ExchangeSpec
CONSTANTS
  Element <- Catalogue
  Excess <- RoomExcess
  Loads <- MCLoads
  NewItems <- MCNewItems
  Peers <- MCPeers
INVARIANTS
  TypeOK
  ProbeFillsTheMTU
  JoinHasItsRadios
  ReturnedElementsAreSound
  RoomSuffices
  AcceptedAsMeant
  ReceivedAsSent
CHECK_DEADLOCK FALSE
