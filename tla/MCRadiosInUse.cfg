SPECIFICATION ExchangeSpec
CONSTANTS
  Element <- Catalogue
  Excess <- RoomExcess
  Loads <- MCLoads
  NewItems <- MCNewItems
  Peers <- MCPeers
INVARIANTS
  RadiosInUseAreDescribed
CHECK_DEADLOCK FALSE
