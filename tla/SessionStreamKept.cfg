CONSTANTS
  ReadSize <- MCReadSize
  WriteSize <- MCWriteSize
  MaxPackets <- MCMaxPackets
  MaxOffers <- MCMaxOffers
  Sizes <- MCSizes
SPECIFICATION Spec
INVARIANT HealthyClientIsKept
CHECK_DEADLOCK FALSE
