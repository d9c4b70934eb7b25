CONSTANTS
  ReadSize <- MCReadSize
  WriteSize <- MCWriteSize
  MaxPackets <- MCMaxPackets
  MaxOffers <- MCMaxOffers
  Sizes <- MCSizes
SPECIFICATION Spec
INVARIANTS TypeOK PacketsAreFramed NoPacketIsLeftWaiting ClientSeesAPrefix
PROPERTY EveryPacketIsHandled
CHECK_DEADLOCK FALSE
