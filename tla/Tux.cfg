SPECIFICATION FairSpec
CONSTANTS
  TUXCTL_BUFSIZE = 4
  PACKET = 4
  ROOM = 2
  MaxChunk = 4
  Loads <- MCLoads
INVARIANTS
  TypeOK
  ReceivedInOrder
  PacketsExact
  TransmitRingFifo
PROPERTIES
  TransmitDrains
