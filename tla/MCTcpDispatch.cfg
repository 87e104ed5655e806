SPECIFICATION TcpSpec
CONSTANTS
  RG_BATCH_HEADLEN = 1
  RG_BATCH_PACKET_SIZE = 4
  RG_MAX_BATCH_PACKET_SIZE = 7
  EventSizes <- Sizes
  ProcessEndedSize = 1
  Size = 10
  MaxEvents = 2
  MaxConnections = 3
INVARIANTS
  PolledIsWritten
  AtMostOneStraySocket
PROPERTIES
  WireInOrder
  DisconnectIsNoticed
  ShutdownReturns
