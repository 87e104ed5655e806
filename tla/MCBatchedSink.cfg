SPECIFICATION BatchedSinkSpec
CONSTANTS
  Size = 7000
  RG_BATCH_HEADLEN = 13
  RG_BATCH_PACKET_SIZE = 1400
  RG_MAX_BATCH_PACKET_SIZE = 4096
  EventSizes <- Sizes
  MaxEvents = 5
INVARIANTS
  BatchTypeOK
  PacketSizes
  SequenceAccounting
  LossAccounting
PROPERTY DeliversInOrder
