SPECIFICATION Spec
CONSTANTS
  NThreads = 2
  MaxPackets = 3
  HandleCap = 7
  PacketKinds <- GoodKinds
  SplitsInTime = FALSE
INVARIANTS StaleOnlyByLateWork DecodedQueueBounded
CHECK_DEADLOCK FALSE
