SPECIFICATION Spec
CONSTANTS
  NThreads = 2
  MaxPackets = 3
  HandleCap = 7
  PacketKinds <- GoodKinds
  SplitsInTime = FALSE
INVARIANT CompleteMeansParsed
CHECK_DEADLOCK FALSE
