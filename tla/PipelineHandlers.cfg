SPECIFICATION LiveSpec
CONSTANTS
  NThreads = 3
  MaxPackets = 5
  HandleCap = 5
  PacketKinds <- GoodKinds
  SplitsInTime = TRUE
INVARIANTS PipelineInv FrameFresh QuietWhileDelivering
PROPERTIES NothingDropped FrameDelivered StopReturns BarrierSpec
CHECK_DEADLOCK FALSE
