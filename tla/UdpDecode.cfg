SPECIFICATION Spec
CONSTANTS
  Configurations <- AllConfigurations
  PerScan = 7
  MaxPackets = 8
  SeqModulus = 7
  FirstColumns = {4}
  MaxLost = 2
  FlagLimit = 3
  FlagReduction = 2
INVARIANTS FrameIsItsPackets FramesAreScans LossCounted IndexCountsStored
