SPECIFICATION LiveSpec
CONSTANTS
  RingCap = 2
  FaultSource = TRUE
  StopAfterRunning = TRUE
  PromptBlock = TRUE
INVARIANT NothingUsesFreedLidar
PROPERTIES ShutdownCompletes StartReturns
CHECK_DEADLOCK FALSE
