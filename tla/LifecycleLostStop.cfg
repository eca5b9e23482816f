SPECIFICATION LiveSpec
CONSTANTS
  RingCap = 2
  FaultSource = FALSE
  StopAfterRunning = FALSE
  PromptBlock = TRUE
PROPERTY StopJoins
CHECK_DEADLOCK FALSE
