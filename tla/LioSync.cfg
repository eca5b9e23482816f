SPECIFICATION LiveSpec
CONSTANTS
  MaxTime = 6
  MaxScanTime = 2
  MaxLoopBacks = 0
  MaxScansWaiting = 2
  MaxImuWaiting = 6
  InitImu = 2
  MapFrames = 1
  MaxForward = 2
  Off = Off
  Missing = Missing
  SaveIntervals <- Saving
  Nodes = {"mapping", "relocation"}
  InitFrames = 2
  MaxGuesses = 1
INVARIANTS TypeOK ForwardAheadOfFused GuessHeeded MapIsThisRun
PROPERTIES GroupMatchesScan UndistortBracketed EveryScanLeaves
CHECK_DEADLOCK FALSE
