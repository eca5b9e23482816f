SPECIFICATION Spec
CONSTANTS
  MaxTime = 6
  MaxScanTime = 1
  MaxLoopBacks = 2
  MaxScansWaiting = 2
  MaxImuWaiting = 4
  InitImu = 1
  MapFrames = 1
  MaxForward = 2
  Off = Off
  Missing = Missing
  SaveIntervals <- NoSaving
  Nodes = {"mapping"}
  InitFrames = 1
  MaxGuesses = 0
INVARIANT CopyIsFront
PROPERTIES MomentsIntegratedOnce OdomTimeMonotone
CHECK_DEADLOCK FALSE
