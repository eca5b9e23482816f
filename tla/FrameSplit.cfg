SPECIFICATION Spec
CONSTANTS
  Circle = 7
  MaxStep = 3
  FlagLimit = 1024
  FlagReduction = 128
PROPERTIES SplitsAtStart SecondDecodeStores
CHECK_DEADLOCK FALSE
