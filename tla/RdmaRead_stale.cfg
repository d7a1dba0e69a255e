CONSTANTS
  M = 3
  KeyMax = 4
  Keys = {1, 2, 3, 4}
  MaxNodes = 18
  RootLoadNum = 4
  RootLoadDepth = 1
  RegularLoadNum = 4
  Threads = {t1}
  MaxReads = 1
  SwitchLayers = 1
SPECIFICATION RdmaSpec
PROPERTIES ReadsMatchGroundTruth
CHECK_DEADLOCK FALSE
