CONSTANTS
  M = 3
  KeyMax = 5
  Keys = {1, 2, 3, 4, 5}
  MaxNodes = 18
  RootLoadNum = 4
  RootLoadDepth = 1
  RegularLoadNum = 2
  Threads = {t1, t2}
  MaxReads = 1
  SwitchLayers = 1
SPECIFICATION FairRdmaSpec
INVARIANTS RdmaTypeOK
PROPERTIES QuietReadsAreRight ReadsEnd
CHECK_DEADLOCK FALSE
