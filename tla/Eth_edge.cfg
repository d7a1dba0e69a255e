CONSTANTS
  M = 2
  KeyMax = 4
  Keys = {1, 2, 3, 4}
  MaxNodes = 16
  RootLoadNum = 3
  RootLoadDepth = 1
  RegularLoadNum = 2
  SwitchLayers = 2
  Threads = {t1, t2}
  Edge = 1
  Window = 16
SPECIFICATION EthSpec
INVARIANTS EthReadsMatch
CHECK_DEADLOCK FALSE
