CONSTANTS
  M = 2
  KeyMax = 4
  Keys = {1, 2, 3, 4}
  MaxNodes = 16
  RootLoadNum = 3
  RootLoadDepth = 1
  RegularLoadNum = 2
  SwitchLayers = 2
  Threads = {t1, t2}
  Edge = 0
  Window = 16
SPECIFICATION EthSpec
INVARIANTS EthReadsMatch TablesMatchTheTree PrintsInner OnlyMissesAreLost
CHECK_DEADLOCK FALSE
