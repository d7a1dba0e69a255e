CONSTANTS
  Ids = {i1, i2, i3}
  NbThreads = 2
  Records = 3
  Operations = 4
  MaxKey = 6
  First = 0
SPECIFICATION FairMsgSpec
INVARIANTS MsgTypeOK RepliesMatch NothingFails
PROPERTIES LinearizableButUpdates BenchmarkEnds
CHECK_DEADLOCK FALSE
