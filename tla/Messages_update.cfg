CONSTANTS
  Ids = {i1, i2}
  NbThreads = 1
  Records = 1
  Operations = 1
  MaxKey = 2
  First = 0
SPECIFICATION MsgSpec
PROPERTY Linearizable
CHECK_DEADLOCK FALSE
