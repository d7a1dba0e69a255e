CONSTANTS
  Threads = {t1, t2}
  Keys = {k1}
  Fields <- MCFields
  None = None
  Ops = {"insert", "update", "read", "delete"}
  MaxOps = 3
SPECIFICATION HashSpec
INVARIANTS RecordsHoldLiveStrings NoUseAfterFree
PROPERTY WrittenWhenReturned
CHECK_DEADLOCK FALSE
