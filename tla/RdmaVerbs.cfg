CONSTANTS
  Punctual = TRUE
  Faults = TRUE
  Threads = {t1, t2}
  Keys = {k1, k2}
  NoKey = NoKey
  Hops = 2
  MaxWR = 2
  MaxWork = 3
  Faulty = TRUE
SPECIFICATION FairVerbsSpec
INVARIANTS SetupMeansSent ReadyMeansKnown NotAllStuck
PROPERTIES BothSucceed UndisturbedReadsAreRight UndisturbedReadsReturn
CHECK_DEADLOCK FALSE
