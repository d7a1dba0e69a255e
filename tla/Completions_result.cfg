CONSTANTS
  Threads = {t1, t2}
  Keys = {k1, k2}
  NoKey = NoKey
  Hops = 2
  MaxWR = 8
  MaxWork = 2
  Faulty = FALSE
SPECIFICATION CompSpec
PROPERTY ResultIsOfTheKey
CHECK_DEADLOCK FALSE
