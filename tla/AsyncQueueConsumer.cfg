CONSTANTS
  Threads = {t1, t2, t3, t4}
  Consumers = {t1}
  Items = {x1, x2, x3}
  Events = {e1}
  CacheSize = 1
  Faults = {"memory", "event", "lock", "broadcast", "reset", "wait"}
  MaxLine = 2
  NULL = NULL
SPECIFICATION FairSpec
INVARIANT PeekAssertionsHold
PROPERTY WaitEnds
CHECK_DEADLOCK FALSE
