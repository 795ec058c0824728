CONSTANTS
  Threads = {t1, t2, t3}
  Consumers = {t1, t2, t3}
  Items = {x1, x2}
  Events = {e1, e2, e3}
  CacheSize = 2
  Faults = {"memory", "event", "lock", "broadcast", "reset", "wait"}
  MaxLine = 2
  NULL = NULL
SPECIFICATION Spec
SYMMETRY Symmetry
INVARIANTS QueueInv OnePlacePerItem SetIffServed EventHasOneOwner NoEventLeak
PROPERTY ImplementsHandoffQueue
CHECK_DEADLOCK FALSE
