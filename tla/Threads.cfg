CONSTANTS
  Threads = {m1, m2, c1, c2}
  Clients = {m1, m2}
  Children = {c1, c2}
  Evts = {gate, c1, c2}
  Gate = gate
  Ids = {i1, i2}
  Budgets <- LifecyclesAndMeetings
  FuncCalls = {"wait"}
  MayFail <- Failing
  NULL = NULL
SPECIFICATION FairSpec
INVARIANTS
  TypeOK NoLostWakeup JoinedHasRun HandleOutlivesThread NothingLeftBehind
PROPERTIES ImplementsSignalEvent JoinEnds
CHECK_DEADLOCK FALSE
