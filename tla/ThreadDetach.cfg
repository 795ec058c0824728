CONSTANTS
  Threads = {m1, m2, c1, c2}
  Clients = {m1, m2}
  Children = {c1, c2}
  Evts = {gate, c1, c2}
  Gate = gate
  Ids = {i1, i2}
  Budgets <- Lifecycles
  FuncCalls = {"wait"}
  MayFail = {}
  NULL = NULL
SPECIFICATION Spec
INVARIANT DetachIsRedundant
CHECK_DEADLOCK FALSE
