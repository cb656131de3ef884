SPECIFICATION FairSpec
CONSTANTS
  None = None
  Stale = Stale
  o1 = o1  o2 = o2  c1 = c1  c2 = c2
  Wants <- MCWants
  Operators = {o1, o2}
  First = c0
  Targets = {c1, c2}
  ConsoleTasks = {a}
  RunnerTasks = {a}
  MaxMishaps = 1
  MaxCollections = 1
CHECK_DEADLOCK FALSE
INVARIANTS StoresAgree
PROPERTIES HistoryKept BarrierLifted
