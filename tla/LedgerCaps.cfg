SPECIFICATION Spec
CONSTANTS
  general = general  spark = spark  shared = shared  local = local
  acct = acct  box = box
  generalScope = generalScope  sparkScope = sparkScope
  primary = primary  codexWin = codexWin  sparkWin = sparkWin  overflowWin = overflowWin
  NoScope = NoScope  NoEvidence = NoEvidence  NoRun = NoRun
  Workers = {general, shared}
  Accounts <- MCAccounts
  Account <- MCAccount
  LocalWorkers = {}
  QuotaScope <- MCQuotaScope
  ScopeWindows <- MCScopeWindows
  Reserve <- MCReserve
  AllowUnknown = {general, shared}
  Priority <- MCPriority
  Rank <- MCRank
  MaxConcurrent <- Two
  MaxTasks <- Two
  TaskWindow <- Two
  FailureCooldown = 1
  WindowRank <- MCWindowRank
  Overflow = overflowWin
  MaxWindows = 2
  MaxAge = 5
  Tasks = {t1, t2, t3}
  Contents = {c1}
  AllowedIn <- Anyone
  Runners = {r1, r2}
  Operators = {}
  Snapshots <- None
  Reports <- None
  Gates <- OpenGates
  Evidence = {}
  Ceilings = {}
  Clock = {0, 1, 2}
  MaxAttempts = 3
  MaxRevision <- NoRevisions
SYMMETRY Symmetry
INVARIANTS AccountConcurrency RollingTaskCap ExecutedAtMostOnce
PROPERTIES ReceiptsAreFinal FailureCoolsDown
