SPECIFICATION Spec
CONSTANTS
  general = general  spark = spark  shared = shared  local = local
  acct = acct  box = box
  generalScope = generalScope  sparkScope = sparkScope
  primary = primary  codexWin = codexWin  sparkWin = sparkWin  overflowWin = overflowWin
  NoScope = NoScope  NoEvidence = NoEvidence  NoRun = NoRun
  Workers = {general, shared, local}
  Accounts <- MCAccounts
  Account <- MCAccount
  LocalWorkers = {local}
  QuotaScope <- MCQuotaScope
  ScopeWindows <- MCScopeWindows
  Reserve <- MCReserve
  AllowUnknown = {general}
  Priority <- MCPriority
  Rank <- MCRank
  MaxConcurrent <- Two
  MaxTasks <- Two
  TaskWindow <- Two
  FailureCooldown = 1
  WindowRank <- MCWindowRank
  Overflow = overflowWin
  MaxWindows = 2
  MaxAge = 5
  Tasks = {t1}
  Contents = {c1}
  AllowedIn <- Anyone
  Runners = {r1}
  Operators = {o1, o2}
  Snapshots <- PolicySnapshots
  Reports <- None
  Gates <- OpenGates
  Evidence = {}
  Ceilings = {0, 50}
  Clock = {1, 2}
  MaxAttempts = 1
  MaxRevision <- PauseTwice
SYMMETRY ConsoleSymmetry
PROPERTIES CeilingNeedsProof PausesAreKept ReceiptLifecycle
