SPECIFICATION FairSpec
CONSTANTS
  general = general  spark = spark  shared = shared  local = local
  acct = acct  box = box
  generalScope = generalScope  sparkScope = sparkScope
  primary = primary  codexWin = codexWin  sparkWin = sparkWin  overflowWin = overflowWin
  NoScope = NoScope  NoEvidence = NoEvidence  NoRun = NoRun
  Workers = {general, shared}
  Accounts <- MCAccounts
  Account <- MCAccount
  LocalWorkers = {}
  QuotaScope <- MCQuotaScope
  ScopeWindows <- MCScopeWindows
  Reserve <- MCReserve
  AllowUnknown = {general, shared}
  Priority <- MCPriority
  Rank <- MCRank
  MaxConcurrent <- One
  MaxTasks <- One
  TaskWindow <- Two
  FailureCooldown = 1
  WindowRank <- MCWindowRank
  Overflow = overflowWin
  MaxWindows = 2
  MaxAge = 5
  Tasks = {t1}
  Contents = {c1}
  AllowedIn <- Anyone
  Runners = {r1}
  Operators = {}
  Snapshots <- EvidenceSnapshots
  Reports <- EvidenceReports
  Gates <- VetoGates
  Evidence <- FreshEvidence
  Ceilings = {}
  Clock = {1, 2, 3}
  MaxAttempts = 1
  MaxRevision <- NoRevisions
INVARIANTS TypeOK LedgerStaysReadable
PROPERTIES NoWorkBehindDenial ReservationsSettle
