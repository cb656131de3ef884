----------------------------- MODULE PoolPolicy -----------------------------
(***************************************************************************)
(* Pure admission policy of a resource pool: how a quota observation is    *)
(* merged into the one already known, and which worker an admission may    *)
(* select.  pool-policy.ts, quota-scope.ts, quota-scope-access.ts and the  *)
(* pure half of pool-runtime.ts.                                           *)
(*                                                                         *)
(* Times and percentages are natural numbers; Null (-1) is the code's null *)
(* or an absent optional field.  It orders below every known value, which  *)
(* is what `usedPercent ?? -1` and `filter(not null).sort().at(-1)` rely   *)
(* on.                                                                     *)
(***************************************************************************)
EXTENDS Integers, FiniteSets, FiniteSetsExt

CONSTANTS
  Workers,        \* enrolled worker identities
  Accounts,       \* capacity keys
  Account,        \* Account[w]: the capacity key worker w is bound to
  LocalWorkers,   \* the workers whose provider is 'local'
  QuotaScope,     \* QuotaScope[w]: pinned scope, or NoScope
  NoScope,
  Reserve,        \* Reserve[w]: percentage of quota kept back
  AllowUnknown,   \* workers with allowUnknownQuota
  Priority,       \* Priority[w]
  Rank,           \* Rank[w]: order of the worker identifiers
  MaxConcurrent,  \* MaxConcurrent[a]: bindings of one account must agree on it
  MaxTasks,       \* MaxTasks[a]: tasks per rolling window
  TaskWindow,     \* TaskWindow[a]: length of the rolling window
  FailureCooldown,\* 60_000 ms in the code
  ScopeWindows,   \* ScopeWindows[x]: the window ids of the pinned scope x
  WindowRank,     \* order of the window identifiers; its domain is their set
  Overflow,       \* the window id RESOURCE_OBSERVATION_OVERFLOW
  MaxWindows,     \* MAX_RESOURCE_OBSERVATION_WINDOWS
  MaxAge          \* MAX_RESOURCE_OBSERVATION_AGE_MS

ASSUME AccountAssumption ==
  /\ IsFiniteSet(Workers)
  /\ Account \in [Workers -> Accounts]
  /\ LocalWorkers \subseteq Workers
  /\ AllowUnknown \subseteq Workers
  /\ Reserve \in [Workers -> 0 .. 99]

\* validateResourceBindings: the bindings of one account agree on the provider.
ASSUME ProviderAssumption ==
  \A v, w \in Workers : Account[v] = Account[w] => (v \in LocalWorkers <=> w \in LocalWorkers)

ASSUME LimitAssumption ==
  /\ MaxConcurrent \in [Accounts -> Nat \ {0}]
  /\ MaxTasks \in [Accounts -> Nat \ {0}]
  /\ TaskWindow \in [Accounts -> Nat \ {0}]
  /\ FailureCooldown \in Nat

\* Identifiers are bounded strings, so there are finitely many, totally ordered; here they are
\* abstract, and none is one of the tags the ledger's history uses.
ASSUME WindowAssumption ==
  /\ WindowRank \in [DOMAIN WindowRank -> Int]
  /\ IsFiniteSet(DOMAIN WindowRank)
  /\ \A i, j \in DOMAIN WindowRank : WindowRank[i] = WindowRank[j] => i = j
  /\ DOMAIN WindowRank \cap {"health", "retry", "quota"} = {}
  /\ Overflow \in DOMAIN WindowRank
  /\ MaxWindows \in Nat \ {0}
  /\ MaxAge \in Nat

\* A pinned scope names a few windows of the provider, never the hub's overflow marker.
ASSUME ScopeAssumption ==
  \A w \in Workers : QuotaScope[w] # NoScope =>
     LET windows == ScopeWindows[QuotaScope[w]]
     IN  /\ windows \subseteq DOMAIN WindowRank \ {Overflow}
         /\ Cardinality(windows) <= MaxWindows

Null == -1

(***************************************************************************)
(* Observations.                                                           *)
(***************************************************************************)
WindowIds == DOMAIN WindowRank

WindowReadings(windows) ==
  /\ DOMAIN windows \subseteq WindowIds
  /\ \A id \in DOMAIN windows : /\ windows[id].used \in Null .. 100
                                /\ windows[id].resets \in Nat \cup {Null}

Observation(o) ==
  /\ o.health \in {"ready", "unavailable"}
  /\ WindowReadings(o.windows)
  /\ o.observedAt \in Nat
  /\ o.expiresAt \in Nat
  /\ o.updatedAt \in Nat \cup {Null}
  /\ o.retryAfter \in Nat \cup {Null}

TypedObservations(observed) ==
  DOMAIN observed \subseteq Workers /\ \A w \in DOMAIN observed : Observation(observed[w])

CapturedAt(o) == IF o.updatedAt # Null THEN o.updatedAt ELSE o.observedAt

\* resourceQuotaBuckets: a pinned worker reports the windows of its scope only.
WorkerWindows(w) == IF QuotaScope[w] = NoScope THEN WindowIds ELSE ScopeWindows[QuotaScope[w]]

ValidObservation(w, o) ==
  /\ o.expiresAt > o.observedAt
  /\ o.expiresAt - o.observedAt <= MaxAge
  /\ o.updatedAt = Null \/ o.updatedAt >= o.observedAt
  /\ DOMAIN o.windows \subseteq WorkerWindows(w)
  /\ Cardinality(DOMAIN o.windows) <= MaxWindows

ValidateResourceObservations(observed) ==
  \A w \in DOMAIN observed : ValidObservation(w, observed[w])

KnownUse(o, id) == id \in DOMAIN o.windows /\ o.windows[id].used # Null

\* A refresh whose every part is newer than what is known and not yet expired.
FullyFresh(before, item, now) ==
  /\ CapturedAt(item) > CapturedAt(before)
  /\ item.observedAt = CapturedAt(item)
  /\ item.expiresAt > now

FreshRecovery(before, item, id, now) ==
  /\ FullyFresh(before, item, now)
  /\ KnownUse(item, id)
  /\ item.windows[id].resets # Null
  /\ item.windows[id].resets > now

\* Mutant: any reported window replaces the known one, a partial update included.
RetainedIfMissing(before, item, now) == DOMAIN before.windows \ DOMAIN item.windows

\* A known window survives unless its reading recovered or got worse.
Retained(before, item, now) ==
  {id \in DOMAIN before.windows :
     /\ ~ FreshRecovery(before, item, id, now)
     /\ ~ (KnownUse(item, id) /\ item.windows[id].used > before.windows[id].used)}

MergedWindows(before, item, now) ==
  [id \in DOMAIN before.windows \cup DOMAIN item.windows |->
     IF id \in Retained(before, item, now) THEN before.windows[id] ELSE item.windows[id]]

\* Mutant: one window too many is let through.
OverflowsLate(before, windows) ==
  Cardinality(DOMAIN windows) > MaxWindows + 1 \/ Overflow \in DOMAIN before.windows

Overflows(before, windows) ==
  Cardinality(DOMAIN windows) > MaxWindows \/ Overflow \in DOMAIN before.windows

\* The highest readings are kept, one slot is left for the overflow marker.
BoundedWindows(windows) ==
  LET ids    == DOMAIN windows \ {Overflow}
      Above(i, j) == \/ windows[i].used > windows[j].used
                     \/ windows[i].used = windows[j].used /\ WindowRank[i] < WindowRank[j]
      kept   == {i \in ids : Cardinality({j \in ids : Above(j, i)}) < MaxWindows - 1}
  IN  [id \in kept \cup {Overflow} |->
         IF id = Overflow THEN [used |-> 100, resets |-> Null] ELSE windows[id]]

IgnoredUpdate(before, item) ==
  \/ CapturedAt(item) < CapturedAt(before)
  \/ CapturedAt(item) = CapturedAt(before) /\ item = before

MergeKnown(before, item, now) ==
  LET windows  == MergedWindows(before, item, now)
      overflow == Overflows(before, windows)
      retained == overflow \/ Retained(before, item, now) # {}
  IN  [health     |-> IF overflow \/ (~ FullyFresh(before, item, now) /\ before.health = "unavailable")
                      THEN "unavailable" ELSE item.health,
       windows    |-> IF overflow THEN BoundedWindows(windows) ELSE windows,
       updatedAt  |-> CapturedAt(item),
       observedAt |-> IF retained THEN Min({before.observedAt, item.observedAt}) ELSE item.observedAt,
       expiresAt  |-> IF retained THEN Min({before.expiresAt, item.expiresAt}) ELSE item.expiresAt,
       retryAfter |-> Max({before.retryAfter, item.retryAfter})]

\* Observation lists hold at most one row per worker: functions on a subset of Workers.
MergeResourceObservations(known, incoming, now) ==
  [w \in DOMAIN known \cup DOMAIN incoming |->
     IF w \notin DOMAIN incoming THEN known[w]
     ELSE IF w \notin DOMAIN known THEN incoming[w]
     ELSE IF IgnoredUpdate(known[w], incoming[w]) THEN known[w]
     ELSE MergeKnown(known[w], incoming[w], now)]

(***************************************************************************)
(* Planning.  A snapshot s is what one admission sees: the observations,   *)
(* the receipts, the operator policies, the clock, and the vetoes of this  *)
(* invocation (s.unavailable, s.quotaUnavailable).  The receipts s.attempts*)
(* form a function from task ids to records with worker, status, startedAt,*)
(* finishedAt and vetoed (the host refused the dispatch).                  *)
(***************************************************************************)
Terminal == {"completed", "failed", "timed-out", "cancelled"}

Remote(w) == w \notin LocalWorkers
Aliases(w) == {v \in Workers : Account[v] = Account[w]}

SharesResourceQuota(v, w) ==
  QuotaScope[v] = NoScope \/ QuotaScope[w] = NoScope \/ QuotaScope[v] = QuotaScope[w]

\* The allocation ceiling replaces the enrolled reserve of every remote worker.
ReserveOf(w, s) ==
  IF s.ceiling = Null \/ ~ Remote(w) THEN Reserve[w]
  ELSE IF s.ceiling = 0 THEN 0 ELSE 100 - s.ceiling

UnknownAllowed(w, s) ==
  w \in AllowUnknown /\ ~ (Remote(w) /\ s.ceiling # Null /\ s.ceiling < 100)

AccountAttempts(attempts, a) == {t \in DOMAIN attempts : Account[attempts[t].worker] = a}

\* Mutant: an uncertain outcome gives its slot back.
ActiveUnlessUncertain(attempts, a) ==
  {t \in AccountAttempts(attempts, a) : attempts[t].status = "reserved"}

ActiveAttempts(attempts, a) ==
  {t \in AccountAttempts(attempts, a) : attempts[t].status \notin Terminal}

\* Mutant: starts that the clock has not reached again are not counted.
RecentPastAttempts(attempts, a, now) ==
  {t \in AccountAttempts(attempts, a) :
     attempts[t].startedAt > now - TaskWindow[a] /\ attempts[t].startedAt <= now}

RecentAttempts(attempts, a, now) ==
  {t \in AccountAttempts(attempts, a) : attempts[t].startedAt > now - TaskWindow[a]}

ReserveReached(o, w, s) ==
  \E id \in DOMAIN o.windows : o.windows[id].used # Null /\ o.windows[id].used >= 100 - ReserveOf(w, s)

\* A refusal by any alias of the account blocks; an exhausted window blocks the
\* aliases that share its quota.  Neither expires with the observation.
HardDenial(w, s) ==
  \E v \in Aliases(w) \cap DOMAIN s.obs :
     \/ s.obs[v].health = "unavailable"
     \/ SharesResourceQuota(w, v) /\ ReserveReached(s.obs[v], w, s)

\* Mutant: a timeout does not cool the account down.
FailedOutright(attempts, a) ==
  {t \in AccountAttempts(attempts, a) : attempts[t].status = "failed" /\ ~ attempts[t].vetoed}

\* A host veto consumed a reservation but contacted no provider: no cooldown.
FailedAttempts(attempts, a) ==
  {t \in AccountAttempts(attempts, a) :
     attempts[t].status \in {"failed", "timed-out"} /\ ~ attempts[t].vetoed}

RetryTime(w, s) ==
  Max({Null} \cup {s.obs[v].retryAfter : v \in Aliases(w) \cap DOMAIN s.obs}
             \cup {s.attempts[t].finishedAt + FailureCooldown :
                     t \in FailedAttempts(s.attempts, Account[w])})

FutureObservation(o, now) == o.observedAt > now \/ o.updatedAt > now

UnknownWindow(o, now) ==
  \E id \in DOMAIN o.windows :
     o.windows[id].used = Null \/ o.windows[id].resets = Null \/ o.windows[id].resets <= now

\* Below a full ceiling every remote worker needs current, complete evidence.
UnprovenWorkers(s) ==
  {w \in Workers :
     /\ Remote(w) /\ s.ceiling # Null /\ s.ceiling < 100
     /\ \/ w \notin DOMAIN s.obs
        \/ FutureObservation(s.obs[w], s.now)
        \/ s.obs[w].expiresAt <= s.now
        \/ DOMAIN s.obs[w].windows = {}
        \/ UnknownWindow(s.obs[w], s.now)}

\* Mutant: a quota denial stays with the worker that reported it.
UnexpandedDenials(denied) == denied

ExpandResourceQuotaDenials(denied) ==
  denied \cup {w \in Workers : \E v \in denied : Account[v] = Account[w] /\ SharesResourceQuota(v, w)}

DeniedAccounts(s) ==
  {Account[w] : w \in s.unavailable \cup s.paused
                      \cup (IF s.ceiling = 0 THEN Workers \ LocalWorkers ELSE {})}

Vetoed(w, s) ==
  \/ Account[w] \in DeniedAccounts(s)
  \/ w \in ExpandResourceQuotaDenials(s.quotaUnavailable \cup UnprovenWorkers(s))

ScopeExcluded(w, s) ==
  \E x \in s.exclusions :
     x.account = Account[w] /\ (QuotaScope[w] = NoScope \/ QuotaScope[w] = x.scope)

QuotaUnknown(w, s) ==
  \/ w \notin DOMAIN s.obs
  \/ s.obs[w].expiresAt <= s.now
  \/ Remote(w) /\ (DOMAIN s.obs[w].windows = {} \/ UnknownWindow(s.obs[w], s.now))

\* Reasons a fresh reading can turn into an invocation veto ...
EvidenceExcluded(w, s) ==
  \/ HardDenial(w, s)
  \/ Vetoed(w, s)
  \/ RetryTime(w, s) > s.now
  \/ w \in DOMAIN s.obs /\ FutureObservation(s.obs[w], s.now)
  \/ Remote(w) /\ w \in DOMAIN s.obs /\ ReserveReached(s.obs[w], w, s)
  \/ QuotaUnknown(w, s) /\ ~ (Remote(w) /\ UnknownAllowed(w, s))

\* ... and the ones that only make the task wait.
CapacityExcluded(w, s) ==
  \/ ScopeExcluded(w, s)
  \/ Cardinality(ActiveAttempts(s.attempts, Account[w])) >= MaxConcurrent[Account[w]]
  \/ Cardinality(RecentAttempts(s.attempts, Account[w], s.now)) >= MaxTasks[Account[w]]

Candidates(allowed, s) == {w \in allowed : ~ EvidenceExcluded(w, s) /\ ~ CapacityExcluded(w, s)}

\* Largest of known quota over usable percent, active over concurrent, tasks over cap,
\* as fractions <<numerator, denominator>>.
Pressures(w, s) ==
  LET a == Account[w]
  IN  {<<Cardinality(ActiveAttempts(s.attempts, a)), MaxConcurrent[a]>>,
       <<Cardinality(RecentAttempts(s.attempts, a, s.now)), MaxTasks[a]>>}
      \cup (IF Remote(w) /\ ~ QuotaUnknown(w, s)
            THEN {<<s.obs[w].windows[id].used, 100 - ReserveOf(w, s)>> : id \in DOMAIN s.obs[w].windows}
            ELSE {})

Lighter(p, q) == p[1] * q[2] < q[1] * p[2]
Pressure(w, s) == CHOOSE p \in Pressures(w, s) : \A q \in Pressures(w, s) : ~ Lighter(p, q)

Preferred(v, w, s) ==
  \/ Priority[v] > Priority[w]
  \/ /\ Priority[v] = Priority[w]
     /\ \/ Lighter(Pressure(v, s), Pressure(w, s))
        \/ ~ Lighter(Pressure(w, s), Pressure(v, s)) /\ Rank[v] < Rank[w]

\* candidates[0] after the sort.
Selects(w, allowed, s) ==
  /\ w \in Candidates(allowed, s)
  /\ \A v \in Candidates(allowed, s) \ {w} : Preferred(w, v, s)

\* freshAdmission: a worker the fresh evidence alone refuses is vetoed for this invocation.
FreshDenials(allowed, s, fresh) ==
  {w \in allowed : EvidenceExcluded(w, [s EXCEPT !.obs = fresh.obs,
                                                 !.unavailable = fresh.unavailable,
                                                 !.quotaUnavailable = fresh.quotaUnavailable])}
=============================================================================
