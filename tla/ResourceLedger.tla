--------------------------- MODULE ResourceLedger ---------------------------
(***************************************************************************)
(* The durable ledger of a resource pool (pool-runtime.ts) and the task    *)
(* runs and operator consoles that share it.  Every change is one          *)
(* transaction under .pool.lock that replaces pool-state.json by rename,   *)
(* so a transaction is one step; everything between two transactions of a  *)
(* run (host precondition, provider contact, computing the receipt) is a   *)
(* step of its own, and the process may die before any of them.            *)
(***************************************************************************)
EXTENDS PoolPolicy

CONSTANTS
  Tasks,        \* task identities
  Contents,     \* what a task asks for: its canonical digest
  AllowedIn,    \* AllowedIn[c]: allowedWorkerIds of content c
  Runners,      \* concurrent callers of runResourceTask
  Operators,    \* concurrent operator consoles
  Snapshots,    \* observation lists a caller may pass in
  Reports,      \* observation lists a finished worker may report: at most its own row
  Gates,        \* invocation vetoes a caller may pass in
  Evidence,     \* what readAdmissionEvidence may return
  NoEvidence,   \* the caller supplied no readAdmissionEvidence
  Ceilings,     \* allocation ceilings an operator may set, within 0..100
  Clock,        \* the readings of the wall clock
  MaxAttempts,  \* MAX_ATTEMPTS
  MaxRevision,  \* bound on the revisions of each policy (Number.MAX_SAFE_INTEGER)
  NoRun         \* a runner that holds no reservation

PolicyKinds == {"allocation", "workers", "scopes"}

ASSUME LedgerAssumption ==
  /\ AllowedIn \in [Contents -> SUBSET Workers]
  /\ Clock \subseteq Nat
  /\ MaxAttempts \in Nat
  /\ MaxRevision \in [PolicyKinds -> Nat]
  /\ NoEvidence \notin Evidence
  /\ \A observed \in Snapshots \cup Reports : TypedObservations(observed)
  /\ \A fresh \in Evidence : TypedObservations(fresh.obs)
  /\ Ceilings \subseteq 0..100

\* Evidence that validateResourceObservations rejects never reaches the ledger: the call
\* throws before its transaction, or the settlement is abandoned.
ASSUME EvidenceAssumption ==
  /\ \A observed \in Snapshots \cup Reports : ValidateResourceObservations(observed)
  /\ \A fresh \in Evidence : ValidateResourceObservations(fresh.obs)

VARIABLES
  now,        \* the wall clock: it may step back
  obs,        \* state.observations
  attempts,   \* state.attempts: a function from the task ids recorded so far
  policy,     \* state.allocation, state.workerAccess, state.quotaScopeAccess
  run,        \* run[r]: the reservation runner r holds, or NoRun
  seen,       \* seen[o]: the policy operator o last read
  executions, \* history: times a worker was invoked for a task
  standing,   \* history: refusals and readings delivered and not yet superseded
  pauses,     \* history: workers whose pause was acknowledged, and no resume since
  backdated   \* history: tasks whose startedAt is before the time they were planned at

vars == <<now, obs, attempts, policy, run, seen, executions, standing, pauses, backdated>>

Statuses == Terminal \cup {"uncertain"}
Receipts == [content : Contents, worker : Workers, status : Statuses \cup {"reserved"},
             startedAt : Nat, finishedAt : Nat \cup {Null}, vetoed : BOOLEAN]
NoReport == [w \in {} |-> NoEvidence]

\* What a runner knows of its reservation: the receipt as reserved and as it will settle.
Runs == [task : Tasks, pc : {"reserved", "executing", "ran"}, reserved : Receipts, receipt : Receipts,
         report : Reports \cup {NoReport}]

ASSUME RunAssumption == NoRun \notin Runs

(***************************************************************************)
(* History: what the provider said last about each worker, independently   *)
(* of how the ledger represents it.  <<w, "health", 100>> is a refusal and *)
(* <<w, id, used>> a known reading of a window.  Only a complete, unexpired*)
(* and strictly newer row takes something back, and only what it reports; a*)
(* retry-after time <<w, "retry", time>> only ends with the clock.         *)
(***************************************************************************)
Says(w, item) ==
  {<<w, id, item.windows[id].used>> : id \in {i \in DOMAIN item.windows : KnownUse(item, i)}}
    \cup (IF item.health = "unavailable" THEN {<<w, "health", 100>>} ELSE {})
    \cup (IF item.retryAfter # Null THEN {<<w, "retry", item.retryAfter>>} ELSE {})

TakenBack(w, item, known, before) ==
  {x \in before :
     /\ w \in DOMAIN known
     /\ item.observedAt > CapturedAt(known[w])
     /\ item.observedAt = CapturedAt(item)
     /\ item.expiresAt > now
     /\ x[1] = w
     /\ \/ x[2] = "health"
        \/ KnownUse(item, x[2]) /\ item.windows[x[2]].resets > now}

Stand(before, known, incoming) ==
  LET heard == {w \in DOMAIN incoming :
                  w \notin DOMAIN known \/ CapturedAt(incoming[w]) >= CapturedAt(known[w])}
  IN  (before \ UNION {TakenBack(w, incoming[w], known, before) : w \in heard})
        \cup UNION {Says(w, incoming[w]) : w \in heard}

(***************************************************************************)
(* Admission.                                                              *)
(***************************************************************************)
Init ==
  /\ now \in Clock
  /\ obs = NoReport
  /\ attempts = NoReport
  /\ policy = [ceiling |-> Null, paused |-> {}, exclusions |-> {},
               revision |-> [k \in PolicyKinds |-> 0]]
  /\ run = [r \in Runners |-> NoRun]
  /\ seen = [o \in Operators |-> policy]
  /\ executions = [t \in Tasks |-> 0]
  /\ standing = {}
  /\ pauses = {}
  /\ backdated = {}

Snapshot(known, gate) ==
  [obs |-> known, attempts |-> attempts, ceiling |-> policy.ceiling, paused |-> policy.paused,
   exclusions |-> policy.exclusions, now |-> now,
   unavailable |-> gate.unavailable, quotaUnavailable |-> gate.quotaUnavailable]

Gated(c, known, gate, fresh) ==
  IF fresh = NoEvidence THEN gate
  ELSE [unavailable |-> gate.unavailable \cup fresh.unavailable,
        quotaUnavailable |-> gate.quotaUnavailable \cup fresh.quotaUnavailable
                               \cup FreshDenials(AllowedIn[c], Snapshot(known, gate), fresh)]

Refreshed(known, fresh) ==
  IF fresh = NoEvidence THEN known ELSE MergeResourceObservations(known, fresh.obs, now)

\* The tail of transaction(): a ledger that does not validate is never written.
Commit(observed, history) ==
  /\ ValidateResourceObservations(observed)
  /\ obs' = observed
  /\ standing' = history

\* Mutant: asking again for a failed task opens its receipt again.
ReplayReopens(t, c, incoming) ==
  /\ t \in DOMAIN attempts
  /\ attempts[t].content = c
  /\ Commit(MergeResourceObservations(obs, incoming, now), Stand(standing, obs, incoming))
  /\ attempts' = [attempts EXCEPT ![t].status = IF @ = "failed" THEN "reserved" ELSE @]
  /\ UNCHANGED <<now, policy, run, seen, executions, pauses, backdated>>

\* The same id and digest: the recorded receipt is returned and nothing runs.  (The same
\* id with another digest throws and leaves the ledger as it is.)
Replay(t, c, incoming) ==
  /\ t \in DOMAIN attempts
  /\ attempts[t].content = c
  /\ Commit(MergeResourceObservations(obs, incoming, now), Stand(standing, obs, incoming))
  /\ UNCHANGED <<now, attempts, policy, run, seen, executions, pauses, backdated>>

History(incoming, known, fresh) ==
  LET heard == Stand(standing, obs, incoming)
  IN  IF fresh = NoEvidence THEN heard ELSE Stand(heard, known, fresh.obs)

\* No candidate: the evidence is kept, the caller gets a plan without a receipt.
Wait(t, c, incoming, gate, fresh) ==
  LET known == MergeResourceObservations(obs, incoming, now)
  IN  /\ t \notin DOMAIN attempts
      /\ Candidates(AllowedIn[c], Snapshot(Refreshed(known, fresh), Gated(c, known, gate, fresh))) = {}
      /\ Commit(Refreshed(known, fresh), History(incoming, known, fresh))
      /\ UNCHANGED <<now, attempts, policy, run, seen, executions, pauses, backdated>>

Reserved(c, w, started) ==
  [content |-> c, worker |-> w, status |-> "reserved", startedAt |-> started,
   finishedAt |-> Null, vetoed |-> FALSE]

Record(t, receipt) ==
  [x \in DOMAIN attempts \cup {t} |-> IF x = t THEN receipt ELSE attempts[x]]

\* One worker is selected and its reservation written before anything is invoked.  The
\* plan and startedAt read the clock one after the other: it may step back in between,
\* and the start is then backdated.
Admit(r, t, c, incoming, gate, fresh, started) ==
  LET known == MergeResourceObservations(obs, incoming, now)
      plan  == Snapshot(Refreshed(known, fresh), Gated(c, known, gate, fresh))
  IN  /\ run[r] = NoRun
      /\ t \notin DOMAIN attempts
      /\ Cardinality(DOMAIN attempts) < MaxAttempts
      /\ \E w \in AllowedIn[c] :
           /\ Selects(w, AllowedIn[c], plan)
           /\ attempts' = Record(t, Reserved(c, w, started))
           /\ run' = [run EXCEPT ![r] = [task |-> t, pc |-> "reserved", reserved |-> Reserved(c, w, started),
                                         receipt |-> Reserved(c, w, started), report |-> NoReport]]
      /\ Commit(Refreshed(known, fresh), History(incoming, known, fresh))
      /\ backdated' = IF started < now THEN backdated \cup {t} ELSE backdated
      /\ now' = started
      /\ UNCHANGED <<policy, seen, executions, pauses>>

(***************************************************************************)
(* The rest of runResourceTask.                                            *)
(***************************************************************************)
\* Mutant: the wall clock is taken as it is.
SettledNow(reserved, status, vetoed) ==
  [reserved EXCEPT !.status = status, !.vetoed = vetoed, !.finishedAt = now]

\* The receipt a finished run will settle: it never ends before it starts.
Settled(reserved, status, vetoed) ==
  [reserved EXCEPT !.status = status, !.vetoed = vetoed,
                   !.finishedAt = IF now > reserved.startedAt THEN now ELSE reserved.startedAt]

\* Mutant: a refused dispatch is recorded as cancelled.
VetoCancels(r) ==
  /\ run[r] # NoRun
  /\ run[r].pc = "reserved"
  /\ run' = [run EXCEPT ![r].pc = "ran", ![r].receipt = Settled(run[r].reserved, "cancelled", TRUE)]
  /\ UNCHANGED <<now, obs, attempts, policy, seen, executions, standing, pauses, backdated>>

\* The host precondition refused (or threw): the reservation settles as failed, no worker runs.
Veto(r) ==
  /\ run[r] # NoRun
  /\ run[r].pc = "reserved"
  /\ run' = [run EXCEPT ![r].pc = "ran", ![r].receipt = Settled(run[r].reserved, "failed", TRUE)]
  /\ UNCHANGED <<now, obs, attempts, policy, seen, executions, standing, pauses, backdated>>

Dispatch(r) ==
  /\ run[r] # NoRun
  /\ run[r].pc = "reserved"
  /\ run' = [run EXCEPT ![r].pc = "executing"]
  /\ executions' = [executions EXCEPT ![run[r].task] = @ + 1]
  /\ UNCHANGED <<now, obs, attempts, policy, seen, standing, pauses, backdated>>

\* executeResourceWorker is external: it ends with any status and may report quota.
Finish(r, status, report) ==
  /\ run[r] # NoRun
  /\ run[r].pc = "executing"
  /\ DOMAIN report \subseteq {run[r].reserved.worker}
  /\ run' = [run EXCEPT ![r].pc = "ran", ![r].report = report,
                        ![r].receipt = Settled(run[r].reserved, status, FALSE)]
  /\ UNCHANGED <<now, obs, attempts, policy, seen, executions, standing, pauses, backdated>>

\* Mutant: a settlement must pass the task cap like an admission.
SettleGated(r) ==
  /\ run[r] # NoRun
  /\ run[r].pc = "ran"
  /\ Cardinality(RecentAttempts(attempts, Account[run[r].reserved.worker], now))
       < MaxTasks[Account[run[r].reserved.worker]]
  /\ attempts' = Record(run[r].task, run[r].receipt)
  /\ Commit(MergeResourceObservations(obs, run[r].report, now), Stand(standing, obs, run[r].report))
  /\ run' = [run EXCEPT ![r] = NoRun]
  /\ UNCHANGED <<now, policy, seen, executions, pauses, backdated>>

Settle(r) ==
  /\ run[r] # NoRun
  /\ run[r].pc = "ran"
  /\ run[r].task \in DOMAIN attempts
  /\ attempts[run[r].task] = run[r].reserved
  /\ attempts' = Record(run[r].task, run[r].receipt)
  /\ Commit(MergeResourceObservations(obs, run[r].report, now), Stand(standing, obs, run[r].report))
  /\ run' = [run EXCEPT ![r] = NoRun]
  /\ UNCHANGED <<now, policy, seen, executions, pauses, backdated>>

\* Mutant: a run that throws cleans its reservation up.
AbandonCleansUp(r) ==
  /\ run[r] # NoRun
  /\ run' = [run EXCEPT ![r] = NoRun]
  /\ attempts' = [t \in DOMAIN attempts \ {run[r].task} |-> attempts[t]]
  /\ UNCHANGED <<now, obs, policy, seen, executions, standing, pauses, backdated>>

\* The process dies, or a transaction throws (lock busy or lost, unreadable settlement
\* evidence): the receipt stays as the ledger has it and nobody will settle it.
Abandon(r) ==
  /\ run[r] # NoRun
  /\ run' = [run EXCEPT ![r] = NoRun]
  /\ UNCHANGED <<now, obs, attempts, policy, seen, executions, standing, pauses, backdated>>

(***************************************************************************)
(* Operator policies: read, edit, compare-and-save.                        *)
(***************************************************************************)
ReadPolicy(o) ==
  /\ seen' = [seen EXCEPT ![o] = policy]
  /\ UNCHANGED <<now, obs, attempts, policy, run, executions, standing, pauses, backdated>>

\* Mutant: the expected revision is not compared.
FreshAlways(o, kind) == policy.revision[kind] < MaxRevision[kind]

\* A conflicting revision throws; a full ledger would too.
Fresh(o, kind) ==
  /\ seen[o].revision[kind] = policy.revision[kind]
  /\ policy.revision[kind] < MaxRevision[kind]

Revise(kind) == [policy.revision EXCEPT ![kind] = @ + 1]

SetResourcePoolAllocation(o, ceiling) ==
  /\ Fresh(o, "allocation")
  /\ policy' = [policy EXCEPT !.ceiling = ceiling, !.revision = Revise("allocation")]
  /\ UNCHANGED <<now, obs, attempts, run, seen, executions, standing, pauses, backdated>>

\* The console sends back the whole list it read, with one worker added or removed.
SetResourceWorkerAccess(o, w, pause) ==
  /\ Fresh(o, "workers")
  /\ policy' = [policy EXCEPT !.paused = IF pause THEN seen[o].paused \cup {w} ELSE seen[o].paused \ {w},
                              !.revision = Revise("workers")]
  /\ pauses' = IF pause THEN pauses \cup {w} ELSE pauses \ {w}
  /\ UNCHANGED <<now, obs, attempts, run, seen, executions, standing, backdated>>

\* Only an account scope that some worker is pinned to can be excluded.
Exclusions == {[account |-> Account[w], scope |-> QuotaScope[w]] : w \in {v \in Workers : QuotaScope[v] # NoScope}}

SetResourceQuotaScopeAccess(o, x, exclude) ==
  /\ Fresh(o, "scopes")
  /\ policy' = [policy EXCEPT !.exclusions = IF exclude THEN seen[o].exclusions \cup {x}
                                             ELSE seen[o].exclusions \ {x},
                              !.revision = Revise("scopes")]
  /\ UNCHANGED <<now, obs, attempts, run, seen, executions, standing, pauses, backdated>>

\* The wall clock is not monotonic.
SetClock ==
  /\ now' \in Clock
  /\ UNCHANGED <<obs, attempts, policy, run, seen, executions, standing, pauses, backdated>>

RunTask(r) ==
  \/ \E t \in Tasks, c \in Contents, incoming \in Snapshots :
       \/ Replay(t, c, incoming)
       \/ \E gate \in Gates, fresh \in Evidence \cup {NoEvidence} :
            \/ Wait(t, c, incoming, gate, fresh)
            \/ \E started \in Clock : Admit(r, t, c, incoming, gate, fresh, started)
  \/ Veto(r)
  \/ Dispatch(r)
  \/ \E status \in Statuses, report \in Reports : Finish(r, status, report)
  \/ Settle(r)
  \/ Abandon(r)

EditPolicy(o) ==
  \/ ReadPolicy(o)
  \/ \E ceiling \in Ceilings : SetResourcePoolAllocation(o, ceiling)
  \/ \E w \in Workers, pause \in BOOLEAN : SetResourceWorkerAccess(o, w, pause)
  \/ \E x \in Exclusions, exclude \in BOOLEAN : SetResourceQuotaScopeAccess(o, x, exclude)

Next == \/ \E r \in Runners : RunTask(r)
        \/ \E o \in Operators : EditPolicy(o)
        \/ SetClock

Spec == Init /\ [][Next]_vars

\* A runner that stays alive goes on: the host callback returns, executeResourceWorker
\* ends (it enforces task.timeoutMs), and the settlement transaction is attempted.  Dying
\* is possible at every step and never assumed.
RunnerFairness(r) ==
  WF_vars(\/ Veto(r) \/ Dispatch(r) \/ Settle(r)
          \/ \E status \in Statuses, report \in Reports : Finish(r, status, report))

FairSpec == Spec /\ \A r \in Runners : RunnerFairness(r)

(***************************************************************************)
(* Properties.                                                             *)
(***************************************************************************)
Policies == [ceiling : 0..100 \cup {Null}, paused : SUBSET Workers, exclusions : SUBSET Exclusions,
             revision : [PolicyKinds -> Nat]]

\* What checkedReceipt demands of a stored receipt.
CheckedReceipt(receipt) ==
  IF receipt.status = "reserved" THEN receipt.finishedAt = Null
  ELSE receipt.finishedAt >= receipt.startedAt

\* The ledger, the runners' reservations and the operators' views are well formed, and the
\* receipts pass checkedReceipt, so that the next process can read them.
TypeOK ==
  /\ now \in Nat
  /\ TypedObservations(obs)
  /\ DOMAIN attempts \subseteq Tasks
  /\ \A t \in DOMAIN attempts : attempts[t] \in Receipts /\ CheckedReceipt(attempts[t])
  /\ policy \in Policies
  /\ run \in [Runners -> Runs \cup {NoRun}]
  /\ seen \in [Operators -> Policies]
  /\ executions \in [Tasks -> Nat]
  /\ pauses \subseteq Workers

OnAccount(a) == {t \in DOMAIN attempts : Account[attempts[t].worker] = a}

\* maxConcurrent is a limit of the account, not of the worker, the process or the
\* session: reservations of live runs, of runs that died and uncertain outcomes all
\* occupy it, however runs, crashes and restarts interleave.
AccountConcurrency ==
  \A a \in Accounts :
     Cardinality({t \in OnAccount(a) : attempts[t].status \in {"reserved", "uncertain"}}) <= MaxConcurrent[a]

\* No interval of length taskWindowMs ever holds more than maxTasksPerWindow task starts
\* of an account, failed and vetoed ones included, wherever the wall clock steps back
\* between two admissions.  A step back inside one, between the two readings
\* (pool-runtime.ts:659 and 664), gets its start past the cap: such a start is not counted.
RollingTaskCap ==
  \A u \in DOMAIN attempts \ backdated :
     LET a == Account[attempts[u].worker]
     IN  Cardinality({t \in OnAccount(a) \ backdated :
                        /\ attempts[t].startedAt >= attempts[u].startedAt
                        /\ attempts[t].startedAt < attempts[u].startedAt + TaskWindow[a]})
           <= MaxTasks[a]

\* A worker is invoked at most once for a task id, only behind a durable receipt, and the
\* settled receipt tells whether it was: retries, replays and crashes never run it again.
ExecutedAtMostOnce ==
  /\ \A t \in Tasks : executions[t] <= 1 /\ (executions[t] = 1 => t \in DOMAIN attempts)
  /\ \A t \in DOMAIN attempts :
       attempts[t].status # "reserved" => (attempts[t].vetoed <=> executions[t] = 0)

\* A receipt never disappears, never changes its task, worker or start, and changes its
\* status once: from reserved.  A late settlement never overwrites a settled receipt.
ReceiptsAreFinal ==
  [][\A t \in DOMAIN attempts :
       /\ t \in DOMAIN attempts'
       /\ attempts'[t].content = attempts[t].content
       /\ attempts'[t].worker = attempts[t].worker
       /\ attempts'[t].startedAt = attempts[t].startedAt
       /\ attempts[t].status # "reserved" => attempts'[t] = attempts[t]]_vars

NewReservations == {t \in DOMAIN attempts' : t \notin DOMAIN attempts}

Refuses(x, w) ==
  /\ Account[x[1]] = Account[w]
  /\ \/ x[2] = "health"
     \/ x[2] = "retry" /\ x[3] > now
     \/ x[2] = "quota" /\ SharesResourceQuota(x[1], w)
     \/ x[2] \in WindowIds /\ SharesResourceQuota(x[1], w) /\ x[3] >= 100 - ReserveOf(w, policy)

\* What one invocation is told: its vetoes, as refusals of the account and of the quota, and
\* what the fresh evidence says.
Vetoes(gate) ==
  {<<w, "health", 100>> : w \in gate.unavailable} \cup {<<w, "quota", 100>> : w \in gate.quotaUnavailable}

Told(gate, fresh) ==
  Vetoes(gate) \cup (IF fresh = NoEvidence THEN {}
                    ELSE Vetoes(fresh) \cup UNION {Says(w, fresh.obs[w]) : w \in DOMAIN fresh.obs})

\* No task is reserved behind what a provider said and has not taken back, on any alias of
\* the account: a refusal, an exhausted window, a retry-after time.  Partial, expired,
\* repeated or overflowing refreshes never clear it (mergeResourceObservations), and what
\* the ledger knows never outweighs what this invocation is told.
NoWorkBehindDenial ==
  [][/\ \A t \in NewReservations : \A x \in standing' : ~ Refuses(x, attempts'[t].worker)
     /\ \A t \in NewReservations, gate \in Gates, fresh \in Evidence \cup {NoEvidence} :
          (\E x \in Told(gate, fresh) : Refuses(x, attempts'[t].worker)) =>
            \A r \in Runners, c \in Contents, incoming \in Snapshots :
               ~ Admit(r, t, c, incoming, gate, fresh, now')]_vars

ProviderFailures(a) == {u \in OnAccount(a) : attempts[u].status \in {"failed", "timed-out"} /\ executions[u] > 0}

\* A provider failure keeps the whole account out for FailureCooldown, and nothing else
\* keeps it waiting: a run that the host vetoed before dispatch failed too, but a worker
\* waits only for a failure of a worker that was invoked, or for a provider's retry-after.
FailureCoolsDown ==
  /\ [][\A t \in NewReservations : \A u \in ProviderFailures(Account[attempts'[t].worker]) :
           attempts[u].finishedAt + FailureCooldown <= now]_vars
  /\ [](\A w \in Workers : RetryTime(w, [obs |-> obs, attempts |-> attempts]) > now =>
           \/ \E v \in Aliases(w) \cap DOMAIN obs : obs[v].retryAfter > now
           \/ \E u \in ProviderFailures(Account[w]) : attempts[u].finishedAt + FailureCooldown > now)

\* Below a full allocation ceiling, capacity must be proven: every remote alias that shares
\* the quota has a complete, unexpired observation with each reading below the ceiling.
CeilingNeedsProof ==
  [][\A t \in NewReservations :
       LET w == attempts'[t].worker
       IN  Remote(w) /\ policy.ceiling # Null /\ policy.ceiling < 100 =>
             \A v \in {u \in Workers : Account[u] = Account[w] /\ SharesResourceQuota(u, w)} :
               /\ v \in DOMAIN obs'
               /\ obs'[v].expiresAt > now
               /\ DOMAIN obs'[v].windows # {}
               /\ \A id \in DOMAIN obs'[v].windows :
                    /\ obs'[v].windows[id].resets > now
                    /\ obs'[v].windows[id].used \in 0 .. policy.ceiling - 1]_vars

\* An acknowledged pause of any alias keeps the account out of admission until a resume
\* is acknowledged: no console's save silently undoes another one's.
PausesAreKept ==
  [][\A t \in NewReservations : \A w \in pauses : Account[w] # Account[attempts'[t].worker]]_vars

\* Whatever valid evidence arrives next, in whatever order, the merged ledger validates:
\* no sequence of refreshes makes the pool refuse its own state.
LedgerStaysReadable ==
  \A incoming \in Snapshots \cup Reports :
     ValidateResourceObservations(MergeResourceObservations(obs, incoming, now))

\* The abstract ledger sees the task, its content and status, and whether it ran.
AbstractReceipts == [t \in DOMAIN attempts |-> [content |-> attempts[t].content, status |-> attempts[t].status]]
AbstractInvoked == {t \in Tasks : executions[t] > 0}

Ledger == INSTANCE TaskLedger WITH receipts <- AbstractReceipts, invoked <- AbstractInvoked

\* runResourceTask implements the abstract task ledger: whatever admission, replay, veto,
\* settlement, death and policy edits do, seen from outside each step reserves one task,
\* invokes its worker, settles it, or changes nothing.
ReceiptLifecycle == Ledger!Lifecycle

\* Every reservation is settled, or its run died: a live run never holds one forever.
ReservationsSettle ==
  \A t \in Tasks :
     (\E r \in Runners : run[r] # NoRun /\ run[r].task = t) ~> (\A r \in Runners : run[r] = NoRun \/ run[r].task # t)
=============================================================================
