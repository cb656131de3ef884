# Phantom resource pools and campaigns: specifications, model checks and proofs

This directory specifies the execution core of Phantom (`ashlr-hub`) in TLA+: the ledger
that admits tasks to metered workers, the durable console queue on top of it, the store lock
below both, the lease that fences provider contact, the offline upgrade of a pool, and the
campaigns of Universe. The modules are translated from `src/src/core/resources`,
`src/src/core/fleet/local-store-lock.ts` and `src/src/core/universe`; `PROJECT.json` maps
every definition to the lines it stands for, lists the TLC runs, a mutant for each property, the hazards the
properties are aimed at, and the theorems.

## 1. The system

`docs/ARCHITECTURE.md` names five execution paths. Two of them execute work today, the
resource pool and Universe (which can generate candidates through a resource pool); the
legacy fleet is dormant, because its compiled trust roots are empty and non-dry starts
refuse before any effect. The pool is therefore where a wrong step costs money or runs an
agent twice, and it is modelled first.

| Component | State | Operations | Shares state with |
|---|---|---|---|
| Admission policy (`pool-policy.ts`, `quota-scope*.ts`, `plan`, `mergeResourceObservations`) | none | merge evidence, expand denials, choose a worker | called inside ledger transactions |
| Resource ledger (`pool-runtime.ts`) | `pool-state.json`: observations, attempts (receipts), allocation, worker access, quota scope access | `runResourceTask` (admit, replay, wait, veto, dispatch, settle), three policy setters | every process that uses the store, through `.pool.lock` |
| Console supervisor (`pool-supervisor.ts`) | `resource-console-state.json`: jobs, pause flag; in memory: active calls, retry order, fault | submit, cancel, pause, delete history, pump, start, settle, close, recover | the ledger; admission callbacks of its host |
| Local store lock (`fleet/local-store-lock.ts`) | lock, election and candidate files (hard links) | acquire, reclaim from a dead owner, check ownership, release | all of the above |
| Quota refresh lease (`quota-refresh-lease.ts`) | pending marker, activity file, registrations, recovery receipt | acquire, recover a marker, mark pending, reserve, prepare, spawn and settle a command, reclaim, close | native probes, the lock |
| Pool evolution (`pool-evolution.ts`) | journal, staged copy of the console file, `ready.json`, the barrier in the pool file | check, apply, resume | ledger, console state, quota marker, all three locks |
| Universe campaigns (`campaign*.ts`) | an append-only ledger per campaign, the execution lease | run, enrol in a queue, measure the seed, reserve and run generations, pause, stop, recover | Universe store, evaluators |
| Engineering missions and successors | mission store, successor store | claim, execute, hand over | supervisor, Universe |
| Universe store, portfolios, delivery | append-only lineage, allocations, git refs | generate, evaluate, select, deliver, recover | campaigns, pool (resource generation), git |
| Legacy fleet (daemon, inbox, goals, swarm, sandbox), authority, Verse, cloud, automations, comms, consoles, desktop | their own stores | – | – |

Interactions. A caller (CLI, console, Universe) passes quota observations and vetoes into
`runResourceTask`. Its first transaction merges the evidence, plans and writes a *reserved*
receipt; only then is the worker invoked; a second transaction settles the receipt. Nothing
is held in between, so other processes admit, operators edit policies, collectors publish
evidence and the process may die. The console adds a second durable file: a job is saved as
*dispatching* before `runResourceTask` is entered, and settled from the ledger afterwards.
An evolution takes the locks of console, pool and quota collector and replaces both files
one after the other. A campaign runs under the execution lease of its universe; the owner's
pause and stop do not take that lease, they are appended to the ledger the runner reads.

What is hard here: admissions of several processes against shared account limits; death
between reservation and settlement, or between the two files; calls repeated by callers
that lost the answer; evidence that is late, repeated, partial, expired or too large; a wall
clock that steps back; consoles saving stale policies; host callbacks that re-enter the
supervisor; writes that fail after their rename; denied jobs starving others; stops that
claim more than they know; contenders that take the lock of a dead process from each other;
commands and evaluators that outlive the process that started them; an upgrade of two files
that stops between them, or is applied long after it was reviewed; a control that arrives
between what a runner read and what it appends. Each is listed with its line under `hazards`
in `PROJECT.json`.

What makes each component correct:

* policy: no candidate behind a denial that was not taken back; a ceiling needs proof;
* ledger: one receipt and at most one execution per task id, account limits that survive
  crashes and clocks, final receipts, settlement by live runs, room in the file for every
  settlement that is due;
* supervisor: a saved intent is never entered twice, results are the ledger's, a finished
  job never changes, the file can always be decoded, a clean stop is one, no starvation;
* lock: one owner; reclaim only from the dead; a crash never leaves it stuck; a change that was
  reported to a caller is in the file and stays there;
* lease: no command outside the fence of its session; a fence goes only with evidence, and
  with complete evidence it does go;
* evolution: no program works on stores of two configurations; no recorded result is lost;
  an interrupted upgrade can be finished (section 4 says when it cannot);
* campaigns: an evaluator that may live is alone; a reserved generation is never run again;
  a queued campaign starts only on the history it was enrolled with.

## 2. Modules

| Module | What it is |
|---|---|
| `PoolPolicy` | pure operators: evidence merging, quota scopes, denials, capacity, selection |
| `ResourceLedger` | the ledger as a state machine of runners and operator consoles; extends `PoolPolicy` |
| `TaskLedger` | the abstract ledger: reserve, invoke, settle |
| `PoolSupervisor` | the console queue over `TaskLedger` |
| `LedgerHeadroom` | the bytes of the ledger's file: what may be written into it, and when |
| `StoreLock` | the abstract lock of a store: installed for one process, held, given back, reclaimed |
| `LocalStoreLock` | the lock file and its reclaim election, one step per system call |
| `StoreTransaction` | `transaction()` under `StoreLock`, one step per durable effect |
| `PoolFile` | composition: the rows of `LedgerHeadroom`, published by the renames of `StoreTransaction` |
| `PoolEvolution` | the upgrade of a pool, one durable write at a time, among programs that use the stores |
| `QuotaRefreshLease` | the quota collector's lease, its pending marker and the native commands behind it |
| `UniverseCampaign` | the campaigns of one universe: ledgers, lease, seed measurement, queue, controls |
| `MCResourceLedger`, `MCPoolSupervisor`, `MCLocalStoreLock`, `MCPoolFile`, `MCPoolEvolution`, `MCQuotaRefreshLease`, `MCUniverseCampaign` | small instances for TLC |
| `ResourceLedgerProofs` | inductive invariant of `ResourceLedger`, one execution per task, account limits; what `plan`, `mergeResourceObservations` and the policies guarantee of every admission; `ResourceLedger` implements `TaskLedger` |
| `LocalStoreLockProofs` | inductive invariants of `LocalStoreLock`; it implements `StoreLock` |
| `LedgerHeadroomProofs` | the bytes of the ledger, and that `PoolFile` behaves as both `StoreTransaction` and `LedgerHeadroom` |
| `PoolSupervisorProofs`, `StoreTransactionProofs`, `PoolEvolutionProofs`, `QuotaRefreshLeaseProofs`, `UniverseCampaignProofs` | the inductive invariant and the safety theorems of each of these components |

`TaskLedger` is the joint: `ResourceLedger` is proved (and model-checked) to implement it,
and `PoolSupervisor` is built on it. What the supervisor's checks show rests on nothing
about workers, quotas and policies beyond that contract.

`StoreLock` is the other joint: `LocalStoreLock` is proved (and model-checked) to implement
it, and `StoreTransaction` is built on it. It shows that the transactions of several processes
on one file are one after the other, each on the file the one before it left, whatever fails
or dies in between; that is why `ResourceLedger` may take a transaction for one step. The
models of the evolution, the lease and the campaigns take this granularity for granted too: a
transaction of the pool, a save of the console and the taking of a lock are one step in them.

### PoolPolicy and ResourceLedger

State: `obs` (`state.observations`), `attempts` (`state.attempts`, a function from task
ids), `policy` (allocation ceiling, paused workers, scope exclusions, a revision for each),
`run[r]` (the local variables of one call of `runResourceTask` after its reservation),
`seen[o]` (what a console read), `now`. `executions`, `standing`, `pauses` and `backdated`
are history: how often a worker was invoked, what providers said and have not taken back
(defined from the delivered rows, independently of how the ledger stores them), which pauses
were acknowledged, and which starts are stamped earlier than the time they were planned at.
The vetoes of one invocation are not in `standing`, because they end with it:
`NoWorkBehindDenial` compares each admission with what it was told itself (`Told`).

A transaction is one step: it holds `.pool.lock` and publishes by rename. `Admit`, `Wait`
and `Replay` are the three outcomes of the first transaction, including evidence merge,
fresh admission evidence and validation; a conflict of identities throws and changes
nothing. `Veto`, `Dispatch`, `Finish` and `Settle` are the rest of the call; the receipt a
run will settle is computed when the worker ends, as in the code, and written later.
`Abandon` is death, a lost or busy lock, or unusable settlement evidence, at any point. A
transaction that finds its lock lost *after* the write is the transaction followed by
`Abandon`. Operators read and later save whole lists under a compared revision.

Abstractions: times and percentages are naturals and `Null` is -1 (it sorts below every
value, which the code relies on with `?? -1`); digests are contents; the reason strings are
dropped except the one that matters (`vetoed`); the bytes of the file are `LedgerHeadroom`; the
`nextEligibleAt` hints and schema upgrades are left out. The clock may step back between any two
steps, and inside `Admit` too, which reads it twice: for the plan (`pool-runtime.ts:659`) and
for `startedAt` (`:664`).

### PoolSupervisor

State: `disk` and `mem` (the file and `state`), `phase`, `error`, `active`, `pump` (the
program counter of `pump()`), `tried` and `recent` (`attemptedAt`), `dispatched`, and the
ledger of `TaskLedger` with the `holder` of each receipt. `lost` and `mine` are history.

The supervisor is one JavaScript thread. `pump()` and `start()` are synchronous, but split
into steps where the process may die or the host's admission callback may re-enter (pause,
cancel, close): `PumpBegins`, `PumpLooks`, then at the gate `PassesOver`, `TakesReceipt`,
`SavesIntent` or `GateFails`, then `Enters`, `Dispatches`, `NamesWorker`. No request and no
handler runs in between, except at the gate. Promise handlers (`Denied`, `Receives`) run
before the next request or timer (`Quiet`). `persist` either replaces the file or faults;
a fault may come before or after the rename, and then memory and file differ and nothing
more can be written (the digest check). `Crash` may happen at every state; `Start` decodes
and recovers the file; `Other` are programs that use the same ledger with the same ids.

A job is content, state, worker, outcome and whether it holds input, retained history and
copied conversation. Left out: the session's output cache, reasons, byte headroom; project
bindings and pool epochs appear only as a hold that may keep a job back (`Holdable`). Jobs
that were never attempted are taken in any order, which includes the code's. Exclusive
ownership of the file is assumed (`.resource-console.lock`); its loss is `Fault`.

### LedgerHeadroom

The file is refused above `MAX_STATE_BYTES`, by the reader and by `writeState`, and a receipt
grows when it is settled. State: how many receipts are reserved, by a call that will settle
them (`running`) or by one that is over (`stranded`); how many are settled, and their bytes
(`closed`); the bytes of the observations, the allocation row and the access lists. What is
written is the sum, one width per row. `budgeted` (the allocation row when the headroom was
last required) and `refused` (settlements refused for their size) are history.

`Admit` and `SetAccess` require room for every open receipt and the observations at their
widest (`Headroom`), as `requireResourcePoolSettlementHeadroom` does; `Observe`, `Settle` and
`SetAllocation` only that the file fits. `RefuseSettlement` is the settlement for which it does
not: the call ends with the exception and leaves its receipt reserved. `Strand` is every other
end of a call without a settlement. Widths are constants and ranges: a settled receipt
and the merged observations have any width up to the widest the code writes for the purpose
(`LedgerHeadroom` does not derive these from the schema). Separators count as part of the row.

### LocalStoreLock

State: `names` (the directory: which file each name leads to), `proc` (per process: program
counter, the files it made, what it read, where `safelyUnlink` and `releaseLocalStoreLock`
return to, and the flags of the deadline), `retained` (`retainedReleases` for the lock),
`life` (which pid a slot has) and `faults`. A file is its inode number with the pid and the
token written in it; the link count is the number of names. Inode numbers are used again,
also while a process still remembers them; tokens are not.

A step is one system call that changes the directory, or one run of read-only calls that
must all agree (`hasExpectedToken`, `ownerState`); `linkSync(path, guard)` and
`unlinkSync(path)` act on whatever the path leads to by then. Acquisition is `Acquire`,
`Look`, `Create`, `Publish` or `Refused`, `Collapse`, `DropCandidate`, `Verify`, with
`Settle`, `Settled`, `RolledBack` for a doubtful installation; the same steps install the
election (`at = "election"`), after `Rival` and `Relink` when a dead contender left one.
`Confirm`, `DropAlias`, `Reclaimable` are the reclaim under the election; `Pin`,
`LinkGuard`, `StillCurrent`, `Trust`, `Unlink`, `Remaining`, `Unguard` are `safelyUnlink`;
`Release`, `Released`, `Unreleased` are the release. `Crash` may come anywhere. Failures are
those of `fsync` on the directory and of the removal of a guard.

Left out: ownership, modes and stability of directories and anchors, unreadable files, start
identities (they never decide a reclaim), the distinction of *contended* and *unavailable*.
The write of a candidate is one step: its name is unknown to others. A pid is never reused;
in the code a reused pid delays the reclaim. `settleCanonicalInstallation` returning null and
throwing are one outcome, the caller has no lock.

### StoreLock and StoreTransaction

`StoreLock` has the pid the lock is installed for, the process that was told it owns the store,
and the lives of the slots. In `LocalStoreLock` these are the pid written in the file that the
canonical name leads to (`Owner`) and the process in `held` (`Holder`): between the two a
process has a lock installed and does not act on it, at the beginning and at the end.

`StoreTransaction` adds the file, as the set of the changes made to it, and `tx[p]`: where the
process is in `transaction()` and what it loaded. `Begin`, `Installs`, `Locked`, `RollsBack`
and `Busy` are the acquisition; `Load`, `Change` (which ends with the check that the lock is
still owned), `WriteState` (the rename), `Confirm` (the check after it) and `Fails` (the
`catch`, before or after the rename) the body; `Releases`, `TakesAway`, `Returns` and
`Uncertain` the release and what the caller is told. `Crash` may come anywhere, `Reclaims`
takes the lock of the dead. A refused release leaves the lock installed for a live process,
which removes it when it comes back (`RollsBack`).

Left out: what a failed write leaves in temporary files (no one reads them), reads outside a
transaction, and schema upgrades.

`PoolFile` is the two models of the file at once. The rename of a transaction (`WriteState`)
publishes one change of the rows (`Saves`); a settlement that `writeState` refuses ends in the
`catch` (`Fails`); the call behind a receipt may end at any time (`Strand`); everything else a
transaction does leaves the rows alone (`Otherwise`). A transaction that fails after its rename
has changed them all the same, and its receipt is then stranded or settled without an answer.

### PoolEvolution

State: the two stores (`pool`, `console`), the journal with the plan it holds, the ready
mark and the temporary copy per target, the three `lock` files (free, owned, or left by the
dead), the collector's `marker`, the running console's configuration (`session`), the runs
in flight, and `proc[o]` (where an operator's apply is). A digest is the value it is a
digest of, so "the state I read is still there" is equality with the plan.

An operator checks (reads both stores and keeps a plan) and later applies: takes the locks of
console, pool and quota collector in that order, loads or stages the journal, writes the
barrier into the pool, writes and renames the console copy, marks the journal ready, replaces
the pool without the barrier, and releases. Each durable write is a step; a death or a write
that throws may come at every one of them, and the next apply resumes from what it finds.
Meanwhile the console submits, dispatches and settles, runners reserve and settle, and a
collector takes its lock and its marker. A console starts in two steps: it reads the pool
(`OpenConsole`), which throws behind a barrier, and only then takes its lock and reads both
stores again (`StartConsole`; `RefuseConsole` when an evolution came in between; `LeaveConsole`
when the lock is busy). A transaction of the pool takes its lock first and reads afterwards, and
so does the collector with its own lock: refused, they have taken the lock of a dead process and
given it back (`RefusedStart`, of these two locks only).

Left out: observations, policies and byte headroom in the stores, the rules for which
configuration may follow which (pure validation), a pool file that does not exist yet, and a
second evolution on top of the first.

### QuotaRefreshLease

State: the lock with its owner, `marker`, `activity`, `receipt`, the registrations
(`papers`), the process `group` of every command, `proc[p]` (the lease object), lives and
boots. A session is a number in place of its random token; a command is a session and a slot.

`Recover` is the whole of the acquisition up to the decision about a marker that is there:
reject it, or write the receipt and remove it. `Mark` publishes the own marker (with the
launch handoff as version 5, without it as version 4, without a boot identity as version 1,
or torn). `Work` is one step of a command's lifecycle: reserve, prepare, ticket, spawned,
settled, release. `Child` are the steps of the process itself: register, wait to be told,
exec, exit. `Reclaim`, `Close`, `Closed` end a session; `Poison` is a write that fails, `Die`
the death of the owner, `Reboot` the end of every group and process. What signal zero finds
out about a group is whether it exists.

Left out: markers of versions 2 and 3, the qualification of the signed desktop launcher, the
readers that only report, and descendants that leave their process group, which the code
excludes as well.

### UniverseCampaign

State: `ledger[c]` (what `foldCampaignEvents` makes of the records: length, state, owner,
seed measurement, steps, whether it was ever started, controls), `lease`, the live
`evaluator`s, the run records `runs` and the one `open` run of the universe, `proc[p]` (a
runner: the queue or a command line), `ask[o]` (a requester between its two appends).
Because a ledger only grows, its digest is its length.

`Queue` enrols a campaign with the history it has, polls, and dispatches or drops it.
`Admission` takes the lease, recovers what a dead owner left, and appends the start event.
`Seeding` appends the intent, starts the evaluator, and appends the result. `Loop` reserves a
step, runs the generation, and settles when the budget is used, a control was seen or
something failed. A control is two appends, the request and, when nobody owns the campaign,
its settlement. The lease and every append are one step; between any two steps of a runner a
control may be appended, and the process may die with its evaluator alive.

Left out: model request and token budgets, stagnation, dispatch identities, the kill switch,
delivery after a campaign, portfolios, a direct `universe run`, and a second conflict in a row
while the result of the seed is appended.

## 3. Runs

| Run | Instance | Shows |
|---|---|---|
| `ledger_caps` | 3 tasks, 2 runners, 2 aliases of one account with limits of 2, clock 0..2 | `AccountConcurrency`, `RollingTaskCap`, `ExecutedAtMostOnce`, `ReceiptsAreFinal`, `FailureCoolsDown` |
| `ledger_evidence` | 1 task, a pinned and an unpinned alias, eight observation rows, a report, a veto, and fresh evidence of three kinds (a high reading, a refusal, a quota veto), inventory limit 2, fair | `TypeOK`, `LedgerStaysReadable`, `NoWorkBehindDenial`, `ReservationsSettle` |
| `ledger_policies` | 1 task, two aliases of one account and a local worker, ceilings 0 and 50, 2 consoles, pauses saved twice | `CeilingNeedsProof`, `PausesAreKept`, and `ReceiptLifecycle` (the refinement of `TaskLedger`) |
| `supervisor_crash` | 2 jobs (one a follow-up, with and without retained text), 2 contents, one shared id, 2 calls, queue of 1 | `TypeOK` (with the limits on jobs, calls and queue), `NeverReplayed`, `SettledMatchesLedger`, `CleanStop`, `FileStaysReadable`, `StoppedStartsNothing`, `JobsAreFinal` |
| `supervisor_progress` | 2 jobs, 1 call at a time, fair | `QueuedJobsAreTried`, `DispatchesEnd` |
| `lock_crash` | 2 processes, an empty directory or what dead processes left (`AnyPast`), 1 death, 1 failure | `OneReclaimerUnlessElectedDies`, `NothingLeft`, `LiveLockKept`, and `StoreExclusion` (the refinement of `StoreLock`) |
| `lock_election` | lock and election of dead processes, 2 contenders | `OneReclaimer` is violated (section 4) |
| `lock_progress` | lock of a dead process, 2 contenders, one with a deadline, fair | `DeadReclaimed`, `LateReturns` |
| `evolution` | 2 operators with a target each, 1 task, 1 death or failed write, 1 collection, fair | `StoresAgree`, `HistoryKept`, `BarrierLifted` |
| `quota_lease` | 2 collectors, 1 slot, 2 sessions, 3 deaths or failed writes, 1 reboot, fair | `ContactFenced`, `RemovalAccounted`, `FenceLifted` |
| `campaign` | 2 campaigns, one measured, a queue, a command line, an owner with 1 control, 2 generations, 6 events, 1 mishap | `EvaluatorFenced`, `WorkReserved`, `PinHolds` |
| `pool_file` | 2 processes, 4 changes, what a dead process left, 2 deaths per slot, 3 receipts, 8 bytes: room for two of the widest | `ReportedKept`, `OneAfterTheOther`, `HeadroomKept`, `RefusedOnlyForAllocation` |

All passing runs are exhaustive. The type invariants are theorems of every module (section 5);
two of them are also checked by a run. Deadlock is checked except in `evolution`, `campaign`
and `pool_file`, where everything may end: an upgrade that is held for inspection,
campaigns that are all over, changes that were all begun. Bounds: three tasks against a limit of two is
the smallest instance in which a limit can be exceeded and a third party blocks on it; two
runners give every interleaving of two transactions; clock values 0..2 with a window of 2
put starts inside a window and at its end, in both directions. `MaxWindows = 2`
against four window ids makes the inventory overflow. In `ledger_policies` the pauses are saved twice, so that a stale
save follows a fresh one, the other lists once; three aliases are the fewest with a shared
quota and a worker outside it. Two jobs with a queue of one make a requeued job meet a new submission; two
contents make identity conflicts. `MaxAttempts` and `MaxRevision` (one bound per list) bound
counters the code bounds too. `lock_crash` has one death and one failure to spend and starts from the
directories of `AnyPast`: empty, the lock of a dead holder with or without its candidate or
a guard, and that of a dead holder with the election of a dead contender. The last are
initial states because the steps that lead to them and the steps that follow do not fit one
run. Seven inodes are never all in use. In `pool_file` one process writes while
the other is stale or reclaims, and both change places; a slot that may die twice meets its own
lock from an earlier life, while `LocalStoreLock`, with far more steps, affords two processes
and one death. Four changes are a reservation that fits, a second one, an allocation and a
settlement, the shortest way to a settlement that is refused; every row has two widths or more,
and 8 bytes admit two receipts at their widest, not three. Two operators with different targets, one task and
one mishap reach every point at which an apply can stop and every program that can meet the
barrier; three mishaps and a reboot in `quota_lease` let a recoverer die during the recovery
of a session whose process died (with two slots and one mishap the properties hold too). In
`campaign` two campaigns share a universe, one of which measures the seed; six events are
the shortest ledgers in which a session is recovered, started again and controlled, and make
the capacity of the ledger a case of its own (with seven the properties hold too). Symmetry
is used where the constants are interchangeable and no temporal
property is checked over it beyond a single step.

Fairness. `RunnerFairness`: a run that stays alive goes on, because the host callback
returns, the adapters enforce `task.timeoutMs`, and the settlement is then attempted; death
is always possible and never assumed. `FairSpec` of `PoolSupervisor`: the timer that pump()
rearms fires (weak), the event loop serves pending handlers (weak) and completed workers
although the pump runs again and again (strong), the poll interval elapses (weak), and an
admission source that is unreadable again and again is also readable again and again
(strong on `PumpProceeds`). Nobody has to submit, resume or restart. `FairSpec` of
`LocalStoreLock`: a call that was started goes on (weak; it is synchronous code) and a holder
gives the lock back (weak; transactions end). Nobody has to call. `FairSpec` of
`PoolEvolution`: an apply that runs goes on (synchronous code), somebody checks and applies an
unfinished upgrade again, a collection ends, and task runners and collectors are tried while
dead processes have left the pool lock or the collector's (weak). Nothing is assumed of
consoles, which never take a lock behind the barrier (section 4). `FairSpec` of `QuotaRefreshLease`: somebody tries to
collect again (`web/resource-console-server.ts:640`, `verse/accounts.ts:1519`,
`quota-refresh.ts:487`), a close that has begun ends, and process groups end (their commands
have timeouts). No liveness is claimed of campaigns: nobody has to run one again.

Every property has a mutant in `PROJECT.json`: a plausible defect of the code under which
TLC reports the property violated.

## 4. Findings

`lock_election`. The notes on the lock (`docs/internal/notes.md:2197`) say that it
"serializes stale deletion through one fixed reclaimer owner". `acquireReclaimElection`
removes the election of a dead contender with `safelyUnlink(ownerPath, ..., [1, 2])`
(`local-store-lock.ts:1029`). The 2 is there for a candidate or guard left behind by the
dead, but it also accepts the guard of a contender that is at work: A has guarded the dead
election (two links) and passed its checks on the path; B finds two links, guards (three),
passes its checks and removes the name; the two guards are the two links A expects when it
reads the token; B installs its own election; A's `unlinkSync` removes that live file, finds
the link count it expects, and installs its own. Two live processes hold the election.

What survives: with one allowed link on the lock itself, two reclaimers still cannot remove a
live lock or both become owners (`lock_crash`, with inode reuse). What does not: a
contender may guard a lock or an election that was just installed, whose owner then cannot
settle or release it (the link count is not 1) and, for an election or a refused release,
does not retain it. The file of a live process stays until that process exits.
`NothingLeft` and `OneReclaimerUnlessElectedDies` are therefore conditional on at most
one death, and `DeadReclaimed` is checked with one (`lock_progress`); from the
directories `DeadReclaimer` TLC finds counterexamples to the unconditional forms.

What the other models show about the code, without a line of the repository that says
otherwise:

* *Bytes.* `requireResourcePoolSettlementHeadroom` is there to "never turn settlement into another
  admission gate" (`pool-runtime.ts:318`). Reservations and the two access lists call it;
  `setResourcePoolAllocation` (`pool-runtime.ts:592`) does not. The allocation row may therefore be
  written into the room that open reservations were promised, and `writeState` then refuses their
  settlement: the result of work that was done is lost, and the receipt stays reserved for ever,
  because only the call that reserved it settles it. The promise holds less what the row has
  grown by since (`HeadroomKept`), and nothing else refuses a settlement for its size
  (`RefusedOnlyForAllocation`). The row is small against the
  4 MiB of the file, so this takes a ledger that is almost full.
* *Clock.* An admission plans at one reading of the clock and stamps its receipt with a second
  one. If the clock steps back in between, a start may be stamped into a window that was full
  already, which the plan did not look at. `RollingTaskCap` therefore leaves the starts in
  `backdated` out; counted with them, the cap is exceeded.
* *Evolution.* An apply that dies leaves the three lock files, and `requireOffline`
  (`pool-evolution.ts:227-229`) refuses every rerun while one is present. The pool lock goes when
  any transaction is tried (it takes the lock before it meets the barrier) and the collector's
  when a collection is tried. The console lock never goes: the console reads the pool before it
  asks for the lock (`pool-supervisor.ts:462` and `:466`; the lock at `:516`), and behind the
  barrier that read throws (`pool-runtime.ts:273`). `engineering-autonomous-setup.ts`, the other
  program that takes this lock, reads first as well (`:106`, the lock at `:214`).
  `docs/RESOURCE-POOLS.md:1586-1588` says to "rerun **the same apply inputs and original digest**
  to resume an exactly staged transition"; after the death of apply that is refused for ever, until
  somebody removes `.resource-console.lock` by hand. TLC shows it when `lock.console = Stale` is taken
  out of `Held`: an apply publishes the barrier and the console, marks the journal ready and dies; a
  refused runner and a refused collector clear their locks; nothing moves any more. `BarrierLifted`
  says what is left: an apply that throws, or dies anywhere without leaving that lock, is finished
  by a rerun unless a collector's marker or a half-written copy of the console (held for
  inspection) remains.
  A death between the journal's directory and its `journal.json` leaves a journal that is
  incomplete for ever, and a death before the barrier followed by ordinary work is a state
  conflict for that request for ever; neither leaves a barrier.
* *Lease.* A torn marker and one of version 1 are never recovered, not even after a reboot.
  A version 4 command that was being prepared, and a version 5 launch without registration,
  block until the next boot. A process that kept its marker cannot recover it while it lives.
* *Campaigns.* A pause or stop is two appends, and the second, delayed, can land on a newer
  session: the ledger then says paused with no owner while a runner works, and that runner
  fails the campaign at its next append. A stop requested of a dead owner is settled only by
  a later run. A seed intent whose evaluator cannot be accounted for blocks the universe until
  somebody resolves it. A ledger at its capacity (`MAX_EVENTS`) cannot be settled. A step that
  was reserved and not run, whose generation another campaign then takes, leaves its campaign
  degraded for ever. The comment at `campaign.ts:120-122` (a pause cannot slip in between)
  holds for runs that pass an expected identity, which the queue does and the command line
  does not (`campaign.ts:133`, `cli/universe-campaign.ts:220`); `PinHolds` is therefore
  stated of the queue.

## 5. Proofs

Every theorem holds for all constants that satisfy the assumptions below: any number of
workers, aliases, runners, tasks, jobs, processes, campaigns, deaths and failures, any limits
and clocks. Each rests on an inductive invariant, because none of the properties is inductive
as it stands.

| Module | Theorem | States |
|---|---|---|
| `ResourceLedgerProofs` | `TypeCorrect`, `AtMostOnce`, `ConcurrencyBound`, `RollingBound` | `[]TypeOK`, `[]ExecutedAtMostOnce`, `[]AccountConcurrency`, `[]RollingTaskCap` |
| | `FinalReceipts` | `ReceiptsAreFinal` |
| | `LedgerReadable` | `[]LedgerStaysReadable` |
| | `DenialsHold`, `FailuresCoolDown`, `CeilingProven`, `PausedAccountsRest` | `NoWorkBehindDenial`, `FailureCoolsDown`, `CeilingNeedsProof`, `PausesAreKept` |
| | `ImplementsTaskLedger` | `ReceiptLifecycle`, the specification of `TaskLedger` |
| `PoolSupervisorProofs` | `TypeCorrect`, `FileReadable`, `IntentsNotReplayed`, `SettledTruthful`, `CleanClose` | `[]TypeOK`, `[]FileStaysReadable`, `[]NeverReplayed`, `[]SettledMatchesLedger`, `[]CleanStop` |
| | `FinalJobs`, `StopIsObeyed` | `JobsAreFinal`, `StoppedStartsNothing` |
| `LocalStoreLockProofs` | `TypeCorrect`, `HoldersInstalled`, `MutualExclusion` | `[]TypeOK`, `[]HolderInstalled`, `[]OneHolder` |
| | `LiveLocksKept` | `LiveLockKept` |
| | `ImplementsStoreLock` | `StoreExclusion`, the specification of `StoreLock` |
| | `ReclaimersSerialized`, `NothingIsLeft` | `[]OneReclaimerUnlessElectedDies`, `[]NothingLeft` |
| `StoreTransactionProofs` | `TypeCorrect`, `AnswersAreKept`, `TransactionsAreSerial` | `[]TypeOK`, `[]ReportedKept`, `OneAfterTheOther` |
| | `KeepsToTheProtocol` | the lock in it behaves as `StoreLock` specifies (`Exclusion`) |
| `LedgerHeadroomProofs` | `PoolTransacts`, `PoolKeepsLedger` | `PoolFile` implements `Spec` of `StoreTransaction`, so that its theorems hold of it, and `LedgerSpec` |
| | `RowsCorrect`, `HeadroomIsKept`, `RefusalsExplained` | `[]RowsOK`, `[]HeadroomKept`, `RefusedOnlyForAllocation`, of `PoolFile` |
| `PoolEvolutionProofs` | `TypeCorrect`, `StoresAlwaysAgree`, `HistoryPreserved` | `[]TypeOK`, `[]StoresAgree`, `HistoryKept` |
| `QuotaRefreshLeaseProofs` | `TypeCorrect`, `ContactAlwaysFenced`, `RemovalRecorded` | `[]TypeOK`, `[]ContactFenced`, `RemovalAccounted` |
| `UniverseCampaignProofs` | `TypeCorrect`, `EvaluatorAlone`, `NoReplay`, `QueuePinned` | `[]TypeOK`, `[]EvaluatorFenced`, `[]WorkReserved`, `PinHolds` |

### Assumptions

* Policy: finitely many workers, bound to accounts; reserves in 0..99 and positive limits
  (`validateResourceBindings`); aliases of an account share its provider (`worker.ts:99-102`);
  window ids are finitely many and totally ordered, and a scope names at most `MaxWindows` of
  them.
* Ledger: clock readings are naturals; incoming rows pass `validateResourceObservations`, which
  rejects others before they reach a transaction. Nothing is assumed of their order,
  completeness or truth.
* Supervisor: queue limits are naturals, workers end with one of the ledger's settlements.
* Lock: finitely many processes; the names that a run starts with were left by dead processes.
* Headroom: widths are naturals, the empty ledger fits, and a reserved receipt is not wider than
  the widest settled one (`requireResourcePoolSettlementHeadroom` builds the latter from the former by
  widening its fields).
* Lease, evolution, campaigns: bounds are naturals, campaigns are finite, an upgrade has a
  target other than the configuration it starts from.
* Everywhere: `None` and the other sentinels differ from the values they stand beside.

### Arguments

*Ledger.* `Settle` writes the receipt a runner has been carrying, so the proof needs what the
runner holds. `LedgerInv` adds that the ledger is finite, that each runner's reservation is the
open receipt in the ledger, of its own task and of no other runner, that its computed
settlement agrees with it, and that `executions` matches the runner's program counter and the
receipts. Lemmas show it preserved by the four ways a step can touch a run (reserve, continue,
release, none). `FinalReceipts` follows stepwise. `ConcurrencyBound` counts: only a reservation
enlarges the set of open receipts, and a selected worker has room. `RollingBound` needs more: a
new start is not necessarily the latest in the ledger, because the clock may have stepped back,
so for every interval that contains the new start `BurstStep` bounds the interval by the starts
the plan counted, which include all starts after `now - taskWindowMs`, future ones too. That
needs the new start not to lie before the time planned at, so the theorem is about the starts
that are not in `backdated`: it holds however the clock moves between two admissions, and says
nothing of a start during whose own admission the clock stepped back (section 4). The
refinement maps a receipt to its content and status and `executions > 0` to `invoked`.

*Admission.* A receipt that is new after a step was planned on the observations the same step
saves. `DenialsHold` shows that whatever stands in the history is carried by the row of its
worker: a merge keeps a known reading unless a complete, unexpired and newer row reports it,
and an inventory that overflows leaves the overflow window in its place, which denies too.
What the invocation itself is told needs no history: its vetoes are in the plan, and a worker
that the fresh evidence alone excludes is among the plan's denials. One lemma (`NotRefused`)
serves both, the plan's own observations and the fresh evidence taken alone. `FailuresCoolDown`
has two halves: the plan counts every failure of an invoked worker, and a time that keeps a
worker waiting is the retry-after of an alias or the end of the cooldown of such a failure,
because a vetoed receipt belongs to a run that was never invoked (`LedgerInv`).
`LedgerReadable` is the counterpart: a merge of two valid rows is valid, because the windows it
keeps are cut to `MaxWindows` by rank, and ranks are injective. `PausedAccountsRest` needs
that a revision determines the list that was saved under it, so that the compare-and-save of
a stale console fails. The proofs expand the denial of one alias to the whole account.

*Supervisor.* `SupervisorInv` is one predicate of a job store, required of the file and of memory
alike; the two differ only after a fault, and then nothing more is written. A job says what the
ledger recorded and can be decoded; a job that memory calls dispatching is an active call unless
the console has faulted; a call without a receipt keeps its place in the queue, which is why the
queue stays within its limit when it returns there. What the ledger says of a task moves in one
direction (reserved, invoked, settled), by its holder. `NeverReplayed` follows because the
candidates of `pump` are never among the intents a former console left.

*Lock.* `LockInv` says that the directory is well formed (a file has one content whatever name
leads to it), that every process is `Sane` (what it remembers fits its program counter) and
`Anchored` (the guard or candidate it relies on is still there), and that at most one
process is `Committed`, that is, has verified that the canonical name leads to its file or to
the dead owner's file it is about to remove. The last is the heart of it: a second process that verified the same dead
file would have found three links on it, more than the caller allows. The guard also keeps the
inode in use, so a number that is used again is never mistaken for the file that was verified.
Every step keeps the names that others rely on: it touches the canonical name when it is free
or when this process verified it, its own names, and those of the dead. `HolderInstalled`,
`LiveLockKept` and mutual exclusion follow. None of this uses the election, which agrees with
section 4: the election saves work, it does not protect the lock.

*Lock, as a store sees it.* `ImplementsStoreLock` maps a state to the pid in the file under the
canonical name and to the process in `held`. With `LockInv` every step is one of the abstract
ones or a stutter: a candidate is linked to a free name (`Install`); the canonical name is removed
by its own process, which does not hold any more, or by another one that has verified that the
file is a dead process's (`Withdraw`, `Reclaim`); nothing else touches it.

*Election.* While at most one process has died, nothing stands in the way of a live one:
`TidyInv` says that a guard leads to a file of the process that made it or of the dead; that
an election is there only after a death and never belongs to a dead process; that only the
process that is elected passes the points between `Rival` and the end of its reclaim; that a
process with a lock installed is still at work on it or holds it; and that the
files it is about to install have no name but the candidate. So a link count is never raised by a
live contender where the code does not expect it: the owner can settle and release, and
contenders meet one election. Two deaths leave an election that has to be removed itself, and
section 4 takes it from there. `OneDeath` says it without a sum: no slot has died
twice and no two slots have died.

*Transactions.* `StoreInv` says that the lock is installed for its holder, that a process is
between the grant and the release exactly while it holds the lock, that what such a process has
loaded is the file as it is, and that what it wrote is in the file. The last two concern every
process that is inside, and there is one. A process that died or gave up has no part in them, so
a lock that was reclaimed from it, or that it could not release, costs nothing.

*Bytes.* The rows change only with a rename, so that `PoolFile` keeps to `LedgerSpec` whatever
dies in between. `HeadroomKept` is inductive with `RowsOK`. A settlement takes one receipt at its widest
out of the envelope and puts in what it wrote; observations are in the envelope at their widest;
both may change freely. Only the allocation row enters with its actual width, and `budgeted`
says what that was. A settlement then fits unless the row has grown.

*Evolution.* `EvolutionInv` says that an operator in apply holds all three locks, so that what
it read is still true; that its program counter tells which of the two stores has been
replaced; that a temporary copy exists only behind the barrier; that the plan of a journal
can be derived; and that a run in flight has an open receipt,
which an apply refuses. Hence a store that disagrees with the other one is behind the barrier,
and every finished entry of a plan is in the stores that follow it.

*Lease.* `LeaseInv` says that a process group that exists started on this boot, behind the marker
of its session, whose list on disk has the command as possibly started; that the lock names the
process from acquisition to release, or a dead one; and what its holder relies on at each point:
in a session the marker is its own, every group is one it spawned, and the list on disk is the
list in memory unless a write has failed, after which nothing is spawned. The recovery of a
marker removes it behind the receipt it has written of the evidence, which accounts for every
reservation.

*Campaigns.* `CampaignInv` says that a runner past admission holds the lease, so it is the only
one there, and what it has checked stays true although controls are appended meanwhile: they
never touch a seed or a step. An evaluator that may live has an intent without a result, and
there is at most one; the generations that ran are among those reserved; and as long as the
ledger has the length a queue pinned, it has neither a control nor a session.

### Only model-checked

Liveness, which is out of the prover's reach: `ReservationsSettle`, `QueuedJobsAreTried`,
`DispatchesEnd`, `DeadReclaimed`, `LateReturns`, `BarrierLifted`, `FenceLifted`. Every safety
property of a passing run has a theorem.

## 6. Not modelled

Worker adapters and account probes (external processes; their results are arbitrary), byte
accounting of the console's file (`assertStateHeadroom`), HTTP and user interfaces, and the
components of section 1 without a module. Ledger and supervisor take a transaction under the
store lock as one step. Lock, transaction and ledger are joined by contracts, not composed into
one state machine: `LocalStoreLock` implements `StoreLock`, `StoreTransaction` uses it, and the
ledger's one step is what `OneAfterTheOther` and `ReportedKept` say of a transaction. Only
`PoolFile` composes two models of one file. The largest directories of
the repository, the legacy fleet (`src/core/daemon`, `fleet`, `inbox`, `run`, `swarm`) and the
web consoles, are dormant or presentation and are left aside, so the map covers a small part
of all lines. `PROJECT.json` gives the reason for each component.

## 7. Plan

Done: `PoolPolicy`, `ResourceLedger`, `TaskLedger`, `LedgerHeadroom`, `PoolSupervisor`,
`StoreLock`, `LocalStoreLock`, `StoreTransaction`, `PoolFile`, `QuotaRefreshLease`, `PoolEvolution` and
`UniverseCampaign` with their runs, and a theorem for every safety property of them.

What could follow, in order of importance:

1. `CapacityWait`, project bindings and pool epochs in `PoolSupervisor`, and the bytes of its
   file as in `LedgerHeadroom`;
2. Universe: portfolios over campaigns, then delivery and its recovery;
3. engineering missions and successors; authority records; the inbox's proposal lifecycle;
4. proofs: `TaskLedger` with its callers composed, from the supervisor's invariant; the other
   stores that `LocalStoreLock` protects, over `StoreLock`.
