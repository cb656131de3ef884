---------------------------- MODULE PoolEvolution ----------------------------
(***************************************************************************)
(* The offline upgrade of a resource pool to a next configuration          *)
(* (checkResourcePoolEvolution, applyResourcePoolEvolution).  It replaces  *)
(* two stores, pool-state.json and resource-console-state.json, one after  *)
(* the other, and writes a journal first so that an interrupted upgrade    *)
(* can be resumed.  While the pool carries the barrier (pendingEvolution)  *)
(* every ordinary program refuses it.                                      *)
(*                                                                         *)
(* The console, task runners and the quota collector use the same stores   *)
(* and locks at any time.  A transaction of the pool is one step here      *)
(* (ResourceLedger), and so is a save of the console (PoolSupervisor); the *)
(* lock of a dead process stays as a file until somebody takes it          *)
(* (LocalStoreLock).  A digest is the value it is a digest of.             *)
(***************************************************************************)
EXTENDS Naturals, FiniteSets

CONSTANTS
  Operators,      \* the processes that may run check and apply
  First,          \* the configuration the pool starts with
  Targets,        \* the next configurations somebody may want
  Wants,          \* Wants[o]: the ones operator o may apply
  ConsoleTasks,   \* tasks submitted to the console
  RunnerTasks,    \* tasks that may be run without it
  MaxMishaps,     \* bound on the processes that die and the writes of apply that throw
  MaxCollections, \* bound on the sessions of the quota collector
  None,
  Stale           \* the lock file of a dead process

Tasks == ConsoleTasks \cup RunnerTasks
Configs == {First} \cup Targets
Locks == {"console", "pool", "quota"}

\* The two stores, and what a plan was made of.
Jobs == [state : {"queued", "dispatching", "settled", "unresolved", "cancelled"}, epoch : Configs]
Consoles == [v5 : BOOLEAN, origin : Configs, jobs : UNION {[D -> Jobs] : D \in SUBSET ConsoleTasks}]
Receipts == [epoch : Configs, status : {"reserved", "completed", "uncertain"}]
Pools == [active : Configs, barrier : Targets \cup {None}, attempts : UNION {[D -> Receipts] : D \in SUBSET Tasks}]
Plans == [pool : Pools, console : Consoles \cup {None}]

ASSUME EvolutionAssumption ==
  /\ First \notin Targets /\ Wants \in [Operators -> SUBSET Targets]
  /\ None # Stale /\ None \notin Configs \cup Consoles
  /\ Operators \cap {None, Stale, "console", "collector"} = {}
  /\ {None, Stale} \cap {"console", "collector", "partial", "whole"} = {}

VARIABLES
  pool,      \* pool-state.json: the active configuration, the barrier, the receipts
  console,   \* resource-console-state.json: schema 5 or older, origin, jobs; or None
  journal,   \* journal[to]: how far the journal directory is written, and what it holds
  ready,     \* the targets with a ready.json
  temp,      \* temp[to]: the temporary copy of the console: None, "partial", "whole"
  lock,      \* the console, pool and quota lock files: None, Stale or the owner
  marker,    \* the quota collector's pending marker is there
  session,   \* the configuration of the running console, or None
  starting,  \* the configuration of a console that has read the pool and takes its lock next, or None
  flying,    \* the runs between reservation and settlement
  proc,      \* proc[o]: what operator o is doing
  count      \* mishaps and collections so far

stores == <<pool, console>>
papers == <<journal, ready, temp>>
ordinary == <<session, starting, flying, marker>>
vars == <<stores, papers, lock, ordinary, proc, count>>

Idle == [pc |-> "idle", to |-> None, plan |-> None]
Unwritten == [stage |-> "absent", plan |-> None]
Nothing == [t \in {} |-> None]

With(f, t, v) == [x \in DOMAIN f \cup {t} |-> IF x = t THEN v ELSE f[x]]

Init ==
  /\ pool = [active |-> First, barrier |-> None, attempts |-> Nothing]
  /\ console = None
  /\ journal = [to \in Targets |-> Unwritten]
  /\ ready = {}
  /\ temp = [to \in Targets |-> None]
  /\ lock = [x \in Locks |-> None]
  /\ marker = FALSE
  /\ session = None
  /\ starting = None
  /\ flying = {}
  /\ proc = [o \in Operators |-> Idle]
  /\ count = [mishaps |-> 0, collections |-> 0]

(***************************************************************************)
(* What a program of configuration c makes of the stores.                  *)
(***************************************************************************)
\* decodeResourcePoolState: an active configuration that is not the program's own, or
\* a pending evolution, is refused.
DecodesPool(p, c) == p.active = c /\ p.barrier = None

\* decodeResourceConsoleState: the origin is a configuration of the verified history;
\* before schema 5 only the program's own will do.
DecodesConsole(k, c) == k # None => k.origin \in (IF k.v5 THEN {First, c} ELSE {c})

Unresolved(p) == {t \in DOMAIN p.attempts : p.attempts[t].status \in {"reserved", "uncertain"}}

\* derivePool and previewResourceConsolePoolEvolution succeed on what a plan was made of.
Derivable(plan) ==
  /\ DecodesPool(plan.pool, First)
  /\ Unresolved(plan.pool) = {}
  /\ DecodesConsole(plan.console, First)
  /\ plan.console # None =>
       \A t \in DOMAIN plan.console.jobs : plan.console.jobs[t].state \notin {"dispatching", "unresolved"}

AfterPool(plan, to) == [plan.pool EXCEPT !.active = to]

\* Mutant: the new pool is published at once.
NoBarrier(plan, to) == AfterPool(plan, to)

Barrier(plan, to) == [AfterPool(plan, to) EXCEPT !.barrier = to]
AfterConsole(plan) == IF plan.console = None THEN None ELSE [plan.console EXCEPT !.v5 = TRUE]

(***************************************************************************)
(* Where an evolution stands.                                              *)
(***************************************************************************)
Current == [pool |-> pool, console |-> console]

\* assertConsolePreserved: a finished job is as it was, a queued one may only be cancelled.
JobPreserved(t, old) ==
  /\ t \in DOMAIN console.jobs
  /\ console.jobs[t].epoch = old.epoch
  /\ console.jobs[t].state = old.state \/ (old.state = "queued" /\ console.jobs[t].state = "cancelled")

Preserved(plan) ==
  /\ \A t \in DOMAIN plan.pool.attempts : t \in DOMAIN pool.attempts /\ pool.attempts[t] = plan.pool.attempts[t]
  /\ plan.console # None =>
       console # None /\ \A t \in DOMAIN plan.console.jobs : JobPreserved(t, plan.console.jobs[t])

\* finalized() does not return false: it is done, or something contradicts that.
Published(to) == to \in ready /\ pool.barrier = None

Finalized(to) ==
  /\ Published(to)
  /\ temp[to] = None
  /\ DecodesPool(pool, to)
  /\ DecodesConsole(console, to)
  /\ Preserved(journal[to].plan)

\* Mutant: a console that is already published is not recognised.
PhaseForgetsConsole(to) ==
  LET plan == journal[to].plan
  IN  CASE Published(to)                                            -> IF Finalized(to) THEN "done" ELSE "conflict"
        [] Current = plan                                           -> "before"
        [] pool = Barrier(plan, to) /\ console = plan.console       -> "barrier"
        [] OTHER                                                    -> "conflict"

\* Mutant: a pool that is neither is taken for the state before.
PhaseLenient(to) ==
  LET plan == journal[to].plan
  IN  CASE Published(to)                 -> IF Finalized(to) THEN "done" ELSE "conflict"
        [] pool = Barrier(plan, to)      -> IF console = AfterConsole(plan) THEN "console" ELSE "barrier"
        [] OTHER                         -> "before"

\* phase(): the stores must be exactly one of the states apply leaves behind.
Phase(to) ==
  LET plan == journal[to].plan
      pending == pool = Barrier(plan, to)
  IN  CASE Published(to)                                -> IF Finalized(to) THEN "done" ELSE "conflict"
        [] Current = plan                               -> "before"
        [] pending /\ console = AfterConsole(plan)      -> "console"
        [] pending /\ console = plan.console            -> "barrier"
        [] OTHER                                        -> "conflict"

\* requireOffline: lock files and a marker count, whether or not their owner lives.
Offline == (\A x \in Locks : lock[x] = None) /\ ~ marker

\* checkResourcePoolEvolution returns this plan.
Checked(to, plan) ==
  CASE journal[to].stage = "absent"   -> Offline /\ plan = Current /\ Derivable(plan)
    [] journal[to].stage = "complete" -> /\ plan = journal[to].plan
                                         /\ Phase(to) = "done" \/ (Phase(to) # "conflict" /\ Offline)
    [] OTHER                          -> FALSE

(***************************************************************************)
(* apply, one durable write at a time.                                     *)
(***************************************************************************)
Goes(o, pc) == proc' = [proc EXCEPT ![o].pc = pc]

\* The operator reviews a plan ...
Check(o, to) ==
  /\ proc[o].pc = "idle"
  /\ \E plan \in {Current, journal[to].plan} :
       /\ plan # None
       /\ Checked(to, plan)
       /\ proc' = [proc EXCEPT ![o] = [pc |-> "reviewed", to |-> to, plan |-> plan]]
  /\ UNCHANGED <<stores, papers, lock, ordinary, count>>

\* ... and later applies its digest: it is checked again, and a completed one is replayed.
Apply(o) ==
  /\ proc[o].pc = "reviewed"
  /\ proc' = [proc EXCEPT ![o] =
       IF Checked(proc[o].to, proc[o].plan) /\ ~ Published(proc[o].to) THEN [@ EXCEPT !.pc = "console"] ELSE Idle]
  /\ UNCHANGED <<stores, papers, lock, ordinary, count>>

AfterLock == [console |-> "pool", pool |-> "quota", quota |-> "load"]

\* The three locks, without waiting; the lock of a dead process is taken.
AcquireLock(o) ==
  /\ proc[o].pc \in Locks
  /\ LET x == proc[o].pc
     IN  IF lock[x] \in {None, Stale}
         THEN /\ lock' = [lock EXCEPT ![x] = o]
              /\ Goes(o, AfterLock[x])
         ELSE /\ Goes(o, "release")
              /\ UNCHANGED lock
  /\ UNCHANGED <<stores, papers, ordinary, count>>

\* Under the locks: an evolution to resume, or the plan derived again.
Load(o) ==
  /\ proc[o].pc = "load"
  /\ LET j == journal[proc[o].to]
     IN  Goes(o, CASE marker                                          -> "release"
                   [] j.stage = "absent"                              ->
                        IF Current = proc[o].plan /\ Derivable(Current) THEN "stage" ELSE "release"
                   [] j.stage = "complete" /\ j.plan = proc[o].plan   -> "phase"
                   [] OTHER                                           -> "release")
  /\ UNCHANGED <<stores, papers, lock, ordinary, count>>

NextStage == [absent |-> "directory", directory |-> "beforePool", beforePool |-> "afterPool", afterPool |-> "complete"]

Stage(o) ==
  /\ proc[o].pc = "stage"
  /\ LET next == NextStage[journal[proc[o].to].stage]
     IN  /\ journal' = [journal EXCEPT ![proc[o].to] = [stage |-> next, plan |-> proc[o].plan]]
         /\ Goes(o, IF next = "complete" THEN "phase" ELSE "stage")
  /\ UNCHANGED <<stores, ready, temp, lock, ordinary, count>>

\* The step each phase is continued with.
Continue == [before |-> "barrier", barrier |-> "open", console |-> "ready", done |-> "release", conflict |-> "release"]

\* removeConsoleTemporary: a whole copy goes, a partial one is held for inspection.
Resume(o) ==
  /\ proc[o].pc = "phase"
  /\ LET to == proc[o].to
         next == Continue[Phase(to)]
     IN  IF next = "release" \/ temp[to] = "partial"
         THEN /\ Goes(o, "release")
              /\ UNCHANGED temp
         ELSE /\ Goes(o, next)
              /\ temp' = [temp EXCEPT ![to] = None]
  /\ UNCHANGED <<stores, journal, ready, lock, ordinary, count>>

PublishBarrier(o) ==
  /\ proc[o].pc = "barrier"
  /\ pool' = Barrier(proc[o].plan, proc[o].to)
  /\ Goes(o, IF console = AfterConsole(proc[o].plan) THEN "ready" ELSE "open")
  /\ UNCHANGED <<console, papers, lock, ordinary, count>>

\* The new console is written under its fixed temporary name and renamed.
OpenTemporary(o) ==
  /\ proc[o].pc = "open"
  /\ temp' = [temp EXCEPT ![proc[o].to] = "partial"]
  /\ Goes(o, "write")
  /\ UNCHANGED <<stores, journal, ready, lock, ordinary, count>>

WriteTemporary(o) ==
  /\ proc[o].pc = "write"
  /\ temp' = [temp EXCEPT ![proc[o].to] = "whole"]
  /\ Goes(o, "rename")
  /\ UNCHANGED <<stores, journal, ready, lock, ordinary, count>>

PublishConsole(o) ==
  /\ proc[o].pc = "rename"
  /\ console' = AfterConsole(proc[o].plan)
  /\ temp' = [temp EXCEPT ![proc[o].to] = None]
  /\ Goes(o, "ready")
  /\ UNCHANGED <<pool, journal, ready, lock, ordinary, count>>

WriteReady(o) ==
  /\ proc[o].pc = "ready"
  /\ ready' = ready \cup {proc[o].to}
  /\ Goes(o, "final")
  /\ UNCHANGED <<stores, journal, temp, lock, ordinary, count>>

\* The last publication lifts the barrier.
PublishPool(o) ==
  /\ proc[o].pc = "final"
  /\ IF Phase(proc[o].to) = "conflict" THEN UNCHANGED pool ELSE pool' = AfterPool(proc[o].plan, proc[o].to)
  /\ Goes(o, "release")
  /\ UNCHANGED <<console, papers, lock, ordinary, count>>

\* Quota, pool and console lock, one after the other.
Release(o) ==
  /\ proc[o].pc = "release"
  /\ IF lock.quota = o THEN lock' = [lock EXCEPT !.quota = None] /\ UNCHANGED proc
     ELSE IF lock.pool = o THEN lock' = [lock EXCEPT !.pool = None] /\ UNCHANGED proc
     ELSE /\ lock' = [lock EXCEPT !.console = IF @ = o THEN None ELSE @]
          /\ proc' = [proc EXCEPT ![o] = Idle]
  /\ UNCHANGED <<stores, papers, ordinary, count>>

Mishap == count.mishaps < MaxMishaps /\ count' = [count EXCEPT !.mishaps = @ + 1]

\* A write throws, before or after it took effect; its own temporary is removed.
Throw(o) ==
  /\ proc[o].pc \in {"stage", "phase", "barrier", "open", "write", "rename", "ready", "final"}
  /\ Mishap
  /\ temp' = IF proc[o].pc \in {"write", "rename"} THEN [temp EXCEPT ![proc[o].to] = None] ELSE temp
  /\ Goes(o, "release")
  /\ UNCHANGED <<stores, journal, ready, lock, ordinary>>

LeavesStale(owner) == lock' = [x \in Locks |-> IF lock[x] = owner THEN Stale ELSE lock[x]]

OperatorDies(o) ==
  /\ proc[o].pc # "idle"
  /\ Mishap
  /\ LeavesStale(o)
  /\ proc' = [proc EXCEPT ![o] = Idle]
  /\ UNCHANGED <<stores, papers, ordinary>>

(***************************************************************************)
(* The ordinary programs, from how they use the two stores and the locks.  *)
(***************************************************************************)
Free(x) == lock[x] \in {None, Stale}
Reads(c) == DecodesPool(pool, c) /\ DecodesConsole(console, c)

\* A console recovers what an earlier one left dispatching or what others ran.
Recovered(job, t) ==
  IF job.state \notin {"queued", "dispatching"} \/ (job.state = "queued" /\ t \notin DOMAIN pool.attempts) THEN job
  ELSE [job EXCEPT !.state = IF t \in DOMAIN pool.attempts /\ t \notin Unresolved(pool) THEN "settled" ELSE "unresolved"]

\* A console reads the pool before it takes its lock: behind a barrier it ends here.
OpenConsole(c) ==
  /\ starting = None
  /\ DecodesPool(pool, c)
  /\ starting' = c
  /\ UNCHANGED <<stores, papers, lock, session, flying, marker, proc, count>>

\* Under the lock both stores are read again.
StartConsole ==
  /\ starting # None
  /\ session = None
  /\ Free("console")
  /\ Reads(starting)
  /\ session' = starting
  /\ starting' = None
  /\ lock' = [lock EXCEPT !.console = "console"]
  /\ console' = IF console = None THEN [v5 |-> FALSE, origin |-> starting, jobs |-> Nothing]
                ELSE [console EXCEPT !.jobs = [t \in DOMAIN @ |-> Recovered(console.jobs[t], t)]]
  /\ UNCHANGED <<pool, papers, flying, marker, proc, count>>

\* An evolution came in between: the console gives its lock back.
RefuseConsole ==
  /\ starting # None
  /\ Free("console")
  /\ ~ Reads(starting)
  /\ starting' = None
  /\ lock' = [lock EXCEPT !.console = None]
  /\ UNCHANGED <<stores, papers, session, flying, marker, proc, count>>

\* The lock is not to be had, or the process ends before it tries.
LeaveConsole ==
  /\ starting # None
  /\ starting' = None
  /\ UNCHANGED <<stores, papers, lock, session, flying, marker, proc, count>>

SetJob(t, job) == console' = [console EXCEPT !.jobs = With(@, t, job)]

Submit(t) ==
  /\ session # None
  /\ t \in ConsoleTasks \ DOMAIN console.jobs
  /\ SetJob(t, [state |-> "queued", epoch |-> session])
  /\ UNCHANGED <<pool, papers, lock, ordinary, proc, count>>

\* A job of an earlier configuration is held: it can only be cancelled.
MoveJob(t, from, to) ==
  /\ session # None
  /\ t \in DOMAIN console.jobs
  /\ console.jobs[t].state = from
  /\ SetJob(t, [console.jobs[t] EXCEPT !.state = to])
  /\ UNCHANGED <<pool, papers, lock, ordinary, proc, count>>

Cancel(t) == MoveJob(t, "queued", "cancelled")
Dispatch(t) == MoveJob(t, "queued", "dispatching") /\ console.jobs[t].epoch = session /\ t \notin DOMAIN pool.attempts
Requeue(t) == MoveJob(t, "dispatching", "queued") /\ t \notin DOMAIN pool.attempts

\* A job takes the receipt of its own call, or the one another program recorded.
SettleJob(t) ==
  /\ t \in DOMAIN pool.attempts
  /\ \A f \in flying : f.task = t => f.by # "console"
  /\ \E from \in {"queued", "dispatching"} :
       MoveJob(t, from, IF t \in Unresolved(pool) THEN "unresolved" ELSE "settled")

\* A transaction of the pool ledger leaves no pool lock behind.
Transact(p) == Free("pool") /\ pool' = p /\ lock' = [lock EXCEPT !.pool = None]

Reserve(t, c, by) ==
  /\ t \notin DOMAIN pool.attempts
  /\ DecodesPool(pool, c)
  /\ Transact([pool EXCEPT !.attempts = With(@, t, [epoch |-> c, status |-> "reserved"])])
  /\ flying' = flying \cup {[task |-> t, cfg |-> c, by |-> by]}
  /\ UNCHANGED <<console, papers, session, starting, marker, proc, count>>

ConsoleReserves(t) ==
  /\ session # None /\ t \in DOMAIN console.jobs
  /\ console.jobs[t].state = "dispatching"
  /\ Reserve(t, session, "console")

RunnerReserves(t, c) == t \in RunnerTasks /\ Reserve(t, c, "runner")

Settle(f) ==
  /\ DecodesPool(pool, f.cfg)
  /\ \E status \in {"completed", "uncertain"} : Transact([pool EXCEPT !.attempts[f.task].status = status])
  /\ flying' = flying \ {f}
  /\ UNCHANGED <<console, papers, session, starting, marker, proc, count>>

\* The ledger stays busy for the whole wait: the receipt stays reserved.
SettleFails(f) ==
  /\ ~ Free("pool")
  /\ flying' = flying \ {f}
  /\ UNCHANGED <<stores, papers, lock, session, starting, marker, proc, count>>

RunnerDies(f) ==
  /\ f.by = "runner"
  /\ Mishap
  /\ flying' = flying \ {f}
  /\ UNCHANGED <<stores, papers, lock, session, starting, marker, proc>>

CloseConsole ==
  /\ session # None
  /\ \A f \in flying : f.by # "console"
  /\ session' = None
  /\ lock' = [lock EXCEPT !.console = None]
  /\ UNCHANGED <<stores, papers, starting, flying, marker, proc, count>>

ConsoleDies ==
  /\ session # None
  /\ Mishap
  /\ session' = None
  /\ LeavesStale("console")
  /\ flying' = {f \in flying : f.by # "console"}
  /\ UNCHANGED <<stores, papers, starting, marker, proc>>

\* The collector never opens the pool; a marker left behind is recovered or keeps it out.
Collect ==
  /\ Free("quota")
  /\ count.collections < MaxCollections
  /\ count' = [count EXCEPT !.collections = @ + 1]
  /\ lock' = [lock EXCEPT !.quota = "collector"]
  /\ marker' = TRUE
  /\ UNCHANGED <<stores, papers, session, starting, flying, proc>>

EndCollection ==
  /\ lock.quota = "collector"
  /\ lock' = [lock EXCEPT !.quota = None]
  /\ marker' = FALSE
  /\ UNCHANGED <<stores, papers, session, starting, flying, proc, count>>

CollectorDies ==
  /\ lock.quota = "collector"
  /\ Mishap
  /\ LeavesStale("collector")
  /\ UNCHANGED <<stores, papers, ordinary, proc>>

\* A task runner or an operator whose configuration the pool refuses, and a collector that
\* ends before it contacts anyone, have taken the lock of the dead process and give it back.
RefusedStart(x) ==
  /\ lock[x] = Stale
  /\ x = "pool" => \E c \in Configs : ~ DecodesPool(pool, c)
  /\ lock' = [lock EXCEPT ![x] = None]
  /\ UNCHANGED <<stores, papers, ordinary, proc, count>>

Evolve(o) ==
  \/ Apply(o) \/ AcquireLock(o) \/ Load(o) \/ Stage(o) \/ Resume(o) \/ PublishBarrier(o)
  \/ OpenTemporary(o) \/ WriteTemporary(o) \/ PublishConsole(o) \/ WriteReady(o) \/ PublishPool(o) \/ Release(o)

Ordinary ==
  \/ \E c \in Configs : OpenConsole(c) \/ \E t \in Tasks : RunnerReserves(t, c)
  \/ StartConsole \/ RefuseConsole \/ LeaveConsole
  \/ \E t \in ConsoleTasks : Submit(t) \/ Cancel(t) \/ Dispatch(t) \/ Requeue(t) \/ SettleJob(t) \/ ConsoleReserves(t)
  \/ \E f \in flying : Settle(f) \/ SettleFails(f) \/ RunnerDies(f)
  \/ CloseConsole \/ ConsoleDies
  \/ Collect \/ EndCollection \/ CollectorDies
  \/ \E x \in {"pool", "quota"} : RefusedStart(x)

Next ==
  \/ \E o \in Operators : Evolve(o) \/ Throw(o) \/ OperatorDies(o) \/ \E to \in Wants[o] : Check(o, to)
  \/ Ordinary

Spec == Init /\ [][Next]_vars

\* An apply that started goes on, somebody applies an interrupted upgrade again, a
\* collection ends, and task runners and collectors are tried behind the barrier.
FairSpec ==
  /\ Spec
  /\ \A o \in Operators : WF_vars(Evolve(o)) /\ \A to \in Wants[o] : WF_vars(Check(o, to))
  /\ WF_vars(EndCollection)
  /\ \A x \in {"pool", "quota"} : WF_vars(RefusedStart(x))

(***************************************************************************)
(* Properties.                                                             *)
(***************************************************************************)
Pcs == Locks \cup {"idle", "reviewed", "load", "stage", "phase", "barrier", "open", "write", "rename", "ready", "final", "release"}

\* A journal holds a plan from its first file on, a copy of the console exists only
\* behind the barrier, and whoever writes a store holds the three locks.
TypeOK ==
  /\ pool \in Pools /\ pool.barrier \in {None, pool.active}
  /\ console \in Consoles \cup {None}
  /\ \A to \in Targets : /\ journal[to].stage = "absent" \/ Derivable(journal[to].plan)
                         /\ temp[to] # None => pool.barrier = to
  /\ \A o \in Operators : /\ proc[o].pc \in Pcs
                          /\ proc[o].pc \in Pcs \ (Locks \cup {"idle", "reviewed", "release"}) =>
                               \A x \in Locks : lock[x] = o
  /\ starting \in Configs \cup {None}
  /\ session # None => lock.console = "console"

\* No program ever works on two stores of different configurations: when the barrier is
\* not there the console file belongs to the active configuration, a console that runs
\* can still read both stores, and a worker in flight finds the ledger its result goes to.
StoresAgree ==
  /\ pool.barrier = None => DecodesConsole(console, pool.active)
  /\ session # None => Reads(session)
  /\ \A f \in flying : DecodesPool(pool, f.cfg)

\* No evolution, resumed or replayed whenever, loses or changes a recorded receipt or a
\* finished job, although the stores were read long before they are replaced.
HistoryKept ==
  [][/\ \A t \in DOMAIN pool.attempts :
          /\ t \in DOMAIN pool'.attempts
          /\ pool'.attempts[t].epoch = pool.attempts[t].epoch
          /\ t \in Unresolved(pool) \/ pool'.attempts[t] = pool.attempts[t]
     /\ console # None =>
          /\ console' # None
          /\ \A t \in DOMAIN console.jobs :
               /\ t \in DOMAIN console'.jobs
               /\ console'.jobs[t].epoch = console.jobs[t].epoch
               /\ console.jobs[t].state \in {"queued", "dispatching"} \/ console'.jobs[t] = console.jobs[t]]_vars

\* What keeps apply from resuming: a half-written copy of the console, the marker of a
\* quota collector that died, or the console lock of a dead process, which no program
\* takes behind the barrier because a console is refused before it asks for the lock.
Held == marker \/ lock.console = Stale \/ \E to \in Targets : temp[to] = "partial"

\* Whoever failed wherever, rerunning apply lifts the barrier again, unless one of these
\* three is left.  An apply that dies leaves the third (docs/RESOURCE-POOLS.md does not
\* say so); one that throws does not, and no other leftover keeps it from resuming.
BarrierLifted == []<>(pool.barrier = None) \/ <>[]Held
=============================================================================
