------------------------ MODULE PoolEvolutionProofs ------------------------
(***************************************************************************)
(* Proofs about PoolEvolution for any number of operators, targets and     *)
(* tasks.  Whoever writes a store holds the three locks, so what it read   *)
(* of the stores is still true when it writes.                             *)
(***************************************************************************)
EXTENDS PoolEvolution, TLAPS

Stages == {"absent", "directory", "beforePool", "afterPool", "complete"}
Journals == [stage : Stages, plan : Plans \cup {None}]
Flights == [task : Tasks, cfg : Configs, by : {"console", "runner"}]
Procs == [pc : Pcs, to : Targets \cup {None}, plan : Plans \cup {None}]
Holders == Operators \cup {None, Stale, "console", "collector"}

(***************************************************************************)
(* The inductive invariant.                                                *)
(***************************************************************************)
StoresTyped == pool \in Pools /\ pool.barrier \in {None, pool.active} /\ console \in Consoles \cup {None}

PapersTyped == journal \in [Targets -> Journals] /\ ready \subseteq Targets /\ temp \in [Targets -> {None, "partial", "whole"}]

RestTyped ==
  /\ lock \in [Locks -> Holders]
  /\ session \in Configs \cup {None}
  /\ flying \subseteq Flights
  /\ proc \in [Operators -> Procs]

Typed == StoresTyped /\ PapersTyped /\ RestTyped

Inner == {"load", "stage", "phase", "barrier", "open", "write", "rename", "ready", "final"}

\* The locks are taken in one order, and those of an evolution exclude a running console.
LocksKept ==
  /\ \A o \in Operators :
       /\ proc[o].pc \in Inner => \A x \in Locks : lock[x] = o
       /\ proc[o].pc \in {"pool", "quota"} => lock.console = o
       /\ proc[o].pc = "quota" => lock.pool = o
  /\ session # None => lock.console = "console"

JournalsKept == \A to \in Targets : journal[to].stage # "absent" => journal[to].plan \in Plans /\ Derivable(journal[to].plan)

CopiesKept == \A to \in Targets : temp[to] # None => pool.barrier = to

\* What an operator in apply knows of the stores.
Knows(o) ==
  LET to == proc[o].to
      plan == proc[o].plan
  IN  /\ proc[o].pc # "idle" => to \in Targets /\ plan \in Plans
      /\ proc[o].pc = "stage" => journal[to].stage # "complete" /\ Current = plan /\ Derivable(plan)
      /\ proc[o].pc \in {"phase", "barrier", "open", "write", "rename", "ready", "final"} =>
           journal[to] = [stage |-> "complete", plan |-> plan]
      /\ proc[o].pc = "barrier" => Current = plan
      /\ proc[o].pc \in {"open", "write", "rename"} => pool = Barrier(plan, to) /\ console = plan.console
      /\ proc[o].pc \in {"ready", "final"} =>
           pool = Barrier(plan, to) /\ console = AfterConsole(plan) /\ temp[to] = None

\* A worker in flight is the only one of its task, and its receipt is open.
FlightsKept ==
  /\ \A f \in flying : /\ DecodesPool(pool, f.cfg)
                       /\ f.task \in DOMAIN pool.attempts /\ pool.attempts[f.task].status = "reserved"
  /\ \A f, g \in flying : f.task = g.task => f = g

StoresMatch ==
  /\ pool.barrier = None => DecodesConsole(console, pool.active)
  /\ session # None => Reads(session) /\ console # None

\* A console that is about to start knows its configuration.
StartingTyped == starting \in Configs \cup {None}

EvolutionInv ==
  Typed /\ LocksKept /\ JournalsKept /\ CopiesKept /\ (\A o \in Operators : Knows(o)) /\ FlightsKept /\ StoresMatch

\* What HistoryKept says of one step, and what every step must establish.
HistoryStep ==
  /\ \A t \in DOMAIN pool.attempts :
       /\ t \in DOMAIN pool'.attempts
       /\ pool'.attempts[t].epoch = pool.attempts[t].epoch
       /\ t \in Unresolved(pool) \/ pool'.attempts[t] = pool.attempts[t]
  /\ console # None =>
       /\ console' # None
       /\ \A t \in DOMAIN console.jobs :
            /\ t \in DOMAIN console'.jobs
            /\ console'.jobs[t].epoch = console.jobs[t].epoch
            /\ console.jobs[t].state \in {"queued", "dispatching"} \/ console'.jobs[t] = console.jobs[t]

Finished == EvolutionInv' /\ HistoryStep

(***************************************************************************)
(* Operators.                                                              *)
(***************************************************************************)
\* An operator that goes on leaves the others where they are.
LEMMA GoesFields ==
  ASSUME proc \in [Operators -> Procs], NEW o \in Operators, NEW pc \in Pcs, Goes(o, pc)
  PROVE  /\ proc' \in [Operators -> Procs]
         /\ proc'[o].pc = pc /\ proc'[o].to = proc[o].to /\ proc'[o].plan = proc[o].plan
         /\ \A q \in Operators \ {o} : proc'[q] = proc[q]
BY DEF Goes, Procs

\* One operator at a time holds the three locks.
LEMMA OneInner ==
  ASSUME LocksKept, NEW o \in Operators, NEW q \in Operators, proc[o].pc \in Inner, proc[q].pc \in Inner
  PROVE  o = q
BY DEF LocksKept, Locks

\* Who is not inside knows only what it wants.
LEMMA Outsider ==
  ASSUME NEW o \in Operators, proc[o].pc \notin Inner, proc[o].pc # "idle" => proc[o].to \in Targets /\ proc[o].plan \in Plans
  PROVE  Knows(o)
BY DEF Knows, Inner

\* A step of one operator that writes neither store.
LEMMA OperatorStep ==
  ASSUME EvolutionInv, NEW o \in Operators, UNCHANGED <<stores, session, flying>>,
         PapersTyped', lock' \in [Locks -> Holders], proc' \in [Operators -> Procs],
         LocksKept', JournalsKept', CopiesKept', Knows(o)',
         \A q \in Operators \ {o} : proc'[q] = proc[q],
         proc[o].pc \in Inner \/ UNCHANGED <<journal, temp>>
  PROVE  Finished
<1>1. UNCHANGED <<pool, console>>
  BY DEF stores
<1>2. StoresTyped' /\ FlightsKept' /\ StoresMatch' /\ HistoryStep
  BY <1>1 DEF EvolutionInv, Typed, StoresTyped, FlightsKept, StoresMatch, HistoryStep, Reads
<1>3. Typed'
  BY <1>2 DEF EvolutionInv, Typed, RestTyped
<1>4. ASSUME NEW q \in Operators PROVE Knows(q)'
  <2>1. CASE q = o
    BY <2>1
  <2>2. CASE q # o /\ UNCHANGED <<journal, temp>>
    BY <1>1, <2>2 DEF EvolutionInv, Knows, Current
  <2>3. CASE q # o /\ proc[o].pc \in Inner
    <3>1. proc'[q] = proc[q] /\ proc[q].pc \notin Inner /\ Knows(q)
      BY <2>3, OneInner DEF EvolutionInv
    <3> QED  BY <3>1 DEF Knows, Inner
  <2> QED  BY <2>1, <2>2, <2>3
<1> QED  BY <1>2, <1>3, <1>4 DEF EvolutionInv, Finished

\* The locks of the others do not matter to an operator that goes on under its own.
LEMMA SameLocks ==
  ASSUME EvolutionInv, NEW o \in Operators, UNCHANGED <<lock, session>>,
         \A q \in Operators \ {o} : proc'[q] = proc[q],
         proc'[o].pc \notin {"pool", "quota"}, proc'[o].pc \in Inner => proc[o].pc \in Inner
  PROVE  LocksKept'
BY DEF EvolutionInv, LocksKept

\* A step outside the locks, or one that leaves them to be given back.
LEMMA OutsideStep ==
  ASSUME EvolutionInv, NEW o \in Operators, UNCHANGED <<stores, papers, session, flying>>,
         lock' \in [Locks -> Holders], proc' \in [Operators -> Procs], LocksKept',
         \A q \in Operators \ {o} : proc'[q] = proc[q],
         proc'[o].pc \notin Inner, proc'[o].pc # "idle" => proc'[o].to \in Targets /\ proc'[o].plan \in Plans
  PROVE  Finished
<1>1. UNCHANGED <<pool, console, journal, ready, temp>>
  BY DEF stores, papers
<1>2. PapersTyped' /\ JournalsKept' /\ CopiesKept'
  BY <1>1 DEF EvolutionInv, Typed, PapersTyped, JournalsKept, CopiesKept
<1>3. Knows(o)'
  BY DEF Knows, Inner
<1> QED  BY <1>1, <1>2, <1>3, OperatorStep

\* checkResourcePoolEvolution returns a plan of what it read, or the journal's.
LEMMA CheckedPlan ==
  ASSUME EvolutionInv, NEW to \in Targets, NEW plan, Checked(to, plan)
  PROVE  plan \in Plans
<1>1. Current \in Plans
  BY DEF EvolutionInv, Typed, StoresTyped, Current, Plans
<1>2. journal[to].stage = "complete" => journal[to].plan \in Plans
  BY DEF EvolutionInv, JournalsKept
<1> QED  BY <1>1, <1>2 DEF Checked

\* A review changes nothing but the operator's mind.
LEMMA CheckStep ==
  ASSUME EvolutionInv, NEW o \in Operators, NEW to \in Wants[o], Check(o, to)
  PROVE  Finished
<1>1. to \in Targets
  BY EvolutionAssumption
<1>2. PICK plan : Checked(to, plan) /\ proc' = [proc EXCEPT ![o] = [pc |-> "reviewed", to |-> to, plan |-> plan]]
  BY DEF Check
<1>3. plan \in Plans
  BY <1>1, <1>2, CheckedPlan
<1>4. /\ proc' \in [Operators -> Procs] /\ proc'[o].pc = "reviewed" /\ proc'[o].to = to /\ proc'[o].plan = plan
      /\ \A q \in Operators \ {o} : proc'[q] = proc[q]
  BY <1>1, <1>2, <1>3 DEF EvolutionInv, Typed, RestTyped, Procs, Pcs
<1>5. UNCHANGED <<stores, papers, lock, session, flying>>
  BY DEF Check, ordinary
<1>6. LocksKept'
  BY <1>4, <1>5, SameLocks DEF Inner
<1> QED  BY <1>1, <1>3, <1>4, <1>5, <1>6, OutsideStep DEF Inner, EvolutionInv, Typed, RestTyped

\* The reviewed plan is checked again before the first lock.
LEMMA ApplyStep ==
  ASSUME EvolutionInv, NEW o \in Operators, Apply(o)
  PROVE  Finished
<1>1. /\ proc[o].pc = "reviewed"
      /\ proc' = [proc EXCEPT ![o] = [@ EXCEPT !.pc = "console"]] \/ proc' = [proc EXCEPT ![o] = Idle]
      /\ UNCHANGED <<stores, papers, lock, session, flying>>
  BY DEF Apply, ordinary
<1>2. proc[o].to \in Targets /\ proc[o].plan \in Plans /\ proc \in [Operators -> Procs]
  BY <1>1 DEF EvolutionInv, Typed, RestTyped, Knows
<1>3. /\ proc' \in [Operators -> Procs] /\ proc'[o].pc \in {"console", "idle"}
      /\ proc'[o].pc # "idle" => proc'[o].to = proc[o].to /\ proc'[o].plan = proc[o].plan
      /\ \A q \in Operators \ {o} : proc'[q] = proc[q]
  BY <1>1, <1>2 DEF Procs, Idle, Pcs, Locks
<1>4. LocksKept'
  BY <1>1, <1>3, SameLocks DEF Inner
<1> QED  BY <1>1, <1>2, <1>3, <1>4, OutsideStep DEF Inner, EvolutionInv, Typed, RestTyped

\* The locks are taken in their order; the last one lets the operator in.
LEMMA AcquireLockStep ==
  ASSUME EvolutionInv, NEW o \in Operators, AcquireLock(o)
  PROVE  Finished
<1> DEFINE x == proc[o].pc
<1>1. /\ x \in Locks
      /\ UNCHANGED <<stores, papers, session, flying>>
      /\ \/ lock[x] \in {None, Stale} /\ lock' = [lock EXCEPT ![x] = o] /\ Goes(o, AfterLock[x])
         \/ Goes(o, "release") /\ UNCHANGED lock
  BY DEF AcquireLock, ordinary
<1>2. /\ proc \in [Operators -> Procs] /\ lock \in [Locks -> Holders]
      /\ proc[o].to \in Targets /\ proc[o].plan \in Plans
  BY <1>1 DEF EvolutionInv, Typed, RestTyped, Knows, Locks
<1>3. CASE Goes(o, "release") /\ UNCHANGED lock
  <2>1. /\ proc' \in [Operators -> Procs] /\ proc'[o].pc = "release"
        /\ proc'[o].to = proc[o].to /\ proc'[o].plan = proc[o].plan
        /\ \A q \in Operators \ {o} : proc'[q] = proc[q]
    BY <1>2, <1>3, GoesFields DEF Pcs
  <2>2. LocksKept'
    BY <1>1, <1>3, <2>1, SameLocks DEF Inner
  <2> QED  BY <1>1, <1>2, <1>3, <2>1, <2>2, OutsideStep DEF Inner
<1>4. CASE lock[x] \in {None, Stale} /\ lock' = [lock EXCEPT ![x] = o] /\ Goes(o, AfterLock[x])
  <2>1. AfterLock[x] \in {"pool", "quota", "load"} /\ AfterLock[x] \in Pcs
    BY <1>1 DEF AfterLock, Locks, Pcs
  <2>2. /\ proc' \in [Operators -> Procs] /\ proc'[o].pc = AfterLock[x]
        /\ proc'[o].to = proc[o].to /\ proc'[o].plan = proc[o].plan
        /\ \A q \in Operators \ {o} : proc'[q] = proc[q]
    BY <1>2, <1>4, <2>1, GoesFields
  <2>3. lock' \in [Locks -> Holders] /\ lock'[x] = o /\ \A y \in Locks \ {x} : lock'[y] = lock[y]
    BY <1>1, <1>2, <1>4 DEF Holders
  <2>4. \A q \in Operators : lock[x] # q
    BY <1>4, EvolutionAssumption
  <2>5. LocksKept'
    <3>1. ASSUME NEW q \in Operators \ {o}
          PROVE  /\ proc'[q].pc \in Inner => \A y \in Locks : lock'[y] = q
                 /\ proc'[q].pc \in {"pool", "quota"} => lock'.console = q
                 /\ proc'[q].pc = "quota" => lock'.pool = q
      BY <1>1, <2>2, <2>3, <2>4 DEF EvolutionInv, LocksKept, Locks
    <3>2. /\ proc'[o].pc \in Inner => \A y \in Locks : lock'[y] = o
          /\ proc'[o].pc \in {"pool", "quota"} => lock'.console = o
          /\ proc'[o].pc = "quota" => lock'.pool = o
      BY <1>1, <2>2, <2>3 DEF EvolutionInv, LocksKept, Locks, AfterLock, Inner
    <3>3. session' # None => lock'.console = "console"
      <4>1. SUFFICES ASSUME session # None PROVE lock'.console = "console"
        BY <1>1
      <4>2. lock.console = "console"
        BY <4>1 DEF EvolutionInv, LocksKept
      <4>3. x # "console"
        BY <1>4, <4>2, EvolutionAssumption
      <4> QED  BY <2>3, <4>2, <4>3 DEF Locks
    <3> QED  BY <3>1, <3>2, <3>3 DEF LocksKept
  <2>6. Knows(o)'
    BY <1>2, <2>1, <2>2 DEF Knows
  <2>7. UNCHANGED <<pool, journal, ready, temp>>
    BY <1>1 DEF stores, papers
  <2>8. PapersTyped' /\ JournalsKept' /\ CopiesKept'
    BY <2>7 DEF EvolutionInv, Typed, PapersTyped, JournalsKept, CopiesKept
  <2> QED  BY <1>1, <2>2, <2>3, <2>5, <2>6, <2>7, <2>8, OperatorStep
<1> QED  BY <1>1, <1>3, <1>4

\* Without a barrier there is no copy of the console.
LEMMA NoCopies ==
  ASSUME EvolutionInv, pool.barrier = None
  PROVE  \A to \in Targets : temp[to] = None
BY EvolutionAssumption DEF EvolutionInv, CopiesKept, Configs

\* What the operator in apply knows to begin with.
LEMMA InnerFacts ==
  ASSUME EvolutionInv, NEW o \in Operators, proc[o].pc \in Inner
  PROVE  /\ proc \in [Operators -> Procs] /\ lock \in [Locks -> Holders] /\ temp \in [Targets -> {None, "partial", "whole"}]
         /\ proc[o].to \in Targets /\ proc[o].plan \in Plans
         /\ \A x \in Locks : lock[x] = o
         /\ session = None
<1>1. /\ proc \in [Operators -> Procs] /\ lock \in [Locks -> Holders] /\ temp \in [Targets -> {None, "partial", "whole"}]
      /\ \A x \in Locks : lock[x] = o
  BY DEF EvolutionInv, Typed, RestTyped, PapersTyped, LocksKept
<1>2. session = None
  BY <1>1, EvolutionAssumption DEF EvolutionInv, LocksKept, Locks
<1>3. proc[o].to \in Targets /\ proc[o].plan \in Plans
  BY DEF EvolutionInv, Knows, Inner
<1> QED  BY <1>1, <1>2, <1>3

\* A step under the locks that leaves the locks and both stores alone.
LEMMA InnerStep ==
  ASSUME EvolutionInv, NEW o \in Operators, proc[o].pc \in Inner, NEW pc \in Inner \cup {"release"}, Goes(o, pc),
         UNCHANGED <<stores, lock, session, flying>>,
         PapersTyped', JournalsKept', CopiesKept', Knows(o)'
  PROVE  Finished
<1>1. proc \in [Operators -> Procs] /\ lock \in [Locks -> Holders]
  BY InnerFacts
<1>2. pc \in Pcs
  BY DEF Inner, Pcs
<1>3. /\ proc' \in [Operators -> Procs] /\ proc'[o].pc = pc
      /\ \A q \in Operators \ {o} : proc'[q] = proc[q]
  BY <1>1, <1>2, GoesFields
<1>4. LocksKept'
  BY <1>3, SameLocks DEF Inner
<1> QED  BY <1>1, <1>3, <1>4, OperatorStep

\* Under the locks the plan is derived again, or an evolution is resumed.
LEMMA LoadStep ==
  ASSUME EvolutionInv, NEW o \in Operators, Load(o)
  PROVE  Finished
<1> DEFINE to == proc[o].to
           plan == proc[o].plan
           j == journal[to]
<1>1. proc[o].pc = "load" /\ UNCHANGED <<stores, papers, lock, session, flying>>
  BY DEF Load, ordinary
<1>2. PICK pc \in {"release", "stage", "phase"} :
        /\ Goes(o, pc)
        /\ pc = "stage" => j.stage = "absent" /\ Current = plan /\ Derivable(plan)
        /\ pc = "phase" => j.stage = "complete" /\ j.plan = plan
  BY DEF Load
<1>3. proc[o].pc \in Inner /\ pc \in Inner \cup {"release"} /\ pc \in Pcs
  BY <1>1 DEF Inner, Pcs
<1>4. UNCHANGED <<pool, console, journal, ready, temp>>
  BY <1>1 DEF stores, papers
<1>5. PapersTyped' /\ JournalsKept' /\ CopiesKept'
  BY <1>4 DEF EvolutionInv, Typed, PapersTyped, JournalsKept, CopiesKept
<1>6. to \in Targets /\ plan \in Plans /\ proc \in [Operators -> Procs] /\ journal \in [Targets -> Journals]
  BY <1>3, InnerFacts DEF EvolutionInv, Typed, PapersTyped
<1>7. proc'[o].pc = pc /\ proc'[o].to = to /\ proc'[o].plan = plan
  BY <1>2, <1>3, <1>6, GoesFields
<1>8. Knows(o)'
  <2>1. CASE pc = "release"
    BY <1>6, <1>7, <2>1 DEF Knows
  <2>2. CASE pc = "stage"
    BY <1>2, <1>4, <1>6, <1>7, <2>2 DEF Knows, Current
  <2>3. CASE pc = "phase"
    <3>1. j = [stage |-> "complete", plan |-> plan]
      BY <1>2, <1>6, <2>3 DEF Journals
    <3> QED  BY <1>4, <1>6, <1>7, <2>3, <3>1 DEF Knows
  <2> QED  BY <2>1, <2>2, <2>3
<1> QED  BY <1>1, <1>2, <1>3, <1>5, <1>8, InnerStep

\* The journal is written file by file before any store is.
LEMMA StageStep ==
  ASSUME EvolutionInv, NEW o \in Operators, Stage(o)
  PROVE  Finished
<1> DEFINE to == proc[o].to
           plan == proc[o].plan
           next == NextStage[journal[to].stage]
           pc == IF next = "complete" THEN "phase" ELSE "stage"
<1>1. /\ proc[o].pc = "stage" /\ UNCHANGED <<stores, ready, temp, lock, session, flying>>
      /\ journal' = [journal EXCEPT ![to] = [stage |-> next, plan |-> plan]]
      /\ Goes(o, pc)
  BY DEF Stage, ordinary
<1>2. proc[o].pc \in Inner /\ pc \in Inner \cup {"release"} /\ pc \in Pcs
  BY <1>1 DEF Inner, Pcs
<1>3. /\ to \in Targets /\ plan \in Plans /\ proc \in [Operators -> Procs] /\ journal \in [Targets -> Journals]
      /\ journal[to].stage # "complete" /\ Current = plan /\ Derivable(plan)
  BY <1>1, <1>2, InnerFacts DEF EvolutionInv, Typed, PapersTyped, Knows
<1>4. next \in Stages \ {"absent"}
  <2>1. journal[to].stage \in Stages \ {"complete"}
    BY <1>3 DEF Journals
  <2> QED  BY <2>1 DEF NextStage, Stages
<1> HIDE DEF next
<1>5. /\ journal' \in [Targets -> Journals] /\ journal'[to] = [stage |-> next, plan |-> plan]
      /\ \A d \in Targets \ {to} : journal'[d] = journal[d]
  BY <1>1, <1>3, <1>4 DEF Journals
<1>6. PapersTyped' /\ JournalsKept' /\ CopiesKept'
  BY <1>1, <1>3, <1>5 DEF EvolutionInv, Typed, PapersTyped, JournalsKept, CopiesKept, stores
<1>7. proc'[o].pc = pc /\ proc'[o].to = to /\ proc'[o].plan = plan
  BY <1>1, <1>2, <1>3, GoesFields
<1>8. Current' = Current
  BY <1>1 DEF stores, Current
<1>9. Knows(o)'
  BY <1>3, <1>5, <1>7, <1>8 DEF Knows
<1> QED  BY <1>1, <1>2, <1>6, <1>9, InnerStep

\* What the phases say of the stores.
LEMMA PhaseFacts ==
  ASSUME NEW to
  PROVE  LET plan == journal[to].plan
         IN  /\ Phase(to) \in {"before", "barrier", "console", "done", "conflict"}
             /\ Phase(to) = "before" => Current = plan
             /\ Phase(to) = "barrier" => pool = Barrier(plan, to) /\ console = plan.console
             /\ Phase(to) = "console" => pool = Barrier(plan, to) /\ console = AfterConsole(plan)
BY DEF Phase

\* An evolution goes on from the phase the stores are in.
LEMMA ResumeStep ==
  ASSUME EvolutionInv, NEW o \in Operators, Resume(o)
  PROVE  Finished
<1> DEFINE to == proc[o].to
           plan == proc[o].plan
<1>1. proc[o].pc = "phase" /\ UNCHANGED <<stores, journal, ready, lock, session, flying>>
  BY DEF Resume, ordinary
<1>2. proc[o].pc \in Inner
  BY <1>1 DEF Inner
<1>3. /\ to \in Targets /\ plan \in Plans /\ proc \in [Operators -> Procs]
      /\ temp \in [Targets -> {None, "partial", "whole"}] /\ journal[to] = [stage |-> "complete", plan |-> plan]
  BY <1>1, <1>2, InnerFacts DEF EvolutionInv, Knows
<1>4. PICK pc \in {"barrier", "open", "ready", "release"} :
        /\ Goes(o, pc)
        /\ \/ pc = "release" /\ UNCHANGED temp
           \/ temp' = [temp EXCEPT ![to] = None]
        /\ pc = "barrier" => Current = plan
        /\ pc = "open" => pool = Barrier(plan, to) /\ console = plan.console
        /\ pc = "ready" => pool = Barrier(plan, to) /\ console = AfterConsole(plan) /\ temp' = [temp EXCEPT ![to] = None]
  <2>1. journal[to].plan = plan
    BY <1>3
  <2>2. Continue[Phase(to)] = "barrier" => Phase(to) = "before"
    BY PhaseFacts DEF Continue
  <2>3. Continue[Phase(to)] = "open" => Phase(to) = "barrier"
    BY PhaseFacts DEF Continue
  <2>4. Continue[Phase(to)] = "ready" => Phase(to) = "console"
    BY PhaseFacts DEF Continue
  <2>5. Continue[Phase(to)] \in {"barrier", "open", "ready", "release"}
    BY PhaseFacts DEF Continue
  <2>6. \/ Goes(o, "release") /\ UNCHANGED temp
        \/ Continue[Phase(to)] # "release" /\ Goes(o, Continue[Phase(to)]) /\ temp' = [temp EXCEPT ![to] = None]
    BY DEF Resume
  <2>7. /\ Phase(to) = "before" => Current = plan
        /\ Phase(to) = "barrier" => pool = Barrier(plan, to) /\ console = plan.console
        /\ Phase(to) = "console" => pool = Barrier(plan, to) /\ console = AfterConsole(plan)
    BY <2>1, PhaseFacts
  <2> QED  BY <2>2, <2>3, <2>4, <2>5, <2>6, <2>7
<1>5. pc \in Inner \cup {"release"} /\ pc \in Pcs
  BY DEF Inner, Pcs
<1>6. /\ temp' \in [Targets -> {None, "partial", "whole"}]
      /\ \A d \in Targets : temp'[d] \in {None, temp[d]}
      /\ pc = "ready" => temp'[to] = None
  BY <1>3, <1>4
<1>7. PapersTyped' /\ JournalsKept' /\ CopiesKept'
  BY <1>1, <1>6 DEF EvolutionInv, Typed, PapersTyped, JournalsKept, CopiesKept, stores
<1>8. proc'[o].pc = pc /\ proc'[o].to = to /\ proc'[o].plan = plan
  BY <1>3, <1>4, <1>5, GoesFields
<1>9. Current' = Current /\ pool' = pool /\ console' = console
  BY <1>1 DEF stores, Current
<1>10. Knows(o)'
  BY <1>1, <1>3, <1>4, <1>6, <1>8, <1>9 DEF Knows
<1> QED  BY <1>1, <1>2, <1>4, <1>5, <1>7, <1>10, InnerStep

\* The pool behind the barrier, and the one that is published in the end.
LEMMA BarrierFields ==
  ASSUME NEW plan \in Plans, NEW to \in Targets
  PROVE  /\ Barrier(plan, to) \in Pools /\ Barrier(plan, to).barrier = to /\ Barrier(plan, to).active = to
         /\ Barrier(plan, to).attempts = plan.pool.attempts
         /\ AfterPool(plan, to) \in Pools /\ AfterPool(plan, to).barrier = plan.pool.barrier
         /\ AfterPool(plan, to).active = to /\ AfterPool(plan, to).attempts = plan.pool.attempts
BY DEF Barrier, AfterPool, Plans, Pools, Configs

\* The copy of the console, half written and whole.
LEMMA TemporaryStep ==
  ASSUME EvolutionInv, NEW o \in Operators, OpenTemporary(o) \/ WriteTemporary(o)
  PROVE  Finished
<1> DEFINE to == proc[o].to
           plan == proc[o].plan
<1>1. PICK pc \in {"write", "rename"} :
        /\ proc[o].pc \in {"open", "write"} /\ Goes(o, pc) /\ UNCHANGED <<stores, journal, ready, lock, session, flying>>
        /\ \E v \in {"partial", "whole"} : temp' = [temp EXCEPT ![to] = v]
  BY DEF OpenTemporary, WriteTemporary, ordinary
<1>2. proc[o].pc \in Inner /\ pc \in Inner \cup {"release"} /\ pc \in Pcs
  BY <1>1 DEF Inner, Pcs
<1>3. /\ to \in Targets /\ plan \in Plans /\ proc \in [Operators -> Procs]
      /\ temp \in [Targets -> {None, "partial", "whole"}] /\ journal[to] = [stage |-> "complete", plan |-> plan]
      /\ pool = Barrier(plan, to) /\ console = plan.console
  BY <1>1, <1>2, InnerFacts DEF EvolutionInv, Knows
<1>4. pool.barrier = to
  BY <1>3, BarrierFields
<1>5. temp' \in [Targets -> {None, "partial", "whole"}] /\ \A d \in Targets \ {to} : temp'[d] = temp[d]
  BY <1>1, <1>3
<1>6. PapersTyped' /\ JournalsKept' /\ CopiesKept'
  BY <1>1, <1>4, <1>5 DEF EvolutionInv, Typed, PapersTyped, JournalsKept, CopiesKept, stores
<1>7. proc'[o].pc = pc /\ proc'[o].to = to /\ proc'[o].plan = plan
  BY <1>1, <1>2, <1>3, GoesFields
<1>8. Knows(o)'
  BY <1>1, <1>3, <1>7 DEF Knows, stores
<1> QED  BY <1>1, <1>2, <1>6, <1>8, InnerStep

\* ready.json is written when both new stores are in place.
LEMMA WriteReadyStep ==
  ASSUME EvolutionInv, NEW o \in Operators, WriteReady(o)
  PROVE  Finished
<1> DEFINE to == proc[o].to
           plan == proc[o].plan
<1>1. /\ proc[o].pc = "ready" /\ Goes(o, "final") /\ UNCHANGED <<stores, journal, temp, lock, session, flying>>
      /\ ready' = ready \cup {to}
  BY DEF WriteReady, ordinary
<1>2. proc[o].pc \in Inner /\ "final" \in Inner \cup {"release"} /\ "final" \in Pcs
  BY <1>1 DEF Inner, Pcs
<1>3. /\ to \in Targets /\ plan \in Plans /\ proc \in [Operators -> Procs]
      /\ journal[to] = [stage |-> "complete", plan |-> plan]
      /\ pool = Barrier(plan, to) /\ console = AfterConsole(plan) /\ temp[to] = None
  BY <1>1, <1>2, InnerFacts DEF EvolutionInv, Knows
<1>4. PapersTyped' /\ JournalsKept' /\ CopiesKept'
  BY <1>1, <1>3 DEF EvolutionInv, Typed, PapersTyped, JournalsKept, CopiesKept, stores
<1>5. proc'[o].pc = "final" /\ proc'[o].to = to /\ proc'[o].plan = plan
  BY <1>1, <1>2, <1>3, GoesFields
<1>6. Knows(o)'
  BY <1>1, <1>3, <1>5 DEF Knows, stores
<1> QED  BY <1>1, <1>2, <1>4, <1>6, InnerStep

\* Locks that an operator gives back, or leaves behind, were nobody else's.
LEMMA GivenBack ==
  ASSUME EvolutionInv, NEW o \in Operators, lock' \in [Locks -> Holders], UNCHANGED session,
         \A x \in Locks : lock'[x] = lock[x] \/ lock[x] = o,
         \A q \in Operators \ {o} : proc'[q] = proc[q],
         proc'[o].pc \in {"release", "idle"}
  PROVE  LocksKept'
<1>1. o # "console"
  BY EvolutionAssumption
<1>2. \A q \in Operators : \A x \in Locks : q # o /\ lock[x] = q => lock'[x] = q
  OBVIOUS
<1>3. \A q \in Operators : (proc'[q].pc \in Inner => \A x \in Locks : lock'[x] = q)
  BY <1>2 DEF EvolutionInv, LocksKept, Inner
<1>4. \A q \in Operators : /\ (proc'[q].pc \in {"pool", "quota"} => lock'.console = q)
                           /\ (proc'[q].pc = "quota" => lock'.pool = q)
  BY <1>2 DEF EvolutionInv, LocksKept, Locks
<1>5. session' # None => lock'.console = "console"
  BY <1>1 DEF EvolutionInv, LocksKept, Locks
<1> QED  BY <1>3, <1>4, <1>5 DEF LocksKept

\* The three locks are given back in the reverse order.
LEMMA ReleaseStep ==
  ASSUME EvolutionInv, NEW o \in Operators, Release(o)
  PROVE  Finished
<1>1. proc[o].pc = "release" /\ UNCHANGED <<stores, papers, session, flying>>
  BY DEF Release, ordinary
<1>2. proc \in [Operators -> Procs] /\ lock \in [Locks -> Holders] /\ proc[o].to \in Targets /\ proc[o].plan \in Plans
  BY <1>1 DEF EvolutionInv, Typed, RestTyped, Knows
<1>3. lock' \in [Locks -> Holders] /\ \A x \in Locks : lock'[x] = lock[x] \/ lock[x] = o
  BY <1>2 DEF Release, Holders, Locks
<1>4. proc' = proc \/ proc' = [proc EXCEPT ![o] = Idle]
  BY DEF Release
<1>5. /\ proc' \in [Operators -> Procs] /\ proc'[o].pc \in {"release", "idle"}
      /\ proc'[o].pc # "idle" => proc'[o].to = proc[o].to /\ proc'[o].plan = proc[o].plan
      /\ \A q \in Operators \ {o} : proc'[q] = proc[q]
  BY <1>1, <1>2, <1>4 DEF Procs, Idle, Pcs
<1>6. LocksKept'
  BY <1>1, <1>3, <1>5, GivenBack
<1> QED  BY <1>1, <1>2, <1>3, <1>5, <1>6, OutsideStep DEF Inner

\* A write that throws leaves everything to the next apply but its own copy.
LEMMA ThrowStep ==
  ASSUME EvolutionInv, NEW o \in Operators, Throw(o)
  PROVE  Finished
<1> DEFINE to == proc[o].to
           plan == proc[o].plan
<1>1. /\ proc[o].pc \in {"stage", "phase", "barrier", "open", "write", "rename", "ready", "final"}
      /\ Goes(o, "release") /\ UNCHANGED <<stores, journal, ready, lock, session, flying>>
      /\ temp' = [temp EXCEPT ![to] = None] \/ UNCHANGED temp
  BY DEF Throw, ordinary
<1>2. proc[o].pc \in Inner /\ "release" \in Inner \cup {"release"} /\ "release" \in Pcs
  BY <1>1 DEF Inner, Pcs
<1>3. /\ to \in Targets /\ plan \in Plans /\ proc \in [Operators -> Procs]
      /\ temp \in [Targets -> {None, "partial", "whole"}]
  BY <1>2, InnerFacts
<1>4. temp' \in [Targets -> {None, "partial", "whole"}] /\ \A d \in Targets : temp'[d] \in {None, temp[d]}
  BY <1>1, <1>3
<1>5. PapersTyped' /\ JournalsKept' /\ CopiesKept'
  BY <1>1, <1>4 DEF EvolutionInv, Typed, PapersTyped, JournalsKept, CopiesKept, stores
<1>6. proc'[o].pc = "release" /\ proc'[o].to = to /\ proc'[o].plan = plan
  BY <1>1, <1>2, <1>3, GoesFields
<1>7. Knows(o)'
  BY <1>3, <1>6 DEF Knows
<1> QED  BY <1>1, <1>2, <1>5, <1>7, InnerStep

\* An operator that dies leaves its lock files.
LEMMA OperatorDiesStep ==
  ASSUME EvolutionInv, NEW o \in Operators, OperatorDies(o)
  PROVE  Finished
<1>1. UNCHANGED <<stores, papers, session, flying>> /\ LeavesStale(o) /\ proc' = [proc EXCEPT ![o] = Idle]
  BY DEF OperatorDies, ordinary
<1>2. proc \in [Operators -> Procs] /\ lock \in [Locks -> Holders]
  BY DEF EvolutionInv, Typed, RestTyped
<1>3. lock' \in [Locks -> Holders] /\ \A x \in Locks : lock'[x] = lock[x] \/ lock[x] = o
  BY <1>1, <1>2 DEF LeavesStale, Holders
<1>4. /\ proc' \in [Operators -> Procs] /\ proc'[o].pc = "idle"
      /\ \A q \in Operators \ {o} : proc'[q] = proc[q]
  BY <1>1, <1>2 DEF Procs, Idle, Pcs
<1>5. LocksKept'
  BY <1>1, <1>3, <1>4, GivenBack
<1> QED  BY <1>1, <1>3, <1>4, <1>5, OutsideStep DEF Inner

(***************************************************************************)
(* The three publications.                                                 *)
(***************************************************************************)
\* A worker in flight keeps a receipt open, in a pool without a barrier.
LEMMA NobodyFlies ==
  ASSUME FlightsKept, Unresolved(pool) = {} \/ pool.barrier # None
  PROVE  flying = {}
BY DEF FlightsKept, Unresolved, DecodesPool

\* A store is replaced under the three locks, with no worker in flight.
LEMMA WriteStep ==
  ASSUME EvolutionInv, NEW o \in Operators, proc[o].pc \in Inner, NEW pc \in Inner \cup {"release"}, Goes(o, pc),
         UNCHANGED <<journal, ready, lock, session, flying>>, flying = {},
         StoresTyped', temp' \in [Targets -> {None, "partial", "whole"}], CopiesKept', Knows(o)', HistoryStep,
         pool'.barrier = None => DecodesConsole(console', pool'.active)
  PROVE  Finished
<1>1. proc \in [Operators -> Procs] /\ session = None
  BY InnerFacts
<1>2. pc \in Pcs
  BY DEF Inner, Pcs
<1>3. /\ proc' \in [Operators -> Procs] /\ proc'[o].pc = pc
      /\ \A q \in Operators \ {o} : proc'[q] = proc[q]
  BY <1>1, <1>2, GoesFields
<1>4. LocksKept'
  BY <1>3, SameLocks DEF Inner
<1>5. Typed'
  BY <1>3 DEF EvolutionInv, Typed, PapersTyped, RestTyped
<1>6. JournalsKept'
  BY DEF EvolutionInv, JournalsKept
<1>7. FlightsKept' /\ StoresMatch'
  BY <1>1 DEF FlightsKept, StoresMatch
<1>8. ASSUME NEW q \in Operators PROVE Knows(q)'
  <2>1. CASE q = o
    BY <2>1
  <2>2. CASE q # o
    <3>1. proc'[q] = proc[q] /\ proc[q].pc \notin Inner /\ Knows(q)
      BY <1>3, <2>2, OneInner DEF EvolutionInv
    <3> QED  BY <3>1 DEF Knows, Inner
  <2> QED  BY <2>1, <2>2
<1> QED  BY <1>4, <1>5, <1>6, <1>7, <1>8 DEF EvolutionInv, Finished

\* The new console holds the jobs of the old one.
LEMMA AfterConsoleFields ==
  ASSUME NEW plan \in Plans, Derivable(plan)
  PROVE  /\ AfterConsole(plan) \in Consoles \cup {None}
         /\ \A to : DecodesConsole(AfterConsole(plan), to)
         /\ plan.console # None => AfterConsole(plan) # None /\ AfterConsole(plan).jobs = plan.console.jobs
<1>1. CASE plan.console = None
  BY <1>1 DEF AfterConsole, DecodesConsole
<1>2. CASE plan.console # None
  <2>1. plan.console \in Consoles /\ plan.console.origin = First
    BY <1>2 DEF Plans, Derivable, DecodesConsole
  <2>2. AfterConsole(plan) = [plan.console EXCEPT !.v5 = TRUE]
    BY <1>2 DEF AfterConsole
  <2>3. /\ AfterConsole(plan) \in Consoles /\ AfterConsole(plan).jobs = plan.console.jobs
        /\ AfterConsole(plan).v5 = TRUE /\ AfterConsole(plan).origin = First
    BY <2>1, <2>2 DEF Consoles
  <2>4. AfterConsole(plan) # None
    BY <2>3, EvolutionAssumption
  <2> QED  BY <2>3, <2>4 DEF DecodesConsole
<1> QED  BY <1>1, <1>2

\* The barrier is put on the pool the plan was made of.
LEMMA PublishBarrierStep ==
  ASSUME EvolutionInv, NEW o \in Operators, PublishBarrier(o)
  PROVE  Finished
<1> DEFINE to == proc[o].to
           plan == proc[o].plan
           pc == IF console = AfterConsole(plan) THEN "ready" ELSE "open"
<1>1. /\ proc[o].pc = "barrier" /\ pool' = Barrier(plan, to) /\ Goes(o, pc)
      /\ UNCHANGED <<console, journal, ready, temp, lock, session, flying>>
  BY DEF PublishBarrier, ordinary, papers
<1>2. proc[o].pc \in Inner /\ pc \in Inner \cup {"release"} /\ pc \in Pcs
  BY <1>1 DEF Inner, Pcs
<1>3. /\ to \in Targets /\ plan \in Plans /\ proc \in [Operators -> Procs]
      /\ temp \in [Targets -> {None, "partial", "whole"}]
      /\ journal[to] = [stage |-> "complete", plan |-> plan] /\ Current = plan
  BY <1>1, <1>2, InnerFacts DEF EvolutionInv, Knows
<1>4. pool = plan.pool /\ console = plan.console /\ Derivable(plan)
  BY <1>3 DEF Current, EvolutionInv, JournalsKept
<1>5. pool.barrier = None /\ Unresolved(pool) = {}
  BY <1>4 DEF Derivable, DecodesPool
<1>6. flying = {} /\ \A d \in Targets : temp[d] = None
  BY <1>5, NobodyFlies, NoCopies DEF EvolutionInv
<1>7. pool' \in Pools /\ pool'.barrier = to /\ pool'.active = to /\ pool'.attempts = pool.attempts
  BY <1>1, <1>3, <1>4, BarrierFields
<1>8. StoresTyped' /\ CopiesKept' /\ HistoryStep
  BY <1>1, <1>6, <1>7 DEF EvolutionInv, Typed, StoresTyped, CopiesKept, HistoryStep
<1>9. proc'[o].pc = pc /\ proc'[o].to = to /\ proc'[o].plan = plan
  BY <1>1, <1>2, <1>3, GoesFields
<1>10. Knows(o)'
  BY <1>1, <1>3, <1>4, <1>6, <1>9 DEF Knows
<1>11. pool'.barrier # None
  BY <1>3, <1>7, EvolutionAssumption DEF Configs
<1> QED  BY <1>1, <1>2, <1>3, <1>6, <1>8, <1>10, <1>11, WriteStep

\* What holds behind the barrier.
LEMMA BehindBarrier ==
  ASSUME EvolutionInv, NEW o \in Operators, proc[o].pc \in {"open", "write", "rename", "ready", "final"}
  PROVE  /\ proc[o].pc \in Inner
         /\ proc[o].to \in Targets /\ proc[o].plan \in Plans /\ Derivable(proc[o].plan)
         /\ journal[proc[o].to] = [stage |-> "complete", plan |-> proc[o].plan]
         /\ pool = Barrier(proc[o].plan, proc[o].to) /\ pool.barrier = proc[o].to /\ flying = {}
         /\ \A d \in Targets \ {proc[o].to} : temp[d] = None
<1>1. proc[o].pc \in Inner
  BY DEF Inner
<1>2. /\ proc[o].to \in Targets /\ proc[o].plan \in Plans
      /\ journal[proc[o].to] = [stage |-> "complete", plan |-> proc[o].plan]
      /\ pool = Barrier(proc[o].plan, proc[o].to)
  BY <1>1, InnerFacts DEF EvolutionInv, Knows
<1>3. Derivable(proc[o].plan)
  BY <1>2 DEF EvolutionInv, JournalsKept
<1>4. pool.barrier = proc[o].to
  BY <1>2, BarrierFields
<1>5. pool.barrier # None
  BY <1>2, <1>4, EvolutionAssumption DEF Configs
<1>6. flying = {}
  BY <1>5, NobodyFlies DEF EvolutionInv
<1> QED  BY <1>1, <1>2, <1>3, <1>4, <1>6 DEF EvolutionInv, CopiesKept

\* The whole copy takes the console's place.
LEMMA PublishConsoleStep ==
  ASSUME EvolutionInv, NEW o \in Operators, PublishConsole(o)
  PROVE  Finished
<1> DEFINE to == proc[o].to
           plan == proc[o].plan
<1>1. /\ proc[o].pc = "rename" /\ console' = AfterConsole(plan) /\ Goes(o, "ready")
      /\ temp' = [temp EXCEPT ![to] = None]
      /\ UNCHANGED <<pool, journal, ready, lock, session, flying>>
  BY DEF PublishConsole, ordinary
<1>2. "ready" \in Inner \cup {"release"} /\ "ready" \in Pcs
  BY DEF Inner, Pcs
<1>3. /\ proc[o].pc \in Inner /\ to \in Targets /\ plan \in Plans /\ Derivable(plan)
      /\ journal[to] = [stage |-> "complete", plan |-> plan]
      /\ pool = Barrier(plan, to) /\ pool.barrier = to /\ flying = {}
      /\ \A d \in Targets \ {to} : temp[d] = None
  BY <1>1, BehindBarrier
<1>4. console = plan.console /\ proc \in [Operators -> Procs] /\ temp \in [Targets -> {None, "partial", "whole"}]
  BY <1>1, <1>3, InnerFacts DEF EvolutionInv, Knows
<1>5. temp' \in [Targets -> {None, "partial", "whole"}] /\ \A d \in Targets : temp'[d] = None
  BY <1>1, <1>3, <1>4
<1>6. console' \in Consoles \cup {None} /\ (console # None => console' # None /\ console'.jobs = console.jobs)
  BY <1>1, <1>3, <1>4, AfterConsoleFields
<1>7. StoresTyped' /\ CopiesKept' /\ HistoryStep
  BY <1>1, <1>5, <1>6 DEF EvolutionInv, Typed, StoresTyped, CopiesKept, HistoryStep
<1>8. proc'[o].pc = "ready" /\ proc'[o].to = to /\ proc'[o].plan = plan
  BY <1>1, <1>2, <1>4, GoesFields
<1>9. Knows(o)'
  BY <1>1, <1>3, <1>5, <1>8 DEF Knows
<1>10. pool'.barrier # None
  BY <1>1, <1>3, EvolutionAssumption DEF Configs
<1> QED  BY <1>1, <1>2, <1>3, <1>5, <1>7, <1>9, <1>10, WriteStep

\* The barrier is lifted over two stores that agree.
LEMMA PublishPoolStep ==
  ASSUME EvolutionInv, NEW o \in Operators, PublishPool(o)
  PROVE  Finished
<1> DEFINE to == proc[o].to
           plan == proc[o].plan
<1>1. /\ proc[o].pc = "final" /\ Goes(o, "release") /\ (pool' = pool \/ pool' = AfterPool(plan, to))
      /\ UNCHANGED <<console, journal, ready, temp, lock, session, flying>>
  BY DEF PublishPool, ordinary, papers
<1>2. "release" \in Inner \cup {"release"} /\ "release" \in Pcs
  BY DEF Inner, Pcs
<1>3. /\ proc[o].pc \in Inner /\ to \in Targets /\ plan \in Plans /\ Derivable(plan)
      /\ pool = Barrier(plan, to) /\ pool.barrier = to /\ flying = {}
      /\ \A d \in Targets \ {to} : temp[d] = None
  BY <1>1, BehindBarrier
<1>4. /\ console = AfterConsole(plan) /\ proc \in [Operators -> Procs]
      /\ temp \in [Targets -> {None, "partial", "whole"}] /\ temp[to] = None
  BY <1>1, <1>3, InnerFacts DEF EvolutionInv, Knows
<1>5. plan.pool.barrier = None
  BY <1>3 DEF Derivable, DecodesPool
<1>6. pool' \in Pools /\ pool'.barrier \in {None, pool'.active} /\ pool'.attempts = pool.attempts
  BY <1>1, <1>3, <1>5, BarrierFields
<1>7. StoresTyped' /\ CopiesKept' /\ HistoryStep
  BY <1>1, <1>3, <1>4, <1>6 DEF EvolutionInv, Typed, StoresTyped, CopiesKept, HistoryStep
<1>8. proc'[o].pc = "release" /\ proc'[o].to = to /\ proc'[o].plan = plan
  BY <1>1, <1>2, <1>4, GoesFields
<1>9. Knows(o)'
  BY <1>3, <1>8 DEF Knows
<1>10. DecodesConsole(console', pool'.active)
  BY <1>1, <1>3, <1>4, AfterConsoleFields
<1> QED  BY <1>1, <1>2, <1>3, <1>4, <1>7, <1>9, <1>10, WriteStep

(***************************************************************************)
(* The ordinary programs.                                                  *)
(***************************************************************************)
\* While another holds one of the locks, no operator is inside.
LEMMA NobodyInside ==
  ASSUME LocksKept, NEW x \in Locks, lock[x] \notin Operators
  PROVE  \A o \in Operators : proc[o].pc \notin Inner
BY DEF LocksKept

\* Locks that are nobody's in apply may change hands.
LEMMA OthersLocks ==
  ASSUME EvolutionInv, UNCHANGED proc, lock' \in [Locks -> Holders],
         \A x \in Locks : lock'[x] = lock[x] \/ lock[x] \notin Operators,
         session' # None => lock'.console = "console"
  PROVE  LocksKept'
<1>1. \A o \in Operators : \A x \in Locks : lock[x] = o => lock'[x] = o
  OBVIOUS
<1>2. \A o \in Operators : (proc'[o].pc \in Inner => \A x \in Locks : lock'[x] = o)
  BY <1>1 DEF EvolutionInv, LocksKept
<1>3. \A o \in Operators : /\ (proc'[o].pc \in {"pool", "quota"} => lock'.console = o)
                           /\ (proc'[o].pc = "quota" => lock'.pool = o)
  BY <1>1 DEF EvolutionInv, LocksKept, Locks
<1> QED  BY <1>2, <1>3 DEF LocksKept

\* A step of another program: the stores change only while nobody is inside.
LEMMA OrdinaryStep ==
  ASSUME EvolutionInv, UNCHANGED <<papers, proc>>,
         UNCHANGED <<pool, console>> \/ \A o \in Operators : proc[o].pc \notin Inner,
         StoresTyped', pool'.barrier = pool.barrier,
         lock' \in [Locks -> Holders], session' \in Configs \cup {None}, flying' \subseteq Flights,
         LocksKept', FlightsKept', StoresMatch', HistoryStep
  PROVE  Finished
<1>1. UNCHANGED <<journal, ready, temp>>
  BY DEF papers
<1>2. Typed' /\ JournalsKept' /\ CopiesKept'
  BY <1>1 DEF EvolutionInv, Typed, PapersTyped, RestTyped, JournalsKept, CopiesKept
<1>3. ASSUME NEW o \in Operators PROVE Knows(o)'
  <2>1. Knows(o)
    BY DEF EvolutionInv
  <2>2. CASE UNCHANGED <<pool, console>>
    BY <1>1, <2>1, <2>2 DEF Knows, Current
  <2>3. CASE proc[o].pc \notin Inner
    BY <2>1, <2>3 DEF Knows, Inner
  <2> QED  BY <2>2, <2>3
<1> QED  BY <1>2, <1>3 DEF EvolutionInv, Finished

\* Programs that only end, or take and give back a lock.
LEMMA QuietStep ==
  ASSUME EvolutionInv, UNCHANGED <<stores, papers, proc>>,
         flying' \subseteq flying, session' \in {None, session}, lock' \in [Locks -> Holders],
         \A x \in Locks : lock'[x] = lock[x] \/ lock[x] \notin Operators,
         session' # None => lock'.console = lock.console
  PROVE  Finished
<1>1. UNCHANGED <<pool, console>>
  BY DEF stores
<1>2. LocksKept'
  <2>1. session' # None => lock'.console = "console"
    BY DEF EvolutionInv, LocksKept
  <2> QED  BY <2>1, OthersLocks
<1>3. StoresTyped' /\ FlightsKept' /\ StoresMatch' /\ HistoryStep
  BY <1>1 DEF EvolutionInv, Typed, StoresTyped, FlightsKept, StoresMatch, HistoryStep, Reads
<1>4. session' \in Configs \cup {None} /\ flying' \subseteq Flights
  BY DEF EvolutionInv, Typed, RestTyped
<1> QED  BY <1>1, <1>2, <1>3, <1>4, OrdinaryStep

\* Runs that end without a settlement.
LEMMA FlightEnds ==
  ASSUME EvolutionInv, NEW f \in flying, SettleFails(f) \/ RunnerDies(f)
  PROVE  Finished
<1>1. flying' = flying \ {f} /\ UNCHANGED <<stores, papers, lock, session, proc>>
  BY DEF SettleFails, RunnerDies
<1>2. lock \in [Locks -> Holders]
  BY DEF EvolutionInv, Typed, RestTyped
<1> QED  BY <1>1, <1>2, QuietStep

\* A console that closes or dies.
LEMMA ConsoleEnds ==
  ASSUME EvolutionInv, CloseConsole \/ ConsoleDies
  PROVE  Finished
<1>1. lock \in [Locks -> Holders] /\ (session # None => lock.console = "console") /\ "console" \notin Operators
  BY EvolutionAssumption DEF EvolutionInv, Typed, RestTyped, LocksKept
<1>2. CASE CloseConsole
  <2>1. /\ session # None /\ session' = None /\ UNCHANGED <<stores, papers, flying, proc>>
        /\ lock' = [lock EXCEPT !.console = None]
    BY <1>2 DEF CloseConsole
  <2>2. lock' \in [Locks -> Holders] /\ \A x \in Locks : lock'[x] = lock[x] \/ lock[x] \notin Operators
    BY <1>1, <2>1 DEF Holders, Locks
  <2> QED  BY <2>1, <2>2, QuietStep
<1>3. CASE ConsoleDies
  <2>1. /\ session' = None /\ UNCHANGED <<stores, papers, proc>> /\ flying' \subseteq flying
        /\ lock' = [x \in Locks |-> IF lock[x] = "console" THEN Stale ELSE lock[x]]
    BY <1>3 DEF ConsoleDies, LeavesStale
  <2>2. lock' \in [Locks -> Holders] /\ \A x \in Locks : lock'[x] = lock[x] \/ lock[x] \notin Operators
    BY <1>1, <2>1 DEF Holders
  <2> QED  BY <2>1, <2>2, QuietStep
<1> QED  BY <1>2, <1>3

\* The quota collector, and programs that are refused.
LEMMA LockOnlyStep ==
  ASSUME EvolutionInv, Collect \/ EndCollection \/ CollectorDies \/ \E x \in {"pool", "quota"} : RefusedStart(x)
  PROVE  Finished
<1>1. /\ lock \in [Locks -> Holders] /\ (session # None => lock.console = "console")
      /\ {None, Stale, "collector"} \cap Operators = {} /\ "console" # Stale
  BY EvolutionAssumption DEF EvolutionInv, Typed, RestTyped, LocksKept
<1>2. UNCHANGED <<stores, papers, session, flying, proc>>
  BY DEF Collect, EndCollection, CollectorDies, RefusedStart, ordinary
<1>3. CASE Collect
  <2>1. lock.quota \in {None, Stale} /\ lock' = [lock EXCEPT !.quota = "collector"]
    BY <1>3 DEF Collect, Free
  <2>2. /\ lock' \in [Locks -> Holders] /\ lock'.console = lock.console
        /\ \A x \in Locks : lock'[x] = lock[x] \/ lock[x] \notin Operators
    BY <1>1, <2>1 DEF Holders, Locks
  <2> QED  BY <1>2, <2>2, QuietStep
<1>4. CASE EndCollection
  <2>1. lock.quota = "collector" /\ lock' = [lock EXCEPT !.quota = None]
    BY <1>4 DEF EndCollection
  <2>2. /\ lock' \in [Locks -> Holders] /\ lock'.console = lock.console
        /\ \A x \in Locks : lock'[x] = lock[x] \/ lock[x] \notin Operators
    BY <1>1, <2>1 DEF Holders, Locks
  <2> QED  BY <1>2, <2>2, QuietStep
<1>5. CASE CollectorDies
  <2>1. lock' = [x \in Locks |-> IF lock[x] = "collector" THEN Stale ELSE lock[x]]
    BY <1>5 DEF CollectorDies, LeavesStale
  <2>2. /\ lock' \in [Locks -> Holders] /\ (session # None => lock'.console = lock.console)
        /\ \A x \in Locks : lock'[x] = lock[x] \/ lock[x] \notin Operators
    BY <1>1, <2>1 DEF Holders, Locks
  <2> QED  BY <1>2, <2>2, QuietStep
<1>6. ASSUME NEW y \in {"pool", "quota"}, RefusedStart(y) PROVE Finished
  <2>1. lock[y] = Stale /\ lock' = [lock EXCEPT ![y] = None]
    BY <1>6 DEF RefusedStart
  <2>2. /\ lock' \in [Locks -> Holders] /\ lock'.console = lock.console
        /\ \A x \in Locks : lock'[x] = lock[x] \/ lock[x] \notin Operators
    BY <1>1, <2>1 DEF Holders, Locks
  <2> QED  BY <1>2, <2>2, QuietStep
<1> QED  BY <1>3, <1>4, <1>5, <1>6

\* A console that only read the pool, or is refused under its lock.
LEMMA NoConsoleStep ==
  ASSUME EvolutionInv, (\E c \in Configs : OpenConsole(c)) \/ RefuseConsole \/ LeaveConsole
  PROVE  Finished
<1>1. /\ lock \in [Locks -> Holders] /\ (session # None => lock.console = "console")
      /\ {None, Stale} \cap Operators = {} /\ "console" \notin {None, Stale}
  BY EvolutionAssumption DEF EvolutionInv, Typed, RestTyped, LocksKept
<1>2. UNCHANGED <<stores, papers, session, flying, proc>>
  BY DEF OpenConsole, RefuseConsole, LeaveConsole
<1>3. CASE RefuseConsole
  <2>1. lock.console \in {None, Stale} /\ lock' = [lock EXCEPT !.console = None]
    BY <1>3 DEF RefuseConsole, Free
  <2>2. /\ lock' \in [Locks -> Holders] /\ (session # None => lock'.console = lock.console)
        /\ \A x \in Locks : lock'[x] = lock[x] \/ lock[x] \notin Operators
    BY <1>1, <2>1 DEF Holders, Locks
  <2> QED  BY <1>2, <2>2, QuietStep
<1>4. CASE (\E c \in Configs : OpenConsole(c)) \/ LeaveConsole
  <2>1. lock' = lock
    BY <1>4 DEF OpenConsole, LeaveConsole
  <2> QED  BY <1>1, <1>2, <2>1, QuietStep
<1> QED  BY <1>3, <1>4

\* A console holds a map of jobs, and any such map makes a console.
LEMMA JobsOf ==
  ASSUME NEW k \in Consoles
  PROVE  /\ DOMAIN k.jobs \in SUBSET ConsoleTasks
         /\ k.jobs \in [DOMAIN k.jobs -> Jobs]
         /\ k.v5 \in BOOLEAN /\ k.origin \in Configs
<1>1. k.jobs \in UNION {[D -> Jobs] : D \in SUBSET ConsoleTasks} /\ k.v5 \in BOOLEAN /\ k.origin \in Configs
  BY DEF Consoles
<1>2. PICK D \in SUBSET ConsoleTasks : k.jobs \in [D -> Jobs]
  BY <1>1
<1> QED  BY <1>1, <1>2

\* The same, the other way round.
LEMMA ConsoleWith ==
  ASSUME NEW k \in Consoles, NEW D \in SUBSET ConsoleTasks, NEW m \in [D -> Jobs]
  PROVE  /\ [k EXCEPT !.jobs = m] \in Consoles
         /\ [k EXCEPT !.jobs = m].jobs = m
         /\ [k EXCEPT !.jobs = m].v5 = k.v5
         /\ [k EXCEPT !.jobs = m].origin = k.origin
<1>1. m \in UNION {[E -> Jobs] : E \in SUBSET ConsoleTasks}
  OBVIOUS
<1> QED  BY <1>1 DEF Consoles

\* A save of one job leaves the others.
LEMMA SetJobFields ==
  ASSUME console \in Consoles, NEW t \in ConsoleTasks, NEW job \in Jobs, SetJob(t, job)
  PROVE  /\ console' \in Consoles /\ console'.v5 = console.v5 /\ console'.origin = console.origin
         /\ DOMAIN console'.jobs = DOMAIN console.jobs \cup {t}
         /\ console'.jobs[t] = job
         /\ \A d \in DOMAIN console.jobs \ {t} : console'.jobs[d] = console.jobs[d]
<1> DEFINE D == DOMAIN console.jobs \cup {t}
           m == With(console.jobs, t, job)
<1>1. D \in SUBSET ConsoleTasks /\ console.jobs \in [DOMAIN console.jobs -> Jobs]
  BY JobsOf
<1>2. /\ m \in [D -> Jobs] /\ DOMAIN m = D /\ m[t] = job
      /\ \A d \in DOMAIN console.jobs \ {t} : m[d] = console.jobs[d]
  BY <1>1 DEF With
<1>3. console' = [console EXCEPT !.jobs = m]
  BY DEF SetJob
<1> HIDE DEF m, D
<1>4. console' \in Consoles /\ console'.jobs = m /\ console'.v5 = console.v5 /\ console'.origin = console.origin
  BY <1>1, <1>2, <1>3, ConsoleWith
<1> QED  BY <1>2, <1>4 DEF D

\* A console that runs keeps the lock, so both stores are as it read them.
LEMMA SessionFacts ==
  ASSUME EvolutionInv, session # None
  PROVE  /\ session \in Configs /\ console \in Consoles /\ console # None
         /\ pool.active = session /\ pool.barrier = None
         /\ lock \in [Locks -> Holders] /\ lock.console = "console"
         /\ \A o \in Operators : proc[o].pc \notin Inner
<1>1. /\ session \in Configs /\ console \in Consoles /\ console # None /\ pool.active = session /\ pool.barrier = None
      /\ lock \in [Locks -> Holders] /\ lock.console = "console"
  BY DEF EvolutionInv, Typed, StoresTyped, RestTyped, StoresMatch, Reads, DecodesPool, LocksKept
<1>2. lock["console"] \notin Operators /\ "console" \in Locks
  BY <1>1, EvolutionAssumption DEF Locks
<1>3. \A o \in Operators : proc[o].pc \notin Inner
  BY <1>2, NobodyInside DEF EvolutionInv
<1> QED  BY <1>1, <1>3

\* The running console saves a job that is new, or not finished.
LEMMA JobStep ==
  ASSUME EvolutionInv, session # None, NEW t \in ConsoleTasks, NEW job \in Jobs, SetJob(t, job),
         UNCHANGED <<pool, papers, lock, session, flying, proc>>,
         t \in DOMAIN console.jobs =>
           console.jobs[t].state \in {"queued", "dispatching"} /\ job.epoch = console.jobs[t].epoch
  PROVE  Finished
<1>1. /\ console \in Consoles /\ lock \in [Locks -> Holders] /\ \A o \in Operators : proc[o].pc \notin Inner
  BY SessionFacts
<1>2. /\ console' \in Consoles /\ console'.v5 = console.v5 /\ console'.origin = console.origin
      /\ DOMAIN console'.jobs = DOMAIN console.jobs \cup {t}
      /\ console'.jobs[t] = job
      /\ \A d \in DOMAIN console.jobs \ {t} : console'.jobs[d] = console.jobs[d]
  BY <1>1, SetJobFields
<1>3. console' # None /\ console # None
  BY <1>1, <1>2, EvolutionAssumption
<1>4. \A c : DecodesConsole(console, c) => DecodesConsole(console', c)
  BY <1>2, <1>3 DEF DecodesConsole
<1>5. HistoryStep
  BY <1>2, <1>3 DEF HistoryStep
<1>6. StoresTyped' /\ FlightsKept' /\ StoresMatch'
  BY <1>2, <1>3, <1>4 DEF EvolutionInv, Typed, StoresTyped, FlightsKept, StoresMatch, Reads
<1>7. LocksKept'
  BY DEF EvolutionInv, LocksKept
<1> QED  BY <1>1, <1>5, <1>6, <1>7, OrdinaryStep DEF EvolutionInv, Typed, RestTyped

\* A job is submitted under the configuration of the running console.
LEMMA SubmitStep ==
  ASSUME EvolutionInv, NEW t \in ConsoleTasks, Submit(t)
  PROVE  Finished
<1>1. /\ session # None /\ t \notin DOMAIN console.jobs /\ SetJob(t, [state |-> "queued", epoch |-> session])
      /\ UNCHANGED <<pool, papers, lock, session, flying, proc>>
  BY DEF Submit, ordinary
<1>2. [state |-> "queued", epoch |-> session] \in Jobs
  BY <1>1, SessionFacts DEF Jobs
<1> QED  BY <1>1, <1>2, JobStep

\* A queued or dispatching job goes on; its configuration stays.
LEMMA MoveJobStep ==
  ASSUME EvolutionInv, NEW t \in ConsoleTasks, NEW from \in {"queued", "dispatching"},
         NEW to \in {"queued", "dispatching", "settled", "unresolved", "cancelled"}, MoveJob(t, from, to)
  PROVE  Finished
<1>1. /\ session # None /\ t \in DOMAIN console.jobs /\ console.jobs[t].state = from
      /\ SetJob(t, [console.jobs[t] EXCEPT !.state = to])
      /\ UNCHANGED <<pool, papers, lock, session, flying, proc>>
  BY DEF MoveJob, ordinary
<1>2. console \in Consoles
  BY <1>1, SessionFacts
<1>3. console.jobs[t] \in Jobs
  BY <1>1, <1>2, JobsOf
<1>4. /\ [console.jobs[t] EXCEPT !.state = to] \in Jobs
      /\ [console.jobs[t] EXCEPT !.state = to].epoch = console.jobs[t].epoch
  BY <1>3 DEF Jobs
<1> QED  BY <1>1, <1>4, JobStep

\* What the running console does with its jobs.
LEMMA ConsoleJobStep ==
  ASSUME EvolutionInv, NEW t \in ConsoleTasks, Cancel(t) \/ Dispatch(t) \/ Requeue(t) \/ SettleJob(t)
  PROVE  Finished
<1>1. \E from \in {"queued", "dispatching"}, to \in {"queued", "dispatching", "settled", "unresolved", "cancelled"} :
        MoveJob(t, from, to)
  <2>1. CASE SettleJob(t)
    BY <2>1 DEF SettleJob
  <2>2. CASE Cancel(t) \/ Dispatch(t) \/ Requeue(t)
    BY <2>2 DEF Cancel, Dispatch, Requeue
  <2> QED  BY <2>1, <2>2
<1> QED  BY <1>1, MoveJobStep

\* A console starts only on two stores of its own configuration.
LEMMA StartConsoleStep ==
  ASSUME EvolutionInv, StartingTyped, StartConsole
  PROVE  Finished
<1> DEFINE c == starting
<1>1. /\ session = None /\ lock.console \in {None, Stale} /\ DecodesPool(pool, c) /\ DecodesConsole(console, c)
      /\ session' = c /\ lock' = [lock EXCEPT !.console = "console"]
      /\ UNCHANGED <<pool, papers, flying, proc>> /\ c \in Configs
  BY DEF StartConsole, Free, Reads, StartingTyped
<1>2. lock \in [Locks -> Holders] /\ console \in Consoles \cup {None}
  BY DEF EvolutionInv, Typed, StoresTyped, RestTyped
<1>3. /\ lock' \in [Locks -> Holders] /\ lock'.console = "console" /\ "console" \in Locks /\ lock["console"] \notin Operators
      /\ \A x \in Locks : lock'[x] = lock[x] \/ lock[x] \notin Operators
  BY <1>1, <1>2, EvolutionAssumption DEF Holders, Locks
<1>4. \A o \in Operators : proc[o].pc \notin Inner
  BY <1>3, NobodyInside DEF EvolutionInv
<1>5. LocksKept'
  BY <1>1, <1>3, OthersLocks
<1>6. /\ console' \in Consoles /\ DecodesConsole(console', c)
      /\ console # None =>
           \A t \in DOMAIN console.jobs :
               /\ t \in DOMAIN console'.jobs
               /\ console'.jobs[t].epoch = console.jobs[t].epoch
               /\ console.jobs[t].state \in {"queued", "dispatching"} \/ console'.jobs[t] = console.jobs[t]
  <2>1. CASE console = None
    <3>1. console' = [v5 |-> FALSE, origin |-> c, jobs |-> Nothing]
      BY <2>1 DEF StartConsole
    <3>2. Nothing \in [{} -> Jobs]
      BY DEF Nothing
    <3>3. Nothing \in UNION {[D -> Jobs] : D \in SUBSET ConsoleTasks}
      BY <3>2
    <3> QED  BY <1>1, <2>1, <3>1, <3>3 DEF Consoles, DecodesConsole
  <2>2. CASE console # None
    <3> DEFINE D == DOMAIN console.jobs
               m == [t \in D |-> Recovered(console.jobs[t], t)]
    <3>1. console \in Consoles /\ console' = [console EXCEPT !.jobs = m]
      BY <1>2, <2>2 DEF StartConsole
    <3>2. D \in SUBSET ConsoleTasks /\ console.jobs \in [D -> Jobs]
      BY <3>1, JobsOf
    <3>3. ASSUME NEW t \in D
          PROVE  /\ Recovered(console.jobs[t], t) \in Jobs
                 /\ Recovered(console.jobs[t], t).epoch = console.jobs[t].epoch
                 /\ console.jobs[t].state \in {"queued", "dispatching"} \/ Recovered(console.jobs[t], t) = console.jobs[t]
      <4>1. console.jobs[t] \in Jobs
        BY <3>2
      <4> QED  BY <4>1 DEF Recovered, Jobs
    <3>4. m \in [D -> Jobs]
      BY <3>3
    <3>5. console' \in Consoles /\ console'.jobs = m /\ console'.v5 = console.v5 /\ console'.origin = console.origin
      BY <3>1, <3>2, <3>4, ConsoleWith
    <3>6. DecodesConsole(console', c)
      BY <1>1, <2>2, <3>5 DEF DecodesConsole
    <3> QED  BY <3>3, <3>5, <3>6
  <2> QED  BY <2>1, <2>2
<1>7. console' # None
  BY <1>6, EvolutionAssumption
<1>8. HistoryStep
  BY <1>1, <1>6, <1>7 DEF HistoryStep
<1>9. StoresTyped' /\ FlightsKept' /\ StoresMatch'
  BY <1>1, <1>6, <1>7 DEF EvolutionInv, Typed, StoresTyped, FlightsKept, StoresMatch, Reads, DecodesPool
<1> QED  BY <1>1, <1>3, <1>4, <1>5, <1>8, <1>9, OrdinaryStep DEF EvolutionInv, Typed, RestTyped

\* A pool holds a map of receipts, and any such map makes a pool.
LEMMA AttemptsOf ==
  ASSUME NEW p \in Pools
  PROVE  DOMAIN p.attempts \in SUBSET Tasks /\ p.attempts \in [DOMAIN p.attempts -> Receipts]
<1>1. PICK D \in SUBSET Tasks : p.attempts \in [D -> Receipts]
  BY DEF Pools
<1> QED  BY <1>1

\* The same, the other way round.
LEMMA PoolWith ==
  ASSUME NEW p \in Pools, NEW D \in SUBSET Tasks, NEW m \in [D -> Receipts]
  PROVE  /\ [p EXCEPT !.attempts = m] \in Pools
         /\ [p EXCEPT !.attempts = m].attempts = m
         /\ [p EXCEPT !.attempts = m].active = p.active
         /\ [p EXCEPT !.attempts = m].barrier = p.barrier
<1>1. m \in UNION {[E -> Receipts] : E \in SUBSET Tasks}
  OBVIOUS
<1> QED  BY <1>1 DEF Pools

\* A transaction of the ledger on one receipt, while no operator holds the pool.
LEMMA TransactStep ==
  ASSUME EvolutionInv, NEW p, Transact(p), p \in Pools, p.active = pool.active, p.barrier = pool.barrier,
         UNCHANGED <<console, papers, session, proc>>, flying' \subseteq Flights, FlightsKept',
         \A t \in DOMAIN pool.attempts :
           /\ t \in DOMAIN p.attempts
           /\ p.attempts[t].epoch = pool.attempts[t].epoch
           /\ t \in Unresolved(pool) \/ p.attempts[t] = pool.attempts[t]
  PROVE  Finished
<1>1. pool' = p /\ lock.pool \in {None, Stale} /\ lock' = [lock EXCEPT !.pool = None]
  BY DEF Transact, Free
<1>2. lock \in [Locks -> Holders] /\ (session # None => lock.console = "console")
  BY DEF EvolutionInv, Typed, RestTyped, LocksKept
<1>3. /\ lock' \in [Locks -> Holders] /\ lock'.console = lock.console /\ "pool" \in Locks /\ lock["pool"] \notin Operators
      /\ \A x \in Locks : lock'[x] = lock[x] \/ lock[x] \notin Operators
  BY <1>1, <1>2, EvolutionAssumption DEF Holders, Locks
<1>4. \A o \in Operators : proc[o].pc \notin Inner
  BY <1>3, NobodyInside DEF EvolutionInv
<1>5. LocksKept'
  BY <1>2, <1>3, OthersLocks
<1>6. HistoryStep
  BY <1>1 DEF HistoryStep
<1>7. StoresTyped' /\ StoresMatch'
  BY <1>1 DEF EvolutionInv, Typed, StoresTyped, StoresMatch, Reads, DecodesPool
<1> QED  BY <1>1, <1>3, <1>4, <1>5, <1>6, <1>7, OrdinaryStep DEF EvolutionInv, Typed, RestTyped

\* A reservation is for a task without a receipt.
LEMMA ReserveStep ==
  ASSUME EvolutionInv, NEW t \in Tasks, NEW c \in Configs, NEW by \in {"console", "runner"}, Reserve(t, c, by)
  PROVE  Finished
<1> DEFINE r == [epoch |-> c, status |-> "reserved"]
           D == DOMAIN pool.attempts \cup {t}
           m == With(pool.attempts, t, r)
           p == [pool EXCEPT !.attempts = m]
           g == [task |-> t, cfg |-> c, by |-> by]
<1>1. /\ t \notin DOMAIN pool.attempts /\ DecodesPool(pool, c) /\ Transact(p)
      /\ flying' = flying \cup {g} /\ UNCHANGED <<console, papers, session, proc>>
  BY DEF Reserve
<1>2. pool \in Pools /\ flying \subseteq Flights
  BY DEF EvolutionInv, Typed, StoresTyped, RestTyped
<1>3. D \in SUBSET Tasks /\ pool.attempts \in [DOMAIN pool.attempts -> Receipts]
  BY <1>2, AttemptsOf
<1>4. /\ m \in [D -> Receipts] /\ DOMAIN m = D /\ m[t] = r
      /\ \A d \in DOMAIN pool.attempts : m[d] = pool.attempts[d]
  BY <1>1, <1>3 DEF With, Receipts
<1> HIDE DEF m
<1>5. p \in Pools /\ p.attempts = m /\ p.active = pool.active /\ p.barrier = pool.barrier
  BY <1>2, <1>3, <1>4, PoolWith
<1> HIDE DEF p
<1>6. pool' = p
  BY <1>1 DEF Transact
<1>7. g \in Flights /\ flying' \subseteq Flights
  BY <1>1, <1>2 DEF Flights
<1>8. FlightsKept'
  <2>1. ASSUME NEW f \in flying'
        PROVE  DecodesPool(p, f.cfg) /\ f.task \in D /\ m[f.task].status = "reserved"
    BY <1>1, <1>4, <1>5 DEF EvolutionInv, FlightsKept, DecodesPool
  <2>2. \A f \in flying : f.task # t
    BY <1>1 DEF EvolutionInv, FlightsKept
  <2>3. \A f, h \in flying' : f.task = h.task => f = h
    BY <1>1, <2>2 DEF EvolutionInv, FlightsKept
  <2> QED  BY <1>4, <1>5, <1>6, <2>1, <2>3 DEF FlightsKept
<1> QED  BY <1>1, <1>4, <1>5, <1>7, <1>8, TransactStep

\* The console and a runner reserve alike.
LEMMA ReservesStep ==
  ASSUME EvolutionInv,
         \/ \E t \in ConsoleTasks : ConsoleReserves(t)
         \/ \E c \in Configs : \E t \in Tasks : RunnerReserves(t, c)
  PROVE  Finished
<1>1. ASSUME NEW t \in ConsoleTasks, ConsoleReserves(t) PROVE Finished
  <2>1. session # None /\ Reserve(t, session, "console")
    BY <1>1 DEF ConsoleReserves
  <2>2. session \in Configs /\ t \in Tasks
    BY <2>1, SessionFacts DEF Tasks
  <2> QED  BY <2>1, <2>2, ReserveStep
<1>2. ASSUME NEW c \in Configs, NEW t \in Tasks, RunnerReserves(t, c) PROVE Finished
  BY <1>2, ReserveStep DEF RunnerReserves
<1> QED  BY <1>1, <1>2

\* A settlement closes the one receipt of its run.
LEMMA SettleStep ==
  ASSUME EvolutionInv, NEW f \in flying, Settle(f)
  PROVE  Finished
<1>1. PICK status \in {"completed", "uncertain"} : Transact([pool EXCEPT !.attempts[f.task].status = status])
  BY DEF Settle
<1> DEFINE D == DOMAIN pool.attempts
           m == [pool.attempts EXCEPT ![f.task].status = status]
           p == [pool EXCEPT !.attempts = m]
<1>2. Transact(p)
  BY <1>1
<1>3. flying' = flying \ {f} /\ UNCHANGED <<console, papers, session, proc>>
  BY DEF Settle
<1>4. /\ pool \in Pools /\ flying \subseteq Flights /\ f.task \in D /\ pool.attempts[f.task].status = "reserved"
      /\ \A g \in flying : g.task = f.task => g = f
  BY DEF EvolutionInv, Typed, StoresTyped, RestTyped, FlightsKept
<1>5. D \in SUBSET Tasks /\ pool.attempts \in [D -> Receipts]
  BY <1>4, AttemptsOf
<1>6. /\ m \in [D -> Receipts] /\ m[f.task].epoch = pool.attempts[f.task].epoch
      /\ \A d \in D \ {f.task} : m[d] = pool.attempts[d]
  BY <1>4, <1>5 DEF Receipts
<1> HIDE DEF m
<1>7. p \in Pools /\ p.attempts = m /\ p.active = pool.active /\ p.barrier = pool.barrier
  BY <1>4, <1>5, <1>6, PoolWith
<1> HIDE DEF p
<1>8. pool' = p
  BY <1>2 DEF Transact
<1>9. DOMAIN m = D
  BY <1>6
<1>10. FlightsKept'
  <2>1. ASSUME NEW g \in flying'
        PROVE  DecodesPool(p, g.cfg) /\ g.task \in DOMAIN m /\ m[g.task].status = "reserved"
    <3>1. g \in flying /\ g.task # f.task
      BY <1>3, <1>4
    <3> QED  BY <1>6, <1>7, <1>9, <3>1 DEF EvolutionInv, FlightsKept, DecodesPool
  <2>2. \A g, h \in flying' : g.task = h.task => g = h
    BY <1>3 DEF EvolutionInv, FlightsKept
  <2> QED  BY <1>7, <1>8, <2>1, <2>2 DEF FlightsKept
<1>11. f.task \in Unresolved(pool)
  BY <1>4 DEF Unresolved
<1>12. flying' \subseteq Flights
  BY <1>3, <1>4
<1> QED  BY <1>2, <1>3, <1>6, <1>7, <1>9, <1>10, <1>11, <1>12, TransactStep

(***************************************************************************)
(* The theorems.                                                           *)
(***************************************************************************)
\* A new pool: no receipts, no console, no evolution.
LEMMA InitHolds ==
  Init => EvolutionInv
<1> SUFFICES ASSUME Init PROVE EvolutionInv
  OBVIOUS
<1>1. /\ pool = [active |-> First, barrier |-> None, attempts |-> Nothing] /\ console = None
      /\ journal = [to \in Targets |-> Unwritten] /\ ready = {} /\ temp = [to \in Targets |-> None]
      /\ lock = [x \in Locks |-> None] /\ session = None /\ flying = {} /\ proc = [o \in Operators |-> Idle]
  BY DEF Init
<1>2. Nothing \in UNION {[D -> Receipts] : D \in SUBSET Tasks}
  <2>1. Nothing \in [{} -> Receipts]
    BY DEF Nothing
  <2> QED  BY <2>1
<1>3. StoresTyped
  BY <1>1, <1>2 DEF StoresTyped, Pools, Configs
<1>4. PapersTyped
  BY <1>1 DEF PapersTyped, Journals, Unwritten, Stages
<1>5. RestTyped
  BY <1>1 DEF RestTyped, Holders, Procs, Idle, Pcs
<1>6. \A o \in Operators : proc[o].pc = "idle"
  BY <1>1 DEF Idle
<1>7. LocksKept /\ \A o \in Operators : Knows(o)
  BY <1>1, <1>6 DEF LocksKept, Knows, Inner
<1>8. JournalsKept /\ CopiesKept /\ FlightsKept
  BY <1>1 DEF JournalsKept, CopiesKept, FlightsKept, Unwritten
<1>9. StoresMatch
  BY <1>1 DEF StoresMatch, DecodesConsole
<1> QED  BY <1>3, <1>4, <1>5, <1>7, <1>8, <1>9 DEF EvolutionInv, Typed

\* Every step keeps the invariant, and the history.
LEMMA NextStep ==
  ASSUME EvolutionInv, StartingTyped, [Next]_vars
  PROVE  Finished
<1>1. ASSUME NEW o \in Operators, Evolve(o) PROVE Finished
  BY <1>1, ApplyStep, AcquireLockStep, LoadStep, StageStep, ResumeStep, PublishBarrierStep, TemporaryStep,
     PublishConsoleStep, WriteReadyStep, PublishPoolStep, ReleaseStep DEF Evolve
<1>2. ASSUME NEW o \in Operators, Throw(o) \/ OperatorDies(o) \/ \E to \in Wants[o] : Check(o, to) PROVE Finished
  BY <1>2, ThrowStep, OperatorDiesStep, CheckStep
<1>3. ASSUME Ordinary PROVE Finished
  <2>1. CASE \E c \in Configs : \E t \in Tasks : RunnerReserves(t, c)
    BY <2>1, ReservesStep
  <2>6. CASE (\E c \in Configs : OpenConsole(c)) \/ StartConsole \/ RefuseConsole \/ LeaveConsole
    BY <2>6, StartConsoleStep, NoConsoleStep
  <2>2. CASE \E t \in ConsoleTasks : Submit(t) \/ Cancel(t) \/ Dispatch(t) \/ Requeue(t) \/ SettleJob(t) \/ ConsoleReserves(t)
    BY <2>2, SubmitStep, ConsoleJobStep, ReservesStep
  <2>3. CASE \E f \in flying : Settle(f) \/ SettleFails(f) \/ RunnerDies(f)
    BY <2>3, SettleStep, FlightEnds
  <2>4. CASE CloseConsole \/ ConsoleDies
    BY <2>4, ConsoleEnds
  <2>5. CASE Collect \/ EndCollection \/ CollectorDies \/ \E x \in {"pool", "quota"} : RefusedStart(x)
    BY <2>5, LockOnlyStep
  <2> QED  BY <1>3, <2>1, <2>2, <2>3, <2>4, <2>5, <2>6 DEF Ordinary
<1>4. CASE UNCHANGED vars
  <2>1. UNCHANGED <<stores, papers, proc, flying, session, lock>>
    BY <1>4 DEF vars, ordinary
  <2>2. lock \in [Locks -> Holders]
    BY DEF EvolutionInv, Typed, RestTyped
  <2> QED  BY <2>1, <2>2, QuietStep
<1> QED  BY <1>1, <1>2, <1>3, <1>4 DEF Next

\* A console starts with a configuration or not at all.
LEMMA StartingStep ==
  ASSUME StartingTyped, [Next]_vars
  PROVE  StartingTyped'
<1>1. ASSUME NEW o \in Operators, Evolve(o) \/ Throw(o) \/ OperatorDies(o) \/ \E to \in Wants[o] : Check(o, to)
      PROVE  UNCHANGED starting
  BY <1>1 DEF Evolve, Apply, AcquireLock, Load, Stage, Resume, PublishBarrier, OpenTemporary, WriteTemporary,
     PublishConsole, WriteReady, PublishPool, Release, Throw, OperatorDies, Check, ordinary
<1>2. ASSUME \E c \in Configs : OpenConsole(c) PROVE StartingTyped'
  BY <1>2 DEF OpenConsole, StartingTyped
<1>3. ASSUME StartConsole \/ RefuseConsole \/ LeaveConsole PROVE StartingTyped'
  BY <1>3 DEF StartConsole, RefuseConsole, LeaveConsole, StartingTyped
<1>4. ASSUME NEW t \in Tasks, \/ Submit(t) \/ Cancel(t) \/ Dispatch(t) \/ Requeue(t) \/ SettleJob(t)
                            \/ ConsoleReserves(t) \/ \E c \in Configs : RunnerReserves(t, c)
      PROVE  UNCHANGED starting
  BY <1>4 DEF Submit, Cancel, Dispatch, Requeue, SettleJob, MoveJob, ConsoleReserves, RunnerReserves, Reserve, ordinary
<1>5. ASSUME NEW f \in flying, Settle(f) \/ SettleFails(f) \/ RunnerDies(f)
      PROVE  UNCHANGED starting
  BY <1>5 DEF Settle, SettleFails, RunnerDies
<1>6. ASSUME \/ CloseConsole \/ ConsoleDies \/ Collect \/ EndCollection \/ CollectorDies
             \/ \E x \in {"pool", "quota"} : RefusedStart(x)
      PROVE  UNCHANGED starting
  BY <1>6 DEF CloseConsole, ConsoleDies, Collect, EndCollection, CollectorDies, RefusedStart, ordinary
<1>7. CASE Ordinary
  BY <1>2, <1>3, <1>4, <1>5, <1>6, <1>7 DEF Ordinary, StartingTyped, Tasks
<1>8. CASE UNCHANGED vars
  BY <1>8 DEF vars, ordinary, StartingTyped
<1> QED  BY <1>1, <1>7, <1>8 DEF Next, StartingTyped

\* Whoever is between two writes of apply holds the three locks and knows the stores,
\* whatever died, threw or ran in between.
THEOREM EvolutionInvariant == Spec => [](EvolutionInv /\ StartingTyped)
<1>1. Init => StartingTyped
  BY DEF Init, StartingTyped
<1>2. EvolutionInv /\ StartingTyped /\ [Next]_vars => EvolutionInv' /\ StartingTyped'
  BY NextStep, StartingStep DEF Finished
<1> QED  BY <1>1, <1>2, InitHolds, PTL DEF Spec

\* The stores stay well-formed, journals stay derivable, copies of the console stay behind
\* the barrier, and only the holder of the three locks is in apply.
THEOREM TypeCorrect == Spec => []TypeOK
<1>1. EvolutionInv /\ StartingTyped => TypeOK
  <2> SUFFICES ASSUME EvolutionInv, StartingTyped PROVE TypeOK
    OBVIOUS
  <2>1. StoresTyped /\ proc \in [Operators -> Procs] /\ JournalsKept /\ CopiesKept /\ LocksKept
    BY DEF EvolutionInv, Typed, RestTyped
  <2>2. \A o \in Operators : proc[o].pc \in Pcs
    BY <2>1 DEF Procs
  <2>3. Pcs \ (Locks \cup {"idle", "reviewed", "release"}) \subseteq Inner
    BY DEF Pcs, Inner, Locks
  <2> QED  BY <2>1, <2>2, <2>3 DEF TypeOK, StoresTyped, StartingTyped, JournalsKept, CopiesKept, LocksKept
<1> QED  BY <1>1, EvolutionInvariant, PTL

\* No program ever works on two stores of different configurations.
THEOREM StoresAlwaysAgree == Spec => []StoresAgree
<1>1. EvolutionInv => StoresAgree
  BY DEF EvolutionInv, StoresAgree, StoresMatch, FlightsKept
<1> QED  BY <1>1, EvolutionInvariant, PTL

\* No evolution loses or changes a closed receipt or a finished job.
THEOREM HistoryPreserved == Spec => HistoryKept
<1>1. EvolutionInv /\ StartingTyped /\ [Next]_vars => HistoryStep
  BY NextStep DEF Finished
<1> QED  BY <1>1, EvolutionInvariant, PTL DEF Spec, HistoryKept, HistoryStep
=============================================================================
