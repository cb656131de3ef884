------------------------ MODULE PoolSupervisorProofs ------------------------
(***************************************************************************)
(* Proofs about PoolSupervisor for any set of tasks and any limits.        *)
(***************************************************************************)
EXTENDS PoolSupervisor, FiniteSetTheorems, TLAPS

(***************************************************************************)
(* Types.                                                                  *)
(***************************************************************************)
JobMaps == UNION {[D -> Jobs] : D \in SUBSET Tasks}
Stores == [paused : BOOLEAN, jobs : JobMaps]
Entries == [content : Contents, status : Settlements \cup {"reserved"}]
CallPcs == {"entered", "running", "denied", "replayed", "returned", "thrown"}
CallRecords == [pc : CallPcs, aborted : BOOLEAN, status : Settlements \cup {"reserved", None}]
CallMaps == UNION {[D -> CallRecords] : D \in SUBSET Tasks}
Pumps == [pc : {"idle", "loop", "gate", "saved", "reserved", "called"}, todo : SUBSET Tasks, job : Tasks \cup {None}]

(***************************************************************************)
(* The inductive invariant, first of the ledger and of a job store, be it  *)
(* the file or memory.                                                     *)
(***************************************************************************)
LedgerTyped ==
  /\ DOMAIN receipts \subseteq Tasks
  /\ receipts \in [DOMAIN receipts -> Entries]
  /\ holder \in [DOMAIN receipts -> {"console", "other"}]
  /\ invoked \subseteq DOMAIN receipts

\* The console reserved the receipt of t, and invoked a worker for it.
Ours(t) == t \in DOMAIN holder /\ holder[t] = "console"
Ran(t) == t \in invoked /\ Ours(t)

Open == {"queued", "dispatching"}

\* What decodeResourceConsoleState asks of one job, and of its parent.
JobDecodes(job) ==
  /\ IF job.state \in Open
     THEN job.input /\ job.outcome = None /\ job.history \in {"none", "prompt"}
     ELSE ~ job.input
  /\ job.state = "queued" => ~ job.worker
  /\ job.state = "settled" => job.outcome \in Terminal /\ job.worker
  /\ job.state = "unresolved" => job.outcome \in {None, "reserved", "uncertain"}
  /\ job.state = "cancelled" => job.outcome = "cancelled" /\ ~ job.worker
  /\ job.history = "output" => job.state = "settled" /\ job.outcome = "completed"
  /\ job.parent = None => ~ job.context
  /\ job.parent # None => (job.context <=> (job.input \/ job.history \in {"prompt", "output"}))

ParentDecodes(jobs, t, job) ==
  job.parent # None => /\ job.parent \in DOMAIN jobs \ {t}
                       /\ job.context => jobs[job.parent].state \in {"settled", "cancelled"}

\* A job tells what the ledger recorded; the console ran only jobs it keeps as such.
Truthful(t, job) ==
  /\ job.state = "settled" => t \in DOMAIN receipts /\ receipts[t] = [content |-> job.content, status |-> job.outcome]
  /\ job.history = "output" => Ran(t)
  /\ Ours(t) => job.state \notin {"queued", "cancelled"} /\ receipts[t].content = job.content
  /\ t \in lost => job.state \in {"settled", "unresolved"}

JobKept(jobs, t, job) == JobDecodes(job) /\ ParentDecodes(jobs, t, job) /\ Truthful(t, job)

JobsKept(state) == \A t \in DOMAIN state.jobs : JobKept(state.jobs, t, state.jobs[t])

\* No task that matters is missing.
Complete(state) == \A t \in Tasks : Ours(t) \/ t \in lost => t \in DOMAIN state.jobs

StoreKept(state) == state \in Stores /\ JobsKept(state) /\ Complete(state)

StoresKept ==
  /\ StoreKept(disk) /\ StoreKept(mem)
  /\ DOMAIN mem.jobs \subseteq DOMAIN disk.jobs
  /\ ~ error => disk = mem

(***************************************************************************)
(* The calls in flight and pump().                                         *)
(***************************************************************************)
CallKept(t) ==
  LET call == active[t] IN
    /\ t \in DOMAIN mem.jobs /\ mem.jobs[t].state = "dispatching" /\ t \in dispatched
    /\ call.pc = "entered" => pump.pc \in {"saved", "reserved"} /\ pump.job = t
    /\ call.pc \in {"denied", "replayed"} => ~ Ours(t)
    /\ call.pc = "running" \/ (call.pc = "returned" /\ call.status = "completed") => Ran(t)

CallsKept ==
  /\ active \in CallMaps
  /\ \A t \in DOMAIN active : CallKept(t)
  /\ ~ error /\ phase \in {"up", "closing"} =>
       \A t \in DOMAIN mem.jobs : mem.jobs[t].state = "dispatching" => t \in DOMAIN active

PumpKept ==
  /\ pump \in Pumps /\ (pump.pc = "idle" => pump = Idle)
  /\ pump.todo \subseteq DOMAIN mem.jobs \ lost /\ pump.job \notin lost
  /\ pump.pc = "gate" => pump.job \in DOMAIN mem.jobs /\ ~ Full
  /\ pump.pc \in {"saved", "reserved", "called"} => pump.job \in DOMAIN active
  /\ pump.pc \in {"saved", "reserved"} => active[pump.job].pc = "entered" /\ ~ Stopped
  /\ pump.pc = "saved" => ~ Ours(pump.job)
  /\ pump.pc = "reserved" => Ours(pump.job)

SessionKept ==
  /\ phase \in Down \cup {"up", "closing"} /\ error \in BOOLEAN
  /\ phase \in Down => active = NoCalls /\ pump = Idle /\ recent = {}
  /\ recent \subseteq DOMAIN mem.jobs /\ dispatched \subseteq DOMAIN mem.jobs
  /\ lost \subseteq Tasks
  /\ mine \subseteq dispatched /\ \A t \in mine : Ours(t)
  /\ phase = "clean" => /\ \A t \in mine : receipts[t].status \in Terminal
                        /\ \A t \in DOMAIN disk.jobs : disk.jobs[t].state # "dispatching"

(***************************************************************************)
(* The limits.  A call without a receipt may return to the queue: its      *)
(* place is kept.                                                          *)
(***************************************************************************)
Places == Queued(mem) \cup {t \in DOMAIN active : active[t].pc \in {"entered", "denied"}}

AtMost(S, n) == IsFiniteSet(S) /\ Cardinality(S) <= n

LimitsKept ==
  /\ AtMost(DOMAIN active, MaxParallel)
  /\ AtMost(Places, MaxQueued)
  /\ AtMost(Queued(disk), MaxQueued)

SupervisorInv == LedgerTyped /\ StoresKept /\ CallsKept /\ PumpKept /\ SessionKept /\ LimitsKept

(***************************************************************************)
(* Job stores.                                                             *)
(***************************************************************************)
LEMMA MapIsJobs ==
  ASSUME NEW jobs \in JobMaps
  PROVE  DOMAIN jobs \subseteq Tasks /\ jobs \in [DOMAIN jobs -> Jobs]
BY DEF JobMaps

\* A function from tasks to jobs is a job map.
LEMMA JobsIsMap ==
  ASSUME NEW D \in SUBSET Tasks, NEW jobs \in [D -> Jobs]
  PROVE  jobs \in JobMaps
BY DEF JobMaps

\* A call map is a function from tasks to call records.
LEMMA MapIsCalls ==
  ASSUME NEW calls \in CallMaps
  PROVE  DOMAIN calls \subseteq Tasks /\ calls \in [DOMAIN calls -> CallRecords]
BY DEF CallMaps

\* A function from tasks to call records is a call map.
LEMMA CallsIsMap ==
  ASSUME NEW D \in SUBSET Tasks, NEW calls \in [D -> CallRecords]
  PROVE  calls \in CallMaps
BY DEF CallMaps

\* The store in which t has become job.
LEMMA WithFields ==
  ASSUME mem \in Stores, NEW t \in Tasks, NEW job \in Jobs
  PROVE  /\ With(t, job) \in Stores
         /\ With(t, job).paused = mem.paused
         /\ DOMAIN With(t, job).jobs = DOMAIN mem.jobs \cup {t}
         /\ With(t, job).jobs[t] = job
         /\ \A x \in DOMAIN mem.jobs \ {t} : With(t, job).jobs[x] = mem.jobs[x]
<1> DEFINE m == [x \in DOMAIN mem.jobs \cup {t} |-> IF x = t THEN job ELSE mem.jobs[x]]
<1>1. mem.jobs \in JobMaps
  BY DEF Stores
<1>2. m \in [DOMAIN mem.jobs \cup {t} -> Jobs] /\ DOMAIN mem.jobs \cup {t} \in SUBSET Tasks
  BY <1>1, MapIsJobs
<1>3. m \in JobMaps
  BY <1>2, JobsIsMap
<1>4. With(t, job) = [mem EXCEPT !.jobs = m]
  BY DEF With
<1>5. With(t, job) \in Stores /\ With(t, job).paused = mem.paused /\ With(t, job).jobs = m
  <2> HIDE DEF m
  <2> QED  BY <1>3, <1>4 DEF Stores
<1> QED  BY <1>5

\* It is kept if the job is, and if no settled or cancelled job is reopened: a follow-up
\* may have copied its conversation.
LEMMA WithKept ==
  ASSUME StoreKept(mem), NEW t \in Tasks, NEW job \in Jobs, JobKept(mem.jobs, t, job),
         t \in DOMAIN mem.jobs /\ mem.jobs[t].state \in {"settled", "cancelled"}
           => job.state \in {"settled", "cancelled"}
  PROVE  StoreKept(With(t, job))
<1> DEFINE next == With(t, job)
<1>1. mem \in Stores /\ JobsKept(mem) /\ Complete(mem)
  BY DEF StoreKept
<1>2. /\ next \in Stores /\ DOMAIN next.jobs = DOMAIN mem.jobs \cup {t} /\ next.jobs[t] = job
      /\ \A x \in DOMAIN mem.jobs \ {t} : next.jobs[x] = mem.jobs[x]
  BY <1>1, WithFields
<1> HIDE DEF next
<1>3. Complete(next)
  BY <1>1, <1>2 DEF Complete
<1>4. ASSUME NEW x \in DOMAIN next.jobs
      PROVE JobKept(next.jobs, x, next.jobs[x])
  <2>1. CASE x = t
    BY <1>2, <2>1 DEF JobKept, ParentDecodes
  <2>2. CASE x # t
    <3>1. x \in DOMAIN mem.jobs /\ next.jobs[x] = mem.jobs[x] /\ JobKept(mem.jobs, x, mem.jobs[x])
      BY <1>1, <1>2, <2>2 DEF JobsKept
    <3> QED  BY <1>2, <3>1 DEF JobKept, ParentDecodes
  <2> QED  BY <2>1, <2>2
<1> QED  BY <1>2, <1>3, <1>4 DEF StoreKept, JobsKept, next

\* A kept store passes decodeResourceConsoleState.
LEMMA KeptIsDecoded ==
  ASSUME NEW state, StoreKept(state) PROVE Decoded(state)
BY DEF StoreKept, JobsKept, JobKept, JobDecodes, ParentDecodes, Decoded, Open

(***************************************************************************)
(* Jobs.                                                                   *)
(***************************************************************************)
LEMMA WithoutTextFields ==
  ASSUME NEW job \in Jobs
  PROVE  /\ WithoutText(job) \in Jobs
         /\ WithoutText(job).content = job.content /\ WithoutText(job).parent = job.parent
         /\ WithoutText(job).history = job.history /\ ~ WithoutText(job).input
         /\ WithoutText(job).context <=> job.context /\ job.history \in {"prompt", "output"}
BY DEF WithoutText, Jobs

\* What cancelling changes of a job, field by field.
LEMMA CancelledFields ==
  ASSUME NEW job \in Jobs
  PROVE  /\ Cancelled(job) \in Jobs
         /\ Cancelled(job).content = job.content /\ Cancelled(job).parent = job.parent
         /\ Cancelled(job).history = job.history /\ ~ Cancelled(job).input
         /\ Cancelled(job).context <=> job.context /\ job.history \in {"prompt", "output"}
         /\ Cancelled(job).state = "cancelled" /\ Cancelled(job).outcome = "cancelled"
         /\ ~ Cancelled(job).worker
<1> DEFINE j == WithoutText(job)
<1>1. /\ j \in Jobs /\ j.content = job.content /\ j.parent = job.parent
      /\ j.history = job.history /\ ~ j.input
      /\ j.context <=> job.context /\ job.history \in {"prompt", "output"}
  BY WithoutTextFields
<1>2. Cancelled(job) = [j EXCEPT !.state = "cancelled", !.outcome = "cancelled", !.worker = FALSE]
  BY DEF Cancelled
<1> HIDE DEF j
<1>3. Cancelled(job) \in Jobs
  BY <1>1, <1>2 DEF Jobs, States, Settlements, Terminal
<1> QED  BY <1>1, <1>2, <1>3 DEF Jobs

\* What settling from the ledger changes of a job, field by field.
LEMMA ResolvedFields ==
  ASSUME LedgerTyped, NEW t \in Tasks, NEW job \in Jobs, NEW fresh \in BOOLEAN
  PROVE  LET r == Resolved(t, job, fresh) IN
         /\ r \in Jobs
         /\ r.content = job.content /\ r.parent = job.parent /\ ~ r.input
         /\ r.context <=> job.context /\ job.history \in {"prompt", "output"}
         /\ r.state \in {"settled", "unresolved"}
         /\ r.state = "settled" <=> KnownTerminal(t, job)
         /\ r.worker <=> Known(t, job)
         /\ r.outcome = IF Known(t, job) THEN receipts[t].status ELSE None
         /\ r.history # job.history =>
              /\ r.history = "output" /\ job.history = "prompt"
              /\ fresh /\ Known(t, job) /\ receipts[t].status = "completed"
<1> DEFINE j == WithoutText(job)
           state == IF KnownTerminal(t, job) THEN "settled" ELSE "unresolved"
           outcome == IF Known(t, job) THEN receipts[t].status ELSE None
           text == IF job.history = "prompt" /\ fresh /\ Known(t, job) /\ receipts[t].status = "completed"
                      THEN "output" ELSE job.history
           worker == Known(t, job)
<1>1. /\ j \in Jobs /\ j.content = job.content /\ j.parent = job.parent
      /\ j.history = job.history /\ ~ j.input
      /\ j.context <=> job.context /\ job.history \in {"prompt", "output"}
  BY WithoutTextFields
<1>2. Resolved(t, job, fresh) = [j EXCEPT !.state = state, !.worker = worker, !.outcome = outcome, !.history = text]
  BY <1>1 DEF Resolved
<1>3. state \in {"settled", "unresolved"} /\ (state = "settled" <=> KnownTerminal(t, job))
  OBVIOUS
<1>4. outcome \in Settlements \cup {"reserved", None}
  BY DEF LedgerTyped, Entries, Known
<1>5. text \in {"none", "prompt", "output", "deleted"}
  BY DEF Jobs
<1>6. worker \in BOOLEAN
  BY DEF Known
<1>7. text # job.history =>
        /\ text = "output" /\ job.history = "prompt"
        /\ fresh /\ Known(t, job) /\ receipts[t].status = "completed"
  OBVIOUS
<1>8. outcome = IF Known(t, job) THEN receipts[t].status ELSE None
  OBVIOUS
<1>9. worker <=> Known(t, job)
  OBVIOUS
<1> HIDE DEF j, state, outcome, text, worker
<1>10. /\ Resolved(t, job, fresh) \in Jobs
       /\ Resolved(t, job, fresh).content = j.content /\ Resolved(t, job, fresh).parent = j.parent
       /\ Resolved(t, job, fresh).input = j.input /\ Resolved(t, job, fresh).context = j.context
       /\ Resolved(t, job, fresh).state = state /\ Resolved(t, job, fresh).worker = worker
       /\ Resolved(t, job, fresh).outcome = outcome /\ Resolved(t, job, fresh).history = text
  BY <1>1, <1>2, <1>3, <1>4, <1>5, <1>6 DEF Jobs, States
<1> QED  BY <1>1, <1>3, <1>7, <1>8, <1>9, <1>10

\* Each change of a job keeps it: cancelled, settled from the ledger, back in the queue,
\* dispatched, named, its text deleted.
LEMMA CancelledJob ==
  ASSUME NEW jobs, NEW t \in Tasks, NEW job \in Jobs, JobKept(jobs, t, job), job.state \in Open, ~ Ours(t)
  PROVE  JobKept(jobs, t, Cancelled(job))
<1> DEFINE j == Cancelled(job)
<1>1. /\ j \in Jobs /\ j.content = job.content /\ j.parent = job.parent
      /\ j.history = job.history /\ ~ j.input /\ ~ j.worker
      /\ j.context <=> job.context /\ job.history \in {"prompt", "output"}
      /\ j.state = "cancelled" /\ j.outcome = "cancelled"
  BY CancelledFields
<1> HIDE DEF j
<1>2. JobDecodes(j) /\ ParentDecodes(jobs, t, j)
  BY <1>1 DEF JobKept, JobDecodes, ParentDecodes, Open, Jobs
<1>3. Truthful(t, j)
  BY <1>1 DEF JobKept, JobDecodes, Truthful, Open
<1> QED  BY <1>2, <1>3 DEF JobKept, j

\* An open job settled from the ledger; only a completed call that ran may capture output.
LEMMA ResolvedJob ==
  ASSUME LedgerTyped, NEW jobs, NEW t \in Tasks, NEW job \in Jobs, JobKept(jobs, t, job), job.state \in Open,
         NEW fresh \in BOOLEAN, fresh /\ receipts[t].status = "completed" => Ran(t)
  PROVE  JobKept(jobs, t, Resolved(t, job, fresh))
<1> DEFINE j == Resolved(t, job, fresh)
<1>1. /\ j \in Jobs /\ j.content = job.content /\ j.parent = job.parent /\ ~ j.input
      /\ j.context <=> job.context /\ job.history \in {"prompt", "output"}
      /\ j.state \in {"settled", "unresolved"}
      /\ j.state = "settled" <=> KnownTerminal(t, job)
      /\ j.worker <=> Known(t, job)
      /\ j.outcome = IF Known(t, job) THEN receipts[t].status ELSE None
      /\ j.history # job.history =>
           /\ j.history = "output" /\ job.history = "prompt"
           /\ fresh /\ Known(t, job) /\ receipts[t].status = "completed"
  BY ResolvedFields
<1> HIDE DEF j
<1>2. Known(t, job) => receipts[t] \in Entries
  BY DEF Known, LedgerTyped
<1>3. j.state = "settled" => j.outcome \in Terminal /\ j.worker
  BY <1>1 DEF KnownTerminal
<1>4. j.state = "unresolved" => j.outcome \in {None, "reserved", "uncertain"}
  BY <1>1, <1>2 DEF KnownTerminal, Entries, Settlements
<1>5. j.history = "output" => j.state = "settled" /\ j.outcome = "completed"
  BY <1>1 DEF JobKept, JobDecodes, Open, KnownTerminal, Terminal
<1>6. JobDecodes(j) /\ ParentDecodes(jobs, t, j)
  BY <1>1, <1>3, <1>4, <1>5 DEF JobKept, JobDecodes, ParentDecodes, Open, Jobs
<1>7. Truthful(t, j)
  <2>1. ASSUME j.state = "settled"
        PROVE  t \in DOMAIN receipts /\ receipts[t] = [content |-> j.content, status |-> j.outcome]
    BY <1>1, <1>2, <2>1 DEF KnownTerminal, Known, Entries
  <2>2. j.history = "output" => Ran(t)
    BY <1>1 DEF JobKept, JobDecodes, Open
  <2> QED  BY <1>1, <2>1, <2>2 DEF JobKept, Truthful
<1> QED  BY <1>6, <1>7 DEF JobKept, j

\* A dispatched job the console has no receipt of returns to the queue.
LEMMA RequeuedJob ==
  ASSUME NEW jobs, NEW t \in Tasks, NEW job \in Jobs, JobKept(jobs, t, job), job.state = "dispatching", ~ Ours(t)
  PROVE  /\ Requeued(job) \in Jobs /\ Requeued(job).state = "queued"
         /\ Requeued(job).content = job.content /\ Requeued(job).parent = job.parent
         /\ JobKept(jobs, t, Requeued(job))
<1> DEFINE j == Requeued(job)
<1>1. /\ j \in Jobs /\ j.content = job.content /\ j.parent = job.parent /\ j.input = job.input
      /\ j.context = job.context /\ j.history = job.history
      /\ j.state = "queued" /\ j.outcome = None /\ ~ j.worker
  BY DEF Requeued, Jobs, States
<1> HIDE DEF j
<1>2. JobKept(jobs, t, j)
  BY <1>1 DEF JobKept, JobDecodes, ParentDecodes, Truthful, Open
<1> QED  BY <1>1, <1>2 DEF j

\* An open job whose only change is to be dispatching, or to name its worker.
LEMMA DispatchedJob ==
  ASSUME NEW jobs, NEW t \in Tasks, NEW job \in Jobs, JobKept(jobs, t, job), job.state \in Open,
         NEW j \in Jobs, j.content = job.content, j.parent = job.parent, j.input = job.input,
         j.context = job.context, j.history = job.history, j.outcome = job.outcome, j.state = "dispatching"
  PROVE  JobKept(jobs, t, j)
BY DEF JobKept, JobDecodes, ParentDecodes, Truthful, Open

\* A finished job whose text is deleted.
LEMMA DeletedJob ==
  ASSUME NEW jobs, NEW t \in Tasks, NEW job \in Jobs, JobKept(jobs, t, job), job.state \in {"settled", "cancelled"},
         NEW j \in Jobs, j.content = job.content, j.parent = job.parent, j.input = job.input,
         ~ j.context, j.history = "deleted", j.state = job.state, j.outcome = job.outcome, j.worker = job.worker
  PROVE  JobKept(jobs, t, j)
BY DEF JobKept, JobDecodes, ParentDecodes, Truthful, Open

(***************************************************************************)
(* persist().                                                              *)
(***************************************************************************)
\* What a later store may do to an earlier one.
Follows(old, new) ==
  \A t \in DOMAIN old.jobs :
    LET job == old.jobs[t] IN
      /\ t \in DOMAIN new.jobs
      /\ new.jobs[t].content = job.content
      /\ new.jobs[t].parent = job.parent
      /\ job.state \in {"settled", "cancelled", "unresolved"} =>
           new.jobs[t] \in {job, [job EXCEPT !.history = "deleted", !.context = FALSE]}

FileFollows == Follows(disk, disk')

\* A store that may be written next.
Writable(next) == StoreKept(next) /\ Follows(mem, next) /\ AtMost(Queued(next), MaxQueued)

\* A store that stays as it is follows itself.
LEMMA FollowsSelf == ASSUME NEW state PROVE Follows(state, state)
BY DEF Follows

\* Changing an open job, or deleting the text of a finished one, is a store that may follow memory.
LEMMA WithWritable ==
  ASSUME StoreKept(mem), NEW t \in DOMAIN mem.jobs, NEW job \in Jobs, JobKept(mem.jobs, t, job),
         job.content = mem.jobs[t].content, job.parent = mem.jobs[t].parent,
         \/ mem.jobs[t].state \in Open
         \/ job = [mem.jobs[t] EXCEPT !.history = "deleted", !.context = FALSE] /\ job.state = mem.jobs[t].state
  PROVE  StoreKept(With(t, job)) /\ Follows(mem, With(t, job))
<1>1. mem \in Stores /\ mem.jobs \in JobMaps
  BY DEF StoreKept, Stores
<1>2. t \in Tasks
  BY <1>1, MapIsJobs
<1>3. /\ DOMAIN With(t, job).jobs = DOMAIN mem.jobs \cup {t}
      /\ With(t, job).jobs[t] = job
      /\ \A x \in DOMAIN mem.jobs \ {t} : With(t, job).jobs[x] = mem.jobs[x]
  BY <1>1, <1>2, WithFields
<1>4. StoreKept(With(t, job))
  BY <1>2, WithKept DEF Open
<1>5. Follows(mem, With(t, job))
  BY <1>3 DEF Follows, Open
<1> QED  BY <1>4, <1>5

\* The queue of the store in which t has become job.
LEMMA WithQueued ==
  ASSUME mem \in Stores, NEW t \in Tasks, NEW job \in Jobs
  PROVE  /\ job.state # "queued" => Queued(With(t, job)) = Queued(mem) \ {t}
         /\ job.state = "queued" => Queued(With(t, job)) = Queued(mem) \cup {t}
<1>1. /\ DOMAIN With(t, job).jobs = DOMAIN mem.jobs \cup {t}
      /\ With(t, job).jobs[t] = job
      /\ \A x \in DOMAIN mem.jobs \ {t} : With(t, job).jobs[x] = mem.jobs[x]
  BY WithFields
<1> QED  BY <1>1 DEF Queued

\* A part of a set within a limit is within it.
LEMMA AtMostSubset ==
  ASSUME NEW S, NEW T, S \subseteq T, NEW n \in Nat, AtMost(T, n)
  PROVE  AtMost(S, n)
<1>1. IsFiniteSet(S) /\ Cardinality(S) <= Cardinality(T)
  BY FS_Subset DEF AtMost
<1>2. Cardinality(S) \in Nat /\ Cardinality(T) \in Nat
  BY <1>1, FS_CardinalityType DEF AtMost
<1> QED  BY <1>1, <1>2 DEF AtMost

\* A set below its limit has room for one more.
LEMMA AtMostAdd ==
  ASSUME NEW S, NEW x, NEW n \in Nat, IsFiniteSet(S), Cardinality(S) < n
  PROVE  AtMost(S \cup {x}, n)
<1>1. IsFiniteSet(S \cup {x}) /\ Cardinality(S \cup {x}) \in {Cardinality(S), Cardinality(S) + 1}
  BY FS_AddElement
<1>2. Cardinality(S) \in Nat
  BY FS_CardinalityType
<1> QED  BY <1>1, <1>2 DEF AtMost

\* persist() leaves a file and a memory that are kept, whether it returns or faults.
LEMMA Persists ==
  ASSUME StoresKept, NEW next, StoreKept(next), Follows(mem, next), UNCHANGED <<receipts, invoked, holder, lost>>,
         \/ Saves(next)
         \/ disk' \in {disk, IF disk = mem THEN next ELSE disk} /\ error' /\ mem' = mem
  PROVE  StoresKept' /\ FileFollows /\ disk' \in {disk, next} /\ DOMAIN mem.jobs \subseteq DOMAIN mem'.jobs
<1>1. StoreKept(disk)' /\ StoreKept(mem)'
  <2>1. \A state \in {disk, mem, next} : StoreKept(state)
    BY DEF StoresKept
  <2>2. disk' \in {disk, mem, next} /\ mem' \in {disk, mem, next}
    BY DEF Saves
  <2>3. StoreKept(disk') /\ StoreKept(mem')
    BY <2>1, <2>2
  <2> QED  BY <2>3 DEF StoreKept, JobsKept, JobKept, Truthful, Ours, Ran, Complete
<1>2. DOMAIN mem.jobs \subseteq DOMAIN next.jobs
  BY DEF Follows
<1>3. DOMAIN mem'.jobs \subseteq DOMAIN disk'.jobs /\ (~ error' => disk' = mem')
  BY <1>2 DEF StoresKept, Saves
<1>4. FileFollows
  BY FollowsSelf DEF Saves, FileFollows
<1> QED  BY <1>1, <1>2, <1>3, <1>4 DEF StoresKept, Saves

Finished == SupervisorInv' /\ FileFollows

\* Aborting the calls keeps where they are and what they return.
LEMMA AbortedFields ==
  ASSUME NEW calls \in CallMaps
  PROVE  /\ Aborted(calls) \in CallMaps /\ DOMAIN Aborted(calls) = DOMAIN calls
         /\ \A t \in DOMAIN calls : Aborted(calls)[t].pc = calls[t].pc /\ Aborted(calls)[t].status = calls[t].status
<1>1. DOMAIN calls \subseteq Tasks /\ calls \in [DOMAIN calls -> CallRecords]
  BY MapIsCalls
<1>2. Aborted(calls) \in [DOMAIN calls -> CallRecords]
  BY <1>1 DEF Aborted, CallRecords
<1>3. Aborted(calls) \in CallMaps
  BY <1>1, <1>2, CallsIsMap
<1> QED  BY <1>1, <1>2, <1>3 DEF Aborted, CallRecords

\* A write that throws: the calls are told to stop, the pass ends.  Nobody has entered
\* runResourceTask at that point.
LEMMA SaveFailsStep ==
  ASSUME SupervisorInv, NEW next, Writable(next), SaveFails(next, active),
         phase \notin Down, pump.pc \notin {"saved", "reserved"}
  PROVE  Finished
<1>1. /\ disk' \in {disk, IF disk = mem THEN next ELSE disk} /\ error' /\ error' \in BOOLEAN /\ mem' = mem
      /\ active' = Aborted(active) /\ pump' = Idle
      /\ UNCHANGED <<receipts, invoked, holder, lost, phase, tried, recent, dispatched, mine>>
  BY DEF SaveFails, Faults, ledger, history
<1>2. StoresKept' /\ FileFollows /\ disk' \in {disk, next}
  BY <1>1, Persists DEF SupervisorInv, Writable
<1>3. /\ active' \in CallMaps /\ DOMAIN active' = DOMAIN active
      /\ \A t \in DOMAIN active : active'[t].pc = active[t].pc /\ active'[t].status = active[t].status
  BY <1>1, AbortedFields DEF SupervisorInv, CallsKept
<1>4. LedgerTyped'
  BY <1>1 DEF SupervisorInv, LedgerTyped
<1>5. CallsKept'
  <2>1. ASSUME NEW t \in DOMAIN active PROVE CallKept(t)'
    BY <1>1, <1>3 DEF SupervisorInv, CallsKept, CallKept, Ran, Ours
  <2> QED  BY <1>1, <1>3, <2>1 DEF CallsKept
<1>6. PumpKept'
  BY <1>1, SupervisorAssumption DEF SupervisorInv, SessionKept, PumpKept, Idle, Pumps
<1>7. SessionKept'
  BY <1>1 DEF SupervisorInv, SessionKept, Ours, Down
<1>8. LimitsKept'
  <2>1. Places' = Places
    BY <1>1, <1>3 DEF Places, Queued
  <2>2. AtMost(Queued(disk'), MaxQueued)
    BY <1>2 DEF SupervisorInv, LimitsKept, Writable
  <2>3. Queued(disk)' = Queued(disk')
    BY DEF Queued
  <2> QED  BY <1>3, <2>1, <2>2, <2>3 DEF SupervisorInv, LimitsKept, AtMost
<1> QED  BY <1>2, <1>4, <1>5, <1>6, <1>7, <1>8 DEF SupervisorInv, Finished

\* A write that returns and changes no call: the same jobs are dispatching as before.
LEMMA SavedStep ==
  ASSUME SupervisorInv, NEW next, Writable(next), Saves(next),
         UNCHANGED <<ledger, phase, active, tried, recent, dispatched, history>>,
         phase \notin Down, pump.pc \notin {"saved", "reserved"}, pump' \in {pump, Loop},
         \A t \in DOMAIN mem.jobs : next.jobs[t].state = "dispatching" <=> mem.jobs[t].state = "dispatching",
         \A t \in DOMAIN next.jobs \ DOMAIN mem.jobs : next.jobs[t].state # "dispatching",
         AtMost(Queued(next) \cup {t \in DOMAIN active : active[t].pc \in {"entered", "denied"}}, MaxQueued)
  PROVE  Finished
<1>1. /\ disk = mem /\ disk' = next /\ mem' = next /\ error' = error
      /\ UNCHANGED <<receipts, invoked, holder, lost, phase, active, tried, recent, dispatched, mine>>
  BY DEF Saves, ledger, history
<1>2. StoresKept' /\ FileFollows /\ DOMAIN mem.jobs \subseteq DOMAIN next.jobs
  BY <1>1, Persists DEF SupervisorInv, Writable
<1>3. LedgerTyped'
  BY <1>1 DEF SupervisorInv, LedgerTyped
<1>4. \A t \in DOMAIN active : active[t].pc # "entered" /\ t \in DOMAIN mem.jobs /\ CallKept(t)
  BY DEF SupervisorInv, CallsKept, CallKept
<1>5. CallsKept'
  <2>1. ASSUME NEW t \in DOMAIN active PROVE CallKept(t)'
    BY <1>1, <1>2, <1>4 DEF CallKept, Ran, Ours
  <2> QED  BY <1>1, <1>2, <2>1 DEF SupervisorInv, CallsKept
<1>6. PumpKept'
  <2>1. CASE pump' = pump
    BY <1>1, <1>2, <2>1 DEF SupervisorInv, PumpKept, Full, Ours
  <2>2. CASE pump' = Loop
    BY <1>1, <1>2, <2>2, SupervisorAssumption DEF SupervisorInv, SessionKept, PumpKept, Loop, Pumps
  <2> QED  BY <2>1, <2>2
<1>7. SessionKept'
  BY <1>1, <1>2 DEF SupervisorInv, SessionKept, Ours, Down
<1>8. LimitsKept'
  <2>1. Places' = Queued(next) \cup {t \in DOMAIN active : active[t].pc \in {"entered", "denied"}}
    BY <1>1 DEF Places, Queued
  <2>2. Queued(disk)' = Queued(next)
    BY <1>1 DEF Queued
  <2> QED  BY <1>1, <2>1, <2>2 DEF SupervisorInv, LimitsKept, AtMost, Writable
<1> QED  BY <1>2, <1>3, <1>5, <1>6, <1>7, <1>8 DEF SupervisorInv, Finished

\* Where a handler may run, the supervisor is up and no call is being entered.
LEMMA AtRest ==
  ASSUME SupervisorInv, (Available /\ Quiet) \/ pump.pc \in {"gate", "called"}
  PROVE  phase \notin Down /\ pump.pc \notin {"saved", "reserved"}
BY DEF SupervisorInv, SessionKept, Available, Quiet, Down, Idle

\* The facts about memory that most steps start from.
LEMMA StoreFacts ==
  ASSUME SupervisorInv
  PROVE  /\ LedgerTyped /\ StoreKept(mem) /\ mem \in Stores
         /\ DOMAIN mem.jobs \subseteq Tasks
         /\ \A t \in DOMAIN mem.jobs : t \in Tasks /\ mem.jobs[t] \in Jobs /\ JobKept(mem.jobs, t, mem.jobs[t])
<1>1. StoreKept(mem) /\ mem \in Stores /\ mem.jobs \in JobMaps /\ LedgerTyped
  BY DEF SupervisorInv, StoresKept, StoreKept, Stores
<1> QED  BY <1>1, MapIsJobs DEF StoreKept, JobsKept

\* A write about one job that is neither dispatched nor put back into the queue by it.
LEMMA ChangeStep ==
  ASSUME SupervisorInv, NEW t \in DOMAIN mem.jobs, NEW job \in Jobs, JobKept(mem.jobs, t, job),
         job.content = mem.jobs[t].content, job.parent = mem.jobs[t].parent,
         \/ mem.jobs[t].state \in Open
         \/ job = [mem.jobs[t] EXCEPT !.history = "deleted", !.context = FALSE] /\ job.state = mem.jobs[t].state,
         job.state = "dispatching" <=> mem.jobs[t].state = "dispatching",
         job.state = "queued" => mem.jobs[t].state = "queued",
         phase \notin Down, pump.pc \notin {"saved", "reserved"},
         \/ /\ Saves(With(t, job)) /\ pump' \in {pump, Loop}
            /\ UNCHANGED <<ledger, phase, active, tried, recent, dispatched, history>>
         \/ SaveFails(With(t, job), active)
  PROVE  Finished
<1> DEFINE next == With(t, job)
           X == {x \in DOMAIN active : active[x].pc \in {"entered", "denied"}}
<1>1. mem \in Stores /\ StoreKept(mem) /\ t \in Tasks
  BY StoreFacts
<1>2. StoreKept(next) /\ Follows(mem, next)
  BY <1>1, WithWritable
<1>3. /\ DOMAIN next.jobs = DOMAIN mem.jobs \cup {t} /\ next.jobs[t] = job
      /\ \A x \in DOMAIN mem.jobs \ {t} : next.jobs[x] = mem.jobs[x]
  BY <1>1, WithFields
<1>4. Queued(next) \subseteq Queued(mem)
  BY <1>3 DEF Queued
<1>5. AtMost(Queued(next) \cup X, MaxQueued)
  <2>1. Queued(next) \cup X \subseteq Places /\ AtMost(Places, MaxQueued)
    BY <1>4 DEF Places, SupervisorInv, LimitsKept
  <2> QED  BY <2>1, AtMostSubset, SupervisorAssumption
<1>6. AtMost(Queued(next), MaxQueued)
  BY <1>5, AtMostSubset, SupervisorAssumption
<1>7. Writable(next)
  BY <1>2, <1>6 DEF Writable
<1>8. \A x \in DOMAIN mem.jobs : next.jobs[x].state = "dispatching" <=> mem.jobs[x].state = "dispatching"
  BY <1>3
<1>9. DOMAIN next.jobs \ DOMAIN mem.jobs = {}
  BY <1>3
<1> HIDE DEF next
<1>10. CASE SaveFails(next, active)
  BY <1>7, <1>10, SaveFailsStep
<1>11. CASE /\ Saves(next) /\ pump' \in {pump, Loop}
            /\ UNCHANGED <<ledger, phase, active, tried, recent, dispatched, history>>
  BY <1>5, <1>7, <1>8, <1>9, <1>11, SavedStep
<1> QED  BY <1>10, <1>11 DEF next

(***************************************************************************)
(* Requests.                                                               *)
(***************************************************************************)
LEMMA SubmitStep ==
  ASSUME SupervisorInv, NEW t \in Tasks, NEW content \in Contents, NEW retain \in Retention, NEW parent \in Parents,
         Submit(t, content, retain, parent)
  PROVE  Finished
<1> DEFINE job == [content |-> content, state |-> "queued", worker |-> FALSE, outcome |-> None,
                   input |-> TRUE, history |-> IF retain THEN "prompt" ELSE "none",
                   parent |-> parent, context |-> parent # None]
           next == With(t, job)
           X == {x \in DOMAIN active : active[x].pc \in {"entered", "denied"}}
<1>1. /\ Available /\ Quiet /\ t \notin DOMAIN mem.jobs
      /\ Cardinality(Queued(mem)) < MaxQueued
      /\ parent # None => parent \in DOMAIN mem.jobs /\ mem.jobs[parent].state \in {"settled", "cancelled"}
  BY DEF Submit
<1>2. \/ Saves(next) /\ UNCHANGED <<ledger, phase, active, pump, tried, recent, dispatched, history>>
      \/ SaveFails(next, active)
  BY DEF Submit
<1>3. phase \notin Down /\ pump.pc \notin {"saved", "reserved"}
  BY <1>1, AtRest
<1>4. mem \in Stores /\ StoreKept(mem)
  BY StoreFacts
<1>5. /\ job.content = content /\ job.state = "queued" /\ ~ job.worker /\ job.outcome = None /\ job.input
      /\ job.history \in {"none", "prompt"} /\ job.parent = parent /\ (job.context <=> parent # None)
  OBVIOUS
<1>6. job \in Jobs
  BY SupervisorAssumption DEF Jobs, States
<1> HIDE DEF job
<1>7. JobKept(mem.jobs, t, job)
  <2>1. ~ Ours(t) /\ t \notin lost
    BY <1>1, <1>4 DEF StoreKept, Complete
  <2> QED  BY <1>1, <1>5, <2>1 DEF JobKept, JobDecodes, ParentDecodes, Truthful, Open
<1>8. StoreKept(next)
  BY <1>1, <1>4, <1>6, <1>7, WithKept
<1>9. /\ DOMAIN next.jobs = DOMAIN mem.jobs \cup {t} /\ next.jobs[t] = job
      /\ \A x \in DOMAIN mem.jobs \ {t} : next.jobs[x] = mem.jobs[x]
  BY <1>4, <1>6, WithFields
<1>10. Follows(mem, next)
  BY <1>1, <1>9 DEF Follows
<1>11. AtMost(Queued(next), MaxQueued) /\ Queued(next) \cup X = Queued(next)
  <2>1. Queued(next) = Queued(mem) \cup {t}
    BY <1>4, <1>5, <1>6, WithQueued
  <2>2. IsFiniteSet(Queued(mem))
    BY FS_Subset DEF SupervisorInv, LimitsKept, AtMost, Places
  <2>3. AtMost(Queued(mem) \cup {t}, MaxQueued)
    BY <1>1, <2>2, AtMostAdd, SupervisorAssumption
  <2>4. X = {}
    BY <1>1, <1>3 DEF Quiet, Pending, SupervisorInv, CallsKept, CallKept
  <2> QED  BY <2>1, <2>3, <2>4
<1>12. Writable(next)
  BY <1>8, <1>10, <1>11 DEF Writable
<1>13. /\ \A x \in DOMAIN mem.jobs : next.jobs[x].state = "dispatching" <=> mem.jobs[x].state = "dispatching"
       /\ \A x \in DOMAIN next.jobs \ DOMAIN mem.jobs : next.jobs[x].state # "dispatching"
  BY <1>1, <1>5, <1>9
<1> HIDE DEF next, X
<1>14. CASE SaveFails(next, active)
  BY <1>3, <1>12, <1>14, SaveFailsStep
<1>15. CASE Saves(next) /\ UNCHANGED <<ledger, phase, active, pump, tried, recent, dispatched, history>>
  BY <1>3, <1>11, <1>12, <1>13, <1>15, SavedStep DEF X
<1> QED  BY <1>2, <1>14, <1>15

\* A queued job is cancelled, a call in flight told to stop.
LEMMA CancelStep ==
  ASSUME SupervisorInv, NEW t \in Tasks, Cancel(t)
  PROVE  Finished
<1>1. /\ (Available /\ Quiet) \/ pump.pc = "gate"
      /\ t \in DOMAIN mem.jobs
  BY DEF Cancel
<1>2. phase \notin Down /\ pump.pc \notin {"saved", "reserved"}
  BY <1>1, AtRest
<1>3. /\ mem.jobs[t] \in Jobs /\ JobKept(mem.jobs, t, mem.jobs[t]) /\ StoreKept(mem) /\ mem \in Stores
  BY <1>1, StoreFacts
<1>4. CASE mem.jobs[t].state = "queued"
  <2> DEFINE job == Cancelled(mem.jobs[t])
  <2>1. \/ Saves(With(t, job)) /\ UNCHANGED <<ledger, phase, active, pump, tried, recent, dispatched, history>>
        \/ SaveFails(With(t, job), active)
    BY <1>4 DEF Cancel
  <2>2. /\ job \in Jobs /\ job.content = mem.jobs[t].content /\ job.parent = mem.jobs[t].parent
        /\ job.state = "cancelled"
    BY <1>3, CancelledFields
  <2>3. JobKept(mem.jobs, t, job)
    BY <1>3, <1>4, CancelledJob DEF JobKept, Truthful, Open
  <2> HIDE DEF job
  <2>4. mem.jobs[t].state \in Open
    BY <1>4 DEF Open
  <2> QED  BY <1>1, <1>2, <1>4, <2>1, <2>2, <2>3, <2>4, ChangeStep
<1>5. CASE mem.jobs[t].state # "queued"
  <2>1. t \in DOMAIN active
    BY <1>5 DEF Cancel
  <2>2. AtMost(Queued(mem), MaxQueued)
    BY AtMostSubset, SupervisorAssumption DEF SupervisorInv, LimitsKept, Places
  <2>3. Writable(mem)
    BY <1>3, <2>2, FollowsSelf DEF Writable
  <2>4. CASE SaveFails(mem, active)
    BY <1>2, <2>3, <2>4, SaveFailsStep
  <2>5. CASE /\ Saves(mem) /\ active' = [active EXCEPT ![t].aborted = TRUE]
             /\ UNCHANGED <<ledger, phase, pump, tried, recent, dispatched, history>>
    <3>1. /\ disk' = disk /\ mem' = mem /\ error' = error
          /\ UNCHANGED <<receipts, invoked, holder, lost, phase, pump, tried, recent, dispatched, mine>>
      BY <2>5 DEF Saves, ledger, history
    <3>2. /\ active' \in CallMaps /\ DOMAIN active' = DOMAIN active
          /\ \A x \in DOMAIN active : active'[x].pc = active[x].pc /\ active'[x].status = active[x].status
      <4>1. active \in [DOMAIN active -> CallRecords] /\ DOMAIN active \subseteq Tasks
        BY MapIsCalls DEF SupervisorInv, CallsKept
      <4>2. active' \in [DOMAIN active -> CallRecords]
        BY <2>1, <2>5, <4>1 DEF CallRecords
      <4> QED  BY <2>1, <2>5, <4>1, <4>2, CallsIsMap DEF CallRecords
    <3>3. LedgerTyped' /\ StoresKept' /\ SessionKept'
      <4>1. phase \in {"up", "closing"}
        BY <1>2 DEF SupervisorInv, SessionKept
      <4> QED  BY <3>1, <4>1 DEF SupervisorInv, LedgerTyped, StoresKept, StoreKept, JobsKept, JobKept, Truthful,
                  Ours, Ran, Complete, SessionKept, Down
    <3>4. CallsKept'
      BY <3>1, <3>2 DEF SupervisorInv, CallsKept, CallKept, Ran, Ours
    <3>5. PumpKept'
      BY <1>2, <3>1, <3>2 DEF SupervisorInv, PumpKept, Full, Ours
    <3>6. LimitsKept'
      <4>1. Places' = Places /\ Queued(disk)' = Queued(disk)
        BY <3>1, <3>2 DEF Places, Queued
      <4> QED  BY <3>2, <4>1 DEF SupervisorInv, LimitsKept, AtMost
    <3> QED  BY <3>1, <3>3, <3>4, <3>5, <3>6, FollowsSelf DEF Finished, SupervisorInv, FileFollows
  <2> QED  BY <1>5, <2>4, <2>5 DEF Cancel
<1> QED  BY <1>4, <1>5

\* Pausing and resuming change no job.
LEMMA SetPausedStep ==
  ASSUME SupervisorInv, NEW paused \in BOOLEAN, SetPaused(paused)
  PROVE  Finished
<1> DEFINE next == [mem EXCEPT !.paused = paused]
           X == {x \in DOMAIN active : active[x].pc \in {"entered", "denied"}}
<1>1. /\ (Available /\ Quiet) \/ pump.pc = "gate"
      /\ \/ Saves(next) /\ UNCHANGED <<ledger, phase, active, pump, tried, recent, dispatched, history>>
         \/ SaveFails(next, active)
  BY DEF SetPaused
<1>2. phase \notin Down /\ pump.pc \notin {"saved", "reserved"}
  BY <1>1, AtRest
<1>3. StoreKept(mem) /\ mem \in Stores
  BY StoreFacts
<1>4. next \in Stores /\ next.jobs = mem.jobs
  BY <1>3 DEF Stores
<1> HIDE DEF next
<1>5. StoreKept(next)
  BY <1>3, <1>4 DEF StoreKept, JobsKept, Complete
<1>6. Follows(mem, next)
  BY <1>4 DEF Follows
<1>7. Queued(next) = Queued(mem)
  BY <1>4 DEF Queued
<1>8. AtMost(Queued(next) \cup X, MaxQueued) /\ AtMost(Queued(next), MaxQueued)
  BY <1>7, AtMostSubset, SupervisorAssumption DEF SupervisorInv, LimitsKept, Places
<1>9. Writable(next)
  BY <1>5, <1>6, <1>8 DEF Writable
<1>10. CASE SaveFails(next, active)
  BY <1>2, <1>9, <1>10, SaveFailsStep
<1>11. CASE Saves(next) /\ UNCHANGED <<ledger, phase, active, pump, tried, recent, dispatched, history>>
  BY <1>2, <1>4, <1>8, <1>9, <1>11, SavedStep
<1> QED  BY <1>1, <1>10, <1>11

\* Deleting the text of a finished job keeps it finished.
LEMMA DeleteHistoryStep ==
  ASSUME SupervisorInv, NEW t \in Tasks, DeleteHistory(t)
  PROVE  Finished
<1> DEFINE job == [mem.jobs[t] EXCEPT !.history = "deleted", !.context = FALSE]
<1>1. /\ Available /\ Quiet /\ t \in DOMAIN mem.jobs /\ mem.jobs[t].state \in {"settled", "cancelled"}
      /\ \/ Saves(With(t, job)) /\ UNCHANGED <<ledger, phase, active, pump, tried, recent, dispatched, history>>
         \/ SaveFails(With(t, job), active)
  BY DEF DeleteHistory
<1>2. phase \notin Down /\ pump.pc \notin {"saved", "reserved"}
  BY <1>1, AtRest
<1>3. mem.jobs[t] \in Jobs /\ JobKept(mem.jobs, t, mem.jobs[t])
  BY <1>1, StoreFacts
<1>4. /\ job \in Jobs /\ job.content = mem.jobs[t].content /\ job.parent = mem.jobs[t].parent
      /\ job.input = mem.jobs[t].input /\ ~ job.context /\ job.history = "deleted"
      /\ job.state = mem.jobs[t].state /\ job.outcome = mem.jobs[t].outcome /\ job.worker = mem.jobs[t].worker
      /\ job = [mem.jobs[t] EXCEPT !.history = "deleted", !.context = FALSE]
  BY <1>3 DEF Jobs
<1> HIDE DEF job
<1>5. JobKept(mem.jobs, t, job)
  BY <1>1, <1>3, <1>4, DeletedJob
<1> QED  BY <1>1, <1>2, <1>4, <1>5, ChangeStep

(***************************************************************************)
(* pump()                                                                  *)
(***************************************************************************)
LEMMA SameStores ==
  ASSUME SupervisorInv, UNCHANGED <<receipts, invoked, holder, lost, disk, mem>>, error => error'
  PROVE  /\ LedgerTyped' /\ StoresKept' /\ FileFollows
         /\ Queued(disk)' = Queued(disk) /\ Queued(mem)' = Queued(mem)
<1>1. LedgerTyped' /\ StoresKept'
  BY DEF SupervisorInv, LedgerTyped, StoresKept, StoreKept, JobsKept, JobKept, Truthful, Ours, Ran, Complete
<1> QED  BY <1>1, FollowsSelf DEF FileFollows, Queued

\* A step of the loop that writes nothing.
LEMMA LoopStep ==
  ASSUME SupervisorInv, phase \notin Down, pump.pc \notin {"saved", "reserved"},
         UNCHANGED <<ledger, disk, mem, phase, error, active, tried, recent, dispatched, history>>,
         PumpKept'
  PROVE  Finished
<1>1. UNCHANGED <<receipts, invoked, holder, lost, mine, disk, mem, phase, error, active, tried, recent, dispatched>>
  BY DEF ledger, history
<1>2. LedgerTyped' /\ StoresKept' /\ FileFollows /\ Queued(disk)' = Queued(disk) /\ Queued(mem)' = Queued(mem)
  BY <1>1, SameStores
<1>3. CallsKept'
  BY <1>1 DEF SupervisorInv, CallsKept, CallKept, Ran, Ours
<1>4. SessionKept'
  BY <1>1 DEF SupervisorInv, SessionKept, Ours, Down
<1>5. LimitsKept'
  BY <1>1, <1>2 DEF SupervisorInv, LimitsKept, AtMost, Places
<1> QED  BY <1>2, <1>3, <1>4, <1>5 DEF Finished, SupervisorInv

\* None is no lost job.
LEMMA NoneNotLost == ASSUME SupervisorInv PROVE None \notin lost
BY SupervisorAssumption DEF SupervisorInv, SessionKept

\* A pass looks at queued jobs only, and no lost job is queued.
LEMMA PumpBeginsStep ==
  ASSUME SupervisorInv, PumpBegins
  PROVE  Finished
<1>1. /\ Available /\ Quiet /\ pump' = [pc |-> "loop", todo |-> Queued(mem), job |-> None]
      /\ UNCHANGED <<ledger, disk, mem, phase, error, active, tried, recent, dispatched, history>>
  BY DEF PumpBegins
<1>2. phase \notin Down /\ pump.pc \notin {"saved", "reserved"}
  BY <1>1, AtRest
<1>3. Queued(mem) \subseteq DOMAIN mem.jobs \ lost /\ Queued(mem) \subseteq Tasks
  BY StoreFacts DEF Queued, JobKept, Truthful
<1>4. PumpKept'
  BY <1>1, <1>3, NoneNotLost DEF PumpKept, Pumps, history
<1> QED  BY <1>1, <1>2, <1>4, LoopStep

\* A pass that has ended relies on nothing.
LEMMA IdlePump == ASSUME SupervisorInv, pump' = Idle, lost' = lost PROVE PumpKept'
BY NoneNotLost DEF PumpKept, Idle, Pumps

\* The head of the loop: a pass ends, skips a job or asks the admission callback.
LEMMA PumpLooksStep ==
  ASSUME SupervisorInv, PumpLooks
  PROVE  Finished
<1>1. /\ pump.pc = "loop"
      /\ UNCHANGED <<ledger, disk, mem, phase, error, active, tried, recent, dispatched, history>>
  BY DEF PumpLooks
<1>2. phase \notin Down
  BY <1>1 DEF SupervisorInv, SessionKept, Idle
<1>3. CASE pump' = Idle
  BY <1>1, <1>2, <1>3, IdlePump, LoopStep DEF history
<1>4. ASSUME ~ Full, NEW t \in pump.todo,
             pump' = IF t \in recent THEN [pump EXCEPT !.todo = @ \ {t}]
                     ELSE [pc |-> "gate", todo |-> pump.todo \ {t}, job |-> t]
      PROVE  PumpKept'
  <2>1. /\ pump \in Pumps /\ pump.todo \subseteq DOMAIN mem.jobs \ lost /\ pump.job \notin lost
        /\ t \in Tasks /\ UNCHANGED <<mem, lost, active>> /\ Full' = Full
    BY <1>1 DEF SupervisorInv, PumpKept, Pumps, history, Full
  <2>2. CASE t \in recent
    BY <1>1, <1>4, <2>1, <2>2 DEF PumpKept, Pumps
  <2>3. CASE t \notin recent
    BY <1>4, <2>1, <2>3 DEF PumpKept, Pumps
  <2> QED  BY <2>2, <2>3
<1> QED  BY <1>1, <1>2, <1>3, <1>4, LoopStep DEF PumpLooks

\* The admission callback failed: the pass ends.
LEMMA GateFailsStep ==
  ASSUME SupervisorInv, GateFails
  PROVE  Finished
<1>1. /\ pump.pc = "gate" /\ pump' = Idle
      /\ UNCHANGED <<ledger, disk, mem, phase, error, active, tried, recent, dispatched, history>>
  BY DEF GateFails
<1> QED  BY <1>1, IdlePump, AtRest, LoopStep DEF history

\* A pass that goes on has the rest of its jobs to look at.
LEMMA LoopPump == ASSUME SupervisorInv, pump' = Loop, UNCHANGED <<mem, lost>> PROVE PumpKept'
BY NoneNotLost DEF SupervisorInv, PumpKept, Loop, Pumps

\* A job that is held back, or was cancelled by the callback, is passed over.
LEMMA PassesOverStep ==
  ASSUME SupervisorInv, PassesOver
  PROVE  Finished
<1>1. /\ pump.pc = "gate" /\ pump' = Loop
      /\ UNCHANGED <<ledger, disk, mem, phase, error, active, tried, recent, dispatched, history>>
  BY DEF PassesOver
<1> QED  BY <1>1, LoopPump, AtRest, LoopStep DEF history

\* A queued job another program ran takes its receipt.
LEMMA TakesReceiptStep ==
  ASSUME SupervisorInv, TakesReceipt
  PROVE  Finished
<1> DEFINE t == pump.job
           job == Resolved(t, mem.jobs[t], FALSE)
<1>1. /\ pump.pc = "gate" /\ mem.jobs[t].state = "queued"
      /\ \/ /\ Saves(With(t, job)) /\ pump' = Loop
            /\ UNCHANGED <<ledger, phase, active, tried, recent, dispatched, history>>
         \/ SaveFails(With(t, job), active)
  BY DEF TakesReceipt
<1>2. t \in DOMAIN mem.jobs /\ phase \notin Down /\ pump.pc \notin {"saved", "reserved"}
  BY <1>1, AtRest DEF SupervisorInv, PumpKept
<1>3. LedgerTyped /\ t \in Tasks /\ mem.jobs[t] \in Jobs /\ JobKept(mem.jobs, t, mem.jobs[t])
  BY <1>2, StoreFacts
<1>4. /\ job \in Jobs /\ job.content = mem.jobs[t].content /\ job.parent = mem.jobs[t].parent
      /\ job.state \in {"settled", "unresolved"}
  BY <1>3, ResolvedFields
<1>5. mem.jobs[t].state \in Open
  BY <1>1 DEF Open
<1>6. JobKept(mem.jobs, t, job)
  BY <1>3, <1>5, ResolvedJob
<1> HIDE DEF t, job
<1> QED  BY <1>1, <1>2, <1>4, <1>5, <1>6, ChangeStep

\* The tail of start() names the worker of an open reservation.
LEMMA NamesWorkerStep ==
  ASSUME SupervisorInv, NamesWorker
  PROVE  Finished
<1> DEFINE t == pump.job
           job == [mem.jobs[t] EXCEPT !.worker = TRUE]
<1>1. pump.pc = "called"
  BY DEF NamesWorker
<1>2. \/ /\ Saves(With(t, job)) /\ pump' = Loop
         /\ UNCHANGED <<ledger, phase, active, tried, recent, dispatched, history>>
      \/ SaveFails(With(t, job), active)
      \/ pump' = Loop /\ UNCHANGED <<ledger, disk, mem, phase, error, active, tried, recent, dispatched, history>>
  BY DEF NamesWorker
<1>3. phase \notin Down /\ pump.pc \notin {"saved", "reserved"}
  BY <1>1, AtRest
<1>4. t \in DOMAIN mem.jobs /\ mem.jobs[t].state = "dispatching"
  BY <1>1 DEF SupervisorInv, PumpKept, CallsKept, CallKept
<1>5. t \in Tasks /\ mem.jobs[t] \in Jobs /\ JobKept(mem.jobs, t, mem.jobs[t])
  BY <1>4, StoreFacts
<1>6. /\ job \in Jobs /\ job.content = mem.jobs[t].content /\ job.parent = mem.jobs[t].parent
      /\ job.input = mem.jobs[t].input /\ job.context = mem.jobs[t].context /\ job.history = mem.jobs[t].history
      /\ job.outcome = mem.jobs[t].outcome /\ job.state = "dispatching"
  BY <1>4, <1>5 DEF Jobs
<1> HIDE DEF job
<1>7. mem.jobs[t].state \in Open
  BY <1>4 DEF Open
<1>8. JobKept(mem.jobs, t, job)
  BY <1>5, <1>6, <1>7, DispatchedJob
<1> HIDE DEF t
<1>9. CASE pump' = Loop /\ UNCHANGED <<ledger, disk, mem, phase, error, active, tried, recent, dispatched, history>>
  BY <1>3, <1>9, LoopPump, LoopStep DEF history
<1>10. CASE \/ /\ Saves(With(t, job)) /\ pump' = Loop
               /\ UNCHANGED <<ledger, phase, active, tried, recent, dispatched, history>>
            \/ SaveFails(With(t, job), active)
  BY <1>3, <1>4, <1>6, <1>7, <1>8, <1>10, ChangeStep
<1> QED  BY <1>2, <1>9, <1>10

\* The calls with one more in flight.
LEMMA CallsFields ==
  ASSUME active \in CallMaps, NEW t \in Tasks, NEW call \in CallRecords
  PROVE  /\ Calls(t, call) \in CallMaps /\ DOMAIN Calls(t, call) = DOMAIN active \cup {t}
         /\ Calls(t, call)[t] = call
         /\ \A x \in DOMAIN active \ {t} : Calls(t, call)[x] = active[x]
<1>1. DOMAIN active \subseteq Tasks /\ active \in [DOMAIN active -> CallRecords]
  BY MapIsCalls
<1>2. Calls(t, call) \in [DOMAIN active \cup {t} -> CallRecords] /\ DOMAIN active \cup {t} \in SUBSET Tasks
  BY <1>1 DEF Calls
<1>3. Calls(t, call) \in CallMaps
  BY <1>2, CallsIsMap
<1> QED  BY <1>3 DEF Calls

\* The calls without one that has ended.
LEMMA ForgetFields ==
  ASSUME NEW calls \in CallMaps, NEW t
  PROVE  /\ Forget(calls, t) \in CallMaps /\ DOMAIN Forget(calls, t) = DOMAIN calls \ {t}
         /\ \A x \in DOMAIN calls \ {t} : Forget(calls, t)[x] = calls[x]
<1>1. DOMAIN calls \subseteq Tasks /\ calls \in [DOMAIN calls -> CallRecords]
  BY MapIsCalls
<1>2. Forget(calls, t) \in [DOMAIN calls \ {t} -> CallRecords] /\ DOMAIN calls \ {t} \in SUBSET Tasks
  BY <1>1 DEF Forget
<1>3. Forget(calls, t) \in CallMaps
  BY <1>2, CallsIsMap
<1> QED  BY <1>3 DEF Forget

\* The intent is written and the call entered: the job keeps its place in the queue.
LEMMA SavesIntentStep ==
  ASSUME SupervisorInv, SavesIntent
  PROVE  Finished
<1> DEFINE t == pump.job
           job == [mem.jobs[t] EXCEPT !.state = "dispatching", !.worker = FALSE]
           next == With(t, job)
           call == Call("entered", None)
<1>1. pump.pc = "gate" /\ ~ Stopped /\ mem.jobs[t].state = "queued" /\ t \notin DOMAIN receipts
  BY DEF SavesIntent
<1>2. \/ SaveFails(next, active)
      \/ /\ Saves(next) /\ pump' = [pump EXCEPT !.pc = "saved"]
         /\ active' = Calls(t, call) /\ dispatched' = dispatched \cup {t}
         /\ recent' = recent \cup {t}
         /\ UNCHANGED <<ledger, phase, history>>
  BY DEF SavesIntent
<1>3. t \in DOMAIN mem.jobs /\ ~ Full /\ phase \notin Down /\ pump.pc \notin {"saved", "reserved"}
  BY <1>1, AtRest DEF SupervisorInv, PumpKept
<1>4. /\ LedgerTyped /\ mem \in Stores /\ StoreKept(mem)
      /\ t \in Tasks /\ mem.jobs[t] \in Jobs /\ JobKept(mem.jobs, t, mem.jobs[t])
  BY <1>3, StoreFacts
<1>5. /\ job \in Jobs /\ job.content = mem.jobs[t].content /\ job.parent = mem.jobs[t].parent
      /\ job.input = mem.jobs[t].input /\ job.context = mem.jobs[t].context /\ job.history = mem.jobs[t].history
      /\ job.outcome = mem.jobs[t].outcome /\ job.state = "dispatching"
  BY <1>4 DEF Jobs, States
<1> HIDE DEF job
<1>6. mem.jobs[t].state \in Open /\ ~ Ours(t)
  BY <1>1, <1>4 DEF Open, JobKept, Truthful
<1>7. JobKept(mem.jobs, t, job)
  BY <1>4, <1>5, <1>6, DispatchedJob
<1>8. StoreKept(next) /\ Follows(mem, next)
  BY <1>3, <1>4, <1>5, <1>6, <1>7, WithWritable
<1>9. /\ DOMAIN next.jobs = DOMAIN mem.jobs /\ next.jobs[t] = job /\ next.paused = mem.paused
      /\ \A x \in DOMAIN mem.jobs \ {t} : next.jobs[x] = mem.jobs[x]
  BY <1>3, <1>4, <1>5, WithFields, SMTT(60)
<1>10. Queued(next) = Queued(mem) \ {t} /\ t \in Queued(mem)
  BY <1>1, <1>3, <1>4, <1>5, WithQueued DEF Queued
<1>11. AtMost(Queued(next), MaxQueued)
  BY <1>10, AtMostSubset, SupervisorAssumption DEF SupervisorInv, LimitsKept, Places
<1>12. Writable(next)
  BY <1>8, <1>11 DEF Writable
<1> HIDE DEF next
<1>13. CASE SaveFails(next, active)
  BY <1>3, <1>12, <1>13, SaveFailsStep
<1>14. CASE /\ Saves(next) /\ pump' = [pump EXCEPT !.pc = "saved"]
            /\ active' = Calls(t, call) /\ dispatched' = dispatched \cup {t}
            /\ recent' = recent \cup {t}
            /\ UNCHANGED <<ledger, phase, history>>
  <2>1. /\ disk = mem /\ disk' = next /\ mem' = next /\ error' = error
        /\ UNCHANGED <<receipts, invoked, holder, lost, phase, mine>>
    BY <1>14 DEF Saves, ledger, history
  <2>2. StoresKept' /\ FileFollows
    BY <1>8, <1>14, <2>1, Persists DEF SupervisorInv
  <2>3. LedgerTyped'
    BY <2>1 DEF SupervisorInv, LedgerTyped
  <2>4. call \in CallRecords /\ call.pc = "entered"
    BY DEF Call, CallRecords, CallPcs
  <2>5. /\ active' \in CallMaps /\ DOMAIN active' = DOMAIN active \cup {t} /\ active'[t] = call
        /\ \A x \in DOMAIN active \ {t} : active'[x] = active[x]
    BY <1>4, <1>14, <2>4, CallsFields DEF SupervisorInv, CallsKept
  <2> HIDE DEF call
  <2>6. \A x \in DOMAIN active : x # t /\ active[x].pc # "entered" /\ x \in DOMAIN mem.jobs /\ CallKept(x)
    BY <1>1 DEF SupervisorInv, CallsKept, CallKept
  <2>7. /\ pump' \in Pumps /\ pump'.pc = "saved" /\ pump'.job = t /\ pump'.todo = pump.todo
    BY <1>14 DEF SupervisorInv, PumpKept, Pumps
  <2>8. CallsKept'
    <3>1. ASSUME NEW x \in DOMAIN active PROVE CallKept(x)'
      BY <1>9, <1>14, <2>1, <2>5, <2>6 DEF CallKept, Ran, Ours
    <3>2. ASSUME NEW x, x = t PROVE CallKept(x)'
      BY <1>3, <1>5, <1>9, <1>14, <2>1, <2>4, <2>5, <2>7, <3>2 DEF CallKept
    <3>3. ASSUME ~ error, phase \in {"up", "closing"}, NEW x \in DOMAIN next.jobs, next.jobs[x].state = "dispatching"
          PROVE  x \in DOMAIN active \cup {t}
      BY <1>9, <3>3 DEF SupervisorInv, CallsKept
    <3>4. \A x \in DOMAIN active' : CallKept(x)'
      BY <2>5, <3>1, <3>2
    <3> QED  BY <2>1, <2>5, <3>3, <3>4 DEF CallsKept
  <2>9. PumpKept'
    BY <1>1, <1>6, <1>9, <2>1, <2>4, <2>5, <2>7 DEF SupervisorInv, PumpKept, Stopped, Ours
  <2>10. SessionKept'
    BY <1>3, <1>9, <1>14, <2>1 DEF SupervisorInv, SessionKept, Ours, Down
  <2>11. LimitsKept'
    <3>1. Places' = Places
      <4>1. Places' = Queued(next) \cup {x \in DOMAIN active \cup {t} : active'[x].pc \in {"entered", "denied"}}
        BY <2>1, <2>5 DEF Places, Queued
      <4> QED  BY <1>10, <2>4, <2>5, <2>6, <4>1 DEF Places
    <3>2. AtMost(DOMAIN active \cup {t}, MaxParallel)
      <4>1. IsFiniteSet(DOMAIN active) /\ Cardinality(DOMAIN active) \in Nat
        BY FS_CardinalityType DEF SupervisorInv, LimitsKept, AtMost
      <4>2. Cardinality(DOMAIN active) < MaxParallel
        BY <1>3, <4>1, SupervisorAssumption DEF Full
      <4> QED  BY <4>1, <4>2, AtMostAdd, SupervisorAssumption
    <3>3. Queued(disk)' = Queued(next)
      BY <2>1 DEF Queued
    <3> QED  BY <1>11, <2>5, <3>1, <3>2, <3>3 DEF SupervisorInv, LimitsKept, AtMost
  <2> QED  BY <2>2, <2>3, <2>8, <2>9, <2>10, <2>11 DEF Finished, SupervisorInv
<1> QED  BY <1>2, <1>13, <1>14

\* Time passes for the retry interval of a job.
LEMMA ElapseStep ==
  ASSUME SupervisorInv, NEW t \in Tasks, Elapse(t)
  PROVE  Finished
<1>1. /\ recent' \subseteq recent
      /\ UNCHANGED <<receipts, invoked, holder, lost, mine, disk, mem, phase, error, active, pump, tried, dispatched>>
  BY DEF Elapse, ledger, history
<1>2. LedgerTyped' /\ StoresKept' /\ FileFollows /\ Queued(disk)' = Queued(disk) /\ Queued(mem)' = Queued(mem)
  BY <1>1, SameStores
<1>3. CallsKept'
  BY <1>1 DEF SupervisorInv, CallsKept, CallKept, Ran, Ours
<1>4. SessionKept'
  BY <1>1 DEF SupervisorInv, SessionKept, Ours
<1>5. LimitsKept' /\ PumpKept'
  BY <1>1, <1>2 DEF SupervisorInv, LimitsKept, AtMost, Places, PumpKept, Full, Stopped, Ours
<1> QED  BY <1>2, <1>3, <1>4, <1>5 DEF Finished, SupervisorInv

\* fault() stops the calls and writes nothing.
LEMMA FaultStep ==
  ASSUME SupervisorInv, Fault
  PROVE  Finished
<1>1. /\ phase = "up" /\ pump.pc \notin {"saved", "reserved"} /\ error' /\ error' \in BOOLEAN
      /\ active' = Aborted(active) /\ pump' = Idle
      /\ UNCHANGED <<receipts, invoked, holder, lost, mine, disk, mem, phase, tried, recent, dispatched>>
  BY DEF Fault, Available, ledger, history
<1>2. LedgerTyped' /\ StoresKept' /\ FileFollows /\ Queued(disk)' = Queued(disk) /\ Queued(mem)' = Queued(mem)
  BY <1>1, SameStores
<1>3. /\ active' \in CallMaps /\ DOMAIN active' = DOMAIN active
      /\ \A t \in DOMAIN active : active'[t].pc = active[t].pc /\ active'[t].status = active[t].status
  BY <1>1, AbortedFields DEF SupervisorInv, CallsKept
<1>4. CallsKept'
  BY <1>1, <1>3 DEF SupervisorInv, CallsKept, CallKept, Ran, Ours
<1>5. PumpKept'
  BY <1>1, IdlePump
<1>6. SessionKept'
  BY <1>1 DEF SupervisorInv, SessionKept, Ours, Down
<1>7. LimitsKept'
  BY <1>1, <1>2, <1>3 DEF SupervisorInv, LimitsKept, AtMost, Places
<1> QED  BY <1>2, <1>4, <1>5, <1>6, <1>7 DEF Finished, SupervisorInv

\* close() stops the calls and lets them end.
LEMMA CloseStep ==
  ASSUME SupervisorInv, Close
  PROVE  Finished
<1>1. /\ phase = "up" /\ pump.pc \in {"idle", "gate"} /\ phase' = "closing" /\ active' = Aborted(active)
      /\ UNCHANGED <<receipts, invoked, holder, lost, mine, disk, mem, error, pump, tried, recent, dispatched>>
  BY DEF Close, Quiet, ledger, history
<1>2. LedgerTyped' /\ StoresKept' /\ FileFollows /\ Queued(disk)' = Queued(disk) /\ Queued(mem)' = Queued(mem)
  BY <1>1, SameStores
<1>3. /\ active' \in CallMaps /\ DOMAIN active' = DOMAIN active
      /\ \A t \in DOMAIN active : active'[t].pc = active[t].pc /\ active'[t].status = active[t].status
  BY <1>1, AbortedFields DEF SupervisorInv, CallsKept
<1>4. CallsKept'
  BY <1>1, <1>3 DEF SupervisorInv, CallsKept, CallKept, Ran, Ours
<1>5. PumpKept'
  BY <1>1, <1>3 DEF SupervisorInv, PumpKept, Full, Ours
<1>6. SessionKept'
  BY <1>1 DEF SupervisorInv, SessionKept, Ours, Down
<1>7. LimitsKept'
  BY <1>1, <1>2, <1>3 DEF SupervisorInv, LimitsKept, AtMost, Places
<1> QED  BY <1>2, <1>4, <1>5, <1>6, <1>7 DEF Finished, SupervisorInv

\* A close that resolves: no error, so the file is memory, and nothing is left in flight.
LEMMA ClosesStep ==
  ASSUME SupervisorInv, Closes
  PROVE  Finished
<1>1. /\ phase = "closing" /\ pump.pc = "idle" /\ DOMAIN active = {} /\ recent' = {}
      /\ phase' \in {"clean", "failed"} /\ (phase' = "clean" => ~ error /\ ~ Unconfirmed)
      /\ UNCHANGED <<receipts, invoked, holder, lost, mine, disk, mem, error, active, pump, dispatched>>
  BY DEF Closes, ledger, history
<1>2. LedgerTyped' /\ StoresKept' /\ FileFollows /\ Queued(disk)' = Queued(disk) /\ Queued(mem)' = Queued(mem)
  BY <1>1, SameStores
<1>3. CallsKept'
  BY <1>1 DEF SupervisorInv, CallsKept
<1>4. PumpKept'
  BY <1>1 DEF SupervisorInv, PumpKept
<1>5. SessionKept'
  <2>1. active = NoCalls
    <3>1. active \in [DOMAIN active -> CallRecords]
      BY MapIsCalls DEF SupervisorInv, CallsKept
    <3> QED  BY <1>1, <3>1 DEF NoCalls
  <2>2. pump = Idle
    BY <1>1 DEF SupervisorInv, PumpKept
  <2>3. ASSUME phase' = "clean" PROVE /\ \A t \in mine : receipts[t].status \in Terminal
                                      /\ \A t \in DOMAIN disk.jobs : disk.jobs[t].state # "dispatching"
    BY <1>1, <2>3 DEF SupervisorInv, SessionKept, CallsKept, StoresKept, Unconfirmed, KnownTerminal
  <2> QED  BY <1>1, <2>1, <2>2, <2>3 DEF SupervisorInv, SessionKept, Ours, Down
<1>6. LimitsKept'
  BY <1>1, <1>2 DEF SupervisorInv, LimitsKept, AtMost, Places
<1> QED  BY <1>2, <1>3, <1>4, <1>5, <1>6 DEF Finished, SupervisorInv

(***************************************************************************)
(* A process that dies, and the next one.                                  *)
(***************************************************************************)
LEMMA NoCallsAtAll ==
  /\ NoCalls \in CallMaps /\ DOMAIN NoCalls = {} /\ AtMost({}, MaxParallel)
<1>1. NoCalls \in [{} -> CallRecords]
  BY DEF NoCalls
<1>2. AtMost({}, MaxParallel)
  BY FS_EmptySet, SupervisorAssumption DEF AtMost
<1> QED  BY <1>1, <1>2, CallsIsMap DEF NoCalls

\* The process dies: memory is what the file holds, and nothing is in flight.
LEMMA CrashStep ==
  ASSUME SupervisorInv, Crash
  PROVE  Finished
<1>1. /\ phase' = "crashed" /\ mem' = disk /\ active' = NoCalls /\ pump' = Idle /\ error' = FALSE
      /\ recent' = {} /\ dispatched' = {} /\ mine' = {}
      /\ UNCHANGED <<receipts, invoked, holder, disk, lost>>
  BY DEF Crash, ledger
<1>2. LedgerTyped' /\ StoresKept'
  BY <1>1 DEF SupervisorInv, LedgerTyped, StoresKept, StoreKept, JobsKept, JobKept, Truthful, Ours, Ran, Complete
<1>3. CallsKept'
  BY <1>1, NoCallsAtAll DEF CallsKept
<1>4. PumpKept'
  BY <1>1, IdlePump
<1>5. SessionKept'
  BY <1>1 DEF SupervisorInv, SessionKept, Down
<1>6. LimitsKept'
  <2>1. Places' = Queued(disk) /\ Queued(disk)' = Queued(disk)
    BY <1>1, NoCallsAtAll DEF Places, Queued
  <2> QED  BY <1>1, <2>1, NoCallsAtAll DEF SupervisorInv, LimitsKept, AtMost
<1> QED  BY <1>1, <1>2, <1>3, <1>4, <1>5, <1>6, FollowsSelf DEF Finished, SupervisorInv, FileFollows

Interrupted(t) ==
  disk.jobs[t].state = "dispatching" \/ (disk.jobs[t].state = "queued" /\ t \in DOMAIN receipts)

\* What the next supervisor makes of the file, job by job.
LEMMA RecoveredFields ==
  ASSUME LedgerTyped, StoreKept(disk)
  PROVE  LET R == Recovered(disk) IN
         /\ R \in Stores /\ DOMAIN R.jobs = DOMAIN disk.jobs
         /\ \A t \in DOMAIN disk.jobs :
              /\ t \in Tasks /\ disk.jobs[t] \in Jobs
              /\ R.jobs[t] = IF Interrupted(t) THEN Resolved(t, disk.jobs[t], FALSE) ELSE disk.jobs[t]
<1> DEFINE m == [t \in DOMAIN disk.jobs |->
                   IF Interrupted(t) THEN Resolved(t, disk.jobs[t], FALSE) ELSE disk.jobs[t]]
<1>1. disk \in Stores /\ disk.jobs \in JobMaps
  BY DEF StoreKept, Stores
<1>2. DOMAIN disk.jobs \in SUBSET Tasks /\ \A t \in DOMAIN disk.jobs : t \in Tasks /\ disk.jobs[t] \in Jobs
  BY <1>1, MapIsJobs
<1>3. \A t \in DOMAIN disk.jobs : Resolved(t, disk.jobs[t], FALSE) \in Jobs
  BY <1>2, ResolvedFields
<1>4. m \in [DOMAIN disk.jobs -> Jobs]
  BY <1>2, <1>3
<1>5. m \in JobMaps
  BY <1>2, <1>4, JobsIsMap
<1>6. Recovered(disk) = [disk EXCEPT !.jobs = m]
  BY DEF Recovered, Interrupted
<1>7. Recovered(disk) \in Stores /\ Recovered(disk).jobs = m
  <2> HIDE DEF m
  <2> QED  BY <1>1, <1>5, <1>6 DEF Stores
<1> QED  BY <1>2, <1>7

\* A recovered store is kept, and no job in it is dispatching.
LEMMA RecoveredKept ==
  ASSUME LedgerTyped, StoreKept(disk)
  PROVE  LET R == Recovered(disk) IN
         /\ StoreKept(R) /\ Follows(disk, R) /\ DOMAIN R.jobs = DOMAIN disk.jobs
         /\ Queued(R) \subseteq Queued(disk)
         /\ \A t \in DOMAIN R.jobs : /\ R.jobs[t].state # "dispatching"
                                     /\ disk.jobs[t].state = "dispatching" =>
                                          R.jobs[t].state \in {"settled", "unresolved"}
<1> DEFINE R == Recovered(disk)
<1>1. /\ R \in Stores /\ DOMAIN R.jobs = DOMAIN disk.jobs
      /\ \A t \in DOMAIN disk.jobs :
           /\ t \in Tasks /\ disk.jobs[t] \in Jobs
           /\ R.jobs[t] = IF Interrupted(t) THEN Resolved(t, disk.jobs[t], FALSE) ELSE disk.jobs[t]
  BY RecoveredFields
<1> HIDE DEF R
<1>2. ASSUME NEW t \in DOMAIN disk.jobs
      PROVE  \/ R.jobs[t] = disk.jobs[t] /\ ~ Interrupted(t)
             \/ /\ disk.jobs[t].state \in Open
                /\ R.jobs[t].content = disk.jobs[t].content /\ R.jobs[t].parent = disk.jobs[t].parent
                /\ R.jobs[t].state \in {"settled", "unresolved"}
                /\ JobKept(disk.jobs, t, R.jobs[t])
  <2>1. CASE ~ Interrupted(t)
    BY <1>1, <2>1
  <2>2. CASE Interrupted(t)
    <3>1. t \in Tasks /\ disk.jobs[t] \in Jobs /\ R.jobs[t] = Resolved(t, disk.jobs[t], FALSE)
      BY <1>1, <2>2
    <3>2. disk.jobs[t].state \in Open /\ JobKept(disk.jobs, t, disk.jobs[t])
      BY <2>2 DEF Interrupted, Open, StoreKept, JobsKept
    <3>3. JobKept(disk.jobs, t, R.jobs[t])
      BY <3>1, <3>2, ResolvedJob
    <3>4. /\ R.jobs[t].content = disk.jobs[t].content /\ R.jobs[t].parent = disk.jobs[t].parent
          /\ R.jobs[t].state \in {"settled", "unresolved"}
      <4>1. LET r == Resolved(t, disk.jobs[t], FALSE) IN
            /\ r.content = disk.jobs[t].content /\ r.parent = disk.jobs[t].parent
            /\ r.state \in {"settled", "unresolved"}
        BY <3>1, ResolvedFields
      <4> QED  BY <3>1, <4>1
    <3> QED  BY <3>2, <3>3, <3>4
  <2> QED  BY <2>1, <2>2
<1>3. ASSUME NEW t \in DOMAIN R.jobs PROVE JobKept(R.jobs, t, R.jobs[t])
  <2>1. JobKept(disk.jobs, t, R.jobs[t])
    BY <1>1, <1>2 DEF StoreKept, JobsKept
  <2>2. \A x \in DOMAIN disk.jobs :
          disk.jobs[x].state \in {"settled", "cancelled"} => R.jobs[x].state \in {"settled", "cancelled"}
    BY <1>2 DEF Open
  <2> QED  BY <1>1, <2>1, <2>2 DEF JobKept, ParentDecodes
<1>4. StoreKept(R)
  BY <1>1, <1>3 DEF StoreKept, JobsKept, Complete
<1>5. Follows(disk, R)
  BY <1>1, <1>2 DEF Follows, Open
<1>6. Queued(R) \subseteq Queued(disk)
  BY <1>1, <1>2 DEF Queued
<1>7. \A t \in DOMAIN R.jobs : /\ R.jobs[t].state # "dispatching"
                               /\ disk.jobs[t].state = "dispatching" =>
                                    R.jobs[t].state \in {"settled", "unresolved"}
  BY <1>1, <1>2 DEF Interrupted
<1> QED  BY <1>1, <1>4, <1>5, <1>6, <1>7 DEF R

\* The next supervisor: whatever was dispatching is lost, and settled or unresolved.
LEMMA StartStep ==
  ASSUME SupervisorInv, Start
  PROVE  Finished
<1>1. PICK R : R = Recovered(disk)
  OBVIOUS
<1>2. LedgerTyped /\ StoreKept(disk)
  BY DEF SupervisorInv, StoresKept
<1>3. /\ StoreKept(R) /\ Follows(disk, R) /\ DOMAIN R.jobs = DOMAIN disk.jobs
      /\ Queued(R) \subseteq Queued(disk)
      /\ \A t \in DOMAIN R.jobs : /\ R.jobs[t].state # "dispatching"
                                  /\ disk.jobs[t].state = "dispatching" =>
                                       R.jobs[t].state \in {"settled", "unresolved"}
  BY <1>1, <1>2, RecoveredKept
<1>4. /\ phase \in Down /\ disk' = R /\ mem' = R
      /\ lost' = lost \cup {t \in DOMAIN disk.jobs : disk.jobs[t].state = "dispatching"}
      /\ UNCHANGED <<receipts, invoked, holder>>
  BY <1>1 DEF Start, ledger
<1>5. \/ /\ phase' = "up" /\ error' = FALSE /\ active' = NoCalls /\ pump' = Idle
         /\ recent' = {} /\ dispatched' = {} /\ mine' = {}
      \/ UNCHANGED <<phase, error, active, pump, recent, dispatched, mine>>
  BY DEF Start
<1>6. /\ active' = NoCalls /\ pump' = Idle /\ recent' = {}
      /\ \/ phase' = "up" /\ error' = FALSE /\ dispatched' = {} /\ mine' = {}
         \/ phase' = phase /\ error' = error /\ dispatched' = dispatched /\ mine' = mine
  BY <1>4, <1>5 DEF SupervisorInv, SessionKept
<1>7. LedgerTyped'
  BY <1>4 DEF SupervisorInv, LedgerTyped
<1>8. DOMAIN disk.jobs \subseteq Tasks /\ DOMAIN mem.jobs \subseteq DOMAIN disk.jobs
  BY MapIsJobs DEF SupervisorInv, StoresKept, StoreKept, Stores
<1>9. lost' \subseteq Tasks
  BY <1>4, <1>8 DEF SupervisorInv, SessionKept
<1>10. StoresKept'
  <2>1. R \in Stores /\ Complete(R) /\ \A t \in DOMAIN R.jobs : JobKept(R.jobs, t, R.jobs[t])
    BY <1>3 DEF StoreKept, JobsKept
  <2>2. ASSUME NEW t \in DOMAIN R.jobs
        PROVE  JobDecodes(R.jobs[t]) /\ ParentDecodes(R.jobs, t, R.jobs[t]) /\ Truthful(t, R.jobs[t])'
    <3>1. JobKept(R.jobs, t, R.jobs[t])
      BY <2>1
    <3>2. t \in lost' => R.jobs[t].state \in {"settled", "unresolved"}
      BY <1>3, <1>4, <3>1 DEF JobKept, Truthful
    <3> QED  BY <1>4, <3>1, <3>2 DEF JobKept, Truthful, Ours, Ran
  <2>3. \A t \in Tasks : Ours(t)' \/ t \in lost' => t \in DOMAIN R.jobs
    BY <1>3, <1>4, <2>1 DEF Complete, Ours
  <2>4. StoreKept(disk)' /\ StoreKept(mem)'
    BY <1>4, <2>1, <2>2, <2>3 DEF StoreKept, JobsKept, JobKept, Complete, Truthful
  <2> QED  BY <1>4, <2>4 DEF StoresKept
<1>11. CallsKept'
  BY <1>3, <1>4, <1>6, NoCallsAtAll DEF CallsKept
<1>12. PumpKept'
  BY <1>6, <1>9, SupervisorAssumption DEF PumpKept, Idle, Pumps
<1>13. SessionKept'
  <2>1. CASE phase' = "up" /\ error' = FALSE /\ dispatched' = {} /\ mine' = {}
    BY <1>6, <1>9, <2>1 DEF SessionKept, Down
  <2>2. CASE phase' = phase /\ error' = error /\ dispatched' = dispatched /\ mine' = mine
    BY <1>3, <1>4, <1>6, <1>8, <1>9, <2>2 DEF SupervisorInv, SessionKept, Ours
  <2> QED  BY <1>6, <2>1, <2>2
<1>14. LimitsKept'
  <2>1. AtMost(Queued(R), MaxQueued)
    BY <1>3, AtMostSubset, SupervisorAssumption DEF SupervisorInv, LimitsKept
  <2>2. Places' = Queued(R) /\ Queued(disk)' = Queued(R)
    BY <1>4, <1>6, NoCallsAtAll DEF Places, Queued
  <2> QED  BY <1>6, <2>1, <2>2, NoCallsAtAll DEF LimitsKept, AtMost
<1> QED  BY <1>3, <1>4, <1>7, <1>10, <1>11, <1>12, <1>13, <1>14 DEF Finished, SupervisorInv, FileFollows

(***************************************************************************)
(* The handlers of a call that ended.                                      *)
(***************************************************************************)
\* A call is forgotten; its job leaves "dispatching", or the write of that fails, or a
\* supervisor that has already faulted leaves the file alone.
LEMMA ReleasedStep ==
  ASSUME SupervisorInv, NEW t \in DOMAIN active, pump.pc = "idle", NEW job \in Jobs,
         JobKept(mem.jobs, t, job), job.content = mem.jobs[t].content, job.parent = mem.jobs[t].parent,
         job.state # "dispatching", job.state = "queued" => active[t].pc = "denied",
         dispatched' = dispatched \/ (dispatched' = dispatched \ {t} /\ t \notin mine),
         \/ Saves(With(t, job)) /\ active' = Forget(active, t)
         \/ Faults(With(t, job), Forget(active, t))
         \/ error /\ active' = Forget(active, t) /\ UNCHANGED <<disk, mem, error>>,
         UNCHANGED <<ledger, phase, pump, tried, recent, history>>
  PROVE  Finished
<1> DEFINE next == With(t, job)
<1>1. UNCHANGED <<receipts, invoked, holder, lost, mine, phase, pump, recent>>
  BY DEF ledger, history
<1>2. /\ t \in DOMAIN mem.jobs /\ mem.jobs[t].state = "dispatching" /\ active \in CallMaps
      /\ \A x \in DOMAIN active : CallKept(x)
  BY DEF SupervisorInv, CallsKept, CallKept
<1>3. LedgerTyped /\ StoreKept(mem) /\ mem \in Stores /\ t \in Tasks
  BY <1>2, StoreFacts
<1>4. phase \in {"up", "closing"} /\ pump = Idle
  <2>1. DOMAIN NoCalls = {}
    BY DEF NoCalls
  <2> QED  BY <2>1 DEF SupervisorInv, SessionKept, PumpKept
<1>5. StoreKept(next) /\ Follows(mem, next)
  BY <1>2, <1>3, WithWritable DEF Open
<1>6. /\ DOMAIN next.jobs = DOMAIN mem.jobs /\ next.jobs[t] = job
      /\ \A x \in DOMAIN mem.jobs \ {t} : next.jobs[x] = mem.jobs[x]
  <2>1. /\ DOMAIN next.jobs = DOMAIN mem.jobs \cup {t} /\ next.jobs[t] = job
        /\ \A x \in DOMAIN mem.jobs \ {t} : next.jobs[x] = mem.jobs[x]
    BY <1>3, WithFields
  <2> QED  BY <1>2, <2>1
<1>7. Queued(next) \subseteq Places
  BY <1>6 DEF Queued, Places
<1> HIDE DEF next
<1>8. \/ Saves(next)
      \/ disk' \in {disk, IF disk = mem THEN next ELSE disk} /\ error' /\ mem' = mem
      \/ error /\ UNCHANGED <<disk, mem, error>>
  BY DEF Faults, next
<1>9. \/ mem' = next /\ disk' = next /\ error' = error
      \/ mem' = mem /\ error' /\ disk' \in {disk, next}
  BY <1>8 DEF Saves, Faults
<1>10. error' \in BOOLEAN
  BY DEF SupervisorInv, SessionKept, Saves, Faults
<1>11. LedgerTyped' /\ StoresKept' /\ FileFollows
  <2>1. CASE error /\ UNCHANGED <<disk, mem, error>>
    BY <1>1, <2>1, SameStores
  <2>2. CASE \/ Saves(next)
             \/ disk' \in {disk, IF disk = mem THEN next ELSE disk} /\ error' /\ mem' = mem
    <3>1. StoresKept' /\ FileFollows
      BY <1>1, <1>5, <2>2, Persists DEF SupervisorInv
    <3> QED  BY <1>1, <1>3, <3>1 DEF LedgerTyped
  <2> QED  BY <1>8, <2>1, <2>2
<1>12. /\ active' \in CallMaps /\ DOMAIN active' = DOMAIN active \ {t}
       /\ \A x \in DOMAIN active \ {t} : active'[x].pc = active[x].pc /\ active'[x].status = active[x].status
  <2>1. PICK left : left = Forget(active, t)
    OBVIOUS
  <2>2. /\ left \in CallMaps /\ DOMAIN left = DOMAIN active \ {t}
        /\ \A x \in DOMAIN active \ {t} : left[x] = active[x]
    BY <1>2, <2>1, ForgetFields
  <2>3. /\ Aborted(left) \in CallMaps /\ DOMAIN Aborted(left) = DOMAIN left
        /\ \A x \in DOMAIN left : Aborted(left)[x].pc = left[x].pc /\ Aborted(left)[x].status = left[x].status
    BY <2>2, AbortedFields
  <2>4. active' = left \/ active' = Aborted(left)
    BY <2>1 DEF Faults
  <2> QED  BY <2>2, <2>3, <2>4
<1>13. CallsKept'
  <2>1. ASSUME NEW x \in DOMAIN active \ {t} PROVE CallKept(x)'
    <3>1. CallKept(x) /\ x # t
      BY <1>2
    <3>2. x \in DOMAIN mem'.jobs /\ mem'.jobs[x].state = "dispatching" /\ x \in dispatched'
      BY <1>6, <1>9, <3>1 DEF CallKept
    <3> QED  BY <1>1, <1>12, <3>1, <3>2 DEF CallKept, Ran, Ours
  <2>2. ASSUME ~ error', NEW x \in DOMAIN mem'.jobs, mem'.jobs[x].state = "dispatching"
        PROVE  x \in DOMAIN active'
    BY <1>4, <1>6, <1>9, <1>12, <2>2 DEF SupervisorInv, CallsKept
  <2> QED  BY <1>12, <2>1, <2>2 DEF CallsKept
<1>14. PumpKept'
  BY <1>1, <1>4, IdlePump
<1>15. SessionKept'
  <2>1. DOMAIN mem'.jobs = DOMAIN mem.jobs
    BY <1>6, <1>9
  <2> QED  BY <1>1, <1>4, <1>10, <2>1 DEF SupervisorInv, SessionKept, Ours, Down
<1>16. LimitsKept'
  <2>1. Places' \subseteq Places /\ Queued(disk)' \subseteq Queued(disk) \cup Queued(next)
    BY <1>6, <1>7, <1>9, <1>12 DEF Places, Queued
  <2>2. AtMost(Places', MaxQueued) /\ AtMost(DOMAIN active', MaxParallel)
    BY <1>12, <2>1, AtMostSubset, SupervisorAssumption DEF SupervisorInv, LimitsKept
  <2>3. AtMost(Queued(disk'), MaxQueued)
    <3>1. disk' \in {disk, next}
      BY <1>9
    <3> QED  BY <1>7, <3>1, AtMostSubset, SupervisorAssumption DEF SupervisorInv, LimitsKept
  <2>4. Queued(disk)' = Queued(disk')
    BY DEF Queued
  <2> QED  BY <2>2, <2>3, <2>4 DEF LimitsKept, AtMost
<1> QED  BY <1>11, <1>13, <1>14, <1>15, <1>16 DEF Finished, SupervisorInv

\* A denied call has no receipt of the console: its job is cancelled or takes its place again.
LEMMA DeniedStep ==
  ASSUME SupervisorInv, NEW t \in DOMAIN active, pump.pc = "idle", Denied(t)
  PROVE  Finished
<1> DEFINE job == IF active[t].aborted \/ phase = "closing" THEN Cancelled(mem.jobs[t]) ELSE Requeued(mem.jobs[t])
<1>1. /\ active[t].pc = "denied" /\ dispatched' = dispatched \ {t}
      /\ \/ Saves(With(t, job)) /\ active' = Forget(active, t)
         \/ Faults(With(t, job), Forget(active, t))
      /\ UNCHANGED <<ledger, phase, pump, tried, recent, history>>
  BY DEF Denied
<1>2. t \in DOMAIN mem.jobs /\ mem.jobs[t].state = "dispatching" /\ ~ Ours(t)
  BY <1>1 DEF SupervisorInv, CallsKept, CallKept
<1>3. t \in Tasks /\ mem.jobs[t] \in Jobs /\ JobKept(mem.jobs, t, mem.jobs[t])
  BY <1>2, StoreFacts
<1>4. /\ job \in Jobs /\ JobKept(mem.jobs, t, job) /\ job.state \in {"queued", "cancelled"}
      /\ job.content = mem.jobs[t].content /\ job.parent = mem.jobs[t].parent
  BY <1>2, <1>3, CancelledFields, CancelledJob, RequeuedJob DEF Open
<1>5. t \notin mine
  BY <1>2 DEF SupervisorInv, SessionKept
<1> HIDE DEF job
<1> QED  BY <1>1, <1>4, <1>5, ReleasedStep

\* The job takes what the ledger holds.  Text is captured from a fresh, completed call only,
\* and that call ran a worker of the console.
LEMMA ReceivesStep ==
  ASSUME SupervisorInv, NEW t \in DOMAIN active, pump.pc = "idle", Receives(t)
  PROVE  Finished
<1> DEFINE call == active[t]
           same == call.pc # "thrown" /\ Known(t, mem.jobs[t]) /\ receipts[t].status = call.status
           fresh == same /\ call.pc = "returned"
           job == Resolved(t, mem.jobs[t], fresh)
           conflict == ~ error /\ t \in DOMAIN receipts /\ ~ Known(t, mem.jobs[t])
<1>1. /\ dispatched' = IF call.pc = "replayed" \/ conflict THEN dispatched \ {t} ELSE dispatched
      /\ \/ Saves(With(t, job)) /\ active' = Forget(active, t)
         \/ Faults(With(t, job), Forget(active, t))
         \/ error /\ active' = Forget(active, t) /\ UNCHANGED <<disk, mem, error>>
      /\ UNCHANGED <<ledger, phase, pump, tried, recent, history>>
  BY DEF Receives
<1>2. CallKept(t) /\ t \in DOMAIN mem.jobs /\ mem.jobs[t].state = "dispatching"
  BY DEF SupervisorInv, CallsKept, CallKept
<1>3. LedgerTyped /\ t \in Tasks /\ mem.jobs[t] \in Jobs /\ JobKept(mem.jobs, t, mem.jobs[t])
  BY <1>2, StoreFacts
<1>4. fresh \in BOOLEAN /\ (fresh /\ receipts[t].status = "completed" => Ran(t))
  BY <1>2 DEF CallKept
<1>5. call.pc = "replayed" \/ conflict => t \notin mine
  <2>1. call.pc = "replayed" => ~ Ours(t)
    BY <1>2 DEF CallKept
  <2>2. conflict => ~ Ours(t)
    BY <1>3 DEF Known, JobKept, Truthful
  <2> QED  BY <2>1, <2>2 DEF SupervisorInv, SessionKept
<1> HIDE DEF conflict, fresh, call
<1>6. /\ job \in Jobs /\ job.content = mem.jobs[t].content /\ job.parent = mem.jobs[t].parent
      /\ job.state \in {"settled", "unresolved"}
  BY <1>3, <1>4, ResolvedFields
<1>7. JobKept(mem.jobs, t, job)
  BY <1>2, <1>3, <1>4, ResolvedJob DEF Open
<1> HIDE DEF job
<1> QED  BY <1>1, <1>5, <1>6, <1>7, ReleasedStep

(***************************************************************************)
(* The ledger.                                                             *)
(***************************************************************************)
\* What any program may do to the ledger: receipts are added, an open one is settled for
\* the same content, a terminal one stays, and nobody's receipt changes hands.
LedgerMoves ==
  /\ LedgerTyped'
  /\ \A x \in DOMAIN receipts :
       /\ x \in DOMAIN receipts'
       /\ receipts'[x].content = receipts[x].content
       /\ receipts[x].status \in Terminal => receipts'[x] = receipts[x]
       /\ holder'[x] = holder[x]
  /\ invoked \subseteq invoked'

\* The ledger with one receipt written.
LEMMA ReceiptFields ==
  ASSUME LedgerTyped, NEW t \in Tasks, NEW content \in Contents, NEW status \in Settlements \cup {"reserved"}
  PROVE  LET R == Receipt(t, content, status) IN
         /\ DOMAIN R = DOMAIN receipts \cup {t} /\ R \in [DOMAIN receipts \cup {t} -> Entries]
         /\ R[t].content = content /\ R[t].status = status
         /\ \A x \in DOMAIN receipts \ {t} : R[x] = receipts[x]
<1> DEFINE R == Receipt(t, content, status)
<1>1. /\ R = [x \in DOMAIN receipts \cup {t} |->
                IF x = t THEN [content |-> content, status |-> status] ELSE receipts[x]]
      /\ receipts \in [DOMAIN receipts -> Entries]
  BY DEF Receipt, LedgerTyped
<1>2. [content |-> content, status |-> status] \in Entries
  BY DEF Entries
<1> HIDE DEF R
<1>3. /\ DOMAIN R = DOMAIN receipts \cup {t} /\ R \in [DOMAIN receipts \cup {t} -> Entries]
      /\ R[t] = [content |-> content, status |-> status]
      /\ \A x \in DOMAIN receipts \ {t} : R[x] = receipts[x]
  BY <1>1, <1>2
<1> QED  BY <1>3 DEF R

\* A reservation, by whichever program, moves the ledger.
LEMMA ReserveMoves ==
  ASSUME LedgerTyped, NEW t \in Tasks, NEW content \in Contents, NEW who \in {"console", "other"},
         ReserveReceipt(t, content),
         holder' = [x \in DOMAIN holder \cup {t} |-> IF x = t THEN who ELSE holder[x]]
  PROVE  /\ LedgerMoves /\ invoked' = invoked
         /\ DOMAIN holder = DOMAIN receipts /\ t \notin DOMAIN holder
         /\ DOMAIN holder' = DOMAIN holder \cup {t} /\ holder'[t] = who
         /\ receipts'[t].content = content
         /\ \A x \in DOMAIN holder : holder'[x] = holder[x]
<1>1. t \notin DOMAIN receipts /\ receipts' = Receipt(t, content, "reserved") /\ invoked' = invoked
  BY DEF ReserveReceipt
<1>2. /\ DOMAIN receipts' = DOMAIN receipts \cup {t} /\ receipts' \in [DOMAIN receipts \cup {t} -> Entries]
      /\ receipts'[t].content = content
      /\ \A x \in DOMAIN receipts \ {t} : receipts'[x] = receipts[x]
  BY <1>1, ReceiptFields, SMTT(60)
<1>3. /\ DOMAIN holder = DOMAIN receipts /\ holder' \in [DOMAIN receipts \cup {t} -> {"console", "other"}]
      /\ DOMAIN holder' = DOMAIN holder \cup {t} /\ holder'[t] = who
      /\ \A x \in DOMAIN holder : x # t /\ holder'[x] = holder[x]
  BY <1>1 DEF LedgerTyped
<1>4. LedgerTyped'
  BY <1>1, <1>2, <1>3 DEF LedgerTyped
<1> QED  BY <1>1, <1>2, <1>3, <1>4 DEF LedgerMoves

\* A settlement moves the ledger.
LEMMA SettleMoves ==
  ASSUME LedgerTyped, NEW t \in Tasks, NEW status \in Settlements, Settle(t, status), holder' = holder
  PROVE  LedgerMoves /\ invoked' = invoked
<1>1. /\ t \in DOMAIN receipts /\ receipts[t].status = "reserved" /\ invoked' = invoked
      /\ receipts' = Receipt(t, receipts[t].content, status)
  BY DEF Settle
<1>2. receipts[t].content \in Contents
  BY <1>1 DEF LedgerTyped, Entries
<1>3. /\ DOMAIN receipts' = DOMAIN receipts \cup {t} /\ receipts' \in [DOMAIN receipts \cup {t} -> Entries]
      /\ receipts'[t].content = receipts[t].content
      /\ \A x \in DOMAIN receipts \ {t} : receipts'[x] = receipts[x]
  BY <1>1, <1>2, ReceiptFields
<1>4. DOMAIN receipts' = DOMAIN receipts
  BY <1>1, <1>3
<1>5. LedgerTyped'
  BY <1>1, <1>3, <1>4 DEF LedgerTyped
<1> QED  BY <1>1, <1>3, <1>5 DEF LedgerMoves, Terminal

\* An invocation moves the ledger.
LEMMA InvokeMoves ==
  ASSUME LedgerTyped, NEW t \in Tasks, Invoke(t), holder' = holder
  PROVE  LedgerMoves /\ invoked' = invoked \cup {t}
<1>1. t \in DOMAIN receipts /\ invoked' = invoked \cup {t} /\ receipts' = receipts
  BY DEF Invoke
<1> QED  BY <1>1 DEF LedgerMoves, LedgerTyped

\* A ledger that stays as it is has moved.
LEMMA SameMoves ==
  ASSUME LedgerTyped, UNCHANGED <<receipts, invoked, holder>>
  PROVE  LedgerMoves
BY DEF LedgerMoves, LedgerTyped

\* The only receipt a step makes the console's own is that of the job being entered.
OwnReceipt ==
  \A x : Ours(x)' => \/ Ours(x)
                     \/ x = pump.job /\ pump.pc = "saved" /\ receipts'[x].content = mem.jobs[x].content

\* The file and memory stay kept while the ledger moves under them.
LEMMA StoresOutlive ==
  ASSUME SupervisorInv, LedgerMoves, OwnReceipt, UNCHANGED <<disk, mem, lost, error>>
  PROVE  StoresKept' /\ FileFollows
<1>1. LedgerTyped /\ LedgerTyped' /\ DOMAIN holder = DOMAIN receipts /\ DOMAIN holder' = DOMAIN receipts'
  BY DEF SupervisorInv, LedgerMoves, LedgerTyped
<1>2. \A x : Ours(x) => Ours(x)'
  BY <1>1 DEF Ours, LedgerMoves
<1>3. \A x : Ran(x) => Ran(x)'
  BY <1>2 DEF Ran, LedgerMoves
<1>4. pump.pc = "saved" =>
        disk = mem /\ pump.job \in DOMAIN mem.jobs /\ mem.jobs[pump.job].state = "dispatching"
  BY DEF SupervisorInv, PumpKept, CallsKept, CallKept, Stopped, StoresKept
<1>5. ASSUME NEW state \in {disk, mem}
      PROVE  /\ state \in Stores
             /\ \A x \in Tasks : Ours(x)' \/ x \in lost => x \in DOMAIN state.jobs
             /\ \A x \in DOMAIN state.jobs : JobDecodes(state.jobs[x]) /\ ParentDecodes(state.jobs, x, state.jobs[x])
  BY <1>4 DEF SupervisorInv, StoresKept, StoreKept, Complete, JobsKept, JobKept, OwnReceipt
<1>6. ASSUME NEW state \in {disk, mem}, NEW x \in DOMAIN state.jobs
      PROVE  /\ state.jobs[x].state = "settled" =>
                  x \in DOMAIN receipts' /\ receipts'[x] = [content |-> state.jobs[x].content, status |-> state.jobs[x].outcome]
             /\ state.jobs[x].history = "output" => Ran(x)'
             /\ Ours(x)' => /\ state.jobs[x].state \notin {"queued", "cancelled"}
                            /\ receipts'[x].content = state.jobs[x].content
             /\ x \in lost => state.jobs[x].state \in {"settled", "unresolved"}
  <2>1. JobDecodes(state.jobs[x]) /\ Truthful(x, state.jobs[x])
    BY <1>6 DEF SupervisorInv, StoresKept, StoreKept, JobsKept, JobKept
  <2>2. ASSUME state.jobs[x].state = "settled"
        PROVE  x \in DOMAIN receipts' /\ receipts'[x] = [content |-> state.jobs[x].content, status |-> state.jobs[x].outcome]
    <3>1. /\ x \in DOMAIN receipts /\ state.jobs[x].outcome \in Terminal
          /\ receipts[x] = [content |-> state.jobs[x].content, status |-> state.jobs[x].outcome]
      BY <2>1, <2>2 DEF JobDecodes, Truthful, Open
    <3> QED  BY <3>1 DEF LedgerMoves
  <2>3. ASSUME Ours(x)'
        PROVE  /\ state.jobs[x].state \notin {"queued", "cancelled"}
               /\ receipts'[x].content = state.jobs[x].content
    <3>1. CASE Ours(x)
      BY <1>1, <2>1, <3>1 DEF Truthful, LedgerMoves, Ours
    <3>2. CASE ~ Ours(x)
      BY <1>4, <2>3, <3>2 DEF OwnReceipt
    <3> QED  BY <3>1, <3>2
  <2> QED  BY <1>3, <2>1, <2>2, <2>3 DEF Truthful
<1>7. StoreKept(disk)'
  BY <1>5, <1>6 DEF StoreKept, JobsKept, JobKept, Truthful, Complete
<1>8. StoreKept(mem)'
  BY <1>5, <1>6 DEF StoreKept, JobsKept, JobKept, Truthful, Complete
<1> QED  BY <1>7, <1>8, FollowsSelf DEF SupervisorInv, StoresKept, FileFollows

\* A step of the ledger and of the calls: no job changes.
LEMMA LedgerStep ==
  ASSUME SupervisorInv, LedgerMoves, OwnReceipt,
         UNCHANGED <<disk, mem, lost, phase, error, recent, dispatched>>,
         mine' = mine \/ (phase = "up" /\ mine' \subseteq dispatched /\ \A x \in mine' : Ours(x)'),
         active' \in CallMaps, DOMAIN active' = DOMAIN active,
         \A x \in DOMAIN active : active'[x].pc \in {"entered", "denied"} => active[x].pc \in {"entered", "denied"},
         \A x \in DOMAIN active : CallKept(x)',
         phase \in Down => active' = active /\ pump' = pump,
         PumpKept'
  PROVE  Finished
<1>1. StoresKept' /\ FileFollows
  BY StoresOutlive
<1>2. LedgerTyped' /\ LedgerTyped
  BY DEF LedgerMoves, SupervisorInv
<1>3. CallsKept'
  BY DEF SupervisorInv, CallsKept
<1>4. SessionKept'
  <2>1. \A x \in mine : Ours(x) /\ x \in DOMAIN receipts
    BY <1>2 DEF SupervisorInv, SessionKept, Ours, LedgerTyped
  <2>2. \A x \in mine' : Ours(x)'
    BY <1>2, <2>1 DEF Ours, LedgerMoves, LedgerTyped
  <2>3. \A x \in mine : receipts[x].status \in Terminal => receipts'[x].status \in Terminal
    BY <2>1 DEF LedgerMoves
  <2>4. mine' \subseteq dispatched /\ (phase = "clean" => mine' = mine)
    BY DEF SupervisorInv, SessionKept
  <2> QED  BY <2>2, <2>3, <2>4 DEF SupervisorInv, SessionKept
<1>5. LimitsKept'
  <2>1. Places' \subseteq Places /\ Queued(disk)' = Queued(disk)
    BY DEF Places, Queued
  <2>2. AtMost(Places', MaxQueued)
    BY <2>1, AtMostSubset, SupervisorAssumption DEF SupervisorInv, LimitsKept
  <2> QED  BY <2>1, <2>2 DEF SupervisorInv, LimitsKept, AtMost
<1> QED  BY <1>1, <1>2, <1>3, <1>4, <1>5 DEF Finished, SupervisorInv

\* Other programs never touch the console's receipts.
LEMMA OtherStep ==
  ASSUME SupervisorInv, NEW t \in Tasks, Other(t)
  PROVE  Finished
<1>1. UNCHANGED <<disk, mem, lost, mine, phase, error, active, pump, recent, dispatched>>
  BY DEF Other, session, history
<1>2. LedgerTyped
  BY DEF SupervisorInv
<1>3. LedgerMoves /\ \A x : Ours(x)' => Ours(x)
  <2>1. ASSUME NEW content \in Contents, ReserveReceipt(t, content),
               holder' = [x \in DOMAIN holder \cup {t} |-> IF x = t THEN "other" ELSE holder[x]]
        PROVE  LedgerMoves /\ \A x : Ours(x)' => Ours(x)
    <3>1. /\ LedgerMoves /\ DOMAIN holder' = DOMAIN holder \cup {t} /\ holder'[t] = "other"
          /\ \A x \in DOMAIN holder : holder'[x] = holder[x]
      BY <1>2, <2>1, ReserveMoves
    <3> QED  BY <3>1 DEF Ours
  <2>2. ASSUME holder' = holder, Invoke(t) \/ \E status \in Outcomes : Settle(t, status)
        PROVE  LedgerMoves /\ \A x : Ours(x)' => Ours(x)
    <3>1. LedgerMoves
      BY <1>2, <2>2, InvokeMoves, SettleMoves, SupervisorAssumption
    <3> QED  BY <2>2, <3>1 DEF Ours
  <2> QED  BY <2>1, <2>2 DEF Other
<1>4. OwnReceipt
  BY <1>3 DEF OwnReceipt
<1>5. \A x : Ours(x) => Ours(x)'
  BY <1>2, <1>3 DEF Ours, LedgerMoves, LedgerTyped
<1>6. invoked \subseteq invoked'
  BY <1>3 DEF LedgerMoves
<1>7. ASSUME NEW x \in DOMAIN active PROVE CallKept(x)'
  <2>1. CallKept(x)
    BY DEF SupervisorInv, CallsKept
  <2>2. Ran(x) => Ran(x)'
    BY <1>5, <1>6 DEF Ran
  <2>3. ~ Ours(x) => ~ Ours(x)'
    BY <1>3
  <2> QED  BY <1>1, <2>1, <2>2, <2>3 DEF CallKept
<1>8. PumpKept'
  BY <1>1, <1>3, <1>5 DEF SupervisorInv, PumpKept, Full, Stopped, Ours
<1>9. active \in CallMaps
  BY DEF SupervisorInv, CallsKept
<1> QED  BY <1>1, <1>3, <1>4, <1>7, <1>8, <1>9, LedgerStep

\* A call comes back.
LEMMA ReturnsFields ==
  ASSUME active \in CallMaps, NEW t \in DOMAIN active, NEW pc \in CallPcs,
         NEW status \in Settlements \cup {"reserved", None},
         active' = [active EXCEPT ![t].pc = pc, ![t].status = status]
  PROVE  /\ active' \in CallMaps /\ DOMAIN active' = DOMAIN active
         /\ active'[t].pc = pc /\ active'[t].status = status
         /\ \A x \in DOMAIN active \ {t} : active'[x] = active[x]
<1>1. active \in [DOMAIN active -> CallRecords] /\ DOMAIN active \in SUBSET Tasks
  BY MapIsCalls
<1>2. active' \in [DOMAIN active -> CallRecords]
  BY <1>1 DEF CallRecords
<1>3. active' \in CallMaps
  BY <1>1, <1>2, CallsIsMap
<1> QED  BY <1>1, <1>2, <1>3 DEF CallRecords

\* A worker ends: what its call returns as completed was run.
LEMMA WorkerEndsStep ==
  ASSUME SupervisorInv, NEW t \in Tasks, WorkerEnds(t)
  PROVE  Finished
<1>1. /\ t \in DOMAIN active /\ active[t].pc = "running" /\ pump.pc = "idle"
      /\ UNCHANGED <<holder, disk, mem, lost, mine, phase, error, pump, recent, dispatched>>
  BY DEF WorkerEnds, history
<1>2. LedgerTyped /\ active \in CallMaps /\ \A x \in DOMAIN active : CallKept(x)
  BY DEF SupervisorInv, CallsKept
<1>3. LedgerMoves
  BY <1>1, <1>2, SettleMoves, SameMoves, SupervisorAssumption DEF WorkerEnds
<1>4. OwnReceipt /\ \A x : Ours(x)' = Ours(x)
  BY <1>1 DEF OwnReceipt, Ours
<1>5. PICK pc \in {"returned", "thrown"}, status \in Settlements \cup {"reserved", None} :
        active' = [active EXCEPT ![t].pc = pc, ![t].status = status]
  <2>1. active \in [DOMAIN active -> CallRecords]
    BY <1>2, MapIsCalls
  <2>2. CASE \E status \in Outcomes, pc \in {"returned", "thrown"} :
               active' = [active EXCEPT ![t].pc = pc, ![t].status = status]
    BY <2>2, SupervisorAssumption
  <2>3. CASE active' = [active EXCEPT ![t].pc = "thrown"]
    <3>1. /\ active[t].status \in Settlements \cup {"reserved", None}
          /\ active' = [active EXCEPT ![t].pc = "thrown", ![t].status = active[t].status]
      BY <1>1, <2>1, <2>3 DEF CallRecords
    <3> QED  BY <3>1
  <2> QED  BY <2>2, <2>3 DEF WorkerEnds
<1>6. /\ active' \in CallMaps /\ DOMAIN active' = DOMAIN active
      /\ active'[t].pc = pc /\ active'[t].status = status
      /\ \A x \in DOMAIN active \ {t} : active'[x] = active[x]
  BY <1>1, <1>2, <1>5, ReturnsFields DEF CallPcs
<1>7. \A x : Ran(x) => Ran(x)'
  BY <1>3, <1>4 DEF Ran, LedgerMoves
<1>8. ASSUME NEW x \in DOMAIN active PROVE CallKept(x)'
  <2>1. CallKept(x)
    BY <1>2
  <2>2. CASE x = t
    BY <1>1, <1>5, <1>6, <1>7, <2>1, <2>2 DEF CallKept
  <2>3. CASE x # t
    BY <1>1, <1>4, <1>6, <1>7, <2>1, <2>3 DEF CallKept
  <2> QED  BY <2>2, <2>3
<1>9. \A x \in DOMAIN active : active'[x].pc \in {"entered", "denied"} => active[x].pc \in {"entered", "denied"}
  BY <1>5, <1>6
<1>10. PumpKept'
  BY <1>1, IdlePump DEF SupervisorInv, PumpKept
<1>11. phase \notin Down
  <2>1. DOMAIN NoCalls = {}
    BY DEF NoCalls
  <2> QED  BY <1>1, <2>1 DEF SupervisorInv, SessionKept
<1> QED  BY <1>1, <1>3, <1>4, <1>6, <1>8, <1>9, <1>10, <1>11, LedgerStep

\* The call that is being made: nobody else is between the intent and the answer.
LEMMA Entering ==
  ASSUME SupervisorInv, pump.pc \in {"saved", "reserved"}
  PROVE  /\ LedgerTyped /\ active \in CallMaps /\ (\A x \in DOMAIN active : CallKept(x))
         /\ pump.job \in DOMAIN active /\ pump.job \in Tasks /\ active[pump.job].pc = "entered"
         /\ pump.job \in DOMAIN mem.jobs /\ mem.jobs[pump.job] \in Jobs /\ pump.job \in dispatched
         /\ \A x \in DOMAIN active \ {pump.job} : active[x].pc # "entered"
         /\ phase = "up" /\ phase \notin Down
<1>1. /\ LedgerTyped /\ active \in CallMaps /\ (\A x \in DOMAIN active : CallKept(x))
      /\ pump.job \in DOMAIN active /\ active[pump.job].pc = "entered" /\ phase = "up"
  BY DEF SupervisorInv, CallsKept, PumpKept, Stopped
<1>2. pump.job \in DOMAIN mem.jobs /\ pump.job \in dispatched
  BY <1>1 DEF CallKept
<1>3. \A x \in DOMAIN active \ {pump.job} : active[x].pc # "entered"
  BY <1>1 DEF CallKept
<1> QED  BY <1>1, <1>2, <1>3, StoreFacts DEF Down

\* The answer of a call: what it says of a receipt or of a worker is true.
LEMMA ReturnsStep ==
  ASSUME SupervisorInv, pump.pc \in {"saved", "reserved"}, LedgerMoves, holder' = holder,
         UNCHANGED <<disk, mem, lost, mine, phase, error, recent, dispatched>>,
         NEW pc \in CallPcs, NEW status \in Settlements \cup {"reserved", None},
         Returns(pump.job, pc, status),
         pc # "entered", pc \in {"denied", "replayed"} => pump.pc = "saved",
         pc = "running" => pump.job \in invoked' /\ Ours(pump.job), pc = "returned" => status # "completed"
  PROVE  Finished
<1>1. PICK t : t = pump.job
  OBVIOUS
<1>2. /\ LedgerTyped /\ active \in CallMaps /\ (\A x \in DOMAIN active : CallKept(x))
      /\ t \in DOMAIN active /\ active[t].pc = "entered" /\ t \in DOMAIN mem.jobs /\ t \in dispatched
      /\ (\A x \in DOMAIN active \ {t} : active[x].pc # "entered") /\ phase \notin Down
  BY <1>1, Entering
<1>3. active' = [active EXCEPT ![t].pc = pc, ![t].status = status] /\ pump' = [pump EXCEPT !.pc = "called"]
  BY <1>1 DEF Returns
<1>4. /\ active' \in CallMaps /\ DOMAIN active' = DOMAIN active
      /\ active'[t].pc = pc /\ active'[t].status = status
      /\ \A x \in DOMAIN active \ {t} : active'[x] = active[x]
  BY <1>2, <1>3, ReturnsFields, ZenonT(60)
<1>5. OwnReceipt /\ \A x : Ours(x)' = Ours(x)
  BY DEF OwnReceipt, Ours
<1>6. \A x : Ran(x) => Ran(x)'
  BY <1>5 DEF Ran, LedgerMoves
<1>7. /\ pump' \in Pumps /\ pump'.pc = "called" /\ pump'.job = t /\ pump'.todo = pump.todo
      /\ t \notin lost /\ pump.todo \subseteq DOMAIN mem.jobs \ lost
  BY <1>1, <1>3 DEF SupervisorInv, PumpKept, Pumps
<1>8. ASSUME NEW x \in DOMAIN active PROVE CallKept(x)'
  <2>1. CallKept(x)
    BY <1>2
  <2>2. CASE x = t
    <3>1. pc \in {"denied", "replayed"} => ~ Ours(t)
      BY <1>1 DEF SupervisorInv, PumpKept
    <3>2. pc = "running" => Ran(t)'
      BY <1>1, <1>5 DEF Ran
    <3> QED  BY <1>4, <1>5, <2>1, <2>2, <3>1, <3>2 DEF CallKept
  <2>3. CASE x # t
    BY <1>2, <1>4, <1>5, <1>6, <2>1, <2>3 DEF CallKept
  <2> QED  BY <2>2, <2>3
<1>9. PumpKept'
  BY <1>2, <1>4, <1>7 DEF PumpKept
<1>10. \A x \in DOMAIN active : active'[x].pc \in {"entered", "denied"} => active[x].pc \in {"entered", "denied"}
  BY <1>2, <1>4
<1> QED  BY <1>2, <1>4, <1>5, <1>8, <1>9, <1>10, LedgerStep

\* runResourceTask denies, replays, throws or reserves.
LEMMA EntersStep ==
  ASSUME SupervisorInv, Enters
  PROVE  Finished
<1>1. PICK t : t = pump.job
  OBVIOUS
<1>2. /\ pump.pc = "saved"
      /\ UNCHANGED <<disk, mem, phase, error, tried, recent, dispatched, lost>>
      /\ \/ Returns(t, "denied", None) /\ UNCHANGED <<ledger, mine>>
         \/ /\ Known(t, mem.jobs[t]) /\ Returns(t, "replayed", receipts[t].status)
            /\ UNCHANGED <<ledger, mine>>
         \/ Returns(t, "thrown", None) /\ UNCHANGED <<ledger, mine>>
         \/ /\ ReserveReceipt(t, mem.jobs[t].content)
            /\ holder' = [x \in DOMAIN holder \cup {t} |-> IF x = t THEN "console" ELSE holder[x]]
            /\ mine' = mine \cup {t} /\ pump' = [pump EXCEPT !.pc = "reserved"] /\ UNCHANGED active
  BY <1>1 DEF Enters
<1>3. /\ LedgerTyped /\ active \in CallMaps /\ (\A x \in DOMAIN active : CallKept(x))
      /\ t \in DOMAIN active /\ t \in Tasks /\ active[t].pc = "entered"
      /\ t \in DOMAIN mem.jobs /\ mem.jobs[t] \in Jobs /\ t \in dispatched
      /\ phase = "up" /\ phase \notin Down
  BY <1>1, <1>2, Entering
<1>4. CASE \E pc \in {"denied", "replayed", "thrown"}, status \in Settlements \cup {"reserved", None} :
             Returns(t, pc, status) /\ UNCHANGED <<ledger, mine>>
  <2>1. PICK pc \in {"denied", "replayed", "thrown"}, status \in Settlements \cup {"reserved", None} :
          Returns(t, pc, status) /\ UNCHANGED <<ledger, mine>>
    BY <1>4
  <2>2. UNCHANGED <<receipts, invoked, holder, mine>> /\ pc \in CallPcs
    BY <2>1 DEF ledger, CallPcs
  <2>3. LedgerMoves
    BY <1>3, <2>2, SameMoves
  <2> QED  BY <1>1, <1>2, <2>1, <2>2, <2>3, ReturnsStep
<1>5. CASE /\ ReserveReceipt(t, mem.jobs[t].content)
           /\ holder' = [x \in DOMAIN holder \cup {t} |-> IF x = t THEN "console" ELSE holder[x]]
           /\ mine' = mine \cup {t} /\ pump' = [pump EXCEPT !.pc = "reserved"] /\ UNCHANGED active
  <2>1. mem.jobs[t].content \in Contents
    BY <1>3 DEF Jobs
  <2>2. /\ LedgerMoves /\ invoked' = invoked
        /\ DOMAIN holder' = DOMAIN holder \cup {t} /\ holder'[t] = "console"
        /\ receipts'[t].content = mem.jobs[t].content
        /\ \A x \in DOMAIN holder : holder'[x] = holder[x]
    BY <1>3, <1>5, <2>1, ReserveMoves
  <2>3. /\ \A x : Ours(x) => Ours(x)'
        /\ \A x : x # t => Ours(x)' = Ours(x)
        /\ Ours(t)'
    BY <2>2 DEF Ours
  <2>4. OwnReceipt
    BY <1>1, <1>2, <2>2, <2>3 DEF OwnReceipt
  <2>5. mine' \subseteq dispatched /\ \A x \in mine' : Ours(x)'
    BY <1>3, <1>5, <2>3 DEF SupervisorInv, SessionKept
  <2>6. /\ pump' \in Pumps /\ pump'.pc = "reserved" /\ pump'.job = t /\ pump'.todo = pump.todo
        /\ t \notin lost /\ pump.todo \subseteq DOMAIN mem.jobs \ lost /\ ~ Stopped
    BY <1>1, <1>2, <1>5 DEF SupervisorInv, PumpKept, Pumps
  <2>7. ASSUME NEW x \in DOMAIN active PROVE CallKept(x)'
    <3>1. CallKept(x) /\ (x # t => active[x].pc # "entered")
      BY <1>1, <1>3 DEF CallKept
    <3>2. CASE x = t
      BY <1>2, <1>3, <1>5, <2>6, <3>1, <3>2 DEF CallKept
    <3>3. CASE x # t
      BY <1>2, <1>5, <2>2, <2>3, <3>1, <3>3 DEF CallKept, Ran
    <3> QED  BY <3>2, <3>3
  <2>8. PumpKept'
    BY <1>2, <1>3, <1>5, <2>2, <2>6 DEF PumpKept, Stopped, Ours
  <2> QED  BY <1>2, <1>3, <1>5, <2>2, <2>4, <2>5, <2>7, <2>8, LedgerStep
<1>6. Known(t, mem.jobs[t]) => receipts[t].status \in Settlements \cup {"reserved", None}
  BY <1>3 DEF LedgerTyped, Entries, Known
<1> QED  BY <1>2, <1>4, <1>5, <1>6

\* The worker is invoked, or the host refuses and the receipt is failed.
LEMMA DispatchesStep ==
  ASSUME SupervisorInv, Dispatches
  PROVE  Finished
<1>1. /\ pump.pc = "reserved"
      /\ UNCHANGED <<holder, disk, mem, phase, error, recent, dispatched, lost, mine>>
  BY DEF Dispatches, history
<1>2. /\ LedgerTyped /\ pump.job \in Tasks /\ Ours(pump.job)
  BY <1>1, Entering DEF SupervisorInv, PumpKept
<1>3. CASE Invoke(pump.job) /\ Returns(pump.job, "running", None)
  <2>1. LedgerMoves /\ pump.job \in invoked'
    BY <1>1, <1>2, <1>3, InvokeMoves
  <2> QED  BY <1>1, <1>2, <1>3, <2>1, ReturnsStep DEF CallPcs
<1>4. ASSUME Settle(pump.job, "failed"), NEW pc \in {"returned", "thrown"}, Returns(pump.job, pc, "failed")
      PROVE  Finished
  <2>1. "failed" \in Settlements /\ "failed" # "completed" /\ pc \in CallPcs
    BY DEF Settlements, Terminal, CallPcs
  <2>2. LedgerMoves
    BY <1>1, <1>2, <1>4, <2>1, SettleMoves
  <2> QED  BY <1>1, <1>4, <2>1, <2>2, ReturnsStep
<1>5. CASE Returns(pump.job, "thrown", None) /\ UNCHANGED <<receipts, invoked>>
  BY <1>1, <1>2, <1>5, SameMoves, ReturnsStep DEF CallPcs
<1> QED  BY <1>3, <1>4, <1>5 DEF Dispatches

(***************************************************************************)
(* The specification.                                                      *)
(***************************************************************************)
LEMMA InitStep ==
  ASSUME Init PROVE SupervisorInv
<1>1. /\ receipts = [t \in {} |-> "reserved"] /\ invoked = {} /\ holder = NoCalls
      /\ disk = [paused |-> FALSE, jobs |-> NoCalls] /\ mem = disk /\ phase = "new" /\ error = FALSE
      /\ active = NoCalls /\ pump = Idle /\ recent = {} /\ dispatched = {} /\ lost = {} /\ mine = {}
  BY DEF Init, Empty
<1>2. NoCalls \in [{} -> Jobs] /\ DOMAIN NoCalls = {}
  BY DEF NoCalls
<1>3. NoCalls \in JobMaps
  BY <1>2, JobsIsMap
<1>4. disk \in Stores /\ disk.jobs = NoCalls /\ DOMAIN disk.jobs = {}
  BY <1>1, <1>2, <1>3 DEF Stores
<1>5. LedgerTyped /\ \A t : ~ Ours(t)
  BY <1>1 DEF LedgerTyped, NoCalls, Ours
<1>6. StoresKept
  BY <1>1, <1>4, <1>5 DEF StoresKept, StoreKept, JobsKept, Complete
<1>7. CallsKept
  BY <1>1, <1>4, NoCallsAtAll DEF CallsKept
<1>8. PumpKept
  BY <1>1 DEF PumpKept, Idle, Pumps
<1>9. SessionKept
  BY <1>1 DEF SessionKept, Down
<1>10. LimitsKept
  <2>1. Places = {} /\ Queued(disk) = {} /\ DOMAIN active = {}
    BY <1>1, <1>4, NoCallsAtAll DEF Places, Queued
  <2>2. AtMost({}, MaxQueued) /\ AtMost({}, MaxParallel)
    BY FS_EmptySet, SupervisorAssumption DEF AtMost
  <2> QED  BY <2>1, <2>2 DEF LimitsKept
<1> QED  BY <1>5, <1>6, <1>7, <1>8, <1>9, <1>10 DEF SupervisorInv

\* Every step keeps the invariant and lets the file only follow itself.
LEMMA NextStep ==
  ASSUME SupervisorInv, [Next]_vars PROVE Finished
<1>1. CASE UNCHANGED vars
  <2>1. /\ UNCHANGED <<receipts, invoked, holder, disk, mem, lost, mine>>
        /\ UNCHANGED <<phase, error, active, pump, tried, recent, dispatched>>
    BY <1>1 DEF vars, ledger, session, history
  <2>2. LedgerTyped' /\ StoresKept' /\ FileFollows /\ Queued(disk)' = Queued(disk) /\ Queued(mem)' = Queued(mem)
    BY <2>1, SameStores
  <2>3. CallsKept' /\ PumpKept' /\ SessionKept'
    BY <2>1 DEF SupervisorInv, CallsKept, CallKept, Ran, Ours, PumpKept, Full, Stopped, SessionKept
  <2>4. LimitsKept'
    BY <2>1, <2>2 DEF SupervisorInv, LimitsKept, AtMost, Places
  <2> QED  BY <2>2, <2>3, <2>4 DEF Finished, SupervisorInv
<1>2. CASE Request
  BY <1>2, SubmitStep, CancelStep, DeleteHistoryStep, SetPausedStep DEF Request
<1>3. CASE PumpBegins \/ PumpContinues \/ GateFails
  BY <1>3, PumpBeginsStep, PumpLooksStep, PassesOverStep, TakesReceiptStep, SavesIntentStep, EntersStep,
     DispatchesStep, NamesWorkerStep, GateFailsStep DEF PumpContinues
<1>4. CASE \E t \in Tasks : Elapse(t) \/ WorkerEnds(t) \/ Handler(t)
  BY <1>4, ElapseStep, WorkerEndsStep, DeniedStep, ReceivesStep DEF Handler
<1>5. CASE \E t \in Shared : Other(t)
  BY <1>5, OtherStep, SupervisorAssumption
<1>6. CASE Fault \/ Close \/ Closes \/ Crash \/ Start
  BY <1>6, FaultStep, CloseStep, ClosesStep, CrashStep, StartStep
<1> QED  BY <1>1, <1>2, <1>3, <1>4, <1>5, <1>6 DEF Next

\* SupervisorInv is inductive: it holds initially and every request, step of pump(), answer
\* of a call, fault, crash and restart keeps it, whatever other programs do to the ledger.
THEOREM SupervisorInvariant == Spec => []SupervisorInv
<1>1. SupervisorInv /\ [Next]_vars => SupervisorInv'
  BY NextStep DEF Finished
<1> QED  BY <1>1, InitStep, PTL DEF Spec

\* The file and memory are well formed, the queue never exceeds maxQueued although denied
\* jobs return to it, and no more than maxParallel calls are in flight (submit, pump).
THEOREM TypeCorrect == Spec => []TypeOK
<1>1. SupervisorInv => TypeOK
  <2> SUFFICES ASSUME SupervisorInv PROVE TypeOK
    OBVIOUS
  <2>1. JobStore(disk) /\ JobStore(mem)
    <3>1. ASSUME NEW state \in Stores PROVE JobStore(state)
      <4>1. state.paused \in BOOLEAN /\ state.jobs \in JobMaps
        BY DEF Stores
      <4> QED  BY <4>1, MapIsJobs DEF JobStore
    <3> QED  BY <3>1 DEF SupervisorInv, StoresKept, StoreKept
  <2>2. DOMAIN active \subseteq DOMAIN mem.jobs
    BY DEF SupervisorInv, CallsKept, CallKept
  <2>3. pump.pc \in {"idle", "loop", "gate", "saved", "reserved", "called"}
    BY DEF SupervisorInv, PumpKept, Pumps
  <2> QED  BY <2>1, <2>2, <2>3 DEF TypeOK, SupervisorInv, SessionKept, LimitsKept, AtMost
<1> QED  BY <1>1, SupervisorInvariant, PTL

\* decodeResourceConsoleState accepts the file in every reachable state, so a supervisor
\* can always be started again, wherever the last one died or failed.
THEOREM FileReadable == Spec => []FileStaysReadable
<1>1. SupervisorInv => FileStaysReadable
  BY KeptIsDecoded DEF SupervisorInv, StoresKept, FileStaysReadable
<1> QED  BY <1>1, SupervisorInvariant, PTL

\* A dispatch intent found by a later supervisor is never entered again (recover).
THEOREM IntentsNotReplayed == Spec => []NeverReplayed
<1>1. SupervisorInv => NeverReplayed
  <2> SUFFICES ASSUME SupervisorInv, NEW t \in lost PROVE t \notin DOMAIN active /\ pump.job # t
    BY DEF NeverReplayed
  <2>1. t \in DOMAIN mem.jobs => mem.jobs[t].state \in {"settled", "unresolved"}
    BY StoreFacts DEF JobKept, Truthful
  <2> QED  BY <2>1 DEF SupervisorInv, CallsKept, CallKept, PumpKept
<1> QED  BY <1>1, SupervisorInvariant, PTL

\* A settled job says what the ledger recorded for its content, captured output comes from
\* a worker the console ran, and no cancelled job was ever run by it (settle, cancel).
THEOREM SettledTruthful == Spec => []SettledMatchesLedger
<1>1. SupervisorInv => SettledMatchesLedger
  <2> SUFFICES ASSUME SupervisorInv, NEW t \in DOMAIN disk.jobs
               PROVE  Truthful(t, disk.jobs[t]) /\ (Ran(t) <=> t \in invoked /\ holder[t] = "console")
    BY DEF SettledMatchesLedger, Truthful, Ran
  <2>1. Truthful(t, disk.jobs[t])
    BY DEF SupervisorInv, StoresKept, StoreKept, JobsKept, JobKept
  <2>2. invoked \subseteq DOMAIN holder
    BY DEF SupervisorInv, LedgerTyped
  <2> QED  BY <2>1, <2>2 DEF Ran, Ours
<1> QED  BY <1>1, SupervisorInvariant, PTL

\* A close() that resolves: what this supervisor reserved is terminal, no job is left
\* dispatching in the file.
THEOREM CleanClose == Spec => []CleanStop
<1>1. SupervisorInv => CleanStop
  BY DEF SupervisorInv, SessionKept, CleanStop
<1> QED  BY <1>1, SupervisorInvariant, PTL

\* An accepted job is never forgotten; settled, cancelled and unresolved ones only lose
\* their text (persist, deleteHistory), also across faults and restarts.
THEOREM FinalJobs == Spec => JobsAreFinal
<1>1. SupervisorInv /\ [Next]_vars => FileFollows
  BY NextStep DEF Finished
<1>2. FileFollows =>
        \A t \in DOMAIN disk.jobs :
          LET job == disk.jobs[t]
          IN  /\ t \in DOMAIN disk'.jobs
              /\ disk'.jobs[t].content = job.content
              /\ disk'.jobs[t].parent = job.parent
              /\ job.state \in {"settled", "cancelled", "unresolved"} =>
                   disk'.jobs[t] \in {job, [job EXCEPT !.history = "deleted", !.context = FALSE]}
  BY DEF FileFollows, Follows
<1> QED  BY <1>1, <1>2, SupervisorInvariant, PTL DEF Spec, JobsAreFinal

\* A step that reserves a receipt finds the supervisor up, without error and not paused.
LEMMA ReservesUnstopped ==
  ASSUME SupervisorInv, [Next]_vars, mine' # mine, mine' # {} PROVE ~ Stopped
<1>1. CASE Enters
  BY <1>1 DEF Enters, SupervisorInv, PumpKept
<1>2. Enters \/ mine' = mine \/ mine' = {}
  BY ZenonT(60) DEF Next, vars, history, session, Request, Submit, SaveFails, Cancel, DeleteHistory, SetPaused, PumpBegins,
     PumpContinues, PumpLooks, PassesOver, TakesReceipt, SavesIntent, Dispatches, NamesWorker, GateFails,
     Elapse, WorkerEnds, Handler, Denied, Receives, Other, Fault, Close, Closes, Crash, Start
<1> QED  BY <1>1, <1>2

\* A paused, closing or faulted supervisor reserves nothing, even when the admission
\* callback of the running pass was what stopped it (pump, start).
THEOREM StopIsObeyed == Spec => StoppedStartsNothing
<1>1. SupervisorInv /\ [Next]_vars => (mine' # mine /\ mine' # {} => ~ Stopped)
  BY ReservesUnstopped
<1> QED  BY <1>1, SupervisorInvariant, PTL DEF Spec, StoppedStartsNothing
==============================================================================
