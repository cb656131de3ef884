--------------------------- MODULE PoolSupervisor ---------------------------
(***************************************************************************)
(* The durable foreground queue of the resource console                    *)
(* (createResourcePoolSupervisor).  One process at a time owns             *)
(* resource-console-state.json; it keeps the accepted jobs in memory       *)
(* (state) and replaces the file by rename at every change (persist).      *)
(*                                                                         *)
(* The supervisor is one JavaScript thread: pump() runs to its end before  *)
(* any other handler, and the handler of a promise that is already settled *)
(* runs before the next request or timer (Quiet).  The admission callback  *)
(* inside pump() may call back into the supervisor (pump.pc = "gate").     *)
(* What the thread does not exclude is everything else: the process may    *)
(* die between any two writes, other programs use the same ledger, and a   *)
(* write may fail before or after the rename.                              *)
(***************************************************************************)
EXTENDS TaskLedger, Naturals, FiniteSets, Sequences, Functions, SequencesExt

CONSTANTS
  Outcomes,     \* how a worker may end: a subset of Settlements
  Retention,    \* the answers to retainHistory
  Parents,      \* the tasks a follow-up may name, and None
  Shared,       \* the tasks other programs may run too
  Holdable,     \* tasks a project or host hold may keep back
  MaxParallel,  \* options.maxParallel
  MaxQueued,    \* options.maxQueued
  MaxJobs,      \* MAX_RESOURCE_SUPERVISOR_JOBS
  None          \* null, or an absent field

ASSUME SupervisorAssumption ==
  /\ Outcomes \subseteq Settlements /\ Retention \subseteq BOOLEAN
  /\ Parents \subseteq Tasks \cup {None} /\ Shared \subseteq Tasks
  /\ MaxParallel \in Nat /\ MaxQueued \in Nat
  /\ None \notin Tasks

VARIABLES
  holder,       \* holder[t]: which program reserved the receipt of t
  disk,         \* resource-console-state.json
  mem,          \* state: what the running supervisor believes the file holds
  phase,        \* "up", "closing", or how the last supervisor ended
  error,        \* error # null: the supervisor takes no more requests
  active,       \* the calls of runResourceTask in flight, by task
  pump,         \* where pump() is: its pc, the jobs left to look at, the current one
  tried,        \* attemptedAt: the attempted jobs, longest ago first
  recent,       \* the jobs attempted less than pollIntervalMs ago
  dispatched,   \* dispatched: jobs that need a terminal receipt at close
  lost,         \* history: jobs found dispatching by a later supervisor
  mine          \* history: jobs this supervisor reserved a receipt for

ledger == <<receipts, invoked, holder>>
session == <<phase, error, active, pump, tried, recent, dispatched>>
history == <<lost, mine>>
vars == <<ledger, disk, mem, session, history>>

Down == {"new", "clean", "failed", "crashed"}
Idle == [pc |-> "idle", todo |-> {}, job |-> None]
NoCalls == [t \in {} |-> None]

Queued(state) == {t \in DOMAIN state.jobs : state.jobs[t].state = "queued"}

Init ==
  /\ Empty
  /\ holder = NoCalls
  /\ disk = [paused |-> FALSE, jobs |-> NoCalls]
  /\ mem = disk
  /\ phase = "new"
  /\ error = FALSE
  /\ active = NoCalls
  /\ pump = Idle
  /\ tried = <<>>
  /\ recent = {}
  /\ dispatched = {}
  /\ lost = {}
  /\ mine = {}

(***************************************************************************)
(* Jobs.  input, worker and context say whether the field holds a value;   *)
(* history is "none" without consent, "prompt" or "output" with, "deleted" *)
(* afterwards.                                                             *)
(***************************************************************************)
\* Mutant: the receipt of any task with this id is taken.
AnyReceipt(t, job) == t \in DOMAIN receipts

\* receiptFor: a receipt of the same id for another content is a conflict.
Known(t, job) == t \in DOMAIN receipts /\ receipts[t].content = job.content

KnownTerminal(t, job) == Known(t, job) /\ receipts[t].status \in Terminal

\* The copied conversation goes with the text it belongs to.
WithoutText(job) == [job EXCEPT !.input = FALSE, !.context = @ /\ job.history \in {"prompt", "output"}]

\* Mutant: the copied conversation stays behind.
ResolvedKeepsContext(t, job, fresh) ==
  [job EXCEPT
     !.state = IF KnownTerminal(t, job) THEN "settled" ELSE "unresolved",
     !.worker = Known(t, job),
     !.outcome = IF Known(t, job) THEN receipts[t].status ELSE None,
     !.input = FALSE]

\* settle: the receipt decides; output is captured only from a fresh, completed call.
Resolved(t, job, fresh) ==
  [WithoutText(job) EXCEPT
     !.state = IF KnownTerminal(t, job) THEN "settled" ELSE "unresolved",
     !.worker = Known(t, job),
     !.outcome = IF Known(t, job) THEN receipts[t].status ELSE None,
     !.history = IF @ = "prompt" /\ fresh /\ Known(t, job) /\ receipts[t].status = "completed"
                 THEN "output" ELSE @]

Cancelled(job) == [WithoutText(job) EXCEPT !.state = "cancelled", !.outcome = "cancelled", !.worker = FALSE]

Requeued(job) == [job EXCEPT !.state = "queued", !.outcome = None, !.worker = FALSE]

With(t, job) == [mem EXCEPT !.jobs = [x \in DOMAIN mem.jobs \cup {t} |-> IF x = t THEN job ELSE mem.jobs[x]]]

(***************************************************************************)
(* persist(): the file is replaced, or the supervisor faults.  A fault     *)
(* after the rename leaves a file that memory does not know; from then on  *)
(* the digests differ and nothing is written any more.                     *)
(***************************************************************************)
Aborted(calls) == [t \in DOMAIN calls |-> [calls[t] EXCEPT !.aborted = TRUE]]

Saves(next) == disk = mem /\ disk' = next /\ mem' = next /\ UNCHANGED error

Faults(next, calls) ==
  /\ disk' \in {disk, IF disk = mem THEN next ELSE disk}
  /\ error' = TRUE
  /\ active' = Aborted(calls)
  /\ UNCHANGED mem

SaveFails(next, calls) ==
  /\ Faults(next, calls)
  /\ pump' = Idle
  /\ UNCHANGED <<ledger, phase, tried, recent, dispatched, history>>

\* Settled promises whose handlers have not run yet.
Pending == {t \in DOMAIN active : active[t].pc \in {"denied", "replayed", "thrown", "returned"}}

Quiet == pump.pc = "idle" /\ Pending = {}
Available == phase = "up" /\ ~ error

(***************************************************************************)
(* Requests.                                                               *)
(***************************************************************************)
\* Mutant: the queue limit is off by one.
SubmitOverfull(t, content, retain, parent) ==
  /\ Available /\ Quiet
  /\ t \notin DOMAIN mem.jobs
  /\ Cardinality(DOMAIN mem.jobs) < MaxJobs
  /\ Cardinality(Queued(mem)) <= MaxQueued
  /\ Saves(With(t, [content |-> content, state |-> "queued", worker |-> FALSE, outcome |-> None, input |-> TRUE,
                    history |-> IF retain THEN "prompt" ELSE "none", parent |-> None, context |-> FALSE]))
  /\ UNCHANGED <<ledger, phase, active, pump, tried, recent, dispatched, history>>

\* submit: a known id returns its job, or throws, and changes nothing.
Submit(t, content, retain, parent) ==
  LET next == With(t, [content |-> content, state |-> "queued", worker |-> FALSE, outcome |-> None,
                       input |-> TRUE, history |-> IF retain THEN "prompt" ELSE "none",
                       parent |-> parent, context |-> parent # None])
  IN  /\ Available /\ Quiet
      /\ t \notin DOMAIN mem.jobs
      /\ Cardinality(DOMAIN mem.jobs) < MaxJobs
      /\ Cardinality(Queued(mem)) < MaxQueued
      /\ parent # None => /\ parent \in DOMAIN mem.jobs
                          /\ mem.jobs[parent].history \in {"prompt", "output"}
                          /\ mem.jobs[parent].state \in {"settled", "cancelled"}
      /\ t \in DOMAIN receipts => receipts[t].content = content
      /\ \/ /\ Saves(next)
            /\ UNCHANGED <<ledger, phase, active, pump, tried, recent, dispatched, history>>
         \/ SaveFails(next, active)

\* Mutant: a job that is not active any more can be cancelled like a queued one.
CancelUnowned(t) ==
  /\ Available
  /\ Quiet \/ pump.pc = "gate"
  /\ t \in DOMAIN mem.jobs
  /\ mem.jobs[t].state \in {"queued", "dispatching", "unresolved"}
  /\ Saves(With(t, Cancelled(mem.jobs[t])))
  /\ UNCHANGED <<ledger, phase, active, pump, tried, recent, dispatched, history>>

\* A queued job is cancelled at once, an active one is told to stop.
Cancel(t) ==
  /\ Available
  /\ Quiet \/ pump.pc = "gate"
  /\ t \in DOMAIN mem.jobs
  /\ \/ /\ mem.jobs[t].state = "queued"
        /\ \/ /\ Saves(With(t, Cancelled(mem.jobs[t])))
              /\ UNCHANGED <<ledger, phase, active, pump, tried, recent, dispatched, history>>
           \/ SaveFails(With(t, Cancelled(mem.jobs[t])), active)
     \/ /\ mem.jobs[t].state # "queued"
        /\ t \in DOMAIN active
        /\ \/ /\ Saves(mem)
              /\ active' = [active EXCEPT ![t].aborted = TRUE]
              /\ UNCHANGED <<ledger, phase, pump, tried, recent, dispatched, history>>
           \/ SaveFails(mem, active)

SetPaused(paused) ==
  /\ Available
  /\ Quiet \/ pump.pc = "gate"
  /\ mem.paused # paused
  /\ \/ /\ Saves([mem EXCEPT !.paused = paused])
        /\ UNCHANGED <<ledger, phase, active, pump, tried, recent, dispatched, history>>
     \/ SaveFails([mem EXCEPT !.paused = paused], active)

DeleteHistory(t) ==
  LET next == With(t, [mem.jobs[t] EXCEPT !.history = "deleted", !.context = FALSE])
  IN  /\ Available /\ Quiet
      /\ t \in DOMAIN mem.jobs
      /\ mem.jobs[t].state \in {"settled", "cancelled"}
      /\ mem.jobs[t].history \in {"prompt", "output"}
      /\ \/ /\ Saves(next)
            /\ UNCHANGED <<ledger, phase, active, pump, tried, recent, dispatched, history>>
         \/ SaveFails(next, active)

(***************************************************************************)
(* pump() and start().                                                     *)
(***************************************************************************)
PumpBegins ==
  /\ Available /\ Quiet
  /\ ~ mem.paused
  /\ Queued(mem) # {}
  /\ pump' = [pc |-> "loop", todo |-> Queued(mem), job |-> None]
  /\ UNCHANGED <<ledger, disk, mem, phase, error, active, tried, recent, dispatched, history>>

Age(t) == IF Contains(tried, t) THEN Len(tried) - CHOOSE i \in 1 .. Len(tried) : tried[i] = t ELSE Len(tried)

\* Mutant: the jobs are looked at in any order.
AnyOrder(t) == TRUE

\* Oldest attempt first; jobs that were never attempted come before all others.
Oldest(t) == \A u \in pump.todo : Age(u) <= Age(t)

Stopped == phase # "up" \/ error \/ mem.paused

Full == Cardinality(DOMAIN active) >= MaxParallel

\* The head of the loop, up to the admission callback.
PumpLooks ==
  /\ pump.pc = "loop"
  /\ \/ (pump.todo = {} \/ Stopped \/ Full) /\ pump' = Idle
     \/ /\ ~ Stopped /\ ~ Full
        /\ \E t \in pump.todo :
             /\ Oldest(t)
             /\ pump' = IF t \in recent THEN [pump EXCEPT !.todo = @ \ {t}]
                        ELSE [pc |-> "gate", todo |-> pump.todo \ {t}, job |-> t]
  /\ UNCHANGED <<ledger, disk, mem, phase, error, active, tried, recent, dispatched, history>>

Loop == [pump EXCEPT !.pc = "loop", !.job = None]

\* The callback failed, or it paused or closed the supervisor: the pass ends.
GateFails ==
  /\ pump.pc = "gate"
  /\ pump' = Idle
  /\ UNCHANGED <<ledger, disk, mem, phase, error, active, tried, recent, dispatched, history>>

\* The job is not queued any more (the callback cancelled it), or a project or host hold
\* keeps it back.
PassesOver ==
  /\ pump.pc = "gate"
  /\ ~ Stopped
  /\ mem.jobs[pump.job].state # "queued" \/ (pump.job \in Holdable /\ pump.job \notin DOMAIN receipts)
  /\ pump' = Loop
  /\ UNCHANGED <<ledger, disk, mem, phase, error, active, tried, recent, dispatched, history>>

\* Another program recorded this id: the job takes its result and is not started.
TakesReceipt ==
  LET t == pump.job
  IN  /\ pump.pc = "gate"
      /\ ~ Stopped
      /\ mem.jobs[t].state = "queued"
      /\ t \in DOMAIN receipts
      /\ \/ /\ Saves(With(t, Resolved(t, mem.jobs[t], FALSE)))
            /\ pump' = Loop
            /\ UNCHANGED <<ledger, phase, active, tried, recent, dispatched, history>>
         \/ SaveFails(With(t, Resolved(t, mem.jobs[t], FALSE)), active)

Call(pc, status) == [pc |-> pc, aborted |-> FALSE, status |-> status]
Calls(t, call) == [x \in DOMAIN active \cup {t} |-> IF x = t THEN call ELSE active[x]]
Forget(calls, t) == [x \in DOMAIN calls \ {t} |-> calls[x]]

\* Mutant: what the callback did to the supervisor is not looked at again.
SavesIntentAnyway ==
  LET t == pump.job
      next == With(t, [mem.jobs[t] EXCEPT !.state = "dispatching", !.worker = FALSE])
  IN  /\ pump.pc = "gate"
      /\ mem.jobs[t].state = "queued"
      /\ t \notin DOMAIN receipts
      /\ Saves(next)
      /\ pump' = [pump EXCEPT !.pc = "saved"]
      /\ active' = Calls(t, Call("entered", None))
      /\ dispatched' = dispatched \cup {t}
      /\ tried' = Append(SelectSeq(tried, LAMBDA u : u # t), t)
      /\ recent' = recent \cup {t}
      /\ UNCHANGED <<ledger, phase, history>>

\* The dispatch intent is durable before runResourceTask is entered.
SavesIntent ==
  LET t == pump.job
      next == With(t, [mem.jobs[t] EXCEPT !.state = "dispatching", !.worker = FALSE])
  IN  /\ pump.pc = "gate"
      /\ ~ Stopped
      /\ mem.jobs[t].state = "queued"
      /\ t \notin DOMAIN receipts
      /\ \/ /\ Saves(next)
            /\ pump' = [pump EXCEPT !.pc = "saved"]
            /\ active' = Calls(t, Call("entered", None))
            /\ dispatched' = dispatched \cup {t}
            /\ tried' = Append(SelectSeq(tried, LAMBDA u : u # t), t)
            /\ recent' = recent \cup {t}
            /\ UNCHANGED <<ledger, phase, history>>
         \/ SaveFails(next, active)

Returns(t, pc, status) ==
  /\ active' = [active EXCEPT ![t].pc = pc, ![t].status = status]
  /\ pump' = [pump EXCEPT !.pc = "called"]

\* runResourceTask up to its first await: no capacity, a recorded receipt, an exception
\* (conflict, busy or unreadable ledger), or a reservation.
Enters ==
  LET t == pump.job
  IN  /\ pump.pc = "saved"
      /\ \/ /\ t \notin DOMAIN receipts
            /\ Returns(t, "denied", None)
            /\ UNCHANGED <<ledger, mine>>
         \/ /\ Known(t, mem.jobs[t])
            /\ Returns(t, "replayed", receipts[t].status)
            /\ UNCHANGED <<ledger, mine>>
         \/ /\ Returns(t, "thrown", None)
            /\ UNCHANGED <<ledger, mine>>
         \/ /\ ReserveReceipt(t, mem.jobs[t].content)
            /\ holder' = [x \in DOMAIN holder \cup {t} |-> IF x = t THEN "console" ELSE holder[x]]
            /\ mine' = mine \cup {t}
            /\ pump' = [pump EXCEPT !.pc = "reserved"]
            /\ UNCHANGED active
      /\ UNCHANGED <<disk, mem, phase, error, tried, recent, dispatched, lost>>

\* The worker is invoked; or the host refuses now, and the failed receipt is settled
\* at once (or that settlement throws, before or after its write).
Dispatches ==
  LET t == pump.job
  IN  /\ pump.pc = "reserved"
      /\ \/ Invoke(t) /\ Returns(t, "running", None)
         \/ Settle(t, "failed") /\ \E pc \in {"returned", "thrown"} : Returns(t, pc, "failed")
         \/ Returns(t, "thrown", None) /\ UNCHANGED <<receipts, invoked>>
      /\ UNCHANGED <<holder, disk, mem, phase, error, tried, recent, dispatched, history>>

\* The tail of start(): the job shows the worker of an open reservation.
NamesWorker ==
  LET t == pump.job
      reserved == Known(t, mem.jobs[t]) /\ receipts[t].status = "reserved"
      next == With(t, [mem.jobs[t] EXCEPT !.worker = TRUE])
  IN  /\ pump.pc = "called"
      /\ \/ /\ IF reserved THEN Saves(next) ELSE UNCHANGED <<disk, mem, error>>
            /\ pump' = Loop
            /\ UNCHANGED <<ledger, phase, active, tried, recent, dispatched, history>>
         \/ reserved /\ SaveFails(next, active)

Elapse(t) ==
  /\ t \in recent
  /\ recent' = recent \ {t}
  /\ UNCHANGED <<ledger, disk, mem, phase, error, active, pump, tried, dispatched, history>>

(***************************************************************************)
(* The rest of runResourceTask, and the handlers start() attached to it.   *)
(***************************************************************************)
\* The worker ended and the receipt is settled; that transaction may throw before or
\* after its write.
WorkerEnds(t) ==
  /\ t \in DOMAIN active
  /\ active[t].pc = "running"
  /\ pump.pc = "idle"
  /\ \/ \E status \in Outcomes, pc \in {"returned", "thrown"} :
          /\ Settle(t, status)
          /\ active' = [active EXCEPT ![t].pc = pc, ![t].status = status]
     \/ /\ active' = [active EXCEPT ![t].pc = "thrown"]
        /\ UNCHANGED <<receipts, invoked>>
  /\ UNCHANGED <<holder, disk, mem, phase, error, pump, tried, recent, dispatched, history>>

\* No receipt: the job goes back to the queue, or ends if it was told to stop.
Denied(t) ==
  LET stop == active[t].aborted \/ phase = "closing"
      next == With(t, IF stop THEN Cancelled(mem.jobs[t]) ELSE Requeued(mem.jobs[t]))
  IN  /\ active[t].pc = "denied"
      /\ dispatched' = dispatched \ {t}
      /\ \/ Saves(next) /\ active' = Forget(active, t)
         \/ Faults(next, Forget(active, t))
      /\ UNCHANGED <<ledger, phase, pump, tried, recent, history>>

\* Mutant: an exception of a call is swallowed.
ReceivesQuietly(t) ==
  /\ active[t].pc = "thrown"
  /\ active' = Forget(active, t)
  /\ UNCHANGED <<ledger, disk, mem, phase, error, pump, tried, recent, dispatched, history>>

\* A receipt: it must still be what the ledger holds; otherwise, and after an exception,
\* the second handler settles from the ledger unless the supervisor has already faulted.
Receives(t) ==
  LET call == active[t]
      same == call.pc # "thrown" /\ Known(t, mem.jobs[t]) /\ receipts[t].status = call.status
      fresh == same /\ call.pc = "returned"
      next == With(t, Resolved(t, mem.jobs[t], fresh))
      conflict == ~ error /\ t \in DOMAIN receipts /\ ~ Known(t, mem.jobs[t])
  IN  /\ call.pc \in {"replayed", "returned", "thrown"}
      /\ dispatched' = IF call.pc = "replayed" \/ conflict THEN dispatched \ {t} ELSE dispatched
      /\ \/ /\ same \/ ~ error
            /\ Saves(next)
            /\ active' = Forget(active, t)
         \/ /\ same \/ ~ error
            /\ Faults(next, Forget(active, t))
         \/ /\ ~ same /\ error
            /\ active' = Forget(active, t)
            /\ UNCHANGED <<disk, mem, error>>
      /\ UNCHANGED <<ledger, phase, pump, tried, recent, history>>

Handler(t) ==
  /\ t \in DOMAIN active
  /\ pump.pc = "idle"
  /\ Denied(t) \/ Receives(t)

(***************************************************************************)
(* The process.                                                            *)
(***************************************************************************)
\* The lock is gone, the ledger or the evidence unreadable: fault().
Fault ==
  /\ Available
  /\ pump.pc \in {"idle", "loop", "gate", "called"}
  /\ error' = TRUE
  /\ active' = Aborted(active)
  /\ pump' = Idle
  /\ UNCHANGED <<ledger, disk, mem, phase, tried, recent, dispatched, history>>

Close ==
  /\ phase = "up"
  /\ Quiet \/ pump.pc = "gate"
  /\ phase' = "closing"
  /\ active' = Aborted(active)
  /\ UNCHANGED <<ledger, disk, mem, error, pump, tried, recent, dispatched, history>>

\* Mutant: only jobs that are still dispatching count as unconfirmed.
UnconfirmedDispatching == \E t \in dispatched : mem.jobs[t].state = "dispatching"

Unconfirmed == \E t \in dispatched : ~ KnownTerminal(t, mem.jobs[t])

\* All calls have ended: the lock is released, and close() resolves or throws.
Closes ==
  /\ phase = "closing"
  /\ pump.pc = "idle"
  /\ DOMAIN active = {}
  /\ tried' = <<>>
  /\ recent' = {}
  /\ phase' \in (IF error \/ Unconfirmed THEN {"failed"} ELSE {"clean", "failed"})
  /\ UNCHANGED <<ledger, disk, mem, error, active, pump, dispatched, history>>

\* The process dies; its open receipts stay open.
Crash ==
  /\ phase \notin Down
  /\ phase' = "crashed"
  /\ mem' = disk
  /\ active' = NoCalls
  /\ pump' = Idle
  /\ error' = FALSE
  /\ tried' = <<>>
  /\ recent' = {}
  /\ dispatched' = {}
  /\ mine' = {}
  /\ UNCHANGED <<ledger, disk, lost>>

\* decodeResourceConsoleState: the file a supervisor accepts at its start.
Decoded(state) ==
  \A t \in DOMAIN state.jobs :
    LET job == state.jobs[t]
    IN  /\ IF job.state \in {"queued", "dispatching"}
           THEN job.input /\ job.outcome = None /\ job.history \in {"none", "prompt"}
           ELSE ~ job.input
        /\ job.state = "queued" => ~ job.worker
        /\ job.state = "settled" => job.outcome \in Terminal /\ job.worker
        /\ job.state = "unresolved" => job.outcome \in {None, "reserved", "uncertain"}
        /\ job.state = "cancelled" => job.outcome = "cancelled" /\ ~ job.worker
        /\ job.history = "output" => job.state = "settled" /\ job.outcome = "completed"
        /\ job.parent = None => ~ job.context
        /\ job.parent # None =>
             /\ job.parent \in DOMAIN state.jobs \ {t}
             /\ job.context <=> (job.input \/ job.history \in {"prompt", "output"})
             /\ job.context => state.jobs[job.parent].state \in {"settled", "cancelled"}

\* Mutant: an intent without a receipt goes back to the queue.
RecoveredReplays(state) ==
  [state EXCEPT !.jobs = [t \in DOMAIN state.jobs |->
     IF state.jobs[t].state = "dispatching" /\ t \notin DOMAIN receipts THEN Requeued(state.jobs[t])
     ELSE IF state.jobs[t].state = "dispatching" \/ (state.jobs[t].state = "queued" /\ t \in DOMAIN receipts)
     THEN Resolved(t, state.jobs[t], FALSE) ELSE state.jobs[t]]]

\* A saved intent is never entered again: its receipt decides, or nobody knows.
Recovered(state) ==
  [state EXCEPT !.jobs = [t \in DOMAIN state.jobs |->
     IF state.jobs[t].state = "dispatching" \/ (state.jobs[t].state = "queued" /\ t \in DOMAIN receipts)
     THEN Resolved(t, state.jobs[t], FALSE) ELSE state.jobs[t]]]

\* The next supervisor decodes and recovers the file; if it fails after writing it, the
\* file is recovered and nobody runs.
Start ==
  /\ phase \in Down
  /\ Decoded(disk)
  /\ disk' = Recovered(disk)
  /\ mem' = disk'
  /\ lost' = lost \cup {t \in DOMAIN disk.jobs : disk.jobs[t].state = "dispatching"}
  /\ \/ /\ phase' = "up"
        /\ error' = FALSE
        /\ active' = NoCalls
        /\ pump' = Idle
        /\ tried' = <<>>
        /\ recent' = {}
        /\ dispatched' = {}
        /\ mine' = {}
     \/ UNCHANGED <<phase, error, active, pump, tried, recent, dispatched, mine>>
  /\ UNCHANGED <<ledger>>

\* Other programs that call runResourceTask with the same store.
Other(t) ==
  /\ \/ \E content \in Contents :
          /\ ReserveReceipt(t, content)
          /\ holder' = [x \in DOMAIN holder \cup {t} |-> IF x = t THEN "other" ELSE holder[x]]
     \/ /\ t \in DOMAIN holder
        /\ holder[t] = "other"
        /\ Invoke(t) \/ \E status \in Outcomes : Settle(t, status)
        /\ UNCHANGED holder
  /\ UNCHANGED <<disk, mem, session, history>>

Request ==
  \/ \E t \in Tasks : \/ \E content \in Contents, retain \in Retention, parent \in Parents :
                           Submit(t, content, retain, parent)
                      \/ Cancel(t)
                      \/ DeleteHistory(t)
  \/ \E paused \in BOOLEAN : SetPaused(paused)

PumpContinues == PumpLooks \/ PassesOver \/ TakesReceipt \/ SavesIntent \/ Enters \/ Dispatches \/ NamesWorker

Next ==
  \/ Request
  \/ PumpBegins \/ PumpContinues \/ GateFails
  \/ \E t \in Tasks : Elapse(t) \/ WorkerEnds(t) \/ Handler(t)
  \/ \E t \in Shared : Other(t)
  \/ Fault \/ Close \/ Closes \/ Crash \/ Start

Spec == Init /\ [][Next]_vars

\* The event loop serves its timers and events, a worker ends (task.timeoutMs), and the
\* admission source is not unreadable for ever.  Nobody has to submit, resume or restart.
PumpProceeds == PassesOver \/ TakesReceipt \/ SavesIntent

FairSpec ==
  /\ Spec
  /\ WF_vars(PumpBegins)
  /\ WF_vars(PumpContinues \/ GateFails)
  /\ SF_vars(PumpProceeds)
  /\ \A t \in Tasks : WF_vars(Elapse(t)) /\ SF_vars(WorkerEnds(t)) /\ WF_vars(Handler(t))

(***************************************************************************)
(* Properties.                                                             *)
(***************************************************************************)
States == {"queued", "dispatching", "settled", "cancelled", "unresolved"}
Jobs == [content : Contents, state : States, worker : BOOLEAN,
         outcome : Settlements \cup {"reserved", None}, input : BOOLEAN,
         history : {"none", "prompt", "output", "deleted"}, parent : Tasks \cup {None}, context : BOOLEAN]

JobStore(state) ==
  /\ state.paused \in BOOLEAN
  /\ DOMAIN state.jobs \subseteq Tasks
  /\ \A t \in DOMAIN state.jobs : state.jobs[t] \in Jobs

\* The file, memory and the session are well formed, every call in flight belongs to a job,
\* and the limits hold: the queue never exceeds maxQueued, even though a denied job returns
\* to it, nor the calls in flight maxParallel (submit, pump).
TypeOK ==
  /\ JobStore(disk) /\ JobStore(mem)
  /\ phase \in Down \cup {"up", "closing"}
  /\ error \in BOOLEAN
  /\ DOMAIN active \subseteq DOMAIN mem.jobs
  /\ pump.pc \in {"idle", "loop", "gate", "saved", "reserved", "called"}
  /\ recent \subseteq DOMAIN mem.jobs
  /\ dispatched \subseteq DOMAIN mem.jobs
  /\ Cardinality(Queued(disk)) <= MaxQueued
  /\ Cardinality(DOMAIN active) <= MaxParallel

\* Whatever was written last, and wherever the process died or failed, the next supervisor
\* can decode the file: no job kept a prompt, a conversation or an outcome its state excludes.
FileStaysReadable == Decoded(disk)

\* A dispatch intent found by a later supervisor is never entered again, even if the
\* ledger has no receipt of it.
NeverReplayed == \A t \in lost : t \notin DOMAIN active /\ pump.job # t

\* A settled job tells what the ledger recorded for exactly this content, captured text
\* comes from a call of the console itself, and no worker was ever invoked by the console
\* for a job it reports as cancelled.
SettledMatchesLedger ==
  \A t \in DOMAIN disk.jobs :
    LET job == disk.jobs[t]
        ran == t \in invoked /\ holder[t] = "console"
    IN  /\ job.state = "settled" => /\ t \in DOMAIN receipts
                                    /\ receipts[t] = [content |-> job.content, status |-> job.outcome]
        /\ job.history = "output" => ran
        /\ job.state = "cancelled" => ~ ran

\* An accepted job is never forgotten and keeps its identity, and a job that is settled,
\* cancelled or unresolved stays as it is; only its text may be deleted, for good.
JobsAreFinal ==
  [][\A t \in DOMAIN disk.jobs :
       LET job == disk.jobs[t]
       IN  /\ t \in DOMAIN disk'.jobs
           /\ disk'.jobs[t].content = job.content
           /\ disk'.jobs[t].parent = job.parent
           /\ job.state \in {"settled", "cancelled", "unresolved"} =>
                disk'.jobs[t] \in {job, [job EXCEPT !.history = "deleted", !.context = FALSE]}]_vars

\* A close that resolves means it: everything this supervisor started has a terminal
\* receipt, and no job is left dispatching.
CleanStop ==
  phase = "clean" =>
    /\ \A t \in mine : receipts[t].status \in Terminal
    /\ \A t \in DOMAIN disk.jobs : disk.jobs[t].state # "dispatching"

\* A paused, closing or faulted supervisor reserves nothing, even if the admission callback
\* of the running pass was what paused or closed it.
StoppedStartsNothing == [][mine' # mine /\ mine' # {} => ~ Stopped]_vars

Waiting(t) == Available /\ ~ mem.paused /\ t \in Queued(mem)

\* A queued job is eventually tried, even while jobs before it are denied again and again.
QueuedJobsAreTried == \A t \in Tasks \ Holdable : Waiting(t) ~> ~ Waiting(t)

Dispatching(t) == Available /\ t \in DOMAIN mem.jobs /\ mem.jobs[t].state = "dispatching"

\* No job stays dispatching under a healthy supervisor, however its call ended.
DispatchesEnd == \A t \in Tasks : Dispatching(t) ~> ~ Dispatching(t)
=============================================================================
