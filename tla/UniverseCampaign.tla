--------------------------- MODULE UniverseCampaign ---------------------------
(***************************************************************************)
(* Campaigns of one universe: the append-only ledger of each campaign      *)
(* (campaign-store.ts), the runner that executes it under the universe's   *)
(* execution lease (campaign.ts), the measurement of the seed before the   *)
(* first generation (campaign-seed-evaluation.ts), the queue that starts   *)
(* an enrolled campaign at most once (campaign-supervisor.ts), and the     *)
(* owner's pause and stop.                                                 *)
(*                                                                         *)
(* The lease excludes other runners, not the owner's controls: between any *)
(* two steps of a runner a control may be appended.  An append takes the   *)
(* control lock, reads the ledger, folds it with the new event and writes, *)
(* and is one step here; what a runner read before it is not.              *)
(*                                                                         *)
(* A ledger only grows, so the digest of its records is its length, and it *)
(* is represented by what foldCampaignEvents makes of it.                  *)
(***************************************************************************)
EXTENDS Naturals, FiniteSets, FiniteSetsExt

CONSTANTS
  Campaigns,       \* the campaigns of the universe
  Measured,        \* those that measure the seed first
  Queues,          \* processes that supervise enrolled campaigns
  Callers,         \* processes that run a campaign from the command line
  Requesters,      \* processes that pause or stop one
  MaxGenerations,  \* the generation budget of a campaign
  MaxEvents,       \* the capacity of a ledger
  MaxControls,     \* bound on the owner's controls
  MaxMishaps,      \* bound on deaths, cancellations, busy locks and lost receipts
  None

ASSUME CampaignAssumption ==
  /\ IsFiniteSet(Campaigns) /\ Measured \subseteq Campaigns /\ Queues \cap Callers = {}
  /\ MaxGenerations \in Nat /\ MaxEvents \in Nat \ {0} /\ MaxControls \in Nat /\ MaxMishaps \in Nat
  /\ None \notin Campaigns \cup 1..MaxEvents
  /\ \A p \in Queues \cup Callers, n \in 0..MaxMishaps : None # [p |-> p, life |-> n]

VARIABLES
  ledger,     \* ledger[c]: the folded ledger of campaign c
  lease,      \* the owner of the universe's execution lock, or None
  evaluator,  \* the campaigns whose seed evaluator has a live process group
  runs,       \* runs[c]: the steps with a run record
  open,       \* the run without a result, with its campaign and process, or None
  proc,       \* proc[p]: what runner p is doing
  ask,        \* ask[o]: the settlement requester o still has to append, or None
  life,       \* life[p]: how often runner p has died
  mishaps     \* deaths, cancellations, busy locks and lost receipts so far

Runners == Queues \cup Callers
universe == <<evaluator, runs, open>>
vars == <<ledger, lease, universe, proc, ask, life, mishaps>>

Fresh == [length |-> 1, state |-> "ready", owner |-> None, seed |-> "none", steps |-> 0, last |-> 0,
          started |-> FALSE, controls |-> 0, held |-> FALSE]

Idle == [pc |-> "idle", camp |-> None, pin |-> None, want |-> None, caught |-> FALSE]

Init ==
  /\ ledger = [c \in Campaigns |-> Fresh]
  /\ lease = None
  /\ evaluator = {}
  /\ runs = [c \in Campaigns |-> {}]
  /\ open = None
  /\ proc = [p \in Runners |-> Idle]
  /\ ask = [o \in Requesters |-> None]
  /\ life = [p \in Runners |-> 0]
  /\ mishaps = 0

Myself(p) == [p |-> p, life |-> life[p]]
Lives(owner) == life[owner.p] = owner.life
Terminal(state) == state \in {"stopped", "completed", "failed"}
Requested(state) == state \in {"pause-requested", "stop-requested"}
Total == Cardinality(UNION {{c} \X runs[c] : c \in Campaigns})

\* projectCampaign: the last step has no run, and another campaign's run has its generation.
Degraded(c) ==
  LET l == ledger[c] IN l.steps > 0 /\ l.steps \notin runs[c] /\ Total >= l.last

Controls == MapThenSumSet(LAMBDA c : ledger[c].controls, Campaigns)
Mishap == mishaps < MaxMishaps /\ mishaps' = mishaps + 1
Cancels(cancelled) == IF cancelled THEN Mishap ELSE UNCHANGED mishaps

(***************************************************************************)
(* foldCampaignEvents: what may extend a ledger, and what it then is.      *)
(***************************************************************************)
Room(l) == l.length < MaxEvents /\ ~Terminal(l.state)

CanStart(l) == Room(l) /\ l.state \in {"ready", "paused", "interrupted"} /\ l.seed \in {"none", "measured"}
Started(l, p) == [l EXCEPT !.length = @ + 1, !.state = "running", !.owner = Myself(p), !.started = TRUE, !.held = FALSE]

CanIntend(l) == Room(l) /\ l.state = "running" /\ l.seed = "none" /\ l.steps = 0
Intended(l) == [l EXCEPT !.length = @ + 1, !.seed = "open"]

CanResult(l, status) ==
  /\ Room(l) /\ l.seed = "open" /\ l.owner # None
  /\ status = "measured" => l.state = "running"
Resulted(l, status) == [l EXCEPT !.length = @ + 1, !.seed = status]

CanStep(l, c) ==
  /\ Room(l) /\ l.state = "running" /\ l.steps < MaxGenerations
  /\ c \in Measured => l.seed = "measured"
Stepped(l, generation) == [l EXCEPT !.length = @ + 1, !.steps = @ + 1, !.last = generation]

CanControl(l) == Room(l) /\ l.state # "stop-requested"
Controlled(l, action) ==
  [l EXCEPT !.length = @ + 1, !.controls = @ + 1, !.held = (action = "pause"),
            !.state = IF action = "stop" THEN "stop-requested" ELSE "pause-requested"]

CanSettle(l, c, state) ==
  /\ Room(l)
  /\ l.state = "stop-requested" => state = "stopped"
  /\ l.state = "pause-requested" => state \in {"paused", "stopped"}
  /\ state = "completed" /\ c \in Measured => l.seed = "measured"
Settled(l, state) == [l EXCEPT !.length = @ + 1, !.state = state, !.owner = None]

\* appendCampaignEvent writes the extended ledger.
Append(c, l) == ledger' = [ledger EXCEPT ![c] = l]

(***************************************************************************)
(* The queue: enrolment pins the history, polls compare with the pin.      *)
(***************************************************************************)
\* classify and eligible: never started, and no run of the universe was left behind; the
\* process of an open run is waited for.
Startable(c) ==
  LET l == ledger[c] IN
    /\ l.state = "ready" /\ ~l.started /\ l.steps = 0
    /\ open # None => Lives(open.owner)

Enrol(p, c) ==
  /\ p \in Queues /\ proc[p] = Idle /\ Startable(c)
  /\ proc' = [proc EXCEPT ![p] = [Idle EXCEPT !.pc = "queued", !.camp = c, !.pin = ledger[c].length]]
  /\ UNCHANGED <<ledger, lease, universe, ask, life, mishaps>>

Unchanged(p) == ledger[proc[p].camp].length = proc[p].pin

\* A poll waits for an open run, dispatches the campaign or drops it.
Poll(p) ==
  LET dispatched == Unchanged(p) /\ Startable(proc[p].camp) IN
    /\ proc[p].pc = "queued"
    /\ dispatched => open = None
    /\ proc' = [proc EXCEPT ![p] = IF dispatched THEN [@ EXCEPT !.pc = "called"] ELSE Idle]
    /\ UNCHANGED <<ledger, lease, universe, ask, life, mishaps>>

(***************************************************************************)
(* runUniverseCampaign up to the start of a session.                       *)
(***************************************************************************)
\* Mutant: an intent counts as settled once its session is.
EvaluatorsAssumedSettled == \A c \in Campaigns : ledger[c].seed = "open" => ledger[c].owner = None

\* assertCampaignSeedEvaluatorsSettled: no campaign of the universe has an intent
\* without a result.
EvaluatorsSettled == \A c \in Campaigns : ledger[c].seed # "open"

\* The execution lock has a live owner; a dead owner's lock is taken over.
Owned == lease # None /\ Lives(lease)

\* assertRecordsExpectation: nothing has been appended since the pin was taken.
Pinned(p) == proc[p].pin # None => Unchanged(p)

\* campaignAdmission: the history is as expected and healthy.
Admissible(p) == Pinned(p) /\ ~Degraded(proc[p].camp)

Available == ~Owned /\ EvaluatorsSettled

TakeLease(p) ==
  /\ proc[p].pc = "called" /\ Admissible(p)
  /\ Available
  /\ lease' = Myself(p)
  /\ proc' = [proc EXCEPT ![p].pc = "leased"]
  /\ UNCHANGED <<ledger, universe, ask, life, mishaps>>

TurnedAway(p) ==
  /\ proc[p].pc = "called"
  /\ ~(Admissible(p) /\ Available)
  /\ proc' = [proc EXCEPT ![p] = Idle]
  /\ UNCHANGED <<ledger, lease, universe, ask, life, mishaps>>

\* The command line runs or resumes a campaign without a pin; refused, it changes nothing.
Call(p, c) ==
  /\ p \in Callers /\ proc[p] = Idle
  /\ ~Terminal(ledger[c].state) /\ ~Degraded(c) /\ Available
  /\ lease' = Myself(p)
  /\ proc' = [proc EXCEPT ![p] = [Idle EXCEPT !.pc = "leased", !.camp = c]]
  /\ UNCHANGED <<ledger, universe, ask, life, mishaps>>

Leave(p) == proc' = [proc EXCEPT ![p] = Idle] /\ lease' = None

\* finish, first half: settle reads the state and lets an owner's control prevail.
Selected(state, wanted) ==
  CASE state = "stop-requested" -> "stopped" [] state = "pause-requested" -> "paused" [] OTHER -> wanted

Finish(p, wanted) ==
  IF Terminal(ledger[proc[p].camp].state)
    THEN Leave(p)
    ELSE /\ proc' = [proc EXCEPT ![p].pc = "settling", ![p].want = Selected(ledger[proc[p].camp].state, wanted)]
         /\ UNCHANGED lease

\* The catch: a conflict with the pinned history is thrown on, anything else settles the
\* campaign as failed, once.
Fail(p) ==
  IF proc[p].caught \/ ~Pinned(p)
    THEN Leave(p)
    ELSE proc' = [proc EXCEPT ![p].pc = "failing", ![p].caught = TRUE] /\ UNCHANGED lease

Failing(p) ==
  /\ proc[p].pc = "failing"
  /\ Finish(p, "failed")
  /\ UNCHANGED <<ledger, universe, ask, life, mishaps>>

\* finish, second half: the settlement is appended, or refused by the fold, by the
\* pin or by a full ledger.
Settle(p) ==
  LET c == proc[p].camp IN
    /\ proc[p].pc = "settling"
    /\ IF Pinned(p) /\ CanSettle(ledger[c], c, proc[p].want)
         THEN Append(c, Settled(ledger[c], proc[p].want)) /\ Leave(p)
         ELSE Fail(p) /\ UNCHANGED ledger
    /\ UNCHANGED <<universe, ask, life, mishaps>>

\* Admission under the lease, on one reading of the ledger: a pending control is
\* acknowledged, a caller that cancelled or a seed without a measurement is paused.
Admit(p, cancelled) ==
  LET l == ledger[proc[p].camp]
      step == IF l.state = "running" THEN "interrupting" ELSE "starting" IN
    /\ proc[p].pc = "leased"
    /\ IF ~Admissible(p) \/ Terminal(l.state)
         THEN Leave(p)
         ELSE /\ proc' = [proc EXCEPT ![p] =
                   IF Requested(l.state) \/ cancelled \/ l.seed \in {"open", "failed"}
                     THEN [@ EXCEPT !.pc = "settling", !.want = Selected(l.state, "paused")]
                     ELSE [@ EXCEPT !.pc = step]]
              /\ UNCHANGED lease
    /\ Cancels(cancelled)
    /\ UNCHANGED <<ledger, universe, ask, life>>

\* A run of the campaign that an earlier process left without a result is recorded as
\* interrupted.
Reconciled(p) == open # None => open.camp # proc[p].camp

\* Mutant: the reservation of the interrupted run is used again.
ReconcileReplays(p) ==
  /\ proc[p].pc \in {"interrupting", "starting"} /\ ~Reconciled(p)
  /\ open' = None
  /\ proc' = [proc EXCEPT ![p].pc = "reserved"]
  /\ UNCHANGED <<ledger, lease, evaluator, runs, ask, life, mishaps>>

Reconcile(p) ==
  /\ proc[p].pc \in {"interrupting", "starting"} /\ ~Reconciled(p)
  /\ open' = None
  /\ UNCHANGED <<ledger, lease, evaluator, runs, proc, ask, life, mishaps>>

\* The session of an owner that is gone is settled first.
Interrupt(p) ==
  LET c == proc[p].camp IN
    /\ proc[p].pc = "interrupting" /\ Reconciled(p)
    /\ IF Pinned(p) /\ CanSettle(ledger[c], c, "interrupted")
         THEN /\ Append(c, Settled(ledger[c], "interrupted"))
              /\ proc' = [proc EXCEPT ![p].pc = "starting",
                                     ![p].pin = IF @ = None THEN None ELSE ledger[c].length + 1]
              /\ UNCHANGED lease
         ELSE Fail(p) /\ UNCHANGED ledger
    /\ UNCHANGED <<universe, ask, life, mishaps>>

\* campaignBudgetLimit: the generations are used up, or the deadline has passed.
Exhausted(c, late) == late \/ ledger[c].steps >= MaxGenerations

\* Mutant: the start is appended to whatever the ledger is by then.
StartsOn(p, l) == CanStart(l)

Starts(p, l) == Pinned(p) /\ CanStart(l)

Start(p, late) ==
  LET c == proc[p].camp IN
    /\ proc[p].pc = "starting" /\ Reconciled(p)
    /\ IF Exhausted(c, late)
         THEN /\ Finish(p, IF c \in Measured /\ ledger[c].seed # "measured" THEN "paused" ELSE "completed")
              /\ UNCHANGED ledger
         ELSE IF Starts(p, ledger[c])
           THEN /\ Append(c, Started(ledger[c], p))
                /\ proc' = [proc EXCEPT ![p].pc = IF c \in Measured THEN "seeding" ELSE "looping", ![p].pin = None]
                /\ UNCHANGED lease
           ELSE Fail(p) /\ UNCHANGED ledger
    /\ UNCHANGED <<universe, ask, life, mishaps>>

(***************************************************************************)
(* runCampaignSeedEvaluationOwned                                          *)
(***************************************************************************)
\* A measurement on record is used again.  Otherwise the intent is appended to the
\* history that was just checked, before anything is started.
Seed(p, stopped) ==
  LET c == proc[p].camp
      going == ledger[c].state = "running" /\ ~stopped IN
    /\ proc[p].pc = "seeding"
    /\ CASE going /\ ledger[c].seed = "measured" ->
              proc' = [proc EXCEPT ![p].pc = "looping"] /\ UNCHANGED <<ledger, lease>>
         [] going /\ CanIntend(ledger[c]) ->
              /\ Append(c, Intended(ledger[c]))
              /\ proc' = [proc EXCEPT ![p].pc = "intended"]
              /\ UNCHANGED lease
         [] OTHER -> Fail(p) /\ UNCHANGED ledger
    /\ Cancels(stopped)
    /\ UNCHANGED <<universe, ask, life>>

\* A control came between the reading and the intent: the conflict is thrown on.
SeedConflict(p) ==
  /\ proc[p].pc = "seeding" /\ Requested(ledger[proc[p].camp].state)
  /\ Leave(p)
  /\ UNCHANGED <<ledger, universe, ask, life, mishaps>>

\* The last guard before the evaluator's process is started.
SpawnEvaluator(p) ==
  /\ proc[p].pc = "intended" /\ ledger[proc[p].camp].state = "running"
  /\ evaluator' = evaluator \cup {proc[p].camp}
  /\ proc' = [proc EXCEPT ![p].pc = "measuring"]
  /\ UNCHANGED <<ledger, lease, runs, open, ask, life, mishaps>>

\* The result: with the group gone, or before it was started.  Only a session that
\* still runs may record a measurement.
SeedResult(p, status) ==
  LET c == proc[p].camp IN
    /\ proc[p].pc \in {"intended", "measuring"} /\ c \notin evaluator
    /\ status = "measured" => proc[p].pc = "measuring" /\ ledger[c].state = "running"
    /\ IF CanResult(ledger[c], status)
         THEN /\ Append(c, Resulted(ledger[c], status))
              /\ proc' = [proc EXCEPT ![p].pc = IF status = "measured" THEN "looping" ELSE "held"]
              /\ UNCHANGED lease
         ELSE Fail(p) /\ UNCHANGED ledger
    /\ UNCHANGED <<universe, ask, life, mishaps>>

\* The end of the group is not confirmed: the intent stays without a result.
SeedUnconfirmed(p) ==
  /\ proc[p].pc = "measuring"
  /\ Mishap
  /\ proc' = [proc EXCEPT ![p].pc = "held"]
  /\ UNCHANGED <<ledger, lease, universe, ask, life>>

SeedHeld(p) ==
  /\ proc[p].pc = "held"
  /\ Finish(p, "paused")
  /\ UNCHANGED <<ledger, universe, ask, life, mishaps>>

EvaluatorExits(c) ==
  /\ c \in evaluator
  /\ evaluator' = evaluator \ {c}
  /\ UNCHANGED <<ledger, lease, runs, open, proc, ask, life, mishaps>>

(***************************************************************************)
(* The loop: reserve a step, then run it.                                  *)
(***************************************************************************)
\* The generation the last step was to have, plus one if it has a run record.
Interleaved(c) ==
  LET l == ledger[c] IN
    l.steps > 0 /\ Total + 1 # l.last + (IF l.steps \in runs[c] THEN 1 ELSE 0)

Top(p, cancelled, late) ==
  LET c == proc[p].camp
      l == ledger[c] IN
    /\ proc[p].pc = "looping"
    /\ CASE Requested(l.state) \/ cancelled -> Finish(p, "paused")
         [] ~Requested(l.state) /\ ~cancelled /\ Exhausted(c, late) -> Finish(p, "completed")
         [] ~Requested(l.state) /\ ~cancelled /\ ~Exhausted(c, late) /\ Interleaved(c) -> Finish(p, "failed")
         [] OTHER -> proc' = [proc EXCEPT ![p].pc = "reserving"] /\ UNCHANGED lease
    /\ Cancels(cancelled)
    /\ UNCHANGED <<ledger, universe, ask, life>>

Reserve(p) ==
  LET c == proc[p].camp IN
    /\ proc[p].pc = "reserving"
    /\ IF CanStep(ledger[c], c)
         THEN /\ Append(c, Stepped(ledger[c], Total + 1))
              /\ proc' = [proc EXCEPT ![p].pc = "reserved"]
              /\ UNCHANGED lease
         ELSE Fail(p) /\ UNCHANGED ledger
    /\ UNCHANGED <<universe, ask, life, mishaps>>

\* runUniverseOwned gives up the run a dead process left open and writes the run record of
\* the step; cancelled or late, it throws before that.
Run(p, stopped) ==
  LET c == proc[p].camp IN
    /\ proc[p].pc = "reserved"
    /\ IF stopped
         THEN open' = None /\ Fail(p) /\ UNCHANGED runs
         ELSE /\ open' = [camp |-> c, owner |-> Myself(p)]
              /\ runs' = [runs EXCEPT ![c] = @ \cup {ledger[c].steps}]
              /\ proc' = [proc EXCEPT ![p].pc = "generating"]
              /\ UNCHANGED lease
    /\ Cancels(stopped)
    /\ UNCHANGED <<ledger, evaluator, ask, life>>

\* It ends: the loop goes on, or the outcome settles the campaign.
Ran(p, wanted) ==
  /\ proc[p].pc = "generating"
  /\ open' = None
  /\ IF wanted = None THEN proc' = [proc EXCEPT ![p].pc = "looping"] /\ UNCHANGED lease
                      ELSE Finish(p, wanted)
  /\ UNCHANGED <<ledger, evaluator, runs, ask, life, mishaps>>

\* The control lock is busy, or a write fails: an append throws.
Busy(p) ==
  /\ proc[p].pc \in {"settling", "interrupting", "starting", "seeding", "intended", "reserving"}
  /\ Mishap
  /\ Fail(p)
  /\ UNCHANGED <<ledger, universe, ask, life>>

(***************************************************************************)
(* requestUniverseCampaignControl: the control, then, without a live       *)
(* owner, its settlement.                                                  *)
(***************************************************************************)
Control(o, c, action) ==
  LET l == ledger[c] IN
    /\ ask[o] = None /\ Controls < MaxControls /\ ~Degraded(c)
    /\ CanControl(l)
    /\ action = "pause" => l.state # "pause-requested" /\ ~(l.state = "paused" /\ l.held)
    /\ Append(c, Controlled(l, action))
    /\ ask' = IF l.owner # None /\ Lives(l.owner) THEN ask
              ELSE [ask EXCEPT ![o] = [camp |-> c, state |-> IF action = "stop" THEN "stopped" ELSE "paused"]]
    /\ UNCHANGED <<lease, universe, proc, life, mishaps>>

ControlSettles(o) ==
  LET c == ask[o].camp IN
    /\ ask[o] # None
    /\ ledger' = IF CanSettle(ledger[c], c, ask[o].state)
                   THEN [ledger EXCEPT ![c] = Settled(ledger[c], ask[o].state)] ELSE ledger
    /\ ask' = [ask EXCEPT ![o] = None]
    /\ UNCHANGED <<lease, universe, proc, life, mishaps>>

(***************************************************************************)
(* Processes die.                                                          *)
(***************************************************************************)
Die(p) ==
  /\ \/ proc[p].pc # "idle"
     \/ \E c \in Campaigns : ledger[c].owner = Myself(p)
  /\ Mishap
  /\ proc' = [proc EXCEPT ![p] = Idle]
  /\ life' = [life EXCEPT ![p] = @ + 1]
  /\ UNCHANGED <<ledger, lease, universe, ask>>

RequesterDies(o) ==
  /\ ask[o] # None
  /\ Mishap
  /\ ask' = [ask EXCEPT ![o] = None]
  /\ UNCHANGED <<ledger, lease, universe, proc, life>>

Outcomes == {None, "failed", "interrupted", "paused"}

Queue(p) == Poll(p) \/ \E c \in Campaigns : Enrol(p, c) \/ Call(p, c)

Admission(p) ==
  \/ TakeLease(p) \/ TurnedAway(p) \/ Reconcile(p) \/ Interrupt(p)
  \/ \E flag \in BOOLEAN : Admit(p, flag) \/ Start(p, flag)

Seeding(p) ==
  \/ SeedConflict(p) \/ SpawnEvaluator(p) \/ SeedUnconfirmed(p) \/ SeedHeld(p)
  \/ \E stopped \in BOOLEAN : Seed(p, stopped)
  \/ \E status \in {"measured", "failed"} : SeedResult(p, status)

Loop(p) ==
  \/ Reserve(p) \/ Failing(p) \/ Settle(p) \/ Busy(p)
  \/ \E cancelled, late \in BOOLEAN : Top(p, cancelled, late)
  \/ \E stopped \in BOOLEAN : Run(p, stopped)
  \/ \E wanted \in Outcomes : Ran(p, wanted)

Next ==
  \/ \E p \in Runners : Queue(p) \/ Admission(p) \/ Seeding(p) \/ Loop(p) \/ Die(p)
  \/ \E o \in Requesters :
       \/ ControlSettles(o) \/ RequesterDies(o)
       \/ \E c \in Campaigns, action \in {"pause", "stop"} : Control(o, c, action)
  \/ \E c \in Campaigns : EvaluatorExits(c)

Spec == Init /\ [][Next]_vars

(***************************************************************************)
(* Properties                                                              *)
(***************************************************************************)
States == {"ready", "running", "pause-requested", "stop-requested", "paused", "interrupted",
           "stopped", "completed", "failed"}

\* The ledgers are well formed, within their capacity and budget, and a runner past
\* admission holds the execution lease (withUniverseExecution, foldCampaignEvents).
TypeOK ==
  /\ \A c \in Campaigns :
       /\ ledger[c].state \in States /\ ledger[c].seed \in {"none", "open", "measured", "failed"}
       /\ ledger[c].length \in 1..MaxEvents /\ ledger[c].steps \in 0..MaxGenerations
  /\ evaluator \subseteq Measured
  /\ open # None => runs[open.camp] # {}
  /\ \A p \in Runners :
       proc[p].pc \notin {"idle", "queued", "called"} => lease = Myself(p)

\* A seed evaluator that may be alive is alone in its universe: its campaign's intent
\* has no result, and neither a generation nor the evaluator of another campaign runs,
\* even after the process that started it has died and its lease was taken over
\* (assertCampaignSeedEvaluatorsSettled, runCampaignSeedEvaluationOwned).
EvaluatorFenced ==
  \A c \in evaluator :
    /\ ledger[c].seed = "open"
    /\ evaluator = {c}
    /\ \A p \in Runners : proc[p].pc # "generating"

\* Every generation that ran was reserved in the ledger first, within the budget, and a
\* reservation is never run twice: work that a crash left behind is given up, not
\* replayed (runCampaignWithLease).
WorkReserved ==
  /\ \A c \in Campaigns : runs[c] \subseteq 1..ledger[c].steps
  /\ \A p \in Runners : proc[p].pc = "reserved" => ledger[proc[p].camp].steps \notin runs[proc[p].camp]

StartsSession(p) ==
  /\ proc[p].pc = "starting"
  /\ ledger[proc[p].camp].state # "running" /\ ledger'[proc[p].camp].state = "running"

\* A session of the queue starts on the history its campaign was enrolled with: no
\* pause or stop recorded since then is overrun, and nobody else has run the campaign,
\* whatever the queue waited for in between (unchanged, expectedIdentity).
PinHolds ==
  [][\A p \in Queues : StartsSession(p) =>
       ledger[proc[p].camp].controls = 0 /\ ~ledger[proc[p].camp].started]_vars
=============================================================================
