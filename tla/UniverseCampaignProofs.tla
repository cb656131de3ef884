----------------------- MODULE UniverseCampaignProofs -----------------------
(***************************************************************************)
(* Proofs about UniverseCampaign for any number of campaigns, runners and  *)
(* requesters, and any budget.                                             *)
(***************************************************************************)
EXTENDS UniverseCampaign, FiniteSetTheorems, TLAPS

(***************************************************************************)
(* Types.                                                                  *)
(***************************************************************************)
Outside == {"idle", "queued", "called"}
Unseeded == {"leased", "interrupting", "starting", "seeding", "looping", "reserving", "reserved", "generating"}
Measuring == {"intended", "measuring"}
Leaving == {"held", "settling", "failing"}
Pcs == Outside \cup Unseeded \cup Measuring \cup Leaving
Settlements == {"paused", "stopped", "interrupted", "failed", "completed"}

Owners == [p : Runners, life : 0..MaxMishaps]

Ledgers ==
  [length : 1..MaxEvents, state : States, owner : Owners \cup {None},
   seed : {"none", "open", "measured", "failed"}, steps : 0..MaxGenerations, last : Nat,
   started : BOOLEAN, controls : Nat, held : BOOLEAN]

Tasks ==
  [pc : Pcs, camp : Campaigns \cup {None}, pin : 1..MaxEvents \cup {None},
   want : Settlements \cup {None}, caught : BOOLEAN]

LedgersTyped == ledger \in [Campaigns -> Ledgers]

TasksTyped ==
  /\ proc \in [Runners -> Tasks]
  /\ \A p \in Runners : proc[p].pc # "idle" => proc[p].camp \in Campaigns
  /\ \A p \in Runners : proc[p].pc = "settling" => proc[p].want \in Settlements

RestTyped ==
  /\ lease \in Owners \cup {None}
  /\ evaluator \subseteq Measured
  /\ runs \in [Campaigns -> SUBSET (1..MaxGenerations)]
  /\ ask = [o \in Requesters |-> ask[o]]
  /\ \A o \in Requesters : ask[o] # None => ask[o].camp \in Campaigns /\ ask[o].state \in {"paused", "stopped"}
  /\ life \in [Runners -> 0..MaxMishaps]
  /\ mishaps \in 0..MaxMishaps
  /\ \A p \in Runners : life[p] <= mishaps

Typed == LedgersTyped /\ TasksTyped /\ RestTyped

(***************************************************************************)
(* The inductive invariant.  A runner past admission holds the lease, so   *)
(* it is the only one there, and what it has checked of the ledgers stays  *)
(* true although controls are appended meanwhile: they never touch a seed  *)
(* or a step.                                                              *)
(***************************************************************************)
LeaseHeld == \A p \in Runners : proc[p].pc \notin Outside => lease = Myself(p)

\* An evaluator that may live has an intent without a result; there is at most one.
SeedsFenced ==
  /\ \A c \in evaluator : ledger[c].seed = "open"
  /\ \A c, d \in evaluator : c = d

StepsReserved ==
  /\ \A c \in Campaigns : runs[c] \subseteq 1..ledger[c].steps
  /\ open # None => open.camp \in Campaigns /\ runs[open.camp] # {}

\* A session is on record, and a control leaves its mark on the state.
SessionsRecorded ==
  \A c \in Campaigns :
    /\ ledger[c].state = "running" => ledger[c].started
    /\ ledger[c].state = "ready" => ledger[c].controls = 0

\* What a runner relies on at each point.
Relies(p) ==
  LET c == proc[p].camp IN
    /\ proc[p].pc \in Unseeded => EvaluatorsSettled
    /\ proc[p].pc \in Measuring =>
         ledger[c].seed = "open" /\ \A d \in Campaigns \ {c} : ledger[d].seed # "open"
    /\ proc[p].pc \in Measuring \cup {"seeding"} => c \in Measured
    /\ proc[p].pc = "reserved" => ledger[c].steps \in 1..MaxGenerations /\ ledger[c].steps \notin runs[c]

\* The pin of the queue: if the ledger still has that length, it is the one enrolled.
Enrolled(p) ==
  LET l == ledger[proc[p].camp] IN
    /\ proc[p].pc # "interrupting"
    /\ proc[p].pc \in {"queued", "called", "leased", "starting"} =>
         /\ proc[p].pin # None /\ proc[p].pin <= l.length
         /\ l.length = proc[p].pin => l.controls = 0 /\ ~l.started

Shared == SeedsFenced /\ StepsReserved /\ SessionsRecorded

CampaignInv ==
  /\ Typed
  /\ LeaseHeld
  /\ Shared
  /\ \A p \in Runners : Relies(p)
  /\ \A p \in Queues : Enrolled(p)

(***************************************************************************)
(* The ledger's events.                                                    *)
(***************************************************************************)
\* The number of run records is a number: there is at most one for each step.
LEMMA TotalIsNat ==
  ASSUME Typed PROVE Total \in Nat
<1> DEFINE T == UNION {{c} \X runs[c] : c \in Campaigns}
<1>1. T \subseteq Campaigns \X (1..MaxGenerations)
  BY DEF Typed, RestTyped
<1>2. IsFiniteSet(1..MaxGenerations)
  BY FS_Interval, CampaignAssumption
<1>3. IsFiniteSet(Campaigns \X (1..MaxGenerations))
  BY <1>2, FS_Product, CampaignAssumption
<1> QED  BY <1>1, <1>3, FS_Subset, FS_CardinalityType DEF Total

\* Room leaves room for one event.
LEMMA Lengthened ==
  ASSUME NEW l \in Ledgers, Room(l)
  PROVE  l.length + 1 \in 1..MaxEvents /\ l.length + 1 > l.length
BY CampaignAssumption DEF Room, Ledgers

\* An event that extends a ledger with room for it leaves a ledger, one longer, with the
\* same seed and steps unless it is about them.
LEMMA SettledEvent ==
  ASSUME NEW l \in Ledgers, Room(l), NEW state \in Settlements
  PROVE  /\ Settled(l, state) \in Ledgers
         /\ Settled(l, state).length > l.length
         /\ Settled(l, state).seed = l.seed
         /\ Settled(l, state).steps = l.steps
         /\ Settled(l, state).state \notin {"running", "ready"}
BY Lengthened DEF Ledgers, Settled, States, Settlements

\* What the start event changes of a ledger.
LEMMA StartedEvent ==
  ASSUME Typed, NEW l \in Ledgers, Room(l), NEW p \in Runners
  PROVE  /\ Started(l, p) \in Ledgers
         /\ Started(l, p).length > l.length
         /\ Started(l, p).seed = l.seed
         /\ Started(l, p).steps = l.steps
         /\ Started(l, p).started
         /\ Started(l, p).state = "running"
BY Lengthened DEF Ledgers, Started, States, Owners, Myself, Typed, RestTyped

\* What the intent of a seed evaluation changes of a ledger.
LEMMA IntendedEvent ==
  ASSUME NEW l \in Ledgers, Room(l)
  PROVE  /\ Intended(l) \in Ledgers
         /\ Intended(l).length > l.length
         /\ Intended(l).seed = "open"
         /\ Intended(l).steps = l.steps
         /\ Intended(l).state = l.state
         /\ Intended(l).started = l.started
         /\ Intended(l).controls = l.controls
BY Lengthened DEF Ledgers, Intended

\* What the result of a seed evaluation changes of a ledger.
LEMMA ResultedEvent ==
  ASSUME NEW l \in Ledgers, Room(l), NEW status \in {"measured", "failed"}
  PROVE  /\ Resulted(l, status) \in Ledgers
         /\ Resulted(l, status).length > l.length
         /\ Resulted(l, status).seed = status
         /\ Resulted(l, status).steps = l.steps
         /\ Resulted(l, status).state = l.state
         /\ Resulted(l, status).started = l.started
         /\ Resulted(l, status).controls = l.controls
BY Lengthened DEF Ledgers, Resulted

\* What a reserved generation changes of a ledger.
LEMMA SteppedEvent ==
  ASSUME NEW l \in Ledgers, Room(l), l.steps < MaxGenerations, NEW generation \in Nat
  PROVE  /\ Stepped(l, generation) \in Ledgers
         /\ Stepped(l, generation).length > l.length
         /\ Stepped(l, generation).seed = l.seed
         /\ Stepped(l, generation).steps = l.steps + 1
         /\ Stepped(l, generation).state = l.state
         /\ Stepped(l, generation).started = l.started
         /\ Stepped(l, generation).controls = l.controls
<1>1. l.steps + 1 \in 0..MaxGenerations
  BY CampaignAssumption DEF Ledgers
<1> QED  BY <1>1, Lengthened DEF Ledgers, Stepped

\* What a pause or stop changes of a ledger.
LEMMA ControlledEvent ==
  ASSUME NEW l \in Ledgers, Room(l), NEW action \in {"pause", "stop"}
  PROVE  /\ Controlled(l, action) \in Ledgers
         /\ Controlled(l, action).length > l.length
         /\ Controlled(l, action).seed = l.seed
         /\ Controlled(l, action).steps = l.steps
         /\ Controlled(l, action).state \notin {"running", "ready"}
<1>1. l.controls + 1 \in Nat
  BY DEF Ledgers
<1> QED  BY <1>1, Lengthened DEF Ledgers, Controlled, States

(***************************************************************************)
(* Steps of a runner past admission.                                       *)
(***************************************************************************)
\* Ledgers only grow.
Grows == \A c \in Campaigns : ledger'[c] = ledger[c] \/ ledger'[c].length > ledger[c].length

\* The step touches no runner but p, and p keeps the lease until it is idle.
Alone(p) ==
  /\ proc[p].pc \notin Outside
  /\ life' = life
  /\ \A q \in Runners \ {p} : proc'[q] = proc[q]
  /\ lease' = lease \/ proc'[p].pc = "idle"

\* What a step of p has to show: the rest of the invariant follows.
Inside(p) ==
  /\ Typed' /\ Alone(p) /\ Grows /\ Shared'
  /\ Relies(p)'
  /\ p \in Queues => Enrolled(p)'

\* No two runners are past admission.
LEMMA OneInside ==
  ASSUME CampaignInv, NEW p \in Runners, NEW q \in Runners, p # q, proc[p].pc \notin Outside
  PROVE  proc[q].pc \in Outside
BY DEF CampaignInv, LeaseHeld, Myself

\* A step of the lease holder that keeps what it relies on keeps the invariant.
LEMMA InsideSuffices ==
  ASSUME CampaignInv, NEW p \in Runners, Inside(p)
  PROVE  CampaignInv'
<1>1. \A q \in Runners \ {p} : proc'[q] = proc[q] /\ proc[q].pc \in Outside
  BY OneInside DEF Inside, Alone
<1>2. LeaseHeld'
  BY <1>1 DEF CampaignInv, Inside, Alone, LeaseHeld, Myself, Outside
<1>3. ASSUME NEW q \in Runners PROVE Relies(q)'
  BY <1>1 DEF Inside, Relies, Outside, Unseeded, Measuring
<1>4. ASSUME NEW q \in Queues PROVE Enrolled(q)'
  <2>1. CASE q = p  BY <2>1 DEF Inside
  <2>2. CASE q # p
    <3>1. q \in Runners /\ proc'[q] = proc[q] /\ proc[q].pc \in Outside
      BY <1>1, <2>2 DEF Runners
    <3>2. CASE proc[q].pc = "idle"  BY <3>1, <3>2 DEF Enrolled
    <3>3. CASE proc[q].pc # "idle"
      <4> DEFINE c == proc[q].camp
      <4>1. c \in Campaigns /\ Enrolled(q)
        BY <3>1, <3>3 DEF CampaignInv, Typed, TasksTyped
      <4>2. proc[q].pin # None => proc[q].pin \in Nat
        BY <3>1, CampaignAssumption DEF CampaignInv, Typed, TasksTyped, Tasks
      <4>3. ledger[c].length \in Nat /\ ledger'[c].length \in Nat
        BY <4>1, CampaignAssumption DEF CampaignInv, Inside, Typed, LedgersTyped, Ledgers
      <4>4. ledger'[c] = ledger[c] \/ ledger'[c].length > ledger[c].length
        BY <4>1 DEF Inside, Grows
      <4> QED  BY <3>1, <4>1, <4>2, <4>3, <4>4 DEF Enrolled, Outside
    <3> QED  BY <3>2, <3>3
  <2> QED  BY <2>1, <2>2
<1> QED  BY <1>2, <1>3, <1>4 DEF CampaignInv, Inside

\* The ways out: leave, settle, or settle as failed.
Quits(p) ==
  /\ TasksTyped'
  /\ \A q \in Runners \ {p} : proc'[q] = proc[q]
  /\ proc'[p].pc \in {"idle", "settling", "failing"}
  /\ lease' = lease \/ (lease' = None /\ proc'[p].pc = "idle")

\* A runner that gives the lease back is on its way out.
LEMMA LeaveQuits ==
  ASSUME TasksTyped, NEW p \in Runners, Leave(p)
  PROVE  Quits(p)
BY DEF TasksTyped, Leave, Idle, Tasks, Pcs, Outside, Quits

\* A runner whose write failed is on its way out.
LEMMA FailQuits ==
  ASSUME TasksTyped, NEW p \in Runners, proc[p].pc # "idle", Fail(p)
  PROVE  Quits(p)
BY LeaveQuits DEF TasksTyped, Fail, Tasks, Pcs, Leaving, Quits

\* A runner that settles the campaign is on its way out.
LEMMA FinishQuits ==
  ASSUME TasksTyped, NEW p \in Runners, proc[p].pc # "idle", NEW wanted \in Settlements, Finish(p, wanted)
  PROVE  Quits(p)
BY LeaveQuits DEF TasksTyped, Finish, Selected, Settlements, Tasks, Pcs, Leaving, Quits

\* A runner on its way out relies on nothing.
LEMMA QuitsInside ==
  ASSUME CampaignInv, NEW p \in Runners, proc[p].pc \notin Outside, Quits(p),
         life' = life, Grows, Shared', LedgersTyped', RestTyped'
  PROVE  Inside(p)
BY DEF Inside, Quits, Alone, Relies, Enrolled, Typed, Unseeded, Measuring

\* An event about neither the seed nor a step, with the evaluators and runs left alone.
LEMMA EventKeeps ==
  ASSUME CampaignInv, NEW c \in Campaigns, NEW m \in Ledgers, Append(c, m), UNCHANGED universe,
         m.length > ledger[c].length, m.seed = ledger[c].seed, m.steps = ledger[c].steps,
         m.state = "running" => m.started, m.state # "ready"
  PROVE  LedgersTyped' /\ Grows /\ Shared' /\ (EvaluatorsSettled => EvaluatorsSettled')
<1>1. LedgersTyped' /\ Grows
  BY DEF CampaignInv, Typed, LedgersTyped, Append, Grows
<1>2. \A d \in Campaigns : ledger'[d].seed = ledger[d].seed /\ ledger'[d].steps = ledger[d].steps
  BY DEF CampaignInv, Typed, LedgersTyped, Append
<1>3. SeedsFenced' /\ (EvaluatorsSettled => EvaluatorsSettled')
  BY <1>2, CampaignAssumption
  DEF CampaignInv, Typed, RestTyped, Shared, SeedsFenced, EvaluatorsSettled, universe
<1>4. StepsReserved'
  BY <1>2 DEF CampaignInv, Shared, StepsReserved, universe
<1>5. SessionsRecorded'
  BY DEF CampaignInv, Shared, SessionsRecorded, Typed, LedgersTyped, Append
<1> QED  BY <1>1, <1>3, <1>4, <1>5 DEF Shared

\* What is recorded and what runs stay as they are.
LEMMA NothingKeeps ==
  ASSUME CampaignInv, UNCHANGED <<ledger, universe>>
  PROVE  LedgersTyped' /\ Grows /\ Shared' /\ (EvaluatorsSettled => EvaluatorsSettled')
BY DEF CampaignInv, Typed, LedgersTyped, Grows, Shared, SeedsFenced, StepsReserved,
       SessionsRecorded, EvaluatorsSettled, universe

\* The types of what most steps leave alone.
LEMMA RestKept ==
  ASSUME RestTyped, UNCHANGED <<universe, ask, life>>, lease' \in {lease, None},
         UNCHANGED mishaps \/ Mishap
  PROVE  RestTyped'
BY CampaignAssumption DEF RestTyped, universe, Mishap

\* A runner takes up t.
LEMMA MoveTyped ==
  ASSUME TasksTyped, NEW p \in Runners, NEW t \in Tasks, proc' = [proc EXCEPT ![p] = t],
         t.pc # "idle" => t.camp \in Campaigns, t.pc = "settling" => t.want \in Settlements
  PROVE  TasksTyped' /\ proc'[p] = t /\ \A q \in Runners \ {p} : proc'[q] = proc[q]
BY DEF TasksTyped

(***************************************************************************)
(* Admission.                                                              *)
(***************************************************************************)
LEMMA AdmitInside ==
  ASSUME CampaignInv, NEW p \in Runners, NEW cancelled \in BOOLEAN, Admit(p, cancelled)
  PROVE  Inside(p)
<1> DEFINE l == ledger[proc[p].camp]
<1>1. /\ LedgersTyped' /\ Grows /\ Shared' /\ (EvaluatorsSettled => EvaluatorsSettled')
      /\ TasksTyped /\ RestTyped /\ proc[p].pc = "leased" /\ proc[p].camp \in Campaigns /\ UNCHANGED <<ledger, life>>
  BY NothingKeeps DEF CampaignInv, Typed, TasksTyped, Admit
<1>2. RestTyped'
  BY <1>1, RestKept DEF Admit, Leave, Cancels
<1>3. CASE ~Admissible(p) \/ Terminal(l.state)
  <2>1. Quits(p)  BY <1>1, <1>3, LeaveQuits DEF Admit
  <2> QED  BY <1>1, <1>2, <2>1, QuitsInside DEF Outside
<1>4. CASE Admissible(p) /\ ~Terminal(l.state) /\ (Requested(l.state) \/ cancelled \/ l.seed \in {"open", "failed"})
  <2>1. proc' = [proc EXCEPT ![p].pc = "settling", ![p].want = Selected(l.state, "paused")] /\ UNCHANGED lease
    BY <1>4 DEF Admit
  <2>2. Selected(l.state, "paused") \in Settlements
    BY DEF Selected, Settlements
  <2>3. Quits(p)
    BY <1>1, <2>1, <2>2, ZenonT(60) DEF TasksTyped, Tasks, Pcs, Leaving, Quits
  <2> QED  BY <1>1, <1>2, <2>3, QuitsInside DEF Outside
<1>5. CASE Admissible(p) /\ ~Terminal(l.state) /\ ~(Requested(l.state) \/ cancelled \/ l.seed \in {"open", "failed"})
  <2> DEFINE step == IF l.state = "running" THEN "interrupting" ELSE "starting"
  <2>1. proc' = [proc EXCEPT ![p].pc = step] /\ UNCHANGED lease
    BY <1>5 DEF Admit
  <2>2. TasksTyped'
    BY <1>1, <2>1 DEF TasksTyped, Tasks, Pcs, Unseeded
  <2>3. Relies(p)'
    BY <1>1, <2>1 DEF CampaignInv, Relies, TasksTyped, Tasks, Unseeded, Measuring
  <2>4. ASSUME p \in Queues PROVE Enrolled(p)'
    <3>1. l.state # "running"
      BY <1>1, <1>5, <2>4 DEF CampaignInv, Enrolled, Admissible, Pinned, Unchanged, Shared, SessionsRecorded
    <3> QED  BY <1>1, <2>1, <2>4, <3>1 DEF CampaignInv, Enrolled, TasksTyped, Tasks
  <2> QED  BY <1>1, <1>2, <2>1, <2>2, <2>3, <2>4 DEF Inside, Alone, Outside, Typed, TasksTyped, Tasks
<1> QED  BY <1>3, <1>4, <1>5

\* An open run is reconciled before the ledger is settled or started.
LEMMA ReconcileInside ==
  ASSUME CampaignInv, NEW p \in Runners, Reconcile(p)
  PROVE  Inside(p)
<1>1. Typed'
  BY DEF CampaignInv, Typed, LedgersTyped, TasksTyped, RestTyped, Reconcile
<1>2. Shared' /\ Grows
  BY DEF CampaignInv, Shared, SeedsFenced, StepsReserved, SessionsRecorded, Grows, Reconcile
<1>3. Alone(p)
  BY DEF Alone, Reconcile, Outside
<1>4. Relies(p)' /\ (p \in Queues => Enrolled(p)')
  BY DEF CampaignInv, Relies, Enrolled, EvaluatorsSettled, Reconcile
<1> QED  BY <1>1, <1>2, <1>3, <1>4 DEF Inside

\* The session of an owner that is gone is settled first.
LEMMA InterruptInside ==
  ASSUME CampaignInv, NEW p \in Runners, Interrupt(p)
  PROVE  Inside(p)
<1> DEFINE c == proc[p].camp
           m == Settled(ledger[c], "interrupted")
<1>1. /\ TasksTyped /\ RestTyped /\ c \in Campaigns /\ ledger[c] \in Ledgers
      /\ proc[p].pc = "interrupting" /\ life' = life /\ UNCHANGED universe
  BY DEF CampaignInv, Typed, TasksTyped, LedgersTyped, Interrupt
<1>2. RestTyped'
  BY <1>1, RestKept DEF Interrupt, Leave, Fail
<1>3. CASE Pinned(p) /\ CanSettle(ledger[c], c, "interrupted")
  <2>1. m \in Ledgers /\ m.length > ledger[c].length /\ m.seed = ledger[c].seed /\ m.steps = ledger[c].steps /\ m.state \notin {"running", "ready"}
    BY <1>1, <1>3, SettledEvent DEF CanSettle, Settlements
  <2>2. LedgersTyped' /\ Grows /\ Shared' /\ (EvaluatorsSettled => EvaluatorsSettled')
    BY <1>1, <1>3, <2>1, EventKeeps DEF Interrupt
  <2>3. /\ proc' = [proc EXCEPT ![p].pc = "starting", ![p].pin = IF @ = None THEN None ELSE ledger[c].length + 1]
        /\ UNCHANGED lease
    BY <1>3 DEF Interrupt
  <2>4. ledger[c].length + 1 \in 1..MaxEvents
    BY <1>1, <1>3, Lengthened DEF CanSettle
  <2>5. TasksTyped'
    <3> DEFINE t == [proc[p] EXCEPT !.pc = "starting", !.pin = IF @ = None THEN None ELSE ledger[c].length + 1]
    <3>1. t \in Tasks /\ t.pc = "starting" /\ t.camp = c
      BY <1>1, <2>4 DEF TasksTyped, Tasks, Pcs, Unseeded
    <3> QED  BY <1>1, <2>3, <3>1, MoveTyped, ZenonT(60)
  <2>6. Relies(p)'
    BY <1>1, <2>2, <2>3 DEF CampaignInv, Relies, TasksTyped, Tasks, Unseeded, Measuring
  <2>7. p \notin Queues
    BY <1>1 DEF CampaignInv, Enrolled
  <2>8. Alone(p)
    BY <1>1, <2>3 DEF Alone, Outside, TasksTyped
  <2> QED  BY <1>2, <2>2, <2>5, <2>6, <2>7, <2>8 DEF Inside, Typed
<1>4. CASE ~(Pinned(p) /\ CanSettle(ledger[c], c, "interrupted"))
  <2>1. Quits(p) /\ UNCHANGED ledger  BY <1>1, <1>4, FailQuits DEF Interrupt
  <2> QED  BY <1>1, <1>2, <2>1, QuitsInside, NothingKeeps DEF Outside
<1> QED  BY <1>3, <1>4

\* The start of the campaign is recorded.
LEMMA StartInside ==
  ASSUME CampaignInv, NEW p \in Runners, NEW late \in BOOLEAN, Start(p, late)
  PROVE  Inside(p)
<1> DEFINE c == proc[p].camp
           m == Started(ledger[c], p)
           wanted == IF c \in Measured /\ ledger[c].seed # "measured" THEN "paused" ELSE "completed"
<1>1. /\ TasksTyped /\ RestTyped /\ c \in Campaigns /\ ledger[c] \in Ledgers
      /\ proc[p].pc = "starting" /\ life' = life /\ UNCHANGED universe
  BY DEF CampaignInv, Typed, TasksTyped, LedgersTyped, Start
<1>2. RestTyped'
  BY <1>1, RestKept DEF Start, Leave, Fail, Finish
<1>3. CASE Exhausted(c, late)
  <2>1. Quits(p) /\ UNCHANGED ledger  BY <1>1, <1>3, FinishQuits DEF Start, Settlements
  <2> QED  BY <1>1, <1>2, <2>1, QuitsInside, NothingKeeps DEF Outside
<1>4. CASE ~Exhausted(c, late) /\ ~Starts(p, ledger[c])
  <2>1. Quits(p) /\ UNCHANGED ledger  BY <1>1, <1>4, FailQuits DEF Start
  <2> QED  BY <1>1, <1>2, <2>1, QuitsInside, NothingKeeps DEF Outside
<1>5. CASE ~Exhausted(c, late) /\ Starts(p, ledger[c])
  <2>1. m \in Ledgers /\ m.length > ledger[c].length /\ m.seed = ledger[c].seed /\ m.steps = ledger[c].steps /\ m.started /\ m.state = "running"
    BY <1>1, <1>5, StartedEvent DEF Starts, CanStart, CampaignInv
  <2>2. LedgersTyped' /\ Grows /\ Shared' /\ (EvaluatorsSettled => EvaluatorsSettled')
    BY <1>1, <1>5, <2>1, EventKeeps DEF Start
  <2>3. /\ proc' = [proc EXCEPT ![p].pc = IF c \in Measured THEN "seeding" ELSE "looping", ![p].pin = None]
        /\ UNCHANGED lease
    BY <1>5 DEF Start
  <2>4. TasksTyped'
    <3>1. PICK next \in {"seeding", "looping"} : proc' = [proc EXCEPT ![p].pc = next, ![p].pin = None]
      BY <2>3
    <3> DEFINE t == [proc[p] EXCEPT !.pc = next, !.pin = None]
    <3>2. t \in Tasks /\ t.pc # "settling" /\ t.camp = c
      BY <1>1 DEF TasksTyped, Tasks, Pcs, Unseeded
    <3> QED  BY <1>1, <3>1, <3>2, MoveTyped
  <2>5. Relies(p)' /\ Enrolled(p)'
    BY <1>1, <2>2, <2>3 DEF CampaignInv, Relies, Enrolled, TasksTyped, Tasks, Unseeded, Measuring
  <2>6. Alone(p)
    BY <1>1, <2>3 DEF Alone, Outside, TasksTyped
  <2> QED  BY <1>2, <2>2, <2>4, <2>5, <2>6 DEF Inside, Typed
<1> QED  BY <1>3, <1>4, <1>5

(***************************************************************************)
(* The measurement of the seed.                                            *)
(***************************************************************************)
LEMMA SeedInside ==
  ASSUME CampaignInv, NEW p \in Runners, NEW stopped \in BOOLEAN, Seed(p, stopped)
  PROVE  Inside(p)
<1> DEFINE c == proc[p].camp
           m == Intended(ledger[c])
           going == ledger[c].state = "running" /\ ~stopped
<1>1. /\ TasksTyped /\ RestTyped /\ c \in Campaigns /\ ledger[c] \in Ledgers
      /\ proc[p].pc = "seeding" /\ life' = life /\ UNCHANGED universe /\ c \in Measured /\ EvaluatorsSettled
  BY DEF CampaignInv, Typed, TasksTyped, LedgersTyped, Seed, Relies, Unseeded
<1>2. RestTyped'
  BY <1>1, RestKept DEF Seed, Leave, Fail, Cancels
<1>3. CASE going /\ ledger[c].seed = "measured"
  <2>1. proc' = [proc EXCEPT ![p].pc = "looping"] /\ UNCHANGED <<ledger, lease>>
    BY <1>1, <1>3 DEF Seed, CanIntend
  <2>2. LedgersTyped' /\ Grows /\ Shared' /\ EvaluatorsSettled'
    BY <1>1, <2>1, NothingKeeps
  <2>3. TasksTyped'
    BY <1>1, <2>1 DEF TasksTyped, Tasks, Pcs, Unseeded
  <2>4. Relies(p)' /\ Enrolled(p)'
    BY <1>1, <2>1, <2>2 DEF Relies, Enrolled, TasksTyped, Tasks, Unseeded, Measuring
  <2>5. Alone(p)
    BY <1>1, <2>1 DEF Alone, Outside, TasksTyped
  <2> QED  BY <1>2, <2>2, <2>3, <2>4, <2>5 DEF Inside, Typed
<1>4. CASE going /\ CanIntend(ledger[c])
  <2>1. proc' = [proc EXCEPT ![p].pc = "intended"] /\ UNCHANGED lease /\ ledger' = [ledger EXCEPT ![c] = m]
    BY <1>1, <1>4 DEF Seed, CanIntend, Append
  <2>2. /\ m \in Ledgers /\ m.length > ledger[c].length /\ m.seed = "open" /\ m.steps = ledger[c].steps
        /\ m.state = ledger[c].state /\ m.started = ledger[c].started /\ m.controls = ledger[c].controls
    BY <1>1, <1>4, IntendedEvent DEF CanIntend
  <2>3. LedgersTyped' /\ Grows
    BY <1>1, <2>1, <2>2 DEF CampaignInv, Typed, LedgersTyped, Grows
  <2>4. evaluator = {}
    BY <1>1, CampaignAssumption DEF CampaignInv, Shared, SeedsFenced, EvaluatorsSettled, RestTyped
  <2>5. SeedsFenced'
    BY <1>1, <2>4 DEF SeedsFenced, universe
  <2>6. StepsReserved'
    BY <1>1, <2>1, <2>2 DEF CampaignInv, Typed, LedgersTyped, Shared, StepsReserved, universe
  <2>7. SessionsRecorded'
    BY <1>1, <2>1, <2>2 DEF CampaignInv, Typed, LedgersTyped, Shared, SessionsRecorded
  <2>8. TasksTyped'
    BY <1>1, <2>1 DEF TasksTyped, Tasks, Pcs, Measuring
  <2>9. proc'[p].pc = "intended" /\ proc'[p].camp = c /\ Alone(p)
    BY <1>1, <2>1 DEF Alone, Outside, TasksTyped, Tasks
  <2>10. ledger'[c].seed = "open" /\ \A d \in Campaigns \ {c} : ledger'[d].seed # "open"
    BY <1>1, <2>1, <2>2 DEF CampaignInv, Typed, LedgersTyped, EvaluatorsSettled
  <2>11. Relies(p)' /\ Enrolled(p)'
    BY <1>1, <2>9, <2>10 DEF Relies, Enrolled, Unseeded, Measuring
  <2> QED  BY <1>2, <2>3, <2>5, <2>6, <2>7, <2>8, <2>9, <2>11 DEF Inside, Typed, Shared
<1>5. CASE ~(going /\ ledger[c].seed = "measured") /\ ~(going /\ CanIntend(ledger[c]))
  <2>1. Quits(p) /\ UNCHANGED ledger  BY <1>1, <1>5, FailQuits DEF Seed
  <2> QED  BY <1>1, <1>2, <2>1, QuitsInside, NothingKeeps DEF Outside
<1> QED  BY <1>3, <1>4, <1>5

\* A control came before the intent: the runner leaves.
LEMMA SeedConflictInside ==
  ASSUME CampaignInv, NEW p \in Runners, SeedConflict(p)
  PROVE  Inside(p)
<1>1. TasksTyped /\ RestTyped /\ proc[p].pc = "seeding" /\ UNCHANGED <<ledger, universe, ask, life, mishaps>> /\ Leave(p)
  BY DEF CampaignInv, Typed, SeedConflict
<1>2. RestTyped'  BY <1>1, RestKept DEF Leave
<1> QED  BY <1>1, <1>2, LeaveQuits, QuitsInside, NothingKeeps DEF Outside

\* The evaluator is spawned behind its recorded intent.
LEMMA SpawnEvaluatorInside ==
  ASSUME CampaignInv, NEW p \in Runners, SpawnEvaluator(p)
  PROVE  Inside(p)
<1> DEFINE c == proc[p].camp
<1>1. /\ TasksTyped /\ RestTyped /\ LedgersTyped /\ c \in Campaigns /\ proc[p].pc = "intended"
      /\ UNCHANGED <<ledger, lease, runs, open, ask, life, mishaps>>
      /\ evaluator' = evaluator \cup {c} /\ proc' = [proc EXCEPT ![p].pc = "measuring"]
  BY DEF CampaignInv, Typed, TasksTyped, SpawnEvaluator
<1>2. c \in Measured /\ ledger[c].seed = "open" /\ \A d \in Campaigns \ {c} : ledger[d].seed # "open"
  BY <1>1 DEF CampaignInv, Relies, Measuring
<1>3. LedgersTyped' /\ RestTyped' /\ Grows
  BY <1>1, <1>2 DEF LedgersTyped, RestTyped, Grows
<1>4. evaluator \subseteq {c}
  BY <1>1, <1>2, CampaignAssumption DEF CampaignInv, Shared, SeedsFenced, RestTyped
<1>5. SeedsFenced'
  BY <1>1, <1>2, <1>4 DEF SeedsFenced
<1>6. StepsReserved' /\ SessionsRecorded'
  BY <1>1 DEF CampaignInv, Shared, StepsReserved, SessionsRecorded
<1>7. TasksTyped' /\ proc'[p].pc = "measuring" /\ proc'[p].camp = c /\ Alone(p)
  BY <1>1 DEF TasksTyped, Tasks, Pcs, Measuring, Alone, Outside
<1>8. Relies(p)' /\ Enrolled(p)'
  BY <1>1, <1>2, <1>7 DEF Relies, Enrolled, Unseeded, Measuring
<1> QED  BY <1>3, <1>5, <1>6, <1>7, <1>8 DEF Inside, Typed, Shared

\* The result of the seed is recorded after its evaluator has ended.
LEMMA SeedResultInside ==
  ASSUME CampaignInv, NEW p \in Runners, NEW status \in {"measured", "failed"}, SeedResult(p, status)
  PROVE  Inside(p)
<1> DEFINE c == proc[p].camp
           m == Resulted(ledger[c], status)
           next == IF status = "measured" THEN "looping" ELSE "held"
<1>1. /\ TasksTyped /\ RestTyped /\ c \in Campaigns /\ ledger[c] \in Ledgers /\ c \notin evaluator
      /\ proc[p].pc \in {"intended", "measuring"} /\ UNCHANGED <<universe, ask, life, mishaps>>
  BY DEF CampaignInv, Typed, TasksTyped, LedgersTyped, SeedResult
<1>2. RestTyped'
  BY <1>1, RestKept DEF SeedResult, Leave, Fail
<1>3. CASE CanResult(ledger[c], status)
  <2>1. proc' = [proc EXCEPT ![p].pc = next] /\ UNCHANGED lease /\ ledger' = [ledger EXCEPT ![c] = m]
    BY <1>1, <1>3 DEF SeedResult, Append
  <2>2. /\ m \in Ledgers /\ m.length > ledger[c].length /\ m.seed = status /\ m.steps = ledger[c].steps
        /\ m.state = ledger[c].state /\ m.started = ledger[c].started /\ m.controls = ledger[c].controls
    BY <1>1, <1>3, ResultedEvent DEF CanResult
  <2>3. LedgersTyped' /\ Grows
    BY <1>1, <2>1, <2>2 DEF CampaignInv, Typed, LedgersTyped, Grows
  <2>4. EvaluatorsSettled'
    BY <1>1, <2>1, <2>2 DEF CampaignInv, Typed, LedgersTyped, EvaluatorsSettled, Relies, Measuring
  <2>5. evaluator = {}
    BY <1>1, CampaignAssumption DEF CampaignInv, Relies, Measuring, Shared, SeedsFenced, RestTyped
  <2>6. SeedsFenced'
    BY <1>1, <2>5 DEF SeedsFenced, universe
  <2>7. StepsReserved'
    BY <1>1, <2>1, <2>2 DEF CampaignInv, Typed, LedgersTyped, Shared, StepsReserved, universe
  <2>8. SessionsRecorded'
    BY <1>1, <2>1, <2>2 DEF CampaignInv, Typed, LedgersTyped, Shared, SessionsRecorded
  <2>9. TasksTyped' /\ proc'[p].pc \in {"looping", "held"} /\ Alone(p)
    BY <1>1, <2>1 DEF TasksTyped, Tasks, Pcs, Unseeded, Leaving, Alone, Outside
  <2>10. Relies(p)' /\ Enrolled(p)'
    BY <2>4, <2>9 DEF Relies, Enrolled, Unseeded, Measuring
  <2> QED  BY <1>2, <2>3, <2>6, <2>7, <2>8, <2>9, <2>10 DEF Inside, Typed, Shared
<1>4. CASE ~CanResult(ledger[c], status)
  <2>1. Quits(p) /\ UNCHANGED ledger  BY <1>1, <1>4, FailQuits DEF SeedResult
  <2> QED  BY <1>1, <1>2, <2>1, QuitsInside, NothingKeeps DEF Outside
<1> QED  BY <1>3, <1>4

\* An evaluator whose end is not confirmed leaves the intent open.
LEMMA SeedUnconfirmedInside ==
  ASSUME CampaignInv, NEW p \in Runners, SeedUnconfirmed(p)
  PROVE  Inside(p)
<1>1. /\ TasksTyped /\ RestTyped /\ proc[p].pc = "measuring" /\ UNCHANGED <<ledger, lease, universe, ask, life>>
      /\ Mishap /\ proc' = [proc EXCEPT ![p].pc = "held"]
  BY DEF CampaignInv, Typed, SeedUnconfirmed
<1>2. LedgersTyped' /\ RestTyped' /\ Grows /\ Shared'
  BY <1>1, RestKept, NothingKeeps
<1>3. TasksTyped' /\ proc'[p].pc = "held" /\ Alone(p)
  BY <1>1 DEF TasksTyped, Tasks, Pcs, Leaving, Alone, Outside
<1> QED  BY <1>2, <1>3 DEF Inside, Typed, Relies, Enrolled, Unseeded, Measuring

\* An intent without a result pauses the campaign.
LEMMA SeedHeldInside ==
  ASSUME CampaignInv, NEW p \in Runners, SeedHeld(p)
  PROVE  Inside(p)
<1>1. /\ TasksTyped /\ RestTyped /\ proc[p].pc = "held" /\ UNCHANGED <<ledger, universe, ask, life, mishaps>>
      /\ Finish(p, "paused")
  BY DEF CampaignInv, Typed, SeedHeld
<1>2. RestTyped'  BY <1>1, RestKept DEF Finish, Leave
<1>3. Quits(p)  BY <1>1, FinishQuits DEF Settlements
<1> QED  BY <1>1, <1>2, <1>3, QuitsInside, NothingKeeps DEF Outside

(***************************************************************************)
(* The loop.                                                               *)
(***************************************************************************)
LEMMA FailingInside ==
  ASSUME CampaignInv, NEW p \in Runners, Failing(p)
  PROVE  Inside(p)
<1>1. /\ TasksTyped /\ RestTyped /\ proc[p].pc = "failing" /\ UNCHANGED <<ledger, universe, ask, life, mishaps>>
      /\ Finish(p, "failed")
  BY DEF CampaignInv, Typed, Failing
<1>2. RestTyped'  BY <1>1, RestKept DEF Finish, Leave
<1>3. Quits(p)  BY <1>1, FinishQuits DEF Settlements
<1> QED  BY <1>1, <1>2, <1>3, QuitsInside, NothingKeeps DEF Outside

\* An append that throws takes the runner out.
LEMMA BusyInside ==
  ASSUME CampaignInv, NEW p \in Runners, Busy(p)
  PROVE  Inside(p)
<1>1. /\ TasksTyped /\ RestTyped /\ proc[p].pc \notin Outside /\ UNCHANGED <<ledger, universe, ask, life>>
      /\ Mishap /\ Fail(p)
  BY DEF CampaignInv, Typed, Busy, Outside
<1>2. RestTyped'  BY <1>1, RestKept DEF Fail, Leave
<1>3. Quits(p)  BY <1>1, FailQuits DEF Outside
<1> QED  BY <1>1, <1>2, <1>3, QuitsInside, NothingKeeps

\* The campaign is settled.
LEMMA SettleInside ==
  ASSUME CampaignInv, NEW p \in Runners, Settle(p)
  PROVE  Inside(p)
<1> DEFINE c == proc[p].camp
           m == Settled(ledger[c], proc[p].want)
<1>1. /\ TasksTyped /\ RestTyped /\ c \in Campaigns /\ ledger[c] \in Ledgers /\ proc[p].want \in Settlements
      /\ proc[p].pc = "settling" /\ UNCHANGED <<universe, ask, life, mishaps>>
  BY DEF CampaignInv, Typed, TasksTyped, LedgersTyped, Settle
<1>2. RestTyped'
  BY <1>1, RestKept DEF Settle, Leave, Fail
<1>3. CASE Pinned(p) /\ CanSettle(ledger[c], c, proc[p].want)
  <2>1. m \in Ledgers /\ m.length > ledger[c].length /\ m.seed = ledger[c].seed /\ m.steps = ledger[c].steps /\ m.state \notin {"running", "ready"}
    BY <1>1, <1>3, SettledEvent DEF CanSettle
  <2>2. LedgersTyped' /\ Grows /\ Shared'
    BY <1>1, <1>3, <2>1, EventKeeps DEF Settle
  <2>3. Quits(p)  BY <1>1, <1>3, LeaveQuits DEF Settle
  <2> QED  BY <1>1, <1>2, <2>2, <2>3, QuitsInside DEF Outside
<1>4. CASE ~(Pinned(p) /\ CanSettle(ledger[c], c, proc[p].want))
  <2>1. Quits(p) /\ UNCHANGED ledger  BY <1>1, <1>4, FailQuits DEF Settle
  <2> QED  BY <1>1, <1>2, <2>1, QuitsInside, NothingKeeps DEF Outside
<1> QED  BY <1>3, <1>4

\* The head of the loop: the campaign ends, or a generation is to be reserved.
LEMMA TopInside ==
  ASSUME CampaignInv, NEW p \in Runners, NEW cancelled \in BOOLEAN, NEW late \in BOOLEAN, Top(p, cancelled, late)
  PROVE  Inside(p)
<1>1. /\ TasksTyped /\ RestTyped /\ proc[p].camp \in Campaigns /\ proc[p].pc = "looping"
      /\ UNCHANGED <<ledger, universe, ask, life>> /\ EvaluatorsSettled
      /\ \/ \E wanted \in Settlements : Finish(p, wanted)
         \/ proc' = [proc EXCEPT ![p].pc = "reserving"] /\ UNCHANGED lease
  BY DEF CampaignInv, Typed, TasksTyped, Top, Relies, Unseeded, Settlements
<1>2. RestTyped'
  BY <1>1, RestKept DEF Top, Finish, Leave, Cancels
<1>3. LedgersTyped' /\ Grows /\ Shared' /\ EvaluatorsSettled'
  BY <1>1, NothingKeeps
<1>4. CASE \E wanted \in Settlements : Finish(p, wanted)
  <2>1. Quits(p)  BY <1>1, <1>4, FinishQuits
  <2> QED  BY <1>1, <1>2, <1>3, <2>1, QuitsInside DEF Outside
<1>5. CASE proc' = [proc EXCEPT ![p].pc = "reserving"] /\ UNCHANGED lease
  <2>1. TasksTyped' /\ proc'[p].pc = "reserving" /\ Alone(p)
    BY <1>1, <1>5 DEF TasksTyped, Tasks, Pcs, Unseeded, Alone, Outside
  <2>2. Relies(p)' /\ Enrolled(p)'
    BY <1>3, <2>1 DEF Relies, Enrolled, Measuring
  <2> QED  BY <1>2, <1>3, <2>1, <2>2 DEF Inside, Typed
<1> QED  BY <1>1, <1>4, <1>5

\* A reserved step has no run yet: all runs have smaller numbers.
LEMMA ReserveInside ==
  ASSUME CampaignInv, NEW p \in Runners, Reserve(p)
  PROVE  Inside(p)
<1> DEFINE c == proc[p].camp
           m == Stepped(ledger[c], Total + 1)
<1>1. /\ TasksTyped /\ RestTyped /\ c \in Campaigns /\ ledger[c] \in Ledgers /\ EvaluatorsSettled
      /\ proc[p].pc = "reserving" /\ UNCHANGED <<universe, ask, life, mishaps>>
  BY DEF CampaignInv, Typed, TasksTyped, LedgersTyped, Reserve, Relies, Unseeded
<1>2. RestTyped'
  BY <1>1, RestKept DEF Reserve, Leave, Fail
<1>3. CASE CanStep(ledger[c], c)
  <2>1. proc' = [proc EXCEPT ![p].pc = "reserved"] /\ UNCHANGED lease /\ ledger' = [ledger EXCEPT ![c] = m]
    BY <1>1, <1>3 DEF Reserve, Append
  <2>2. Total + 1 \in Nat
    BY TotalIsNat DEF CampaignInv
  <2>3. /\ m \in Ledgers /\ m.length > ledger[c].length /\ m.seed = ledger[c].seed /\ m.steps = ledger[c].steps + 1
        /\ m.state = ledger[c].state /\ m.started = ledger[c].started /\ m.controls = ledger[c].controls
    BY <1>1, <1>3, <2>2, SteppedEvent DEF CanStep
  <2>4. LedgersTyped' /\ Grows
    BY <1>1, <2>1, <2>3 DEF CampaignInv, Typed, LedgersTyped, Grows
  <2>5. \A d \in Campaigns : ledger'[d].seed = ledger[d].seed
    BY <1>1, <2>1, <2>3 DEF CampaignInv, Typed, LedgersTyped
  <2>6. SeedsFenced' /\ EvaluatorsSettled'
    BY <1>1, <2>5, CampaignAssumption DEF CampaignInv, Shared, SeedsFenced, EvaluatorsSettled, RestTyped, universe
  <2>7. ledger[c].steps \in Nat /\ ledger[c].steps < MaxGenerations /\ ledger'[c].steps = ledger[c].steps + 1
    BY <1>1, <1>3, <2>1, <2>3, CampaignAssumption DEF CampaignInv, Typed, LedgersTyped, Ledgers, CanStep
  <2>8. runs[c] \subseteq 1..ledger[c].steps
    BY <1>1 DEF CampaignInv, Shared, StepsReserved
  <2>9. StepsReserved'
    <3>1. \A d \in Campaigns \ {c} : ledger'[d] = ledger[d]
      BY <2>1 DEF CampaignInv, Typed, LedgersTyped
    <3>2. runs[c] \subseteq 1..ledger'[c].steps
      BY <2>7, <2>8
    <3> QED  BY <1>1, <3>1, <3>2 DEF CampaignInv, Shared, StepsReserved, universe
  <2>10. SessionsRecorded'
    BY <1>1, <2>1, <2>3 DEF CampaignInv, Typed, LedgersTyped, Shared, SessionsRecorded
  <2>11. TasksTyped' /\ proc'[p].pc = "reserved" /\ proc'[p].camp = c /\ Alone(p)
    BY <1>1, <2>1 DEF TasksTyped, Tasks, Pcs, Unseeded, Alone, Outside
  <2>12. ledger'[c].steps \in 1..MaxGenerations /\ ledger'[c].steps \notin runs'[c]
    BY <1>1, <2>7, <2>8, CampaignAssumption DEF universe
  <2>13. Relies(p)' /\ Enrolled(p)'
    BY <2>6, <2>11, <2>12 DEF Relies, Enrolled, Measuring
  <2> QED  BY <1>2, <2>4, <2>6, <2>9, <2>10, <2>11, <2>13 DEF Inside, Typed, Shared
<1>4. CASE ~CanStep(ledger[c], c)
  <2>1. Quits(p) /\ UNCHANGED ledger  BY <1>1, <1>4, FailQuits DEF Reserve
  <2> QED  BY <1>1, <1>2, <2>1, QuitsInside, NothingKeeps DEF Outside
<1> QED  BY <1>3, <1>4

\* A reserved generation is started.
LEMMA RunInside ==
  ASSUME CampaignInv, NEW p \in Runners, NEW stopped \in BOOLEAN, Run(p, stopped)
  PROVE  Inside(p)
<1> DEFINE c == proc[p].camp
<1>1. /\ LedgersTyped /\ TasksTyped /\ RestTyped /\ c \in Campaigns /\ EvaluatorsSettled
      /\ proc[p].pc = "reserved" /\ UNCHANGED <<ledger, evaluator, ask, life>>
      /\ UNCHANGED mishaps \/ Mishap
      /\ ledger[c].steps \in 1..MaxGenerations /\ ledger[c].steps \notin runs[c]
  BY DEF CampaignInv, Typed, TasksTyped, Run, Relies, Unseeded, Cancels
<1>2. LedgersTyped' /\ Grows /\ SeedsFenced' /\ SessionsRecorded' /\ EvaluatorsSettled'
  BY <1>1 DEF CampaignInv, LedgersTyped, Grows, Shared, SeedsFenced, SessionsRecorded, EvaluatorsSettled
<1>3. CASE stopped
  <2>1. Quits(p) /\ open' = None /\ UNCHANGED runs  BY <1>1, <1>3, FailQuits DEF Run
  <2>2. StepsReserved'
    BY <1>1, <2>1 DEF CampaignInv, Shared, StepsReserved
  <2>3. RestTyped'
    BY <1>1, <2>1, CampaignAssumption DEF RestTyped, Quits, Mishap
  <2> QED  BY <1>1, <1>2, <2>1, <2>2, <2>3, QuitsInside DEF Outside, Shared
<1>4. CASE ~stopped
  <2>1. /\ open' = [camp |-> c, owner |-> Myself(p)] /\ UNCHANGED lease
        /\ runs' = [runs EXCEPT ![c] = @ \cup {ledger[c].steps}]
        /\ proc' = [proc EXCEPT ![p].pc = "generating"]
    BY <1>4 DEF Run
  <2>2. RestTyped'
    BY <1>1, <2>1, CampaignAssumption DEF RestTyped, Mishap
  <2>3. StepsReserved'
    <3>1. \A d \in Campaigns \ {c} : runs'[d] = runs[d]
      BY <1>1, <2>1 DEF RestTyped
    <3>2. runs'[c] = runs[c] \cup {ledger[c].steps}
      BY <1>1, <2>1 DEF RestTyped
    <3>3. runs'[c] \subseteq 1..ledger[c].steps
      BY <1>1, <3>2, CampaignAssumption DEF CampaignInv, Shared, StepsReserved
    <3>4. open'.camp = c
      BY <2>1
    <3> QED  BY <1>1, <3>1, <3>2, <3>3, <3>4 DEF CampaignInv, Shared, StepsReserved
  <2>4. TasksTyped' /\ proc'[p].pc = "generating" /\ Alone(p)
    BY <1>1, <2>1 DEF TasksTyped, Tasks, Pcs, Unseeded, Alone, Outside
  <2>5. Relies(p)' /\ Enrolled(p)'
    BY <1>2, <2>4 DEF Relies, Enrolled, Measuring
  <2> QED  BY <1>2, <2>2, <2>3, <2>4, <2>5 DEF Inside, Typed, Shared
<1> QED  BY <1>3, <1>4

\* A generation ends: the loop goes on or the campaign is settled.
LEMMA RanInside ==
  ASSUME CampaignInv, NEW p \in Runners, NEW wanted \in Outcomes, Ran(p, wanted)
  PROVE  Inside(p)
<1>1. /\ LedgersTyped /\ TasksTyped /\ RestTyped /\ proc[p].camp \in Campaigns /\ EvaluatorsSettled
      /\ proc[p].pc = "generating" /\ UNCHANGED <<ledger, evaluator, runs, ask, life, mishaps>> /\ open' = None
  BY DEF CampaignInv, Typed, TasksTyped, Ran, Relies, Unseeded
<1>2. LedgersTyped' /\ Grows /\ Shared' /\ EvaluatorsSettled'
  BY <1>1 DEF CampaignInv, LedgersTyped, Grows, Shared, SeedsFenced, StepsReserved, SessionsRecorded, EvaluatorsSettled
<1>3. RestTyped'
  BY <1>1 DEF Ran, RestTyped, Finish, Leave
<1>4. CASE wanted # None
  <2>1. Quits(p)  BY <1>1, <1>4, FinishQuits DEF Ran, Outcomes, Settlements
  <2> QED  BY <1>1, <1>2, <1>3, <2>1, QuitsInside DEF Outside
<1>5. CASE wanted = None
  <2>1. proc' = [proc EXCEPT ![p].pc = "looping"] /\ UNCHANGED lease
    BY <1>5 DEF Ran
  <2>2. TasksTyped' /\ proc'[p].pc = "looping" /\ Alone(p)
    BY <1>1, <2>1 DEF TasksTyped, Tasks, Pcs, Unseeded, Alone, Outside
  <2>3. Relies(p)' /\ Enrolled(p)'
    BY <1>2, <2>2 DEF Relies, Enrolled, Measuring
  <2> QED  BY <1>2, <1>3, <2>2, <2>3 DEF Inside, Typed
<1> QED  BY <1>4, <1>5

(***************************************************************************)
(* Steps outside the lease.                                                *)
(***************************************************************************)
LEMMA OutsideSuffices ==
  ASSUME CampaignInv, NEW p \in Runners, UNCHANGED <<ledger, universe>>,
         TasksTyped', RestTyped', LeaseHeld', \A q \in Runners \ {p} : proc'[q] = proc[q],
         Relies(p)', p \in Queues => Enrolled(p)'
  PROVE  CampaignInv'
<1>1. LedgersTyped' /\ Shared'
  BY NothingKeeps
<1>2. ASSUME NEW q \in Runners PROVE Relies(q)'
  <2>1. CASE q = p  BY <2>1
  <2>2. CASE q # p  BY <2>2 DEF CampaignInv, Relies, EvaluatorsSettled, universe
  <2> QED  BY <2>1, <2>2
<1>3. ASSUME NEW q \in Queues PROVE Enrolled(q)'
  <2>1. CASE q = p  BY <2>1
  <2>2. CASE q # p  BY <2>2 DEF CampaignInv, Enrolled, Runners
  <2> QED  BY <2>1, <2>2
<1> QED  BY <1>1, <1>2, <1>3 DEF CampaignInv, Typed

\* A free lease, or one whose owner is dead, has nobody past admission.
LEMMA NobodyInside ==
  ASSUME CampaignInv, ~Owned, NEW q \in Runners
  PROVE  proc[q].pc \in Outside
<1>1. Myself(q) # None /\ Lives(Myself(q))
  BY CampaignAssumption DEF CampaignInv, Typed, RestTyped, Myself, Lives, Runners
<1> QED  BY <1>1 DEF CampaignInv, LeaseHeld, Owned

\* A campaign is enrolled.
LEMMA EnrolKeeps ==
  ASSUME CampaignInv, NEW p \in Runners, NEW c \in Campaigns, Enrol(p, c)
  PROVE  CampaignInv'
<1> DEFINE t == [Idle EXCEPT !.pc = "queued", !.camp = c, !.pin = ledger[c].length]
<1>1. /\ TasksTyped /\ RestTyped /\ LedgersTyped /\ UNCHANGED <<ledger, lease, universe, ask, life, mishaps>>
      /\ proc' = [proc EXCEPT ![p] = t] /\ ledger[c].state = "ready" /\ ~ledger[c].started
  BY DEF CampaignInv, Typed, Enrol, Startable
<1>2. ledger[c].length \in 1..MaxEvents /\ ledger[c].controls = 0
  BY <1>1 DEF CampaignInv, Shared, SessionsRecorded, LedgersTyped, Ledgers
<1>3. t \in Tasks /\ t.pc = "queued" /\ t.camp = c /\ t.pin = ledger[c].length
  BY <1>2 DEF Idle, Tasks, Pcs, Outside
<1>4. TasksTyped' /\ proc'[p] = t /\ \A q \in Runners \ {p} : proc'[q] = proc[q]
  BY <1>1, <1>3, MoveTyped
<1>5. RestTyped'  BY <1>1, RestKept
<1>6. LeaseHeld'
  BY <1>1, <1>3, <1>4 DEF CampaignInv, LeaseHeld, Myself, Outside
<1>7. Relies(p)'
  BY <1>3, <1>4 DEF Relies, Unseeded, Measuring
<1>8. Enrolled(p)'
  <2>1. proc'[p].pc = "queued" /\ proc'[p].camp = c /\ proc'[p].pin = ledger[c].length
    BY <1>3, <1>4
  <2>2. ledger[c].length # None /\ ledger[c].length <= ledger[c].length
    BY <1>2, CampaignAssumption
  <2> QED  BY <1>1, <1>2, <2>1, <2>2 DEF Enrolled
<1> QED  BY <1>1, <1>4, <1>5, <1>6, <1>7, <1>8, OutsideSuffices

\* A poll dispatches the campaign or drops it.
LEMMA PollKeeps ==
  ASSUME CampaignInv, NEW p \in Runners, Poll(p)
  PROVE  CampaignInv'
<1>1. /\ TasksTyped /\ RestTyped /\ proc[p].pc = "queued" /\ UNCHANGED <<ledger, lease, universe, ask, life, mishaps>>
      /\ proc' = [proc EXCEPT ![p] = [@ EXCEPT !.pc = "called"]] \/ proc' = [proc EXCEPT ![p] = Idle]
  BY DEF CampaignInv, Typed, Poll
<1>2. TasksTyped' /\ \A q \in Runners \ {p} : proc'[q] = proc[q]
  <2>1. Idle \in Tasks /\ Idle.pc = "idle"
    BY DEF Tasks, Pcs, Outside, Idle
  <2> DEFINE t == [proc[p] EXCEPT !.pc = "called"]
  <2>2. t \in Tasks /\ t.pc = "called" /\ t.camp \in Campaigns
    BY <1>1 DEF TasksTyped, Tasks, Pcs, Outside
  <2>3. proc' = [proc EXCEPT ![p] = t] \/ proc' = [proc EXCEPT ![p] = Idle]
    BY <1>1
  <2> QED  BY <1>1, <2>1, <2>2, <2>3, MoveTyped
<1>3. \/ proc'[p].pc = "called" /\ proc'[p].camp = proc[p].camp /\ proc'[p].pin = proc[p].pin
      \/ proc'[p].pc = "idle"
  BY <1>1 DEF TasksTyped, Tasks, Idle
<1>4. RestTyped'  BY <1>1, RestKept
<1>5. LeaseHeld'
  BY <1>1, <1>2, <1>3 DEF CampaignInv, LeaseHeld, Myself, Outside
<1>6. Relies(p)'
  BY <1>3 DEF Relies, Unseeded, Measuring
<1>7. p \in Queues => Enrolled(p)'
  BY <1>1, <1>3 DEF CampaignInv, Enrolled
<1> QED  BY <1>1, <1>2, <1>4, <1>5, <1>6, <1>7, OutsideSuffices

\* A runner that finds the lease taken is turned away.
LEMMA TurnedAwayKeeps ==
  ASSUME CampaignInv, NEW p \in Runners, TurnedAway(p)
  PROVE  CampaignInv'
<1>1. /\ TasksTyped /\ RestTyped /\ UNCHANGED <<ledger, lease, universe, ask, life, mishaps>>
      /\ proc' = [proc EXCEPT ![p] = Idle]
  BY DEF CampaignInv, Typed, TurnedAway
<1>2. TasksTyped' /\ proc'[p].pc = "idle" /\ \A q \in Runners \ {p} : proc'[q] = proc[q]
  BY <1>1 DEF TasksTyped, Tasks, Pcs, Outside, Idle
<1>3. RestTyped'  BY <1>1, RestKept
<1>4. LeaseHeld'
  BY <1>1, <1>2 DEF CampaignInv, LeaseHeld, Myself, Outside
<1>5. Relies(p)' /\ Enrolled(p)'
  BY <1>2 DEF Relies, Enrolled, Unseeded, Measuring
<1> QED  BY <1>1, <1>2, <1>3, <1>4, <1>5, OutsideSuffices

\* A free or stale lease is taken: its holder is the only runner inside.
LEMMA TakeLeaseKeeps ==
  ASSUME CampaignInv, NEW p \in Runners, TakeLease(p)
  PROVE  CampaignInv'
<1>1. /\ TasksTyped /\ RestTyped /\ UNCHANGED <<ledger, universe, ask, life, mishaps>> /\ lease' = Myself(p)
      /\ proc' = [proc EXCEPT ![p].pc = "leased"] /\ proc[p].pc = "called" /\ ~Owned /\ EvaluatorsSettled
  BY DEF CampaignInv, Typed, TakeLease, Available
<1>2. /\ TasksTyped' /\ \A q \in Runners \ {p} : proc'[q] = proc[q]
      /\ proc'[p].pc = "leased" /\ proc'[p].camp = proc[p].camp /\ proc'[p].pin = proc[p].pin
  BY <1>1 DEF TasksTyped, Tasks, Pcs, Unseeded
<1>3. RestTyped'
  BY <1>1 DEF RestTyped, Owners, Myself, universe
<1>4. LeaseHeld'
  BY <1>1, <1>2, NobodyInside DEF LeaseHeld, Myself
<1>5. Relies(p)'
  BY <1>1, <1>2 DEF Relies, Measuring, EvaluatorsSettled
<1>6. p \in Queues => Enrolled(p)'
  BY <1>1, <1>2 DEF CampaignInv, Enrolled
<1> QED  BY <1>1, <1>2, <1>3, <1>4, <1>5, <1>6, OutsideSuffices

\* A runner is called for a campaign.
LEMMA CallKeeps ==
  ASSUME CampaignInv, NEW p \in Runners, NEW c \in Campaigns, Call(p, c)
  PROVE  CampaignInv'
<1> DEFINE t == [Idle EXCEPT !.pc = "leased", !.camp = c]
<1>1. /\ TasksTyped /\ RestTyped /\ UNCHANGED <<ledger, universe, ask, life, mishaps>> /\ lease' = Myself(p)
      /\ proc' = [proc EXCEPT ![p] = t] /\ p \in Callers /\ ~Owned /\ EvaluatorsSettled
  BY DEF CampaignInv, Typed, Call, Available
<1>2. t \in Tasks /\ t.pc = "leased" /\ t.camp = c
  BY DEF Idle, Tasks, Pcs, Unseeded
<1>3. TasksTyped' /\ proc'[p] = t /\ \A q \in Runners \ {p} : proc'[q] = proc[q]
  BY <1>1, <1>2, MoveTyped
<1>4. RestTyped'
  BY <1>1 DEF RestTyped, Owners, Myself, universe
<1>5. LeaseHeld'
  BY <1>1, <1>3, NobodyInside DEF LeaseHeld, Myself
<1>6. Relies(p)'
  BY <1>1, <1>2, <1>3 DEF Relies, Measuring, EvaluatorsSettled
<1>7. p \notin Queues
  BY <1>1, CampaignAssumption
<1> QED  BY <1>1, <1>3, <1>4, <1>5, <1>6, <1>7, OutsideSuffices

\* The lease of the dead stays until somebody takes it over.
LEMMA DieKeeps ==
  ASSUME CampaignInv, NEW p \in Runners, Die(p)
  PROVE  CampaignInv'
<1>1. /\ TasksTyped /\ RestTyped /\ UNCHANGED <<ledger, lease, universe, ask>> /\ Mishap
      /\ proc' = [proc EXCEPT ![p] = Idle] /\ life' = [life EXCEPT ![p] = @ + 1]
  BY DEF CampaignInv, Typed, Die
<1>2. TasksTyped' /\ proc'[p].pc = "idle" /\ \A q \in Runners \ {p} : proc'[q] = proc[q]
  BY <1>1 DEF TasksTyped, Tasks, Pcs, Outside, Idle
<1>3. \A q \in Runners : life'[q] \in 0..MaxMishaps /\ life'[q] <= mishaps'
  BY <1>1, CampaignAssumption DEF RestTyped, Mishap
<1>4. RestTyped'
  BY <1>1, <1>3, CampaignAssumption DEF RestTyped, Mishap, universe
<1>5. LeaseHeld'
  BY <1>1, <1>2 DEF CampaignInv, LeaseHeld, Myself, Outside, RestTyped
<1>6. Relies(p)' /\ Enrolled(p)'
  BY <1>2 DEF Relies, Enrolled, Unseeded, Measuring
<1> QED  BY <1>1, <1>2, <1>4, <1>5, <1>6, OutsideSuffices

(***************************************************************************)
(* Steps of nobody's runner: controls of the owner, the end of an          *)
(* evaluator.                                                              *)
(***************************************************************************)
LEMMA AsideSuffices ==
  ASSUME CampaignInv, UNCHANGED <<proc, lease, life, runs>>, LedgersTyped', RestTyped', Grows, Shared',
         \A c \in Campaigns : ledger'[c].seed = ledger[c].seed /\ ledger'[c].steps = ledger[c].steps
  PROVE  CampaignInv'
<1>1. TasksTyped' /\ LeaseHeld'
  BY DEF CampaignInv, Typed, TasksTyped, LeaseHeld, Myself
<1>2. ASSUME NEW p \in Runners PROVE Relies(p)'
  <2>1. CASE proc[p].pc = "idle"
    BY <2>1 DEF Relies, Unseeded, Measuring
  <2>2. CASE proc[p].pc # "idle"
    BY <2>2 DEF CampaignInv, Typed, TasksTyped, Relies, EvaluatorsSettled
  <2> QED  BY <2>1, <2>2
<1>3. ASSUME NEW q \in Queues PROVE Enrolled(q)'
  <2>1. CASE proc[q].pc = "idle"  BY <2>1 DEF Enrolled
  <2>2. CASE proc[q].pc # "idle"
    <3> DEFINE c == proc[q].camp
    <3>1. c \in Campaigns /\ Enrolled(q) /\ (proc[q].pin # None => proc[q].pin \in Nat)
      BY <2>2, CampaignAssumption DEF CampaignInv, Typed, TasksTyped, Tasks, Runners
    <3>2. ledger[c].length \in Nat /\ ledger'[c].length \in Nat
      BY <3>1, CampaignAssumption DEF CampaignInv, Typed, LedgersTyped, Ledgers
    <3>3. ledger'[c] = ledger[c] \/ ledger'[c].length > ledger[c].length
      BY <3>1 DEF Grows
    <3> QED  BY <3>1, <3>2, <3>3 DEF Enrolled
  <2> QED  BY <2>1, <2>2
<1> QED  BY <1>1, <1>2, <1>3 DEF CampaignInv, Typed

\* An operator asks for a pause or stop.
LEMMA ControlKeeps ==
  ASSUME CampaignInv, NEW o \in Requesters, NEW c \in Campaigns, NEW action \in {"pause", "stop"},
         Control(o, c, action)
  PROVE  CampaignInv'
<1> DEFINE m == Controlled(ledger[c], action)
<1>1. /\ LedgersTyped /\ RestTyped /\ ledger[c] \in Ledgers /\ Append(c, m) /\ Room(ledger[c])
      /\ UNCHANGED <<lease, universe, proc, life, mishaps>>
  BY DEF CampaignInv, Typed, LedgersTyped, Control, CanControl
<1>2. m \in Ledgers /\ m.length > ledger[c].length /\ m.seed = ledger[c].seed /\ m.steps = ledger[c].steps
      /\ m.state \notin {"running", "ready"}
  BY <1>1, ControlledEvent
<1>3. LedgersTyped' /\ Grows /\ Shared'
  BY <1>1, <1>2, EventKeeps
<1>4. \A d \in Campaigns : ledger'[d].seed = ledger[d].seed /\ ledger'[d].steps = ledger[d].steps
  BY <1>1, <1>2 DEF LedgersTyped, Append
<1>5. RestTyped'
  <2>1. PICK a : /\ ask' = ask \/ ask' = [ask EXCEPT ![o] = a]
                 /\ a.camp = c /\ a.state \in {"paused", "stopped"}
    <3> DEFINE a == [camp |-> c, state |-> IF action = "stop" THEN "stopped" ELSE "paused"]
    <3>1. a.camp = c /\ a.state \in {"paused", "stopped"}
      OBVIOUS
    <3>2. ask' = ask \/ ask' = [ask EXCEPT ![o] = a]
      BY DEF Control
    <3> QED  BY <3>1, <3>2
  <2> QED  BY <1>1, <2>1 DEF RestTyped, universe
<1> QED  BY <1>1, <1>3, <1>4, <1>5, AsideSuffices DEF universe

\* A control without a live owner is settled by who asked.
LEMMA ControlSettlesKeeps ==
  ASSUME CampaignInv, NEW o \in Requesters, ControlSettles(o)
  PROVE  CampaignInv'
<1> DEFINE c == ask[o].camp
           m == Settled(ledger[c], ask[o].state)
<1>1. /\ LedgersTyped /\ RestTyped /\ c \in Campaigns /\ ledger[c] \in Ledgers /\ ask[o].state \in Settlements
      /\ ask' = [ask EXCEPT ![o] = None] /\ UNCHANGED <<lease, universe, proc, life, mishaps>>
  BY DEF CampaignInv, Typed, LedgersTyped, RestTyped, ControlSettles, Settlements
<1>2. RestTyped'
  BY <1>1 DEF RestTyped, universe
<1>3. CASE CanSettle(ledger[c], c, ask[o].state)
  <2>1. Append(c, m)
    BY <1>3 DEF ControlSettles, Append
  <2>2. m \in Ledgers /\ m.length > ledger[c].length /\ m.seed = ledger[c].seed /\ m.steps = ledger[c].steps
        /\ m.state \notin {"running", "ready"}
    BY <1>1, <1>3, SettledEvent DEF CanSettle
  <2>3. LedgersTyped' /\ Grows /\ Shared'
    BY <1>1, <2>1, <2>2, EventKeeps
  <2>4. \A d \in Campaigns : ledger'[d].seed = ledger[d].seed /\ ledger'[d].steps = ledger[d].steps
    BY <1>1, <2>1, <2>2 DEF LedgersTyped, Append
  <2> QED  BY <1>1, <1>2, <2>3, <2>4, AsideSuffices DEF universe
<1>4. CASE ~CanSettle(ledger[c], c, ask[o].state)
  <2>1. UNCHANGED ledger  BY <1>4 DEF ControlSettles
  <2> QED  BY <1>1, <1>2, <2>1, NothingKeeps, AsideSuffices DEF universe
<1> QED  BY <1>3, <1>4

\* The process that asked dies.
LEMMA RequesterDiesKeeps ==
  ASSUME CampaignInv, NEW o \in Requesters, RequesterDies(o)
  PROVE  CampaignInv'
<1>1. RestTyped /\ ask' = [ask EXCEPT ![o] = None] /\ UNCHANGED <<ledger, lease, universe, proc, life>> /\ Mishap
  BY DEF CampaignInv, Typed, RequesterDies
<1>2. RestTyped'
  BY <1>1, CampaignAssumption DEF RestTyped, universe, Mishap
<1> QED  BY <1>1, <1>2, NothingKeeps, AsideSuffices DEF universe

\* An evaluator ends.
LEMMA EvaluatorExitsKeeps ==
  ASSUME CampaignInv, NEW c \in Campaigns, EvaluatorExits(c)
  PROVE  CampaignInv'
<1>1. /\ LedgersTyped /\ RestTyped /\ evaluator' = evaluator \ {c}
      /\ UNCHANGED <<ledger, lease, runs, open, proc, ask, life, mishaps>>
  BY DEF CampaignInv, Typed, EvaluatorExits
<1>2. LedgersTyped' /\ RestTyped' /\ Grows
  BY <1>1 DEF LedgersTyped, RestTyped, Grows
<1>3. Shared'
  BY <1>1 DEF CampaignInv, Shared, SeedsFenced, StepsReserved, SessionsRecorded
<1> QED  BY <1>1, <1>2, <1>3, AsideSuffices

(***************************************************************************)
(* The theorems.                                                           *)
(***************************************************************************)
\* The universe starts with fresh ledgers and nobody at work.
LEMMA InitEstablishes == Init => CampaignInv
<1> SUFFICES ASSUME Init PROVE CampaignInv
  OBVIOUS
<1>1. Fresh \in Ledgers /\ Fresh.seed = "none" /\ Fresh.state = "ready" /\ Fresh.steps = 0 /\ Fresh.controls = 0
  BY CampaignAssumption DEF Fresh, Ledgers, States
<1>2. Idle \in Tasks /\ Idle.pc = "idle"
  BY DEF Idle, Tasks, Pcs, Outside
<1>3. Typed
  BY <1>1, <1>2, CampaignAssumption DEF Init, Typed, LedgersTyped, TasksTyped, RestTyped
<1>4. LeaseHeld /\ (\A p \in Runners : Relies(p)) /\ (\A p \in Queues : Enrolled(p))
  BY <1>2 DEF Init, LeaseHeld, Outside, Relies, Unseeded, Measuring, Enrolled, Runners
<1>5. Shared
  BY <1>1 DEF Init, Shared, SeedsFenced, StepsReserved, SessionsRecorded
<1> QED  BY <1>3, <1>4, <1>5 DEF CampaignInv

\* Every step of a runner, a requester or an evaluator keeps the invariant.
LEMMA NextKeeps == CampaignInv /\ [Next]_vars => CampaignInv'
<1> SUFFICES ASSUME CampaignInv, [Next]_vars PROVE CampaignInv'
  OBVIOUS
<1>1. ASSUME NEW p \in Runners, Queue(p) PROVE CampaignInv'
  BY <1>1, PollKeeps, EnrolKeeps, CallKeeps DEF Queue
<1>2. ASSUME NEW p \in Runners, Admission(p) PROVE CampaignInv'
  BY <1>2, TakeLeaseKeeps, TurnedAwayKeeps, ReconcileInside, InterruptInside, AdmitInside, StartInside,
     InsideSuffices DEF Admission
<1>3. ASSUME NEW p \in Runners, Seeding(p) PROVE CampaignInv'
  BY <1>3, SeedConflictInside, SpawnEvaluatorInside, SeedUnconfirmedInside, SeedHeldInside, SeedInside,
     SeedResultInside, InsideSuffices DEF Seeding
<1>4. ASSUME NEW p \in Runners, Loop(p) PROVE CampaignInv'
  BY <1>4, ReserveInside, FailingInside, SettleInside, BusyInside, TopInside, RunInside, RanInside,
     InsideSuffices DEF Loop
<1>5. CASE UNCHANGED vars
  BY <1>5 DEF vars, universe, CampaignInv, Typed, LedgersTyped, TasksTyped, RestTyped, LeaseHeld, Myself, Shared,
     SeedsFenced, StepsReserved, SessionsRecorded, Relies, EvaluatorsSettled, Enrolled
<1> QED
  BY <1>1, <1>2, <1>3, <1>4, <1>5, DieKeeps, ControlKeeps, ControlSettlesKeeps, RequesterDiesKeeps,
     EvaluatorExitsKeeps DEF Next

\* CampaignInv is inductive: the lease holder is the only runner inside, and what runs has been
\* recorded before it was started.
THEOREM CampaignInvariant == Spec => []CampaignInv
BY InitEstablishes, NextKeeps, PTL DEF Spec

\* Ledgers stay well formed and within their bounds, and a runner past admission holds
\* the execution lease of the universe.
THEOREM TypeCorrect == Spec => []TypeOK
<1>1. CampaignInv => TypeOK
  BY DEF CampaignInv, Typed, LedgersTyped, Ledgers, RestTyped, Shared, StepsReserved, LeaseHeld, Outside, TypeOK
<1> QED  BY <1>1, CampaignInvariant, PTL

\* A seed evaluator that may live is alone in the universe, also after the death of the
\* process that started it.
THEOREM EvaluatorAlone == Spec => []EvaluatorFenced
<1>1. CampaignInv => EvaluatorFenced
  BY CampaignAssumption DEF CampaignInv, Typed, RestTyped, Shared, SeedsFenced, Relies, Unseeded, EvaluatorsSettled, EvaluatorFenced
<1> QED  BY <1>1, CampaignInvariant, PTL

\* Generations run only on a reservation, and never twice on the same one.
THEOREM NoReplay == Spec => []WorkReserved
<1>1. CampaignInv => WorkReserved
  BY DEF CampaignInv, Shared, StepsReserved, Relies, WorkReserved
<1> QED  BY <1>1, CampaignInvariant, PTL

\* Only the runner itself can turn the campaign it is starting into a running one, and
\* only on the history it has pinned.
LEMMA StartPinned ==
  ASSUME CampaignInv, Next, NEW p \in Queues, StartsSession(p)
  PROVE  ledger[proc[p].camp].controls = 0 /\ ~ledger[proc[p].camp].started
<1> DEFINE c == proc[p].camp
<1>1. /\ p \in Runners /\ proc[p].pc = "starting" /\ c \in Campaigns /\ ledger \in [Campaigns -> Ledgers]
      /\ ledger[c].state # "running" /\ ledger'[c].state = "running" /\ ledger' # ledger
  BY DEF StartsSession, CampaignInv, Typed, TasksTyped, LedgersTyped, Runners
<1>2. \A q \in Runners \ {p} : proc[q].pc \in Outside
  BY <1>1, OneInside DEF Outside
<1>3. ASSUME NEW late \in BOOLEAN, Start(p, late)
      PROVE  ledger[c].controls = 0 /\ ~ledger[c].started
  <2>1. Pinned(p)
    BY <1>1, <1>3 DEF Start, Starts
  <2> QED  BY <1>1, <2>1 DEF CampaignInv, Enrolled, Pinned, Unchanged
<1>4. ASSUME NEW q \in Runners, Queue(q) PROVE FALSE
  BY <1>1, <1>4 DEF Queue, Poll, Enrol, Call
<1>5. ASSUME NEW q \in Runners, Admission(q), \A late \in BOOLEAN : ~Start(p, late) PROVE FALSE
  <2>1. q = p \/ proc[q].pc \in Outside
    BY <1>2
  <2>2. CASE Interrupt(q)
    BY <1>1, <2>1, <2>2 DEF Interrupt, Outside
  <2>3. CASE \E late \in BOOLEAN : Start(q, late)
    BY <1>5, <2>1, <2>3 DEF Start, Outside
  <2> QED  BY <1>1, <1>5, <2>2, <2>3 DEF Admission, TakeLease, TurnedAway, Reconcile, Admit
<1>6. ASSUME NEW q \in Runners, Seeding(q) PROVE FALSE
  <2>1. q = p \/ proc[q].pc \in Outside
    BY <1>2
  <2> QED  BY <1>1, <1>6, <2>1
           DEF Seeding, Seed, SeedConflict, SpawnEvaluator, SeedResult, SeedUnconfirmed, SeedHeld, Outside
<1>7. ASSUME NEW q \in Runners, Loop(q) PROVE FALSE
  <2>1. q = p \/ proc[q].pc \in Outside
    BY <1>2
  <2>2. ~Reserve(q) /\ ~Settle(q)
    BY <1>1, <2>1 DEF Reserve, Settle, Outside
  <2> QED  BY <1>1, <1>7, <2>2 DEF Loop, Failing, Busy, Top, Run, Ran
<1>8. ASSUME NEW o \in Requesters, NEW d \in Campaigns, NEW action \in {"pause", "stop"}, Control(o, d, action)
      PROVE  FALSE
  <2>1. Controlled(ledger[d], action).state \notin {"running", "ready"}
    BY <1>1, <1>8, ControlledEvent DEF Control, CanControl
  <2> QED  BY <1>1, <1>8, <2>1 DEF Control, Append
<1>9. ASSUME NEW o \in Requesters, ControlSettles(o) PROVE FALSE
  <2> DEFINE d == ask[o].camp
  <2>1. d \in Campaigns /\ ask[o].state \in Settlements
    BY <1>9 DEF ControlSettles, CampaignInv, Typed, RestTyped, Settlements
  <2>2. CanSettle(ledger[d], d, ask[o].state) /\ ledger' = [ledger EXCEPT ![d] = Settled(ledger[d], ask[o].state)]
    BY <1>1, <1>9 DEF ControlSettles
  <2>3. Settled(ledger[d], ask[o].state).state # "running"
    BY <1>1, <2>1, <2>2, SettledEvent DEF CanSettle
  <2> QED  BY <1>1, <2>1, <2>2, <2>3
<1> QED
  BY <1>1, <1>3, <1>4, <1>5, <1>6, <1>7, <1>8, <1>9 DEF Next, Die, RequesterDies, EvaluatorExits

\* A session of the queue starts on the history it was enrolled with, whatever the owner
\* and other runners did in between.
THEOREM QueuePinned == Spec => PinHolds
<1>1. CampaignInv /\ [Next]_vars =>
        [\A p \in Queues : StartsSession(p) =>
           ledger[proc[p].camp].controls = 0 /\ ~ledger[proc[p].camp].started]_vars
  BY StartPinned
<1> QED  BY <1>1, CampaignInvariant, PTL DEF Spec, PinHolds
=============================================================================
