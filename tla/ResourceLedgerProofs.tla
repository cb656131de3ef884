------------------------ MODULE ResourceLedgerProofs ------------------------
(***************************************************************************)
(* Proofs about ResourceLedger for every pool, every set of tasks, runs and *)
(* consoles, and every evidence they may bring.                            *)
(***************************************************************************)
EXTENDS ResourceLedger, FiniteSetTheorems, WellFoundedInduction, TLAPS

(***************************************************************************)
(* Admission policy.                                                       *)
(***************************************************************************)
\* The selected worker is a candidate.
LEMMA SelectedIsOpen ==
  ASSUME NEW w, NEW allowed, NEW s, Selects(w, allowed, s)
  PROVE  w \in allowed /\ ~ EvidenceExcluded(w, s) /\ ~ CapacityExcluded(w, s)
BY DEF Selects, Candidates

\* Min and Max of two numbers are one of them.
LEMMA PairBounds ==
  ASSUME NEW a \in Int, NEW b \in Int
  PROVE  Min({a, b}) \in {a, b} /\ Max({a, b}) \in {a, b}
<1>1. \E x \in {a, b} : \A y \in {a, b} : x <= y
  <2>1. CASE a <= b  BY <2>1
  <2>2. CASE b <= a  BY <2>2
  <2> QED  BY <2>1, <2>2
<1>2. \E x \in {a, b} : \A y \in {a, b} : x >= y
  <2>1. CASE a <= b  BY <2>1
  <2>2. CASE b <= a  BY <2>2
  <2> QED  BY <2>1, <2>2
<1> QED  BY <1>1, <1>2 DEF Min, Max

\* Merging a row into a known one yields a well-formed row.
LEMMA MergeKnownTyped ==
  ASSUME NEW before, NEW item, NEW clock \in Nat, Observation(before), Observation(item)
  PROVE  Observation(MergeKnown(before, item, clock))
<1> DEFINE merged  == MergedWindows(before, item, clock)
           row     == MergeKnown(before, item, clock)
<1>1. WindowReadings(merged)
  <2> SUFFICES ASSUME NEW id \in DOMAIN merged
               PROVE  /\ id \in WindowIds
                      /\ merged[id].used \in Null .. 100
                      /\ merged[id].resets \in Nat \cup {Null}
    BY DEF WindowReadings
  <2>1. CASE id \in Retained(before, item, clock)
    <3>1. id \in DOMAIN before.windows /\ merged[id] = before.windows[id]
      BY <2>1 DEF MergedWindows, Retained
    <3> QED  BY <3>1 DEF Observation, WindowReadings
  <2>2. CASE id \notin Retained(before, item, clock)
    <3>1. id \in DOMAIN item.windows /\ merged[id] = item.windows[id]
      BY <2>2 DEF MergedWindows, Retained, FreshRecovery, KnownUse
    <3> QED  BY <3>1 DEF Observation, WindowReadings
  <2> QED  BY <2>1, <2>2
<1>2. WindowReadings(BoundedWindows(merged))
  <2> SUFFICES ASSUME NEW id \in DOMAIN BoundedWindows(merged)
               PROVE  /\ id \in WindowIds
                      /\ BoundedWindows(merged)[id].used \in Null .. 100
                      /\ BoundedWindows(merged)[id].resets \in Nat \cup {Null}
    BY DEF WindowReadings
  <2>1. CASE id = Overflow
    BY <2>1, WindowAssumption DEF BoundedWindows, WindowIds, Null
  <2>2. CASE id # Overflow
    <3>1. id \in DOMAIN merged /\ BoundedWindows(merged)[id] = merged[id]
      BY <2>2 DEF BoundedWindows
    <3> QED  BY <1>1, <3>1 DEF WindowReadings
  <2> QED  BY <2>1, <2>2
<1>3. row.health \in {"ready", "unavailable"} /\ WindowReadings(row.windows)
  BY <1>1, <1>2 DEF MergeKnown, Observation
<1>4. row.updatedAt \in Nat
  BY DEF MergeKnown, Observation, CapturedAt
<1>5. row.observedAt \in Nat /\ row.expiresAt \in Nat
  <2>1. Min({before.observedAt, item.observedAt}) \in Nat
    BY PairBounds DEF Observation
  <2>2. Min({before.expiresAt, item.expiresAt}) \in Nat
    BY PairBounds DEF Observation
  <2> QED  BY <2>1, <2>2 DEF MergeKnown, Observation
<1>6. row.retryAfter \in Nat \cup {Null}
  <2>1. before.retryAfter \in Int /\ item.retryAfter \in Int
    BY DEF Observation, Null
  <2>2. Max({before.retryAfter, item.retryAfter}) \in {before.retryAfter, item.retryAfter}
    BY <2>1, PairBounds
  <2> QED  BY <2>2 DEF MergeKnown, Observation
<1> QED  BY <1>3, <1>4, <1>5, <1>6 DEF Observation

\* Merging well-formed evidence keeps the observations well formed.
LEMMA MergeTyped ==
  ASSUME NEW known, NEW incoming, NEW clock \in Nat,
         TypedObservations(known), TypedObservations(incoming)
  PROVE  TypedObservations(MergeResourceObservations(known, incoming, clock))
BY MergeKnownTyped DEF TypedObservations, MergeResourceObservations

\* The evidence an admission merges is well formed.
LEMMA RefreshTyped ==
  ASSUME NEW incoming \in Snapshots, NEW fresh \in Evidence \cup {NoEvidence},
         now \in Nat, TypedObservations(obs)
  PROVE  LET known == MergeResourceObservations(obs, incoming, now)
         IN  TypedObservations(known) /\ TypedObservations(Refreshed(known, fresh))
<1> DEFINE known == MergeResourceObservations(obs, incoming, now)
<1>1. TypedObservations(known)
  BY MergeTyped, LedgerAssumption
<1>2. TypedObservations(Refreshed(known, fresh))
  BY <1>1, MergeTyped, LedgerAssumption DEF Refreshed
<1> QED  BY <1>1, <1>2

(***************************************************************************)
(* The inductive invariant.  TypeOK is not inductive: that a settled       *)
(* receipt is well formed rests on what the run carries to settlement, and *)
(* that nothing is executed twice on no two runs ever holding one task.    *)
(***************************************************************************)
\* A live run holds a reservation that the ledger still records as it was written.
HeldReservation(r) ==
  /\ run[r].task \in DOMAIN attempts
  /\ attempts[run[r].task] = run[r].reserved
  /\ run[r].reserved.status = "reserved"
  /\ run[r].receipt.content = run[r].reserved.content
  /\ run[r].receipt.worker = run[r].reserved.worker
  /\ run[r].receipt.startedAt = run[r].reserved.startedAt
  /\ run[r].pc = "ran" => run[r].receipt.status \in Statuses /\ CheckedReceipt(run[r].receipt)

\* A run knows whether its worker was invoked; a vetoed one will settle as failed.
ExecutionKnown(r) ==
  /\ run[r].pc = "reserved" => executions[run[r].task] = 0
  /\ run[r].pc = "executing" => executions[run[r].task] = 1
  /\ run[r].pc = "ran" => (run[r].receipt.vetoed <=> executions[run[r].task] = 0)
  /\ run[r].pc = "ran" /\ run[r].receipt.vetoed => run[r].receipt.status = "failed"

RunsHoldReservations ==
  /\ \A r \in Runners : run[r] # NoRun => HeldReservation(r) /\ ExecutionKnown(r)
  /\ \A r, q \in Runners : run[r] # NoRun /\ run[q] # NoRun /\ run[r].task = run[q].task => r = q

ExecutionsRecorded ==
  /\ \A t \in Tasks : executions[t] \in 0..1 /\ (executions[t] = 1 => t \in DOMAIN attempts)
  /\ \A t \in DOMAIN attempts :
       attempts[t].status # "reserved" => (attempts[t].vetoed <=> executions[t] = 0)

LedgerInv ==
  /\ TypeOK
  /\ IsFiniteSet(DOMAIN attempts)
  /\ RunsHoldReservations
  /\ ExecutionsRecorded

\* The empty ledger satisfies it.
LEMMA LedgerInit == Init => LedgerInv
<1> SUFFICES ASSUME Init PROVE LedgerInv  OBVIOUS
<1>1. DOMAIN obs = {} /\ DOMAIN attempts = {}
  BY DEF Init, NoReport
<1>2. IsFiniteSet(DOMAIN attempts)
  BY <1>1, FS_EmptySet
<1>3. policy \in Policies
  BY DEF Init, Policies, PolicyKinds, Null
<1>4. TypeOK
  BY <1>1, <1>3, LedgerAssumption DEF Init, TypeOK, TypedObservations
<1>5. RunsHoldReservations /\ ExecutionsRecorded
  BY <1>1 DEF Init, RunsHoldReservations, ExecutionsRecorded
<1> QED  BY <1>2, <1>4, <1>5 DEF LedgerInv

\* What an admission that reserves changes.
Reserves(r, t, c, w, started) ==
  /\ run[r] = NoRun
  /\ t \notin DOMAIN attempts
  /\ attempts' = Record(t, Reserved(c, w, started))
  /\ run' = [run EXCEPT ![r] = [task |-> t, pc |-> "reserved", reserved |-> Reserved(c, w, started),
                                receipt |-> Reserved(c, w, started), report |-> NoReport]]
  /\ now' = started
  /\ executions' = executions

\* A fresh reservation is a well-formed receipt.
LEMMA ReservedTyped ==
  ASSUME NEW c \in Contents, NEW w \in Workers, NEW started \in Nat
  PROVE  Reserved(c, w, started) \in Receipts /\ CheckedReceipt(Reserved(c, w, started))
BY DEF Reserved, Receipts, CheckedReceipt, Statuses, Null

\* A settled receipt is well formed and keeps what the reservation fixed.
LEMMA SettledTyped ==
  ASSUME NEW reserved \in Receipts, NEW status \in Statuses, NEW vetoed \in BOOLEAN, now \in Nat
  PROVE  LET receipt == Settled(reserved, status, vetoed)
         IN  /\ receipt \in Receipts
             /\ CheckedReceipt(receipt)
             /\ receipt.status = status
             /\ receipt.vetoed = vetoed
             /\ receipt.content = reserved.content
             /\ receipt.worker = reserved.worker
             /\ receipt.startedAt = reserved.startedAt
<1> DEFINE receipt == Settled(reserved, status, vetoed)
<1>1. /\ receipt.status = status
      /\ receipt.content = reserved.content
      /\ receipt.worker = reserved.worker
      /\ receipt.startedAt = reserved.startedAt
  BY DEF Settled, Receipts
<1>2. receipt.vetoed = vetoed
  BY DEF Settled, Receipts
<1>3. receipt.finishedAt \in Nat /\ receipt.finishedAt >= receipt.startedAt
  BY DEF Settled, Receipts
<1>4. receipt \in Receipts
  BY <1>3 DEF Settled, Receipts
<1>5. CheckedReceipt(receipt)
  BY <1>1, <1>3 DEF CheckedReceipt, Statuses, Terminal
<1> QED  BY <1>1, <1>2, <1>4, <1>5

\* A reservation preserves the invariant.
LEMMA ReservePreserves ==
  ASSUME LedgerInv, NEW r \in Runners, NEW t \in Tasks, NEW c \in Contents, NEW w \in Workers,
         NEW started \in Nat, Reserves(r, t, c, w, started),
         TypedObservations(obs'), UNCHANGED <<policy, seen, pauses>>
  PROVE  LedgerInv'
<1> USE DEF LedgerInv
<1>1. /\ DOMAIN attempts' = DOMAIN attempts \cup {t}
      /\ attempts'[t] = Reserved(c, w, started)
      /\ \A x \in DOMAIN attempts : attempts'[x] = attempts[x]
  BY DEF Reserves, Record
<1>2. IsFiniteSet(DOMAIN attempts')
  BY <1>1, FS_AddElement
<1>3. executions[t] = 0
  BY DEF Reserves, ExecutionsRecorded
<1>4. run'[r] \in Runs /\ run' \in [Runners -> Runs \cup {NoRun}]
  BY ReservedTyped DEF Reserves, TypeOK, Runs
<1>5. TypeOK'
  BY <1>1, <1>4, ReservedTyped DEF TypeOK, Reserves
<1>6. \A q \in Runners \ {r} : run'[q] = run[q]
  BY DEF Reserves, TypeOK
<1>7. \A q \in Runners : run'[q] # NoRun => HeldReservation(q)' /\ ExecutionKnown(q)'
  <2> SUFFICES ASSUME NEW q \in Runners, run'[q] # NoRun
               PROVE  HeldReservation(q)' /\ ExecutionKnown(q)'
    OBVIOUS
  <2>1. CASE q = r
    BY <2>1, <1>1, <1>3 DEF Reserves, TypeOK, HeldReservation, ExecutionKnown, Reserved
  <2>2. CASE q # r
    BY <2>2, <1>1, <1>6 DEF Reserves, RunsHoldReservations, HeldReservation, ExecutionKnown
  <2> QED  BY <2>1, <2>2
<1>8. \A p, q \in Runners : run'[p] # NoRun /\ run'[q] # NoRun /\ run'[p].task = run'[q].task => p = q
  <2>1. run'[r].task = t
    BY DEF Reserves, TypeOK
  <2>2. \A q \in Runners \ {r} : run'[q] # NoRun => run'[q].task # t
    BY <1>6 DEF RunsHoldReservations, HeldReservation, Reserves
  <2> QED  BY <1>6, <2>1, <2>2 DEF RunsHoldReservations
<1>9. ExecutionsRecorded'
  <2>1. \A x \in Tasks : executions'[x] \in 0..1 /\ (executions'[x] = 1 => x \in DOMAIN attempts')
    BY <1>1 DEF ExecutionsRecorded, Reserves
  <2>2. attempts'[t].status = "reserved"
    BY <1>1 DEF Reserved
  <2>3. ASSUME NEW x \in DOMAIN attempts', attempts'[x].status # "reserved"
        PROVE  attempts'[x].vetoed <=> executions'[x] = 0
    <3>1. x \in DOMAIN attempts /\ attempts'[x] = attempts[x] /\ executions'[x] = executions[x]
      BY <1>1, <2>2, <2>3 DEF Reserves
    <3> QED  BY <2>3, <3>1 DEF ExecutionsRecorded
  <2> QED  BY <2>1, <2>3 DEF ExecutionsRecorded
<1> QED  BY <1>2, <1>5, <1>7, <1>8, <1>9 DEF RunsHoldReservations

\* A run that goes on with its reservation preserves the invariant.
LEMMA ContinuePreserves ==
  ASSUME LedgerInv, NEW r \in Runners, run[r] # NoRun, run'[r] \in Runs,
         run' = [run EXCEPT ![r] = run'[r]],
         run'[r].task = run[r].task,
         HeldReservation(r)', ExecutionKnown(r)',
         \A t \in Tasks \ {run[r].task} : executions'[t] = executions[t],
         executions' \in [Tasks -> Nat], executions'[run[r].task] \in 0..1,
         UNCHANGED <<now, obs, attempts, policy, seen, pauses>>
  PROVE  LedgerInv'
<1> USE DEF LedgerInv
<1>1. HeldReservation(r) /\ run[r].task \in Tasks
  BY DEF RunsHoldReservations, TypeOK, HeldReservation
<1>2. TypeOK'
  BY DEF TypeOK
<1>3. \A q \in Runners \ {r} : run'[q] = run[q]
  BY DEF TypeOK
<1>4. \A q \in Runners \ {r} : run[q] # NoRun => run[q].task \in Tasks \ {run[r].task}
  BY DEF RunsHoldReservations, HeldReservation, TypeOK
<1>5. \A q \in Runners : run'[q] # NoRun => HeldReservation(q)' /\ ExecutionKnown(q)'
  <2> SUFFICES ASSUME NEW q \in Runners, q # r, run'[q] # NoRun
               PROVE  HeldReservation(q)' /\ ExecutionKnown(q)'
    OBVIOUS
  <2> QED  BY <1>3, <1>4 DEF RunsHoldReservations, HeldReservation, ExecutionKnown
<1>6. \A p, q \in Runners : run'[p] # NoRun /\ run'[q] # NoRun /\ run'[p].task = run'[q].task => p = q
  BY <1>3, <1>4 DEF RunsHoldReservations
<1>7. ExecutionsRecorded'
  <2>1. \A x \in Tasks : executions'[x] \in 0..1 /\ (executions'[x] = 1 => x \in DOMAIN attempts')
    BY <1>1 DEF ExecutionsRecorded, HeldReservation
  <2>2. ASSUME NEW x \in DOMAIN attempts, attempts[x].status # "reserved"
        PROVE  attempts[x].vetoed <=> executions'[x] = 0
    <3>1. x \in Tasks /\ x # run[r].task
      BY <1>1, <2>2 DEF HeldReservation, TypeOK
    <3>2. executions'[x] = executions[x]
      BY <3>1
    <3> QED  BY <2>2, <3>2 DEF ExecutionsRecorded
  <2> QED  BY <2>1, <2>2 DEF ExecutionsRecorded
<1> QED  BY <1>2, <1>5, <1>6, <1>7 DEF RunsHoldReservations

\* A run that lets go of its task, settled or not, preserves what the other runs rely on.
LEMMA ReleasePreserves ==
  ASSUME LedgerInv, NEW r \in Runners, run[r] # NoRun, run' = [run EXCEPT ![r] = NoRun],
         executions' = executions, DOMAIN attempts' = DOMAIN attempts,
         \A t \in DOMAIN attempts \ {run[r].task} : attempts'[t] = attempts[t]
  PROVE  RunsHoldReservations'
<1> USE DEF LedgerInv
<1>1. run'[r] = NoRun /\ \A q \in Runners \ {r} : run'[q] = run[q]
  BY DEF TypeOK
<1>2. \A q \in Runners \ {r} : run[q] # NoRun =>
        run[q].task \in DOMAIN attempts /\ run[q].task # run[r].task
  BY DEF RunsHoldReservations, HeldReservation
<1>3. ASSUME NEW q \in Runners, run'[q] # NoRun
      PROVE  HeldReservation(q)' /\ ExecutionKnown(q)'
  BY <1>1, <1>2, <1>3 DEF RunsHoldReservations, HeldReservation, ExecutionKnown
<1> QED  BY <1>1, <1>3 DEF RunsHoldReservations

\* A host veto, a dispatch and a finished worker preserve the invariant.
LEMMA RunPreserves ==
  ASSUME LedgerInv, NEW r \in Runners,
         \/ Veto(r)
         \/ Dispatch(r)
         \/ \E status \in Statuses, report \in Reports : Finish(r, status, report)
  PROVE  LedgerInv'
<1> USE DEF LedgerInv
<1>1. ASSUME run[r] # NoRun
      PROVE  /\ run[r] \in Runs /\ run[r].reserved \in Receipts /\ run[r].task \in Tasks
             /\ HeldReservation(r) /\ ExecutionKnown(r) /\ now \in Nat
             /\ executions[run[r].task] \in 0..1
  BY <1>1 DEF TypeOK, Runs, RunsHoldReservations, ExecutionsRecorded
<1>2. CASE Veto(r)
  <2> DEFINE receipt == Settled(run[r].reserved, "failed", TRUE)
  <2>1. run[r] # NoRun /\ run[r].pc = "reserved" /\ UNCHANGED <<now, obs, attempts, policy, seen, executions, pauses>>
    BY <1>2 DEF Veto
  <2>2. /\ receipt \in Receipts /\ CheckedReceipt(receipt) /\ receipt.status = "failed" /\ receipt.vetoed = TRUE
        /\ receipt.content = run[r].reserved.content /\ receipt.worker = run[r].reserved.worker
        /\ receipt.startedAt = run[r].reserved.startedAt
    <3>1. "failed" \in Statuses
      BY DEF Statuses, Terminal
    <3> QED  BY <1>1, <2>1, <3>1, SettledTyped
  <2> HIDE DEF receipt
  <2>3. /\ run' = [run EXCEPT ![r] = run'[r]] /\ run'[r] \in Runs
        /\ run'[r].task = run[r].task /\ run'[r].reserved = run[r].reserved
        /\ run'[r].pc = "ran" /\ run'[r].receipt = receipt
    BY <1>1, <1>2, <2>1, <2>2 DEF Veto, Runs, TypeOK, receipt
  <2>4. HeldReservation(r)'
    BY <1>1, <2>1, <2>2, <2>3 DEF HeldReservation, Statuses, Terminal
  <2>5. ExecutionKnown(r)'
    BY <1>1, <2>1, <2>2, <2>3 DEF ExecutionKnown
  <2> QED  BY <1>1, <2>1, <2>3, <2>4, <2>5, ContinuePreserves DEF TypeOK
<1>3. CASE Dispatch(r)
  <2>1. run[r] # NoRun /\ run[r].pc = "reserved" /\ UNCHANGED <<now, obs, attempts, policy, seen, pauses>>
    BY <1>3 DEF Dispatch
  <2>2. /\ run' = [run EXCEPT ![r] = run'[r]] /\ run'[r] \in Runs
        /\ run'[r].task = run[r].task /\ run'[r].reserved = run[r].reserved
        /\ run'[r].pc = "executing" /\ run'[r].receipt = run[r].receipt
    BY <1>1, <1>3, <2>1 DEF Dispatch, Runs, TypeOK
  <2>3. /\ executions' \in [Tasks -> Nat] /\ executions'[run[r].task] \in 0..1
        /\ \A t \in Tasks \ {run[r].task} : executions'[t] = executions[t]
    BY <1>1, <1>3, <2>1 DEF Dispatch, ExecutionKnown, TypeOK
  <2>4. HeldReservation(r)' /\ ExecutionKnown(r)'
    BY <1>1, <1>3, <2>1, <2>2 DEF HeldReservation, ExecutionKnown, Dispatch, TypeOK
  <2> QED  BY <2>1, <2>2, <2>3, <2>4, ContinuePreserves
<1>4. ASSUME NEW status \in Statuses, NEW report \in Reports, Finish(r, status, report)
      PROVE  LedgerInv'
  <2> DEFINE receipt == Settled(run[r].reserved, status, FALSE)
  <2>1. run[r] # NoRun /\ run[r].pc = "executing" /\ UNCHANGED <<now, obs, attempts, policy, seen, executions, pauses>>
    BY <1>4 DEF Finish
  <2>2. /\ receipt \in Receipts /\ CheckedReceipt(receipt) /\ receipt.status = status /\ receipt.vetoed = FALSE
        /\ receipt.content = run[r].reserved.content /\ receipt.worker = run[r].reserved.worker
        /\ receipt.startedAt = run[r].reserved.startedAt
    BY <1>1, <2>1, SettledTyped
  <2> HIDE DEF receipt
  <2>3. /\ run' = [run EXCEPT ![r] = run'[r]] /\ run'[r] \in Runs
        /\ run'[r].task = run[r].task /\ run'[r].reserved = run[r].reserved
        /\ run'[r].pc = "ran" /\ run'[r].receipt = receipt
    BY <1>1, <1>4, <2>1, <2>2 DEF Finish, Runs, TypeOK, receipt
  <2>4. HeldReservation(r)'
    BY <1>1, <2>1, <2>2, <2>3 DEF HeldReservation
  <2>5. executions[run[r].task] # 0
    BY <1>1, <2>1 DEF ExecutionKnown
  <2>6. ExecutionKnown(r)'
    BY <2>1, <2>2, <2>3, <2>5 DEF ExecutionKnown
  <2> QED  BY <1>1, <2>1, <2>3, <2>4, <2>6, ContinuePreserves DEF TypeOK
<1> QED  BY <1>2, <1>3, <1>4

\* Settling a reservation preserves the invariant.
LEMMA SettlePreserves ==
  ASSUME LedgerInv, NEW r \in Runners, Settle(r)
  PROVE  LedgerInv'
<1> USE DEF LedgerInv
<1> DEFINE t == run[r].task
<1>1. /\ run[r] # NoRun /\ run[r].pc = "ran" /\ t \in DOMAIN attempts
      /\ attempts' = Record(t, run[r].receipt)
      /\ run' = [run EXCEPT ![r] = NoRun]
      /\ obs' = MergeResourceObservations(obs, run[r].report, now)
      /\ UNCHANGED <<now, policy, seen, executions, pauses>>
  BY DEF Settle, Commit
<1>2. /\ run[r] \in Runs /\ HeldReservation(r) /\ ExecutionKnown(r)
      /\ run[r].receipt \in Receipts /\ CheckedReceipt(run[r].receipt)
  BY <1>1 DEF TypeOK, RunsHoldReservations, HeldReservation, Runs
<1>3. /\ DOMAIN attempts' = DOMAIN attempts
      /\ attempts'[t] = run[r].receipt
      /\ \A x \in DOMAIN attempts \ {t} : attempts'[x] = attempts[x]
  BY <1>1 DEF Record
<1>4. TypedObservations(obs')
  <2>1. TypedObservations(run[r].report)
    <3>1. run[r].report \in Reports \cup {NoReport}
      BY <1>2 DEF Runs
    <3>2. TypedObservations(NoReport)
      BY DEF TypedObservations, NoReport
    <3> QED  BY <3>1, <3>2, LedgerAssumption
  <2> QED  BY <1>1, <2>1, MergeTyped DEF TypeOK
<1>5. TypeOK'
  BY <1>1, <1>2, <1>3, <1>4 DEF TypeOK
<1>6. RunsHoldReservations'
  BY <1>1, <1>3, ReleasePreserves
<1>7. ExecutionsRecorded'
  <2>1. ASSUME NEW x \in DOMAIN attempts', attempts'[x].status # "reserved"
        PROVE  attempts'[x].vetoed <=> executions'[x] = 0
    <3>1. CASE x = t
      BY <1>1, <1>2, <1>3, <3>1 DEF ExecutionKnown
    <3>2. CASE x # t
      BY <1>1, <1>3, <2>1, <3>2 DEF ExecutionsRecorded
    <3> QED  BY <3>1, <3>2
  <2> QED  BY <1>1, <1>3, <2>1 DEF ExecutionsRecorded
<1> QED  BY <1>3, <1>5, <1>6, <1>7

\* Losing a run preserves the invariant.
LEMMA AbandonPreserves ==
  ASSUME LedgerInv, NEW r \in Runners, Abandon(r)
  PROVE  LedgerInv'
<1> USE DEF LedgerInv
<1>1. /\ run[r] # NoRun /\ run' = [run EXCEPT ![r] = NoRun]
      /\ UNCHANGED <<now, obs, attempts, policy, seen, executions, pauses>>
  BY DEF Abandon
<1>2. RunsHoldReservations'
  BY <1>1, ReleasePreserves
<1>3. TypeOK' /\ ExecutionsRecorded'
  BY <1>1 DEF TypeOK, ExecutionsRecorded
<1> QED  BY <1>1, <1>2, <1>3

\* A step that touches neither receipts nor runs preserves the invariant.
LEMMA AsidePreserves ==
  ASSUME LedgerInv, UNCHANGED <<attempts, run, executions>>,
         now' \in Nat, TypedObservations(obs'), policy' \in Policies,
         seen' \in [Operators -> Policies], pauses' \subseteq Workers
  PROVE  LedgerInv'
<1>1. TypeOK'
  BY DEF TypeOK, LedgerInv
<1>2. RunsHoldReservations'
  BY DEF LedgerInv, RunsHoldReservations, HeldReservation, ExecutionKnown
<1>3. ExecutionsRecorded'
  BY DEF LedgerInv, ExecutionsRecorded
<1> QED  BY <1>1, <1>2, <1>3 DEF LedgerInv

\* A policy edit preserves the invariant.
LEMMA EditPreserves ==
  ASSUME LedgerInv, NEW o \in Operators, EditPolicy(o)
  PROVE  LedgerInv'
<1>1. UNCHANGED <<now, obs, attempts, run, executions>>
  BY DEF EditPolicy, ReadPolicy, SetResourcePoolAllocation, SetResourceWorkerAccess, SetResourceQuotaScopeAccess
<1>2. policy \in Policies /\ seen \in [Operators -> Policies] /\ pauses \subseteq Workers
  BY DEF LedgerInv, TypeOK
<1>3. policy' \in Policies /\ seen' \in [Operators -> Policies] /\ pauses' \subseteq Workers
  <2>1. CASE ReadPolicy(o)
    BY <1>2, <2>1 DEF ReadPolicy
  <2>a. \A kind \in PolicyKinds : Revise(kind) \in [PolicyKinds -> Nat]
    BY <1>2 DEF Policies, Revise
  <2>2. ASSUME NEW ceiling \in Ceilings, SetResourcePoolAllocation(o, ceiling)
        PROVE  policy' \in Policies /\ seen' = seen /\ pauses' = pauses
    <3>1. ceiling \in 0..100 /\ Revise("allocation") \in [PolicyKinds -> Nat]
      BY <2>a, LedgerAssumption DEF PolicyKinds
    <3> QED  BY <1>2, <2>2, <3>1 DEF SetResourcePoolAllocation, Policies
  <2>3. ASSUME NEW w \in Workers, NEW pause \in BOOLEAN, SetResourceWorkerAccess(o, w, pause)
        PROVE  policy' \in Policies /\ seen' = seen /\ pauses' \subseteq Workers
    <3>1. Revise("workers") \in [PolicyKinds -> Nat] /\ seen[o].paused \in SUBSET Workers
      BY <1>2, <2>a DEF PolicyKinds, Policies
    <3>2. policy'.paused \in SUBSET Workers /\ policy' \in Policies
      BY <1>2, <2>3, <3>1 DEF SetResourceWorkerAccess, Policies
    <3> QED  BY <1>2, <2>3, <3>2 DEF SetResourceWorkerAccess
  <2>4. ASSUME NEW x \in Exclusions, NEW exclude \in BOOLEAN, SetResourceQuotaScopeAccess(o, x, exclude)
        PROVE  policy' \in Policies /\ seen' = seen /\ pauses' = pauses
    <3>1. Revise("scopes") \in [PolicyKinds -> Nat] /\ seen[o].exclusions \in SUBSET Exclusions
      BY <1>2, <2>a DEF PolicyKinds, Policies
    <3> QED  BY <1>2, <2>4, <3>1 DEF SetResourceQuotaScopeAccess, Policies
  <2> QED  BY <1>2, <2>1, <2>2, <2>3, <2>4 DEF EditPolicy
<1> QED  BY <1>1, <1>3, AsidePreserves DEF LedgerInv, TypeOK

\* A replay or a refused admission only merges evidence.
LEMMA EvidencePreserves ==
  ASSUME LedgerInv, NEW t, NEW c, NEW incoming \in Snapshots, NEW gate,
         NEW fresh \in Evidence \cup {NoEvidence},
         Replay(t, c, incoming) \/ Wait(t, c, incoming, gate, fresh)
  PROVE  LedgerInv'
<1>1. now \in Nat /\ TypedObservations(obs)
  BY DEF LedgerInv, TypeOK
<1>2. TypedObservations(obs')
  BY <1>1, RefreshTyped DEF Replay, Wait, Commit
<1>3. UNCHANGED <<now, attempts, policy, run, seen, executions, pauses>>
  BY DEF Replay, Wait
<1> QED  BY <1>1, <1>2, <1>3, AsidePreserves DEF LedgerInv, TypeOK

\* What Admit does: it reserves an open worker under the plan it made.
LEMMA AdmitReserves ==
  ASSUME LedgerInv, NEW r \in Runners, NEW t \in Tasks, NEW c \in Contents, NEW incoming \in Snapshots,
         NEW gate, NEW fresh \in Evidence \cup {NoEvidence}, NEW started \in Clock,
         Admit(r, t, c, incoming, gate, fresh, started)
  PROVE  \E w \in Workers :
           /\ Reserves(r, t, c, w, started)
           /\ started \in Nat
           /\ backdated' = IF started < now THEN backdated \cup {t} ELSE backdated
           /\ TypedObservations(obs')
           /\ UNCHANGED <<policy, seen, pauses>>
           /\ Cardinality(ActiveAttempts(attempts, Account[w])) < MaxConcurrent[Account[w]]
           /\ Cardinality(RecentAttempts(attempts, Account[w], now)) < MaxTasks[Account[w]]
<1> DEFINE known == MergeResourceObservations(obs, incoming, now)
           seenNow == Snapshot(Refreshed(known, fresh), Gated(c, known, gate, fresh))
<1>1. PICK w \in AllowedIn[c] :
        /\ Selects(w, AllowedIn[c], seenNow)
        /\ attempts' = Record(t, Reserved(c, w, started))
        /\ run' = [run EXCEPT ![r] = [task |-> t, pc |-> "reserved", reserved |-> Reserved(c, w, started),
                                      receipt |-> Reserved(c, w, started), report |-> NoReport]]
  BY DEF Admit
<1>2. w \in Workers
  BY <1>1, LedgerAssumption
<1>3. TypedObservations(obs')
  <2>1. obs' = Refreshed(known, fresh)
    BY DEF Admit, Commit
  <2> QED  BY <2>1, RefreshTyped DEF LedgerInv, TypeOK
<1>4. /\ Reserves(r, t, c, w, started) /\ started \in Nat /\ UNCHANGED <<policy, seen, pauses>>
      /\ backdated' = IF started < now THEN backdated \cup {t} ELSE backdated
  BY <1>1, LedgerAssumption DEF Admit, Reserves
<1>5. ~ CapacityExcluded(w, seenNow) /\ seenNow.attempts = attempts /\ seenNow.now = now
  BY <1>1, SelectedIsOpen DEF Snapshot
<1>6. ASSUME NEW S \in SUBSET DOMAIN attempts, NEW n \in Nat, ~ (Cardinality(S) >= n)
      PROVE  Cardinality(S) < n
  <2>1. Cardinality(S) \in Nat
    BY FS_Subset, FS_CardinalityType DEF LedgerInv
  <2> QED  BY <1>6, <2>1
<1>7. Account[w] \in Accounts /\ MaxConcurrent[Account[w]] \in Nat /\ MaxTasks[Account[w]] \in Nat
  BY <1>2, AccountAssumption, LimitAssumption
<1>8. Cardinality(ActiveAttempts(attempts, Account[w])) < MaxConcurrent[Account[w]]
  <2>1. ActiveAttempts(attempts, Account[w]) \in SUBSET DOMAIN attempts
    BY DEF ActiveAttempts, AccountAttempts
  <2>2. ~ (Cardinality(ActiveAttempts(attempts, Account[w])) >= MaxConcurrent[Account[w]])
    BY <1>5 DEF CapacityExcluded
  <2> QED  BY <1>6, <1>7, <2>1, <2>2
<1>9. Cardinality(RecentAttempts(attempts, Account[w], now)) < MaxTasks[Account[w]]
  <2>1. RecentAttempts(attempts, Account[w], now) \in SUBSET DOMAIN attempts
    BY DEF RecentAttempts, AccountAttempts
  <2>2. ~ (Cardinality(RecentAttempts(attempts, Account[w], now)) >= MaxTasks[Account[w]])
    BY <1>5 DEF CapacityExcluded
  <2> QED  BY <1>6, <1>7, <2>1, <2>2
<1> QED  BY <1>2, <1>3, <1>4, <1>8, <1>9

\* Every step preserves the invariant.
LEMMA LedgerNext == LedgerInv /\ [Next]_vars => LedgerInv'
<1> SUFFICES ASSUME LedgerInv, [Next]_vars PROVE LedgerInv'  OBVIOUS
<1>1. ASSUME NEW r \in Runners, RunTask(r)
      PROVE  LedgerInv'
  <2>1. ASSUME NEW t \in Tasks, NEW c \in Contents, NEW incoming \in Snapshots, Replay(t, c, incoming)
        PROVE  LedgerInv'
    BY <2>1, EvidencePreserves
  <2>2. ASSUME NEW t \in Tasks, NEW c \in Contents, NEW incoming \in Snapshots, NEW gate \in Gates,
               NEW fresh \in Evidence \cup {NoEvidence}, Wait(t, c, incoming, gate, fresh)
        PROVE  LedgerInv'
    BY <2>2, EvidencePreserves
  <2>3. ASSUME NEW t \in Tasks, NEW c \in Contents, NEW incoming \in Snapshots, NEW gate \in Gates,
               NEW fresh \in Evidence \cup {NoEvidence}, NEW started \in Clock,
               Admit(r, t, c, incoming, gate, fresh, started)
        PROVE  LedgerInv'
    BY <2>3, AdmitReserves, ReservePreserves
  <2> QED  BY <1>1, <2>1, <2>2, <2>3, RunPreserves, SettlePreserves, AbandonPreserves DEF RunTask
<1>2. CASE SetClock
  BY <1>2, AsidePreserves, LedgerAssumption DEF SetClock, LedgerInv, TypeOK
<1>3. CASE UNCHANGED vars
  BY <1>3, AsidePreserves DEF vars, LedgerInv, TypeOK
<1> QED  BY <1>1, <1>2, <1>3, EditPreserves DEF Next

\* The inductive invariant holds of every behaviour of the pool.
THEOREM LedgerInvariant == Spec => []LedgerInv
BY LedgerInit, LedgerNext, PTL DEF Spec

\* The ledger that any run of the pool leaves behind is well formed and every receipt passes
\* checkedReceipt, so the next process can read it.
THEOREM TypeCorrect == Spec => []TypeOK
<1>1. LedgerInv => TypeOK  BY DEF LedgerInv
<1> QED  BY <1>1, LedgerInvariant, PTL

\* No worker is ever invoked twice for a task, whatever is replayed, retried or lost.
THEOREM AtMostOnce == Spec => []ExecutedAtMostOnce
<1>1. LedgerInv => ExecutedAtMostOnce
  <2> SUFFICES ASSUME LedgerInv PROVE ExecutedAtMostOnce  OBVIOUS
  <2>1. ExecutionsRecorded  BY DEF LedgerInv
  <2>2. \A t \in Tasks : executions[t] <= 1 /\ (executions[t] = 1 => t \in DOMAIN attempts)
    BY <2>1 DEF ExecutionsRecorded
  <2> QED  BY <2>1, <2>2 DEF ExecutedAtMostOnce, ExecutionsRecorded
<1> QED  BY <1>1, LedgerInvariant, PTL

(***************************************************************************)
(* Receipts and account limits.                                            *)
(***************************************************************************)
\* Only a reservation within the account's limits and a settlement change the receipts.
LEMMA ReceiptSteps ==
  ASSUME LedgerInv, [Next]_vars
  PROVE  \/ UNCHANGED <<attempts, backdated>>
         \/ \E r \in Runners, t \in Tasks, c \in Contents, w \in Workers, started \in Nat :
              /\ Reserves(r, t, c, w, started)
              /\ backdated' = IF started < now THEN backdated \cup {t} ELSE backdated
              /\ Cardinality(ActiveAttempts(attempts, Account[w])) < MaxConcurrent[Account[w]]
              /\ Cardinality(RecentAttempts(attempts, Account[w], now)) < MaxTasks[Account[w]]
         \/ \E r \in Runners : /\ run[r] # NoRun /\ run[r].pc = "ran" /\ HeldReservation(r)
                               /\ attempts' = Record(run[r].task, run[r].receipt) /\ UNCHANGED backdated
<1>1. ASSUME NEW r \in Runners, NEW t \in Tasks, NEW c \in Contents, NEW incoming \in Snapshots,
             NEW gate \in Gates, NEW fresh \in Evidence \cup {NoEvidence}, NEW started \in Clock,
             Admit(r, t, c, incoming, gate, fresh, started)
      PROVE  \E w \in Workers : /\ Reserves(r, t, c, w, started)
                                /\ started \in Nat
                                /\ backdated' = IF started < now THEN backdated \cup {t} ELSE backdated
                                /\ Cardinality(ActiveAttempts(attempts, Account[w])) < MaxConcurrent[Account[w]]
                                /\ Cardinality(RecentAttempts(attempts, Account[w], now)) < MaxTasks[Account[w]]
  BY <1>1, AdmitReserves
<1>2. ASSUME NEW r \in Runners, Settle(r)
      PROVE  /\ run[r] # NoRun /\ run[r].pc = "ran" /\ HeldReservation(r)
             /\ attempts' = Record(run[r].task, run[r].receipt) /\ UNCHANGED backdated
  BY <1>2 DEF Settle, LedgerInv, RunsHoldReservations
<1>3. ASSUME NEW o \in Operators, EditPolicy(o)
      PROVE  UNCHANGED <<attempts, backdated>>
  BY <1>3 DEF EditPolicy, ReadPolicy, SetResourcePoolAllocation, SetResourceWorkerAccess,
              SetResourceQuotaScopeAccess
<1>4. ASSUME NEW r \in Runners, RunTask(r)
      PROVE  \/ UNCHANGED <<attempts, backdated>>
             \/ Settle(r)
             \/ \E t \in Tasks, c \in Contents, incoming \in Snapshots, gate \in Gates,
                   fresh \in Evidence \cup {NoEvidence}, started \in Clock :
                     Admit(r, t, c, incoming, gate, fresh, started)
  BY <1>4, ZenonT(60) DEF RunTask, Replay, Wait, Veto, Dispatch, Finish, Abandon
<1>5. ASSUME SetClock \/ UNCHANGED vars
      PROVE  UNCHANGED <<attempts, backdated>>
  BY <1>5 DEF SetClock, vars
<1>6. CASE \E r \in Runners : RunTask(r)
  <2>1. PICK r \in Runners : RunTask(r)  BY <1>6
  <2>2. CASE Settle(r)  BY <1>2, <2>2
  <2>3. CASE \E t \in Tasks, c \in Contents, incoming \in Snapshots, gate \in Gates,
                fresh \in Evidence \cup {NoEvidence}, started \in Clock :
                  Admit(r, t, c, incoming, gate, fresh, started)
    BY <1>1, <2>3
  <2> QED  BY <1>4, <2>1, <2>2, <2>3
<1> QED  BY <1>3, <1>5, <1>6 DEF Next

\* Which receipts keep what across a settlement.
LEMMA SettledReceipt ==
  ASSUME LedgerInv, NEW r \in Runners, run[r] # NoRun, run[r].pc = "ran", HeldReservation(r),
         attempts' = Record(run[r].task, run[r].receipt)
  PROVE  /\ DOMAIN attempts' = DOMAIN attempts
         /\ \A x \in DOMAIN attempts :
              /\ attempts'[x].content = attempts[x].content
              /\ attempts'[x].worker = attempts[x].worker
              /\ attempts'[x].startedAt = attempts[x].startedAt
              /\ attempts[x].status # "reserved" => attempts'[x] = attempts[x]
BY DEF Record, HeldReservation

\* No receipt ever disappears, moves to another worker or changes once it is settled.
THEOREM FinalReceipts == Spec => ReceiptsAreFinal
<1> DEFINE Final == \A t \in DOMAIN attempts :
                      /\ t \in DOMAIN attempts'
                      /\ attempts'[t].content = attempts[t].content
                      /\ attempts'[t].worker = attempts[t].worker
                      /\ attempts'[t].startedAt = attempts[t].startedAt
                      /\ attempts[t].status # "reserved" => attempts'[t] = attempts[t]
<1>1. LedgerInv /\ [Next]_vars => Final
  <2> SUFFICES ASSUME LedgerInv, [Next]_vars PROVE Final  OBVIOUS
  <2>1. CASE attempts' = attempts
    BY <2>1
  <2>2. ASSUME NEW r \in Runners, NEW t \in Tasks, NEW c \in Contents, NEW w \in Workers,
               NEW started \in Nat, Reserves(r, t, c, w, started)
        PROVE  Final
    BY <2>2 DEF Reserves, Record
  <2>3. ASSUME NEW r \in Runners, run[r] # NoRun, run[r].pc = "ran", HeldReservation(r),
               attempts' = Record(run[r].task, run[r].receipt)
        PROVE  Final
    BY <2>3, SettledReceipt
  <2> QED  BY <2>1, <2>2, <2>3, ReceiptSteps
<1>2. LedgerInv /\ [Next]_vars => [Final]_vars
  BY <1>1
<1> QED  BY <1>2, LedgerInvariant, PTL DEF Spec, ReceiptsAreFinal

\* maxConcurrent bounds what occupies an account, whoever reserved it and whoever died.
THEOREM ConcurrencyBound == Spec => []AccountConcurrency
<1> DEFINE Occupying(a) == {t \in OnAccount(a) : attempts[t].status \in {"reserved", "uncertain"}}
<1>1. Init => AccountConcurrency
  <2> SUFFICES ASSUME Init, NEW a \in Accounts PROVE Cardinality(Occupying(a)) <= MaxConcurrent[a]
    BY DEF AccountConcurrency
  <2>1. Occupying(a) = {}
    BY DEF Init, NoReport, OnAccount
  <2>2. Cardinality({}) = 0
    BY FS_EmptySet
  <2>3. MaxConcurrent[a] \in Nat
    BY LimitAssumption
  <2>4. Cardinality(Occupying(a)) = 0
    BY <2>1, <2>2
  <2> HIDE DEF Occupying
  <2> QED  BY <2>3, <2>4
<1>2. LedgerInv /\ AccountConcurrency /\ [Next]_vars => AccountConcurrency'
  <2> SUFFICES ASSUME LedgerInv, AccountConcurrency, [Next]_vars, NEW a \in Accounts
               PROVE  Cardinality(Occupying(a)') <= MaxConcurrent[a]
    BY DEF AccountConcurrency
  <2>1. /\ MaxConcurrent[a] \in Nat
        /\ Occupying(a) \in SUBSET DOMAIN attempts
        /\ IsFiniteSet(Occupying(a)) /\ Cardinality(Occupying(a)) \in Nat
        /\ Cardinality(Occupying(a)) <= MaxConcurrent[a]
    <3>1. Occupying(a) \in SUBSET DOMAIN attempts
      BY DEF OnAccount
    <3>2. IsFiniteSet(Occupying(a)) /\ Cardinality(Occupying(a)) \in Nat
      BY <3>1, FS_Subset, FS_CardinalityType DEF LedgerInv
    <3> QED  BY <3>1, <3>2, LimitAssumption DEF AccountConcurrency
  <2>2. ASSUME Occupying(a)' \subseteq Occupying(a)
        PROVE  Cardinality(Occupying(a)') <= MaxConcurrent[a]
    <3>1. Cardinality(Occupying(a)') <= Cardinality(Occupying(a)) /\ IsFiniteSet(Occupying(a)')
      BY <2>1, <2>2, FS_Subset
    <3>2. Cardinality(Occupying(a)') \in Nat
      BY <3>1, FS_CardinalityType
    <3> QED  BY <2>1, <3>1, <3>2
  <2>3. CASE attempts' = attempts
    BY <2>2, <2>3 DEF OnAccount
  <2>4. ASSUME NEW r \in Runners, NEW t \in Tasks, NEW c \in Contents, NEW w \in Workers, NEW started \in Nat,
               Reserves(r, t, c, w, started),
               Cardinality(ActiveAttempts(attempts, Account[w])) < MaxConcurrent[Account[w]]
        PROVE  Cardinality(Occupying(a)') <= MaxConcurrent[a]
    <3>1. /\ DOMAIN attempts' = DOMAIN attempts \cup {t} /\ t \notin DOMAIN attempts
          /\ attempts'[t].worker = w
          /\ \A x \in DOMAIN attempts : attempts'[x] = attempts[x]
      BY <2>4 DEF Reserves, Record, Reserved
    <3>2. CASE Account[w] # a
      <4>1. Occupying(a)' \subseteq Occupying(a)
        BY <3>1, <3>2 DEF OnAccount
      <4> QED  BY <2>2, <4>1
    <3>3. CASE Account[w] = a
      <4>1. Occupying(a)' \subseteq Occupying(a) \cup {t}
        BY <3>1 DEF OnAccount
      <4>2. Occupying(a) \subseteq ActiveAttempts(attempts, a)
        BY DEF OnAccount, ActiveAttempts, AccountAttempts, Terminal
      <4>3. IsFiniteSet(ActiveAttempts(attempts, a)) /\ Cardinality(ActiveAttempts(attempts, a)) \in Nat
        <5>1. ActiveAttempts(attempts, a) \in SUBSET DOMAIN attempts
          BY DEF ActiveAttempts, AccountAttempts
        <5> QED  BY <5>1, FS_Subset, FS_CardinalityType DEF LedgerInv
      <4>4. Cardinality(Occupying(a)) <= Cardinality(ActiveAttempts(attempts, a))
        BY <4>2, <4>3, FS_Subset
      <4>5. t \notin Occupying(a)
        BY <3>1 DEF OnAccount
      <4>6. IsFiniteSet(Occupying(a) \cup {t}) /\ Cardinality(Occupying(a) \cup {t}) = Cardinality(Occupying(a)) + 1
        BY <2>1, <4>5, FS_AddElement
      <4>7. Cardinality(Occupying(a)') <= Cardinality(Occupying(a) \cup {t}) /\ Cardinality(Occupying(a)') \in Nat
        BY <4>1, <4>6, FS_Subset, FS_CardinalityType
      <4> QED  BY <2>1, <2>4, <3>3, <4>3, <4>4, <4>6, <4>7
    <3> QED  BY <3>2, <3>3
  <2>5. ASSUME NEW r \in Runners, run[r] # NoRun, run[r].pc = "ran", HeldReservation(r),
               attempts' = Record(run[r].task, run[r].receipt)
        PROVE  Cardinality(Occupying(a)') <= MaxConcurrent[a]
    <3>1. Occupying(a)' \subseteq Occupying(a)
      BY <2>5, SettledReceipt DEF OnAccount
    <3> QED  BY <2>2, <3>1
  <2> QED  BY <2>3, <2>4, <2>5, ReceiptSteps
<1> QED  BY <1>1, <1>2, LedgerInvariant, PTL DEF Spec

\* What started on an account within one window length from the start of u, not backdated.
Burst(u) ==
  {t \in OnAccount(Account[attempts[u].worker]) \ backdated :
     /\ attempts[t].startedAt >= attempts[u].startedAt
     /\ attempts[t].startedAt < attempts[u].startedAt + TaskWindow[Account[attempts[u].worker]]}

\* The start of u, the account and its limits are what the counting argument needs of types.
LEMMA StartTypes ==
  ASSUME LedgerInv, NEW u \in DOMAIN attempts
  PROVE  /\ attempts[u].startedAt \in Nat
         /\ Account[attempts[u].worker] \in Accounts
         /\ TaskWindow[Account[attempts[u].worker]] \in Nat
         /\ MaxTasks[Account[attempts[u].worker]] \in Nat
         /\ IsFiniteSet(Burst(u)) /\ Cardinality(Burst(u)) \in Nat
<1>1. attempts[u].startedAt \in Nat /\ attempts[u].worker \in Workers
  BY DEF LedgerInv, TypeOK, Receipts
<1>2. Burst(u) \in SUBSET DOMAIN attempts
  BY DEF Burst, OnAccount
<1>3. IsFiniteSet(Burst(u)) /\ Cardinality(Burst(u)) \in Nat
  BY <1>2, FS_Subset, FS_CardinalityType DEF LedgerInv
<1> QED  BY <1>1, <1>3, AccountAssumption, LimitAssumption

\* A reservation adds at most itself to a burst, and a burst it joins was counted by its plan:
\* whatever starts within the window of u and of the new task started after now - taskWindowMs.
LEMMA BurstStep ==
  ASSUME LedgerInv, RollingTaskCap, NEW r \in Runners, NEW t \in Tasks, NEW c \in Contents,
         NEW w \in Workers, NEW started \in Nat, Reserves(r, t, c, w, started),
         backdated' = IF started < now THEN backdated \cup {t} ELSE backdated,
         Cardinality(RecentAttempts(attempts, Account[w], now)) < MaxTasks[Account[w]],
         LedgerInv', NEW u \in DOMAIN attempts' \ backdated'
  PROVE  Cardinality(Burst(u)') <= MaxTasks[Account[attempts'[u].worker]]
<1> DEFINE a == Account[w]
           recent == RecentAttempts(attempts, a, now)
<1>1. /\ DOMAIN attempts' = DOMAIN attempts \cup {t} /\ t \notin DOMAIN attempts
      /\ attempts'[t].worker = w /\ attempts'[t].startedAt = started
      /\ \A x \in DOMAIN attempts : attempts'[x] = attempts[x]
      /\ backdated \subseteq backdated' /\ (t \notin backdated' => ~ (started < now))
  BY DEF Reserves, Record, Reserved
<1>2. now \in Nat /\ a \in Accounts /\ TaskWindow[a] \in Nat /\ MaxTasks[a] \in Nat
  BY AccountAssumption, LimitAssumption DEF LedgerInv, TypeOK
<1>3. \A x \in DOMAIN attempts : attempts[x].startedAt \in Nat
  BY StartTypes
<1>4. IsFiniteSet(recent) /\ Cardinality(recent) \in Nat
  <2>1. recent \in SUBSET DOMAIN attempts
    BY DEF RecentAttempts, AccountAttempts
  <2> QED  BY <2>1, FS_Subset, FS_CardinalityType DEF LedgerInv
<1>5. IsFiniteSet(Burst(u)') /\ Cardinality(Burst(u)') \in Nat
  <2>1. Burst(u)' \in SUBSET DOMAIN attempts'
    BY DEF Burst, OnAccount
  <2> QED  BY <2>1, FS_Subset, FS_CardinalityType DEF LedgerInv
<1>6. CASE t \in Burst(u)'
  <2>1. Account[attempts'[u].worker] = a
    BY <1>1, <1>6 DEF Burst, OnAccount
  <2>2. /\ attempts'[u].startedAt \in Nat /\ started < attempts'[u].startedAt + TaskWindow[a]
        /\ ~ (started < now)
    BY <1>1, <1>3, <1>6, <2>1 DEF Burst
  <2>3. Burst(u)' \subseteq recent \cup {t}
    <3> SUFFICES ASSUME NEW x \in Burst(u)', x # t PROVE x \in recent  OBVIOUS
    <3>1. x \in DOMAIN attempts /\ Account[attempts[x].worker] = a /\ attempts[x].startedAt >= attempts'[u].startedAt
      BY <1>1, <2>1 DEF Burst, OnAccount
    <3>2. attempts[x].startedAt > now - TaskWindow[a]
      BY <1>2, <1>3, <2>2, <3>1
    <3> QED  BY <3>1, <3>2 DEF RecentAttempts, AccountAttempts
  <2>4. t \notin recent
    BY <1>1 DEF RecentAttempts, AccountAttempts
  <2>5. IsFiniteSet(recent \cup {t}) /\ Cardinality(recent \cup {t}) = Cardinality(recent) + 1
    BY <1>4, <2>4, FS_AddElement
  <2>6. Cardinality(Burst(u)') <= Cardinality(recent \cup {t})
    BY <2>3, <2>5, FS_Subset
  <2>7. Cardinality(recent) < MaxTasks[a]
    OBVIOUS
  <2> HIDE DEF recent
  <2> QED  BY <1>2, <1>4, <1>5, <2>1, <2>5, <2>6, <2>7
<1>7. CASE t \notin Burst(u)'
  <2>1. u \in DOMAIN attempts \ backdated
    <3>1. TaskWindow[a] > 0 /\ started < started + TaskWindow[a]
      BY <1>2, LimitAssumption
    <3>2. u = t => t \in Burst(u)'
      BY <1>1, <3>1 DEF Burst, OnAccount
    <3> QED  BY <1>1, <1>7, <3>2
  <2>2. attempts'[u] = attempts[u]
    BY <1>1, <2>1
  <2>3. Burst(u)' \subseteq Burst(u)
    BY <1>1, <1>7, <2>1, <2>2 DEF Burst, OnAccount
  <2>4. Cardinality(Burst(u)) <= MaxTasks[Account[attempts[u].worker]]
    BY <2>1 DEF RollingTaskCap, Burst
  <2>5. Cardinality(Burst(u)') <= Cardinality(Burst(u)) /\ MaxTasks[Account[attempts[u].worker]] \in Nat
        /\ Cardinality(Burst(u)) \in Nat
    BY <2>1, <2>3, StartTypes, FS_Subset
  <2> QED  BY <1>5, <2>2, <2>4, <2>5
<1> QED  BY <1>6, <1>7

\* maxTasksPerWindow bounds what any window holds of the starts that were stamped no earlier
\* than they were planned, for every behaviour of the clock between admissions.
THEOREM RollingBound == Spec => []RollingTaskCap
<1>1. Init => RollingTaskCap
  BY DEF Init, NoReport, RollingTaskCap
<1>2. LedgerInv /\ LedgerInv' /\ RollingTaskCap /\ [Next]_vars => RollingTaskCap'
  <2> SUFFICES ASSUME LedgerInv, LedgerInv', RollingTaskCap, [Next]_vars, NEW u \in DOMAIN attempts' \ backdated'
               PROVE  Cardinality(Burst(u)') <= MaxTasks[Account[attempts'[u].worker]]
    BY DEF RollingTaskCap, Burst
  <2>1. ASSUME u \in DOMAIN attempts \ backdated, Burst(u)' = Burst(u), attempts'[u].worker = attempts[u].worker
        PROVE  Cardinality(Burst(u)') <= MaxTasks[Account[attempts'[u].worker]]
    BY <2>1 DEF RollingTaskCap, Burst
  <2>2. CASE UNCHANGED <<attempts, backdated>>
    BY <2>1, <2>2 DEF Burst, OnAccount
  <2>3. ASSUME NEW r \in Runners, run[r] # NoRun, run[r].pc = "ran", HeldReservation(r),
               attempts' = Record(run[r].task, run[r].receipt), UNCHANGED backdated
        PROVE  Cardinality(Burst(u)') <= MaxTasks[Account[attempts'[u].worker]]
    <3>1. /\ DOMAIN attempts' = DOMAIN attempts
          /\ \A x \in DOMAIN attempts : attempts'[x].worker = attempts[x].worker
                                        /\ attempts'[x].startedAt = attempts[x].startedAt
      BY <2>3, SettledReceipt
    <3>2. Burst(u)' = Burst(u)
      BY <2>3, <3>1 DEF Burst, OnAccount
    <3> QED  BY <2>1, <2>3, <3>1, <3>2
  <2> QED  BY <2>2, <2>3, BurstStep, ReceiptSteps
<1> QED  BY <1>1, <1>2, LedgerInvariant, PTL DEF Spec

(***************************************************************************)
(* The ledger implements the abstract task ledger that the console's       *)
(* supervisor relies on (TaskLedger).                                      *)
(***************************************************************************)
\* An empty pool is an empty abstract ledger.
LEMMA EmptyLedger == Init => Ledger!Empty
<1> SUFFICES ASSUME Init PROVE Ledger!Empty  OBVIOUS
<1>1. DOMAIN attempts = {}
  BY DEF Init, NoReport
<1>2. AbstractReceipts = [t \in {} |-> "reserved"]
  BY <1>1 DEF AbstractReceipts
<1>3. AbstractInvoked = {}
  BY DEF Init, AbstractInvoked
<1> QED  BY <1>2, <1>3 DEF Ledger!Empty

\* The steps of the pool, by what they do to receipts and executions.
LEMMA LedgerSteps ==
  ASSUME LedgerInv, [Next]_vars
  PROVE  \/ UNCHANGED <<attempts, executions>>
         \/ \E r \in Runners : Dispatch(r)
         \/ \E r \in Runners : Settle(r)
         \/ \E r \in Runners, t \in Tasks, c \in Contents, w \in Workers, started \in Nat :
              Reserves(r, t, c, w, started)
<1>1. ASSUME NEW r \in Runners, NEW t \in Tasks, NEW c \in Contents, NEW incoming \in Snapshots,
             NEW gate \in Gates, NEW fresh \in Evidence \cup {NoEvidence}, NEW started \in Clock,
             Admit(r, t, c, incoming, gate, fresh, started)
      PROVE  \E w \in Workers : Reserves(r, t, c, w, started) /\ started \in Nat
  BY <1>1, AdmitReserves
<1>2. ASSUME NEW o \in Operators, EditPolicy(o)
      PROVE  UNCHANGED <<attempts, executions>>
  BY <1>2 DEF EditPolicy, ReadPolicy, SetResourcePoolAllocation, SetResourceWorkerAccess,
              SetResourceQuotaScopeAccess
<1>3. ASSUME NEW r \in Runners, RunTask(r)
      PROVE  \/ UNCHANGED <<attempts, executions>>
             \/ Dispatch(r)
             \/ Settle(r)
             \/ \E t \in Tasks, c \in Contents, incoming \in Snapshots, gate \in Gates,
                   fresh \in Evidence \cup {NoEvidence}, started \in Clock :
                     Admit(r, t, c, incoming, gate, fresh, started)
  <2>1. ASSUME NEW t \in Tasks, NEW c \in Contents, NEW incoming \in Snapshots, Replay(t, c, incoming)
        PROVE  UNCHANGED <<attempts, executions>>
    BY <2>1 DEF Replay
  <2>2. ASSUME NEW t \in Tasks, NEW c \in Contents, NEW incoming \in Snapshots, NEW gate \in Gates,
               NEW fresh \in Evidence \cup {NoEvidence}, Wait(t, c, incoming, gate, fresh)
        PROVE  UNCHANGED <<attempts, executions>>
    BY <2>2 DEF Wait
  <2>3. ASSUME NEW status \in Statuses, NEW report \in Reports, Finish(r, status, report)
        PROVE  UNCHANGED <<attempts, executions>>
    BY <2>3 DEF Finish
  <2>4. ASSUME Veto(r) \/ Abandon(r)
        PROVE  UNCHANGED <<attempts, executions>>
    BY <2>4 DEF Veto, Abandon
  <2> QED  BY <1>3, <2>1, <2>2, <2>3, <2>4, Zenon DEF RunTask
<1>4. ASSUME SetClock \/ UNCHANGED vars
      PROVE  UNCHANGED <<attempts, executions>>
  BY <1>4 DEF SetClock, vars
<1>5. CASE \E r \in Runners : RunTask(r)
  <2>1. PICK r \in Runners : RunTask(r)  BY <1>5
  <2>2. CASE \E t \in Tasks, c \in Contents, incoming \in Snapshots, gate \in Gates,
                fresh \in Evidence \cup {NoEvidence}, started \in Clock :
                  Admit(r, t, c, incoming, gate, fresh, started)
    BY <1>1, <2>2
  <2> QED  BY <1>3, <2>1, <2>2
<1> QED  BY <1>2, <1>4, <1>5 DEF Next

\* A reservation of the pool reserves in the abstract ledger.
LEMMA ReservesAbstractly ==
  ASSUME LedgerInv, NEW r \in Runners, NEW t \in Tasks, NEW c \in Contents, NEW w \in Workers,
         NEW started \in Nat, Reserves(r, t, c, w, started)
  PROVE  Ledger!ReserveReceipt(t, c)
<1>1. t \notin DOMAIN AbstractReceipts
  BY DEF Reserves, AbstractReceipts
<1>2. AbstractInvoked' = AbstractInvoked
  BY DEF Reserves, AbstractInvoked
<1>3. /\ DOMAIN attempts' = DOMAIN attempts \cup {t}
      /\ attempts'[t].content = c /\ attempts'[t].status = "reserved"
      /\ \A x \in DOMAIN attempts : attempts'[x] = attempts[x]
  BY DEF Reserves, Record, Reserved
<1>4. AbstractReceipts' = Ledger!Receipt(t, c, "reserved")
  BY <1>1, <1>3 DEF AbstractReceipts, Ledger!Receipt
<1> QED  BY <1>1, <1>2, <1>4 DEF Ledger!ReserveReceipt

\* A dispatch invokes the worker of an open receipt for the first time.
LEMMA InvokesAbstractly ==
  ASSUME LedgerInv, NEW r \in Runners, Dispatch(r)
  PROVE  run[r].task \in Tasks /\ Ledger!Invoke(run[r].task)
<1> DEFINE t == run[r].task
<1>1. /\ run[r] # NoRun /\ run[r].pc = "reserved" /\ attempts' = attempts
      /\ executions' = [executions EXCEPT ![t] = @ + 1]
  BY DEF Dispatch
<1>2. t \in Tasks /\ HeldReservation(r) /\ ExecutionKnown(r) /\ executions \in [Tasks -> Nat]
  BY <1>1 DEF LedgerInv, TypeOK, Runs, RunsHoldReservations
<1>3. t \in DOMAIN AbstractReceipts /\ AbstractReceipts[t].status = "reserved"
  BY <1>2 DEF HeldReservation, AbstractReceipts
<1>4. executions[t] = 0
  BY <1>1, <1>2 DEF ExecutionKnown
<1>5. AbstractInvoked' = AbstractInvoked \cup {t} /\ t \notin AbstractInvoked
  BY <1>1, <1>2, <1>4 DEF AbstractInvoked
<1>6. AbstractReceipts' = AbstractReceipts
  BY <1>1 DEF AbstractReceipts
<1> QED  BY <1>2, <1>3, <1>5, <1>6 DEF Ledger!Invoke

\* A settlement settles an open receipt, as failed unless its worker was invoked.
LEMMA SettlesAbstractly ==
  ASSUME LedgerInv, NEW r \in Runners, Settle(r)
  PROVE  /\ run[r].task \in Tasks
         /\ run[r].receipt.status \in Statuses
         /\ Ledger!Settle(run[r].task, run[r].receipt.status)
<1> DEFINE t == run[r].task
           status == run[r].receipt.status
<1>1. /\ run[r] # NoRun /\ run[r].pc = "ran" /\ executions' = executions
      /\ attempts' = Record(t, run[r].receipt)
  BY DEF Settle
<1>2. t \in Tasks /\ HeldReservation(r) /\ ExecutionKnown(r) /\ executions \in [Tasks -> Nat]
  BY <1>1 DEF LedgerInv, TypeOK, Runs, RunsHoldReservations
<1>3. t \in DOMAIN AbstractReceipts /\ AbstractReceipts[t].status = "reserved"
  BY <1>2 DEF HeldReservation, AbstractReceipts
<1>4. status \in Statuses
  BY <1>1, <1>2 DEF HeldReservation
<1>5. t \in AbstractInvoked \/ status = "failed"
  <2>1. CASE executions[t] = 0
    BY <1>1, <1>2, <2>1 DEF ExecutionKnown
  <2>2. CASE executions[t] # 0
    BY <1>2, <2>2 DEF AbstractInvoked
  <2> QED  BY <2>1, <2>2
<1>6. /\ DOMAIN attempts' = DOMAIN attempts
      /\ attempts'[t].content = attempts[t].content /\ attempts'[t].status = status
      /\ \A x \in DOMAIN attempts \ {t} : attempts'[x] = attempts[x]
  BY <1>1, <1>2 DEF Record, HeldReservation
<1>7. AbstractReceipts[t].content = attempts[t].content
  BY <1>3 DEF AbstractReceipts
<1>8. AbstractReceipts' = Ledger!Receipt(t, AbstractReceipts[t].content, status)
  BY <1>3, <1>6, <1>7 DEF AbstractReceipts, Ledger!Receipt
<1>9. AbstractInvoked' = AbstractInvoked
  BY <1>1 DEF AbstractInvoked
<1> QED  BY <1>2, <1>3, <1>4, <1>5, <1>8, <1>9 DEF Ledger!Settle

\* Every step of the pool is a step of the abstract ledger or invisible to it.
LEMMA StepsAbstractly ==
  LedgerInv /\ [Next]_vars => [Ledger!Step]_<<AbstractReceipts, AbstractInvoked>>
<1> SUFFICES ASSUME LedgerInv, [Next]_vars
             PROVE  [Ledger!Step]_<<AbstractReceipts, AbstractInvoked>>
  OBVIOUS
<1>1. CASE UNCHANGED <<attempts, executions>>
  BY <1>1 DEF AbstractReceipts, AbstractInvoked
<1>2. ASSUME NEW r \in Runners, Dispatch(r)
      PROVE  Ledger!Step
  BY <1>2, InvokesAbstractly DEF Ledger!Step
<1>3. ASSUME NEW r \in Runners, Settle(r)
      PROVE  Ledger!Step
  <2>1. run[r].receipt.status \in Ledger!Settlements
    BY <1>3, SettlesAbstractly DEF Statuses, Terminal, Ledger!Settlements, Ledger!Terminal
  <2> QED  BY <1>3, <2>1, SettlesAbstractly DEF Ledger!Step
<1>4. ASSUME NEW r \in Runners, NEW t \in Tasks, NEW c \in Contents, NEW w \in Workers,
             NEW started \in Nat, Reserves(r, t, c, w, started)
      PROVE  Ledger!Step
  BY <1>4, ReservesAbstractly DEF Ledger!Step
<1> QED  BY <1>1, <1>2, <1>3, <1>4, LedgerSteps

\* runResourceTask and everything that shares its ledger implement the abstract task ledger:
\* one receipt per task, durable before the worker is invoked, invoked once, settled once.
THEOREM ImplementsTaskLedger == Spec => ReceiptLifecycle
BY EmptyLedger, StepsAbstractly, LedgerInvariant, PTL DEF Spec, ReceiptLifecycle, Ledger!Lifecycle

(***************************************************************************)
(* What admission guarantees: evidence, denials, cooldowns, ceilings and   *)
(* pauses, through merging, capacity and selection.                        *)
(***************************************************************************)

(***************************************************************************)
(* The plan behind a reservation.                                          *)
(***************************************************************************)
\* Plan s of an admission that leaves the observations as in obs': its inputs are the
\* receipts, the policy and the clock of the transaction.
PlanOf(s) ==
  /\ s.obs = obs'
  /\ s.attempts = attempts
  /\ s.ceiling = policy.ceiling
  /\ s.paused = policy.paused
  /\ s.now = now

\* A task that appears in the ledger was reserved on a worker its plan found open.
LEMMA NewReservation ==
  ASSUME LedgerInv, [Next]_vars, NEW t \in NewReservations
  PROVE  \E s : /\ PlanOf(s)
                /\ attempts'[t].worker \in Workers
                /\ ~ EvidenceExcluded(attempts'[t].worker, s)
<1>1. ASSUME NEW r \in Runners, Settle(r)
      PROVE  FALSE
  <2>1. DOMAIN attempts' = DOMAIN attempts
    BY <1>1, SettledReceipt DEF Settle, LedgerInv, RunsHoldReservations
  <2> QED  BY <2>1 DEF NewReservations
<1>2. PICK r \in Runners, u \in Tasks, c \in Contents, incoming \in Snapshots, gate \in Gates,
           fresh \in Evidence \cup {NoEvidence}, started \in Clock :
             Admit(r, u, c, incoming, gate, fresh, started)
  <2>1. attempts' # attempts
    BY DEF NewReservations
  <2>2. ASSUME NEW o \in Operators, EditPolicy(o)
        PROVE  attempts' = attempts
    BY <2>2 DEF EditPolicy, ReadPolicy, SetResourcePoolAllocation, SetResourceWorkerAccess,
                SetResourceQuotaScopeAccess
  <2>3. PICK r \in Runners : RunTask(r)
    BY <2>1, <2>2 DEF Next, SetClock, vars
  <2> QED  BY <1>1, <2>1, <2>3, ZenonT(60) DEF RunTask, Replay, Wait, Veto, Dispatch, Finish, Abandon
<1> DEFINE known == MergeResourceObservations(obs, incoming, now)
           s == Snapshot(Refreshed(known, fresh), Gated(c, known, gate, fresh))
<1>3. PICK w \in AllowedIn[c] : /\ Selects(w, AllowedIn[c], s)
                                /\ attempts' = Record(u, Reserved(c, w, started))
  BY <1>2 DEF Admit
<1>4. t = u /\ attempts'[t].worker = w
  <2>1. DOMAIN attempts' = DOMAIN attempts \cup {u} /\ attempts'[u] = Reserved(c, w, started)
    BY <1>3 DEF Record
  <2>2. t = u
    BY <2>1 DEF NewReservations
  <2> QED  BY <2>1, <2>2 DEF Reserved
<1>5. obs' = Refreshed(known, fresh)
  BY <1>2 DEF Admit, Commit
<1>6. PlanOf(s)
  BY <1>5 DEF PlanOf, Snapshot
<1>7. ~ EvidenceExcluded(w, s) /\ w \in Workers
  BY <1>3, SelectedIsOpen, LedgerAssumption
<1> HIDE DEF s
<1> QED  BY <1>4, <1>6, <1>7

\* A reservation changes neither the policy nor the recorded receipts, and its evidence is
\* well formed.
LEMMA AfterReservation ==
  ASSUME LedgerInv, [Next]_vars
  PROVE  TypedObservations(obs') /\ now \in Nat /\ policy \in Policies
BY LedgerNext DEF LedgerInv, TypeOK

(***************************************************************************)
(* Operator pauses.                                                        *)
(***************************************************************************)
\* What a console read last is no newer than the policy, and if it is as new it is the policy.
PausesInv ==
  /\ pauses \subseteq policy.paused
  /\ \A o \in Operators :
       /\ seen[o].revision["workers"] <= policy.revision["workers"]
       /\ seen[o].revision["workers"] = policy.revision["workers"] => seen[o].paused = policy.paused

\* Compare-and-save keeps it: a save that would undo a pause was read before it.
LEMMA PausesNext == LedgerInv /\ PausesInv /\ [Next]_vars => PausesInv'
<1> SUFFICES ASSUME LedgerInv, PausesInv, [Next]_vars PROVE PausesInv'  OBVIOUS
<1>1. policy \in Policies /\ seen \in [Operators -> Policies]
  BY DEF LedgerInv, TypeOK
<1>2. policy.revision["workers"] \in Nat /\ \A o \in Operators : seen[o].revision["workers"] \in Nat
  BY <1>1 DEF Policies, PolicyKinds
<1>3. CASE UNCHANGED <<policy, seen, pauses>>
  BY <1>3 DEF PausesInv
<1>4. ASSUME NEW o \in Operators, EditPolicy(o)
      PROVE  PausesInv'
  <2>1. CASE ReadPolicy(o)
    <3>1. /\ \A p \in Operators : seen'[p] = IF p = o THEN policy ELSE seen[p]
          /\ policy' = policy /\ pauses' = pauses
      BY <1>1, <2>1 DEF ReadPolicy
    <3> QED  BY <1>2, <3>1 DEF PausesInv
  <2>2. ASSUME NEW ceiling \in Ceilings, SetResourcePoolAllocation(o, ceiling)
        PROVE  PausesInv'
    <3>1. /\ policy'.paused = policy.paused /\ policy'.revision["workers"] = policy.revision["workers"]
          /\ seen' = seen /\ pauses' = pauses
      BY <1>1, <2>2 DEF SetResourcePoolAllocation, Revise, Policies, PolicyKinds
    <3> QED  BY <3>1 DEF PausesInv
  <2>3. ASSUME NEW x \in Exclusions, NEW exclude \in BOOLEAN, SetResourceQuotaScopeAccess(o, x, exclude)
        PROVE  PausesInv'
    <3>1. /\ policy'.paused = policy.paused /\ policy'.revision["workers"] = policy.revision["workers"]
          /\ seen' = seen /\ pauses' = pauses
      BY <1>1, <2>3 DEF SetResourceQuotaScopeAccess, Revise, Policies, PolicyKinds
    <3> QED  BY <3>1 DEF PausesInv
  <2>4. ASSUME NEW w \in Workers, NEW pause \in BOOLEAN, SetResourceWorkerAccess(o, w, pause)
        PROVE  PausesInv'
    <3>1. /\ policy'.paused = IF pause THEN seen[o].paused \cup {w} ELSE seen[o].paused \ {w}
          /\ policy'.revision["workers"] = policy.revision["workers"] + 1
          /\ pauses' = IF pause THEN pauses \cup {w} ELSE pauses \ {w}
          /\ seen' = seen
          /\ seen[o].revision["workers"] = policy.revision["workers"]
      BY <1>1, <2>4 DEF SetResourceWorkerAccess, Fresh, Revise, Policies, PolicyKinds
    <3>2. seen[o].paused = policy.paused
      BY <3>1 DEF PausesInv
    <3>3. pauses' \subseteq policy'.paused
      BY <3>1, <3>2 DEF PausesInv
    <3>4. \A p \in Operators : seen[p].revision["workers"] < policy'.revision["workers"]
      BY <1>2, <3>1 DEF PausesInv
    <3>5. \A p \in Operators : /\ seen'[p].revision["workers"] <= policy'.revision["workers"]
                               /\ seen'[p].revision["workers"] # policy'.revision["workers"]
      BY <1>2, <3>1, <3>4
    <3> QED  BY <3>3, <3>5 DEF PausesInv
  <2> QED  BY <1>4, <2>1, <2>2, <2>3, <2>4 DEF EditPolicy
<1>5. ASSUME NEW r \in Runners, RunTask(r)
      PROVE  UNCHANGED <<policy, seen, pauses>>
  <2>1. ASSUME NEW t, NEW c, NEW incoming, NEW gate, NEW fresh, NEW started,
               \/ Replay(t, c, incoming)
               \/ Wait(t, c, incoming, gate, fresh)
               \/ Admit(r, t, c, incoming, gate, fresh, started)
        PROVE  UNCHANGED <<policy, seen, pauses>>
    BY <2>1 DEF Replay, Wait, Admit
  <2>2. ASSUME NEW status, NEW report,
               Veto(r) \/ Dispatch(r) \/ Finish(r, status, report) \/ Settle(r) \/ Abandon(r)
        PROVE  UNCHANGED <<policy, seen, pauses>>
    BY <2>2 DEF Veto, Dispatch, Finish, Settle, Abandon
  <2> QED  BY <1>5, <2>1, <2>2 DEF RunTask
<1> QED  BY <1>3, <1>4, <1>5 DEF Next, SetClock, vars

\* An acknowledged pause of any alias keeps the account out until a resume is acknowledged.
THEOREM PausedAccountsRest == Spec => PausesAreKept
<1> DEFINE Rests == \A t \in NewReservations : \A w \in pauses : Account[w] # Account[attempts'[t].worker]
<1>1. Init => PausesInv
  BY DEF Init, PausesInv, PolicyKinds
<1>2. LedgerInv /\ PausesInv /\ [Next]_vars => Rests
  <2> SUFFICES ASSUME LedgerInv, PausesInv, [Next]_vars, NEW t \in NewReservations, NEW w \in pauses
               PROVE  Account[w] # Account[attempts'[t].worker]
    OBVIOUS
  <2>1. PICK s : PlanOf(s) /\ ~ EvidenceExcluded(attempts'[t].worker, s)
    BY NewReservation
  <2>2. w \in s.paused
    BY <2>1 DEF PausesInv, PlanOf
  <2> QED  BY <2>1, <2>2 DEF EvidenceExcluded, Vetoed, DeniedAccounts
<1>3. LedgerInv /\ PausesInv /\ [Next]_vars => [Rests]_vars
  BY <1>2
<1> QED  BY <1>1, <1>3, PausesNext, LedgerInvariant, PTL DEF Spec, PausesAreKept

(***************************************************************************)
(* The allocation ceiling.                                                 *)
(***************************************************************************)
\* Below a full ceiling a remote worker is reserved only on complete, current evidence of
\* every alias that shares its quota, each reading below the ceiling.
THEOREM CeilingProven == Spec => CeilingNeedsProof
<1> DEFINE Sharing(w) == {u \in Workers : Account[u] = Account[w] /\ SharesResourceQuota(u, w)}
           Proven(v) == /\ v \in DOMAIN obs'
                        /\ obs'[v].expiresAt > now
                        /\ DOMAIN obs'[v].windows # {}
                        /\ \A id \in DOMAIN obs'[v].windows :
                             /\ obs'[v].windows[id].resets > now
                             /\ obs'[v].windows[id].used \in 0 .. policy.ceiling - 1
           Limited == policy.ceiling # Null /\ policy.ceiling < 100
           AllProven == \A t \in NewReservations :
                          LET w == attempts'[t].worker
                          IN  Remote(w) /\ policy.ceiling # Null /\ policy.ceiling < 100 =>
                                \A v \in Sharing(w) : Proven(v)
<1>1. LedgerInv /\ [Next]_vars => AllProven
  <2> SUFFICES ASSUME LedgerInv, [Next]_vars, NEW t \in NewReservations,
                      Remote(attempts'[t].worker), Limited,
                      NEW v \in Sharing(attempts'[t].worker)
               PROVE  Proven(v)
    OBVIOUS
  <2> DEFINE w == attempts'[t].worker
  <2>1. PICK s : PlanOf(s) /\ w \in Workers /\ ~ EvidenceExcluded(w, s)
    BY NewReservation
  <2>2. TypedObservations(obs') /\ now \in Nat /\ policy.ceiling \in 0..100
    BY AfterReservation DEF Policies
  <2>3. s.obs = obs' /\ s.ceiling = policy.ceiling /\ s.now = now
    BY <2>1 DEF PlanOf
  <2>4. v \in Workers /\ Account[v] = Account[w] /\ SharesResourceQuota(v, w) /\ SharesResourceQuota(w, v)
    BY DEF SharesResourceQuota
  <2>5. Remote(v) /\ Remote(w)
    BY <2>1, <2>4, ProviderAssumption DEF Remote
  <2>6. v \notin UnprovenWorkers(s)
    <3>1. w \notin ExpandResourceQuotaDenials(s.quotaUnavailable \cup UnprovenWorkers(s))
      BY <2>1 DEF EvidenceExcluded, Vetoed
    <3> QED  BY <2>1, <2>4, <3>1 DEF ExpandResourceQuotaDenials
  <2> HIDE DEF w, Sharing
  <2>7. /\ v \in DOMAIN obs' /\ ~ (obs'[v].expiresAt <= now) /\ DOMAIN obs'[v].windows # {}
        /\ ~ UnknownWindow(obs'[v], now)
    BY <2>3, <2>4, <2>5, <2>6 DEF UnprovenWorkers
  <2>8. Observation(obs'[v])
    BY <2>2, <2>7 DEF TypedObservations
  <2>9. policy.ceiling # 0
    <3>1. Account[w] \notin DeniedAccounts(s)
      BY <2>1 DEF EvidenceExcluded, Vetoed
    <3> QED  BY <2>1, <2>3, <2>5, <3>1 DEF DeniedAccounts, Remote
  <2>10. ReserveOf(w, s) = 100 - policy.ceiling
    BY <2>3, <2>5, <2>9 DEF ReserveOf
  <2>11. ~ ReserveReached(obs'[v], w, s)
    <3>1. v \in Aliases(w) \cap DOMAIN s.obs
      BY <2>3, <2>4, <2>7 DEF Aliases
    <3>2. ~ HardDenial(w, s)
      BY <2>1 DEF EvidenceExcluded
    <3> QED  BY <2>3, <2>4, <3>1, <3>2 DEF HardDenial
  <2>12. ASSUME NEW id \in DOMAIN obs'[v].windows
         PROVE  /\ obs'[v].windows[id].resets > now
                /\ obs'[v].windows[id].used \in 0 .. policy.ceiling - 1
    <3>1. /\ obs'[v].windows[id].used \in Null .. 100 /\ obs'[v].windows[id].used # Null
          /\ obs'[v].windows[id].resets \in Nat /\ ~ (obs'[v].windows[id].resets <= now)
      BY <2>7, <2>8 DEF UnknownWindow, Observation, WindowReadings
    <3>2. ~ (obs'[v].windows[id].used >= 100 - (100 - policy.ceiling))
      BY <2>10, <2>11, <3>1 DEF ReserveReached
    <3> DEFINE used == obs'[v].windows[id].used
               resets == obs'[v].windows[id].resets
    <3>3. used \in Int /\ used >= 0 /\ ~ (used >= 100 - (100 - policy.ceiling))
      BY <3>1, <3>2 DEF Null
    <3>4. resets \in Int /\ ~ (resets <= now)
      BY <3>1
    <3> HIDE DEF used, resets
    <3>5. used \in 0 .. policy.ceiling - 1 /\ resets > now
      BY <2>2, <3>3, <3>4
    <3> QED  BY <3>5 DEF used, resets
  <2>13. obs'[v].expiresAt > now
    BY <2>2, <2>7, <2>8 DEF Observation
  <2> QED  BY <2>7, <2>12, <2>13
<1>2. LedgerInv /\ [Next]_vars => [AllProven]_vars
  BY <1>1
<1> QED  BY <1>2, LedgerInvariant, PTL DEF Spec, CeilingNeedsProof

(***************************************************************************)
(* Retry times and cooldowns.                                              *)
(***************************************************************************)
\* A finite nonempty set of integers has a largest element: a least counterexample would
\* become one again by losing an element.
LEMMA LargestExists ==
  ASSUME NEW S \in SUBSET Int, IsFiniteSet(S), S # {}
  PROVE  \E x \in S : \A y \in S : x >= y
<1> DEFINE HasLargest(U) == \E x \in U : \A y \in U : x >= y
           bad == {U \in SUBSET S : U # {} /\ ~ HasLargest(U)}
<1> SUFFICES ASSUME bad # {} PROVE FALSE
  OBVIOUS
<1>1. bad \subseteq FiniteSubsetsOf(S)
  BY FS_FiniteSubsetsOfFinite
<1>2. IsWellFoundedOn(StrictSubsetOrdering(S), FiniteSubsetsOf(S))
  BY FS_StrictSubsetOrderingWellFounded
<1>3. PICK U \in bad : \A V \in bad : ~ (<<V, U>> \in StrictSubsetOrdering(S))
  <2> HIDE DEF bad
  <2> QED  BY <1>1, <1>2, WFMin
<1>4. PICK x \in U : TRUE
  BY <1>3
<1> DEFINE V == U \ {x}
<1>5. V \notin bad
  <2>1. <<V, U>> \in StrictSubsetOrdering(S)
    BY <1>3, <1>4 DEF StrictSubsetOrdering
  <2> QED  BY <1>3, <2>1
<1>6. CASE V = {}
  <2>1. \A y \in U : x >= y
    BY <1>4, <1>6
  <2> QED  BY <1>3, <1>4, <2>1
<1>7. CASE V # {}
  <2>1. PICK m \in V : \A y \in V : m >= y
    BY <1>5, <1>7
  <2>2. x \in Int /\ m \in Int /\ \A y \in V : y \in Int
    BY <1>4, <2>1
  <2>3. CASE x >= m
    <3>1. \A y \in U : x >= y
      BY <2>1, <2>2, <2>3
    <3> QED  BY <1>3, <1>4, <3>1
  <2>4. CASE ~ (x >= m)
    <3>1. \A y \in U : m >= y
      BY <2>1, <2>2, <2>4
    <3> QED  BY <1>3, <2>1, <3>1
  <2> QED  BY <2>3, <2>4
<1> QED  BY <1>6, <1>7

\* Max bounds every element.
LEMMA MaxBounds ==
  ASSUME NEW S \in SUBSET Int, IsFiniteSet(S), NEW y \in S
  PROVE  Max(S) \in S /\ Max(S) >= y
BY LargestExists DEF Max

\* The values of a function on a finite set form a finite set.
LEMMA FiniteImage ==
  ASSUME NEW S, IsFiniteSet(S), NEW f
  PROVE  IsFiniteSet({f[x] : x \in S})
<1> DEFINE T == {f[x] : x \in S}
           g == [x \in S |-> f[x]]
<1>1. g \in Surjection(S, T)
  BY DEF Surjection
<1> QED  BY <1>1, FS_Surjection

\* The times that RetryTime is the last of.
RetryTimes(w, s) ==
  {Null} \cup {s.obs[v].retryAfter : v \in Aliases(w) \cap DOMAIN s.obs}
         \cup {s.attempts[t].finishedAt + FailureCooldown : t \in FailedAttempts(s.attempts, Account[w])}

\* There are finitely many of them.
LEMMA RetryTimesFinite ==
  ASSUME NEW s, NEW w \in Workers, TypedObservations(s.obs), IsFiniteSet(DOMAIN s.attempts),
         \A t \in FailedAttempts(s.attempts, Account[w]) : s.attempts[t].finishedAt \in Int
  PROVE  /\ RetryTime(w, s) = Max(RetryTimes(w, s))
         /\ IsFiniteSet(RetryTimes(w, s)) /\ RetryTimes(w, s) \in SUBSET Int
<1> DEFINE aliases == Aliases(w) \cap DOMAIN s.obs
           failed  == FailedAttempts(s.attempts, Account[w])
           retries == {s.obs[v].retryAfter : v \in aliases}
           cooling == {s.attempts[t].finishedAt + FailureCooldown : t \in failed}
           times   == {Null} \cup retries \cup cooling
<1>1. RetryTime(w, s) = Max(times) /\ RetryTimes(w, s) = times
  BY DEF RetryTime, RetryTimes
<1>2. IsFiniteSet(retries)
  <2>1. IsFiniteSet(aliases)
    <3>1. aliases \in SUBSET Workers
      BY DEF Aliases
    <3> QED  BY <3>1, AccountAssumption, FS_Subset
  <2> DEFINE f == [v \in aliases |-> s.obs[v].retryAfter]
  <2>2. IsFiniteSet({f[v] : v \in aliases})
    <3> HIDE DEF f, aliases
    <3> QED  BY <2>1, FiniteImage
  <2>3. {f[v] : v \in aliases} = retries
    OBVIOUS
  <2> QED  BY <2>2, <2>3
<1>3. IsFiniteSet(cooling)
  <2>1. IsFiniteSet(failed)
    <3>1. failed \in SUBSET DOMAIN s.attempts
      BY DEF FailedAttempts, AccountAttempts
    <3> QED  BY <3>1, FS_Subset
  <2> DEFINE f == [t \in failed |-> s.attempts[t].finishedAt + FailureCooldown]
  <2>2. IsFiniteSet({f[t] : t \in failed})
    <3> HIDE DEF f, failed
    <3> QED  BY <2>1, FiniteImage
  <2>3. {f[t] : t \in failed} = cooling
    OBVIOUS
  <2> QED  BY <2>2, <2>3
<1>4. IsFiniteSet(times)
  <2> HIDE DEF retries, cooling
  <2>1. IsFiniteSet({Null} \cup retries)
    BY <1>2, FS_Singleton, FS_Union
  <2> QED  BY <1>3, <2>1, FS_Union
<1>5. times \in SUBSET Int
  <2>1. retries \in SUBSET Int
    BY DEF TypedObservations, Observation, Null
  <2>2. cooling \in SUBSET Int
    BY LimitAssumption
  <2> HIDE DEF retries, cooling
  <2> QED  BY <2>1, <2>2 DEF Null
<1> HIDE DEF times
<1> QED  BY <1>1, <1>4, <1>5

\* A worker whose retry time has passed is behind no retry-after time of an alias and no
\* cooldown of a failed attempt of its account.
LEMMA RetryPassed ==
  ASSUME NEW s, NEW w \in Workers, TypedObservations(s.obs), s.now \in Nat,
         IsFiniteSet(DOMAIN s.attempts),
         \A t \in FailedAttempts(s.attempts, Account[w]) : s.attempts[t].finishedAt \in Int,
         ~ (RetryTime(w, s) > s.now)
  PROVE  /\ \A v \in Aliases(w) \cap DOMAIN s.obs : s.obs[v].retryAfter <= s.now
         /\ \A t \in FailedAttempts(s.attempts, Account[w]) :
              s.attempts[t].finishedAt + FailureCooldown <= s.now
<1>1. \A y \in RetryTimes(w, s) : y <= s.now
  <2> SUFFICES ASSUME NEW y \in RetryTimes(w, s) PROVE y <= s.now  OBVIOUS
  <2>1. /\ RetryTime(w, s) = Max(RetryTimes(w, s))
        /\ IsFiniteSet(RetryTimes(w, s)) /\ RetryTimes(w, s) \in SUBSET Int
    BY RetryTimesFinite
  <2>2. Max(RetryTimes(w, s)) \in Int /\ y \in Int /\ Max(RetryTimes(w, s)) >= y
    BY <2>1, MaxBounds
  <2> QED  BY <2>1, <2>2
<1>2. \A v \in Aliases(w) \cap DOMAIN s.obs : s.obs[v].retryAfter \in RetryTimes(w, s)
  BY DEF RetryTimes
<1>3. \A t \in FailedAttempts(s.attempts, Account[w]) :
        s.attempts[t].finishedAt + FailureCooldown \in RetryTimes(w, s)
  BY DEF RetryTimes
<1> QED  BY <1>1, <1>2, <1>3

\* A worker whose retry time has not passed is behind one of them.
LEMMA RetryAhead ==
  ASSUME NEW s, NEW w \in Workers, NEW n \in Nat, TypedObservations(s.obs), IsFiniteSet(DOMAIN s.attempts),
         \A t \in FailedAttempts(s.attempts, Account[w]) : s.attempts[t].finishedAt \in Int,
         RetryTime(w, s) > n
  PROVE  \/ \E v \in Aliases(w) \cap DOMAIN s.obs : s.obs[v].retryAfter > n
         \/ \E t \in FailedAttempts(s.attempts, Account[w]) : s.attempts[t].finishedAt + FailureCooldown > n
<1>1. /\ RetryTime(w, s) = Max(RetryTimes(w, s))
      /\ IsFiniteSet(RetryTimes(w, s)) /\ RetryTimes(w, s) \in SUBSET Int
  BY RetryTimesFinite
<1>2. Null \in RetryTimes(w, s) /\ ~ (Null > n)
  BY DEF RetryTimes, Null
<1>3. RetryTime(w, s) \in RetryTimes(w, s)
  BY <1>1, <1>2, MaxBounds
<1>4. RetryTime(w, s) # Null
  BY <1>2
<1> QED  BY <1>3, <1>4 DEF RetryTimes

\* A provider failure keeps its whole account out for FailureCooldown, and a run that the
\* host vetoed keeps nobody out.
THEOREM FailuresCoolDown == Spec => FailureCoolsDown
<1> DEFINE Cooled == \A t \in NewReservations : \A u \in ProviderFailures(Account[attempts'[t].worker]) :
                       attempts[u].finishedAt + FailureCooldown <= now
           s0 == [obs |-> obs, attempts |-> attempts]
           Earned == \A w \in Workers : RetryTime(w, s0) > now =>
                       \/ \E v \in Aliases(w) \cap DOMAIN obs : obs[v].retryAfter > now
                       \/ \E u \in ProviderFailures(Account[w]) : attempts[u].finishedAt + FailureCooldown > now
<1>1. ASSUME LedgerInv, NEW a PROVE FailedAttempts(attempts, a) = ProviderFailures(a)
  <2>1. \A u \in DOMAIN attempts : attempts[u].status \in {"failed", "timed-out"} =>
           (~ attempts[u].vetoed <=> executions[u] > 0)
    <3> SUFFICES ASSUME NEW u \in DOMAIN attempts, attempts[u].status \in {"failed", "timed-out"}
                 PROVE  ~ attempts[u].vetoed <=> executions[u] > 0
      OBVIOUS
    <3>1. u \in Tasks /\ attempts[u].status # "reserved"
      BY <1>1 DEF LedgerInv, TypeOK
    <3>2. executions[u] \in 0..1 /\ (attempts[u].vetoed <=> executions[u] = 0)
      BY <1>1, <3>1 DEF LedgerInv, ExecutionsRecorded
    <3> QED  BY <3>2
  <2> QED  BY <2>1 DEF FailedAttempts, AccountAttempts, ProviderFailures, OnAccount
<1>2. ASSUME LedgerInv, NEW a PROVE \A x \in FailedAttempts(attempts, a) : attempts[x].finishedAt \in Int
  BY <1>2 DEF FailedAttempts, AccountAttempts, LedgerInv, TypeOK, Receipts, Null
<1>3. LedgerInv /\ [Next]_vars => Cooled
  <2> SUFFICES ASSUME LedgerInv, [Next]_vars, NEW t \in NewReservations,
                      NEW u \in ProviderFailures(Account[attempts'[t].worker])
               PROVE  attempts[u].finishedAt + FailureCooldown <= now
    OBVIOUS
  <2> DEFINE w == attempts'[t].worker
  <2>1. PICK s : PlanOf(s) /\ w \in Workers /\ ~ EvidenceExcluded(w, s)
    BY NewReservation
  <2>2. s.attempts = attempts /\ s.now = now /\ s.obs = obs'
    BY <2>1 DEF PlanOf
  <2>3. TypedObservations(s.obs) /\ s.now \in Nat
    BY <2>2, AfterReservation
  <2>4. \A x \in FailedAttempts(attempts, Account[w]) : attempts[x].finishedAt \in Int
    BY <1>2
  <2>5. u \in FailedAttempts(attempts, Account[w])
    BY <1>1
  <2>6. ~ (RetryTime(w, s) > s.now) /\ IsFiniteSet(DOMAIN attempts)
    BY <2>1 DEF EvidenceExcluded, LedgerInv
  <2> HIDE DEF w
  <2> QED  BY <2>1, <2>2, <2>3, <2>4, <2>5, <2>6, RetryPassed
<1>4. LedgerInv => Earned
  <2> SUFFICES ASSUME LedgerInv, NEW w \in Workers, RetryTime(w, s0) > now
               PROVE  \/ \E v \in Aliases(w) \cap DOMAIN obs : obs[v].retryAfter > now
                      \/ \E u \in ProviderFailures(Account[w]) : attempts[u].finishedAt + FailureCooldown > now
    OBVIOUS
  <2>1. s0.obs = obs /\ s0.attempts = attempts
    OBVIOUS
  <2>2. TypedObservations(obs) /\ now \in Nat /\ IsFiniteSet(DOMAIN attempts)
    BY DEF LedgerInv, TypeOK
  <2>3. FailedAttempts(attempts, Account[w]) = ProviderFailures(Account[w])
    BY <1>1
  <2>4. \A x \in FailedAttempts(attempts, Account[w]) : attempts[x].finishedAt \in Int
    BY <1>2
  <2> HIDE DEF s0
  <2>5. \/ \E v \in Aliases(w) \cap DOMAIN s0.obs : s0.obs[v].retryAfter > now
        \/ \E t \in FailedAttempts(s0.attempts, Account[w]) : s0.attempts[t].finishedAt + FailureCooldown > now
    BY <2>1, <2>2, <2>4, RetryAhead
  <2> QED  BY <2>1, <2>3, <2>5
<1>5. LedgerInv /\ [Next]_vars => [Cooled]_vars
  BY <1>3
<1> HIDE DEF s0
<1> QED
  <2> USE DEF s0
  <2> QED  BY <1>4, <1>5, LedgerInvariant, PTL DEF Spec, FailureCoolsDown

(***************************************************************************)
(* The ledger never refuses its own state.                                 *)
(***************************************************************************)
\* The order in which BoundedWindows keeps windows, those above a given one, and the kept.
Above(windows, i, j) ==
  \/ windows[i].used > windows[j].used
  \/ windows[i].used = windows[j].used /\ WindowRank[i] < WindowRank[j]

Higher(windows, i) == {j \in DOMAIN windows \ {Overflow} : Above(windows, j, i)}

Kept(windows) == {i \in DOMAIN windows \ {Overflow} : Cardinality(Higher(windows, i)) < MaxWindows - 1}

\* The number of windows above it tells kept windows apart, so fewer than MaxWindows are
\* kept and the overflow marker has a place.
LEMMA BoundedInventory ==
  ASSUME NEW windows, DOMAIN windows \subseteq WindowIds, \A id \in DOMAIN windows : windows[id].used \in Int
  PROVE  /\ DOMAIN BoundedWindows(windows) \subseteq WindowIds
         /\ Cardinality(DOMAIN BoundedWindows(windows)) <= MaxWindows
<1> DEFINE ids == DOMAIN windows \ {Overflow}
           place == [i \in Kept(windows) |-> Cardinality(Higher(windows, i))]
<1>1. DOMAIN BoundedWindows(windows) = Kept(windows) \cup {Overflow}
  BY DEF BoundedWindows, Kept, Higher, Above
<1>2. Kept(windows) \in SUBSET WindowIds /\ Overflow \in WindowIds /\ IsFiniteSet(WindowIds)
      /\ MaxWindows \in Nat /\ MaxWindows >= 1
  BY WindowAssumption DEF Kept, WindowIds
<1>3. \A i \in ids : IsFiniteSet(Higher(windows, i)) /\ Cardinality(Higher(windows, i)) \in Nat
  <2> SUFFICES ASSUME NEW i \in ids
               PROVE  IsFiniteSet(Higher(windows, i)) /\ Cardinality(Higher(windows, i)) \in Nat
    OBVIOUS
  <2>1. Higher(windows, i) \in SUBSET WindowIds
    BY DEF Higher
  <2> QED  BY <1>2, <2>1, FS_Subset, FS_CardinalityType
<1>4. ASSUME NEW i \in ids, NEW k \in ids, Above(windows, i, k)
      PROVE  Cardinality(Higher(windows, i)) # Cardinality(Higher(windows, k))
  <2>1. \A j \in ids : /\ windows[j].used \in Int /\ WindowRank[j] \in Int
    BY WindowAssumption DEF WindowIds
  <2>2. i \in Higher(windows, k) /\ i \notin Higher(windows, i)
    BY <1>4, <2>1 DEF Higher, Above
  <2>3. Higher(windows, i) \in SUBSET Higher(windows, k)
    BY <1>4, <2>1 DEF Higher, Above
  <2> QED  BY <1>3, <2>2, <2>3, FS_Subset
<1>5. ASSUME NEW i \in ids, NEW k \in ids, i # k
      PROVE  Cardinality(Higher(windows, i)) # Cardinality(Higher(windows, k))
  <2>1. /\ windows[i].used \in Int /\ windows[k].used \in Int
        /\ WindowRank[i] \in Int /\ WindowRank[k] \in Int /\ WindowRank[i] # WindowRank[k]
    BY <1>5, WindowAssumption DEF WindowIds
  <2>2. Above(windows, i, k) \/ Above(windows, k, i)
    BY <2>1 DEF Above
  <2> QED  BY <1>4, <2>2
<1>6. place \in Injection(Kept(windows), 0 .. MaxWindows - 2)
  <2>1. \A i \in Kept(windows) : i \in ids /\ Cardinality(Higher(windows, i)) < MaxWindows - 1
    BY DEF Kept
  <2>2. \A i \in Kept(windows) : place[i] \in 0 .. MaxWindows - 2
    BY <1>2, <1>3, <2>1
  <2>3. \A i, k \in Kept(windows) : place[i] = place[k] => i = k
    BY <1>5, <2>1
  <2> QED  BY <2>2, <2>3 DEF Injection, IsInjective
<1>7. IsFiniteSet(0 .. MaxWindows - 2) /\ Cardinality(0 .. MaxWindows - 2) = MaxWindows - 1
  <2>1. MaxWindows - 2 \in Int
    BY <1>2
  <2>2. /\ IsFiniteSet(0 .. MaxWindows - 2)
        /\ Cardinality(0 .. MaxWindows - 2) = IF 0 > MaxWindows - 2 THEN 0 ELSE (MaxWindows - 2) - 0 + 1
    BY <2>1, FS_Interval
  <2> QED  BY <1>2, <2>2
<1>8. IsFiniteSet(Kept(windows)) /\ Cardinality(Kept(windows)) <= MaxWindows - 1
      /\ Cardinality(Kept(windows)) \in Nat
  BY <1>6, <1>7, FS_Injection, FS_CardinalityType
<1>9. Overflow \notin Kept(windows)
  BY DEF Kept
<1>10. Cardinality(Kept(windows) \cup {Overflow}) = Cardinality(Kept(windows)) + 1
  BY <1>8, <1>9, FS_AddElement
<1> QED  BY <1>1, <1>2, <1>8, <1>10

\* Only workers that are not pinned to a scope can overflow.
LEMMA OverflowUnpinned ==
  ASSUME NEW w \in Workers, NEW before, NEW windows, DOMAIN before.windows \subseteq WorkerWindows(w),
         DOMAIN windows \subseteq WorkerWindows(w), Overflows(before, windows)
  PROVE  QuotaScope[w] = NoScope
<1> SUFFICES ASSUME QuotaScope[w] # NoScope PROVE FALSE
  OBVIOUS
<1> DEFINE scope == ScopeWindows[QuotaScope[w]]
<1>1. /\ scope \subseteq WindowIds \ {Overflow} /\ Cardinality(scope) <= MaxWindows
      /\ DOMAIN before.windows \subseteq scope /\ DOMAIN windows \subseteq scope
      /\ IsFiniteSet(WindowIds) /\ MaxWindows \in Nat
  BY ScopeAssumption, WindowAssumption DEF WorkerWindows, WindowIds
<1> HIDE DEF scope
<1>2. IsFiniteSet(scope) /\ Cardinality(scope) \in Nat
  BY <1>1, FS_Subset, FS_CardinalityType
<1>3. IsFiniteSet(DOMAIN windows) /\ Cardinality(DOMAIN windows) <= Cardinality(scope)
      /\ Cardinality(DOMAIN windows) \in Nat
  BY <1>1, <1>2, FS_Subset, FS_CardinalityType
<1>4. ~ (Cardinality(DOMAIN windows) > MaxWindows)
  BY <1>1, <1>2, <1>3
<1> QED  BY <1>1, <1>4 DEF Overflows

\* Min of two numbers is below both.
LEMMA MinBelow ==
  ASSUME NEW a \in Int, NEW b \in Int
  PROVE  Min({a, b}) \in {a, b} /\ Min({a, b}) <= a /\ Min({a, b}) <= b
<1>1. \E x \in {a, b} : \A y \in {a, b} : x <= y
  <2>1. CASE a <= b  BY <2>1
  <2>2. CASE b <= a  BY <2>2
  <2> QED  BY <2>1, <2>2
<1> QED  BY <1>1 DEF Min

\* Merging a valid row into a valid row of the same worker gives a valid row.
LEMMA MergeKnownValid ==
  ASSUME NEW w \in Workers, NEW before, NEW item, NEW clock \in Nat, Observation(before), Observation(item),
         ValidObservation(w, before), ValidObservation(w, item)
  PROVE  ValidObservation(w, MergeKnown(before, item, clock))
<1> DEFINE merged == MergedWindows(before, item, clock)
           row    == MergeKnown(before, item, clock)
<1>1. /\ before.observedAt \in Nat /\ before.expiresAt \in Nat /\ item.observedAt \in Nat /\ item.expiresAt \in Nat
      /\ before.expiresAt > before.observedAt /\ before.expiresAt - before.observedAt <= MaxAge
      /\ item.expiresAt > item.observedAt /\ item.expiresAt - item.observedAt <= MaxAge
      /\ MaxAge \in Nat
  BY WindowAssumption DEF Observation, ValidObservation
<1>2. CapturedAt(item) \in Nat /\ CapturedAt(item) >= item.observedAt
  BY DEF CapturedAt, Observation, ValidObservation
<1> DEFINE o == Min({before.observedAt, item.observedAt})
           e == Min({before.expiresAt, item.expiresAt})
<1>3. /\ o \in Nat /\ o <= item.observedAt /\ o <= before.observedAt
      /\ o \in {before.observedAt, item.observedAt}
  <2>1. before.observedAt \in Int /\ item.observedAt \in Int
    BY <1>1
  <2>2. /\ o \in {before.observedAt, item.observedAt}
        /\ o <= before.observedAt /\ o <= item.observedAt
    BY <2>1, MinBelow
  <2> HIDE DEF o
  <2> QED  BY <1>1, <2>2
<1>4. /\ e \in Nat /\ e <= item.expiresAt /\ e <= before.expiresAt
      /\ e \in {before.expiresAt, item.expiresAt}
  <2>1. before.expiresAt \in Int /\ item.expiresAt \in Int
    BY <1>1
  <2>2. /\ e \in {before.expiresAt, item.expiresAt}
        /\ e <= before.expiresAt /\ e <= item.expiresAt
    BY <2>1, MinBelow
  <2> HIDE DEF e
  <2> QED  BY <1>1, <2>2
<1>5. \/ row.observedAt = o /\ row.expiresAt = e
      \/ row.observedAt = item.observedAt /\ row.expiresAt = item.expiresAt
  BY DEF MergeKnown
<1>6. row.updatedAt = CapturedAt(item)
  BY DEF MergeKnown
<1>7. /\ row.expiresAt > row.observedAt
      /\ row.expiresAt - row.observedAt <= MaxAge
      /\ row.updatedAt >= row.observedAt
  <2> HIDE DEF o, e, row
  <2>1. e > o /\ e - o <= MaxAge /\ CapturedAt(item) >= o
    BY <1>1, <1>2, <1>3, <1>4
  <2> QED  BY <1>1, <1>2, <1>5, <1>6, <2>1
<1>8. DOMAIN merged = DOMAIN before.windows \cup DOMAIN item.windows
  BY DEF MergedWindows
<1>9. DOMAIN merged \subseteq WorkerWindows(w) /\ DOMAIN before.windows \subseteq WorkerWindows(w)
  BY <1>8 DEF ValidObservation
<1>10. DOMAIN row.windows \subseteq WorkerWindows(w) /\ Cardinality(DOMAIN row.windows) <= MaxWindows
  <2>1. DOMAIN merged \subseteq WindowIds
    BY <1>8 DEF Observation, WindowReadings
  <2>2. CASE Overflows(before, merged)
    <3>1. row.windows = BoundedWindows(merged)
      BY <2>2 DEF MergeKnown
    <3>2. \A id \in DOMAIN merged : merged[id].used \in Int
      <4> SUFFICES ASSUME NEW id \in DOMAIN merged PROVE merged[id].used \in Int  OBVIOUS
      <4>1. CASE id \in Retained(before, item, clock)
        <5>1. id \in DOMAIN before.windows /\ merged[id] = before.windows[id]
          BY <4>1 DEF MergedWindows, Retained
        <5> QED  BY <5>1 DEF Observation, WindowReadings, Null
      <4>2. CASE id \notin Retained(before, item, clock)
        <5>1. id \in DOMAIN item.windows /\ merged[id] = item.windows[id]
          BY <4>2 DEF MergedWindows, Retained, FreshRecovery, KnownUse
        <5> QED  BY <5>1 DEF Observation, WindowReadings, Null
      <4> QED  BY <4>1, <4>2
    <3>3. WorkerWindows(w) = WindowIds
      <4> HIDE DEF merged
      <4> QED  BY <1>9, <2>2, OverflowUnpinned DEF WorkerWindows
    <3> HIDE DEF merged, row
    <3> QED  BY <2>1, <3>1, <3>2, <3>3, BoundedInventory
  <2>3. CASE ~ Overflows(before, merged)
    <3>1. row.windows = merged
      BY <2>3 DEF MergeKnown
    <3>2. IsFiniteSet(DOMAIN merged) /\ Cardinality(DOMAIN merged) \in Nat
      BY <2>1, WindowAssumption, FS_Subset, FS_CardinalityType DEF WindowIds
    <3>3. ~ (Cardinality(DOMAIN merged) > MaxWindows) /\ MaxWindows \in Nat
      BY <2>3, WindowAssumption DEF Overflows
    <3> HIDE DEF merged, row
    <3> QED  BY <1>9, <3>1, <3>2, <3>3
  <2> QED  BY <2>2, <2>3
<1> QED  BY <1>7, <1>10 DEF ValidObservation

\* Merging valid evidence into a valid ledger gives a valid ledger.
LEMMA MergeValid ==
  ASSUME NEW known, NEW incoming, NEW clock \in Nat,
         TypedObservations(known), TypedObservations(incoming),
         ValidateResourceObservations(known), ValidateResourceObservations(incoming)
  PROVE  ValidateResourceObservations(MergeResourceObservations(known, incoming, clock))
BY MergeKnownValid DEF TypedObservations, ValidateResourceObservations, MergeResourceObservations

\* Whatever is written validates, so whatever valid evidence arrives next can be merged:
\* the pool never refuses its own state.
THEOREM LedgerReadable == Spec => []LedgerStaysReadable
<1> DEFINE Readable == ValidateResourceObservations(obs)
<1>1. Init => Readable
  BY DEF Init, NoReport, ValidateResourceObservations
<1>2. LedgerInv /\ Readable /\ [Next]_vars => Readable'
  <2> SUFFICES ASSUME LedgerInv, Readable, [Next]_vars PROVE Readable'  OBVIOUS
  <2>1. CASE obs' = obs
    BY <2>1
  <2>2. ASSUME NEW observed, NEW said, Commit(observed, said)
        PROVE  Readable'
    BY <2>2 DEF Commit
  <2>3. ASSUME NEW r \in Runners, RunTask(r)
        PROVE  obs' = obs \/ \E observed, said : Commit(observed, said)
    <3>1. ASSUME NEW t, NEW c, NEW incoming, NEW gate, NEW fresh, NEW started,
                 \/ Replay(t, c, incoming)
                 \/ Wait(t, c, incoming, gate, fresh)
                 \/ Admit(r, t, c, incoming, gate, fresh, started)
          PROVE  \E observed, said : Commit(observed, said)
      BY <3>1 DEF Replay, Wait, Admit
    <3>2. CASE Settle(r)
      BY <3>2 DEF Settle
    <3>3. ASSUME NEW status, NEW report, Veto(r) \/ Dispatch(r) \/ Finish(r, status, report) \/ Abandon(r)
          PROVE  obs' = obs
      BY <3>3 DEF Veto, Dispatch, Finish, Abandon
    <3> QED  BY <2>3, <3>1, <3>2, <3>3 DEF RunTask
  <2>4. ASSUME NEW o \in Operators, EditPolicy(o)
        PROVE  obs' = obs
    BY <2>4 DEF EditPolicy, ReadPolicy, SetResourcePoolAllocation, SetResourceWorkerAccess,
                SetResourceQuotaScopeAccess
  <2> QED  BY <2>1, <2>2, <2>3, <2>4 DEF Next, SetClock, vars
<1>3. LedgerInv /\ Readable => LedgerStaysReadable
  <2> SUFFICES ASSUME LedgerInv, Readable, NEW incoming \in Snapshots \cup Reports
               PROVE  ValidateResourceObservations(MergeResourceObservations(obs, incoming, now))
    BY DEF LedgerStaysReadable
  <2>1. TypedObservations(incoming) /\ ValidateResourceObservations(incoming)
    BY LedgerAssumption, EvidenceAssumption
  <2>2. TypedObservations(obs) /\ now \in Nat
    BY DEF LedgerInv, TypeOK
  <2> QED  BY <2>1, <2>2, MergeValid
<1> QED  BY <1>1, <1>2, <1>3, LedgerInvariant, PTL DEF Spec

(***************************************************************************)
(* What a provider said and has not taken back.                            *)
(***************************************************************************)
\* Row o still carries what x says: the refusal, the retry time, a reading of the window at
\* least as high, or the overflow denial that replaced it.
Carries(o, x) ==
  \/ x[2] = "health" /\ o.health = "unavailable"
  \/ x[2] = "retry" /\ x[3] \in Nat /\ o.retryAfter >= x[3]
  \/ /\ x[2] \in WindowIds /\ x[3] \in 0 .. 100
     /\ \/ x[2] \in DOMAIN o.windows /\ o.windows[x[2]].used >= x[3]
        \/ Overflow \in DOMAIN o.windows /\ o.health = "unavailable"

Backed(x, observed) == x[1] \in DOMAIN observed /\ Carries(observed[x[1]], x)

\* A row carries what it says.
LEMMA SaysCarried ==
  ASSUME NEW w, NEW item, Observation(item), NEW x \in Says(w, item)
  PROVE  x[1] = w /\ Carries(item, x)
<1>1. CASE x \in {<<w, id, item.windows[id].used>> : id \in {i \in DOMAIN item.windows : KnownUse(item, i)}}
  <2>1. PICK id \in DOMAIN item.windows : KnownUse(item, id) /\ x = <<w, id, item.windows[id].used>>
    BY <1>1
  <2>2. id \in WindowIds /\ item.windows[id].used \in Null .. 100 /\ item.windows[id].used # Null
    BY <2>1 DEF KnownUse, Observation, WindowReadings
  <2>3. x[1] = w /\ x[2] = id /\ x[3] = item.windows[id].used
    BY <2>1
  <2>4. x[3] \in 0 .. 100 /\ item.windows[id].used >= x[3]
    BY <2>2, <2>3 DEF Null
  <2> QED  BY <2>1, <2>2, <2>3, <2>4 DEF Carries
<1>2. CASE x = <<w, "health", 100>> /\ item.health = "unavailable"
  BY <1>2 DEF Carries
<1>3. CASE x = <<w, "retry", item.retryAfter>> /\ item.retryAfter # Null
  BY <1>3 DEF Carries, Observation
<1> QED  BY <1>1, <1>2, <1>3 DEF Says

\* The merged reading of a window that was known, or is reported, is no lower than the
\* reading before (unless it recovered) and no lower than the reported one.
LEMMA MergedReading ==
  ASSUME NEW before, NEW item, NEW clock \in Nat, Observation(before), Observation(item), NEW id
  PROVE  LET merged == MergedWindows(before, item, clock)
         IN  /\ id \in DOMAIN before.windows /\ ~ FreshRecovery(before, item, id, clock)
                  => id \in DOMAIN merged /\ merged[id].used >= before.windows[id].used
             /\ KnownUse(item, id)
                  => id \in DOMAIN merged /\ merged[id].used >= item.windows[id].used
<1> DEFINE merged == MergedWindows(before, item, clock)
<1>1. /\ DOMAIN merged = DOMAIN before.windows \cup DOMAIN item.windows
      /\ \A i \in DOMAIN merged :
           merged[i] = IF i \in Retained(before, item, clock) THEN before.windows[i] ELSE item.windows[i]
  BY DEF MergedWindows
<1>2. /\ \A i \in DOMAIN before.windows : before.windows[i].used \in Int
      /\ \A i \in DOMAIN item.windows : item.windows[i].used \in Int
  BY DEF Observation, WindowReadings, Null
<1>3. ASSUME id \in DOMAIN before.windows, ~ FreshRecovery(before, item, id, clock)
      PROVE  id \in DOMAIN merged /\ merged[id].used >= before.windows[id].used
  <2>1. CASE id \in Retained(before, item, clock)
    BY <1>1, <1>2, <1>3, <2>1
  <2>2. CASE id \notin Retained(before, item, clock)
    <3>1. id \in DOMAIN item.windows /\ item.windows[id].used > before.windows[id].used
      BY <1>3, <2>2 DEF Retained, KnownUse
    <3> QED  BY <1>1, <1>2, <1>3, <2>2, <3>1
  <2> QED  BY <2>1, <2>2
<1>4. ASSUME KnownUse(item, id)
      PROVE  id \in DOMAIN merged /\ merged[id].used >= item.windows[id].used
  <2>1. id \in DOMAIN item.windows
    BY <1>4 DEF KnownUse
  <2>2. CASE id \in Retained(before, item, clock)
    <3>1. id \in DOMAIN before.windows /\ ~ (item.windows[id].used > before.windows[id].used)
      BY <1>4, <2>2 DEF Retained
    <3> QED  BY <1>1, <1>2, <2>1, <2>2, <3>1
  <2>3. CASE id \notin Retained(before, item, clock)
    BY <1>1, <1>2, <2>1, <2>3
  <2> QED  BY <2>2, <2>3
<1> QED  BY <1>3, <1>4

\* A merged row carries what the reported row says, and what the known row carried unless a
\* complete, unexpired and newer row took it back.
LEMMA MergeCarries ==
  ASSUME NEW before, NEW item, NEW clock \in Nat, Observation(before), Observation(item), NEW x,
         \/ Carries(item, x)
         \/ /\ Carries(before, x)
            /\ ~ (/\ FullyFresh(before, item, clock)
                  /\ \/ x[2] = "health"
                     \/ KnownUse(item, x[2]) /\ item.windows[x[2]].resets > clock)
  PROVE  Carries(MergeKnown(before, item, clock), x)
<1> DEFINE merged == MergedWindows(before, item, clock)
           row    == MergeKnown(before, item, clock)
<1>1. /\ Overflows(before, merged) => row.health = "unavailable" /\ Overflow \in DOMAIN row.windows
      /\ ~ Overflows(before, merged) => row.windows = merged
      /\ ~ FullyFresh(before, item, clock) /\ before.health = "unavailable" => row.health = "unavailable"
      /\ item.health = "unavailable" => row.health = "unavailable"
  BY DEF MergeKnown, BoundedWindows
<1>2. row.retryAfter = Max({before.retryAfter, item.retryAfter})
  BY DEF MergeKnown
<1>3. before.retryAfter \in Int /\ item.retryAfter \in Int
  BY DEF Observation, Null
<1>4. row.retryAfter \in Int /\ row.retryAfter >= before.retryAfter /\ row.retryAfter >= item.retryAfter
  <2>1. \E m \in {before.retryAfter, item.retryAfter} : \A y \in {before.retryAfter, item.retryAfter} : m >= y
    <3>1. CASE before.retryAfter <= item.retryAfter  BY <1>3, <3>1
    <3>2. CASE item.retryAfter <= before.retryAfter  BY <1>3, <3>2
    <3> QED  BY <1>3, <3>1, <3>2
  <2> HIDE DEF row
  <2> QED  BY <1>2, <1>3, <2>1 DEF Max
<1>5. WindowReadings(row.windows)
  BY MergeKnownTyped DEF Observation
<1> SUFFICES Carries(row, x)
  OBVIOUS
<1> HIDE DEF row
<1>6. CASE x[2] = "health" /\ (Carries(item, x) \/ Carries(before, x))
  <2>1. x[2] # "retry" /\ x[2] \notin WindowIds
    BY <1>6, WindowAssumption DEF WindowIds
  <2> QED  BY <1>1, <1>6, <2>1 DEF Carries
<1>7. CASE x[2] = "retry" /\ (Carries(item, x) \/ Carries(before, x))
  <2>1. x[2] # "health" /\ x[2] \notin WindowIds
    BY <1>7, WindowAssumption DEF WindowIds
  <2>2. x[3] \in Nat /\ (before.retryAfter >= x[3] \/ item.retryAfter >= x[3])
    BY <1>7, <2>1 DEF Carries
  <2>3. row.retryAfter >= x[3]
    BY <1>3, <1>4, <2>2
  <2> QED  BY <1>7, <2>2, <2>3 DEF Carries
<1>8. CASE x[2] \in WindowIds /\ (Carries(item, x) \/ Carries(before, x))
  <2>1. x[2] # "health" /\ x[2] # "retry" /\ x[3] \in 0 .. 100
    BY <1>8, WindowAssumption DEF WindowIds, Carries
  <2>2. CASE Overflows(before, merged)
    BY <1>1, <1>8, <2>1, <2>2 DEF Carries
  <2>3. CASE ~ Overflows(before, merged)
    <3>1. row.windows = merged /\ Overflow \notin DOMAIN before.windows
      BY <1>1, <2>3 DEF Overflows
    <3>2. x[2] \in DOMAIN merged => merged[x[2]].used \in Int
      BY <1>5, <3>1 DEF WindowReadings, Null
    <3>3. ASSUME x[2] \in DOMAIN before.windows, before.windows[x[2]].used >= x[3],
                 ~ FreshRecovery(before, item, x[2], clock)
          PROVE  Carries(row, x)
      <4>1. x[2] \in DOMAIN merged /\ merged[x[2]].used >= before.windows[x[2]].used
        BY <3>3, MergedReading
      <4>2. before.windows[x[2]].used \in Int
        BY <3>3 DEF Observation, WindowReadings, Null
      <4>3. merged[x[2]].used >= x[3]
        <5> HIDE DEF merged
        <5> QED  BY <2>1, <3>2, <3>3, <4>1, <4>2
      <4> QED  BY <1>8, <2>1, <3>1, <4>1, <4>3 DEF Carries
    <3>4. ASSUME x[2] \in DOMAIN item.windows, item.windows[x[2]].used >= x[3]
          PROVE  Carries(row, x)
      <4>1. item.windows[x[2]].used \in Int
        BY <3>4 DEF Observation, WindowReadings, Null
      <4>2. KnownUse(item, x[2])
        BY <2>1, <3>4, <4>1 DEF KnownUse, Null
      <4>3. x[2] \in DOMAIN merged /\ merged[x[2]].used >= item.windows[x[2]].used
        BY <4>2, MergedReading
      <4>4. merged[x[2]].used >= x[3]
        <5> HIDE DEF merged
        <5> QED  BY <2>1, <3>2, <3>4, <4>1, <4>3
      <4> QED  BY <1>8, <2>1, <3>1, <4>3, <4>4 DEF Carries
    <3>5. CASE Carries(item, x)
      <4>1. CASE Overflow \in DOMAIN item.windows /\ item.health = "unavailable"
        <5>1. Overflow \in DOMAIN merged
          BY <4>1 DEF MergedWindows
        <5> QED  BY <1>1, <1>8, <2>1, <3>1, <4>1, <5>1 DEF Carries
      <4> QED  BY <1>8, <2>1, <3>4, <3>5, <4>1 DEF Carries
    <3>6. CASE ~ Carries(item, x)
      <4>1. x[2] \in DOMAIN before.windows /\ before.windows[x[2]].used >= x[3]
        BY <1>8, <2>1, <3>1, <3>6 DEF Carries
      <4>2. ~ FreshRecovery(before, item, x[2], clock)
        BY <2>1, <3>6 DEF FreshRecovery
      <4> QED  BY <3>3, <4>1, <4>2
    <3> QED  BY <3>5, <3>6
  <2> QED  BY <2>2, <2>3
<1>9. x[2] = "health" \/ x[2] = "retry" \/ x[2] \in WindowIds
  BY DEF Carries
<1> QED  BY <1>6, <1>7, <1>8, <1>9

\* Merging evidence backs everything that stands after it was heard.
LEMMA StandBacked ==
  ASSUME now \in Nat, NEW before, NEW known, NEW incoming,
         TypedObservations(known), TypedObservations(incoming),
         \A y \in before : Backed(y, known),
         NEW x \in Stand(before, known, incoming)
  PROVE  Backed(x, MergeResourceObservations(known, incoming, now))
<1> DEFINE merge == MergeResourceObservations(known, incoming, now)
           Heard(w) == w \notin DOMAIN known \/ CapturedAt(incoming[w]) >= CapturedAt(known[w])
           w == x[1]
<1>1. /\ DOMAIN merge = DOMAIN known \cup DOMAIN incoming
      /\ \A v \in DOMAIN merge :
           merge[v] = IF v \notin DOMAIN incoming THEN known[v]
                      ELSE IF v \notin DOMAIN known THEN incoming[v]
                      ELSE IF IgnoredUpdate(known[v], incoming[v]) THEN known[v]
                      ELSE MergeKnown(known[v], incoming[v], now)
  BY DEF MergeResourceObservations
<1>2. /\ \A v \in DOMAIN known : Observation(known[v])
      /\ \A v \in DOMAIN incoming : Observation(incoming[v])
  BY DEF TypedObservations
<1>3. \/ \E v \in DOMAIN incoming : Heard(v) /\ x \in Says(v, incoming[v])
      \/ /\ x \in before
         /\ \A v \in DOMAIN incoming : Heard(v) => x \notin TakenBack(v, incoming[v], known, before)
  BY DEF Stand
<1> SUFFICES Backed(x, merge)
  OBVIOUS
<1> HIDE DEF merge
<1>4. CASE \E v \in DOMAIN incoming : Heard(v) /\ x \in Says(v, incoming[v])
  <2>1. PICK v \in DOMAIN incoming : Heard(v) /\ x \in Says(v, incoming[v])
    BY <1>4
  <2>2. v = w /\ Carries(incoming[w], x)
    BY <1>2, <2>1, SaysCarried
  <2>3. CASE w \notin DOMAIN known
    BY <1>1, <2>1, <2>2, <2>3 DEF Backed
  <2>4. CASE w \in DOMAIN known /\ IgnoredUpdate(known[w], incoming[w])
    <3>1. CapturedAt(incoming[w]) \in Nat /\ CapturedAt(known[w]) \in Nat
      BY <1>2, <2>1, <2>2, <2>4 DEF CapturedAt, Observation
    <3>2. incoming[w] = known[w]
      BY <2>1, <2>2, <2>4, <3>1 DEF IgnoredUpdate
    <3> QED  BY <1>1, <2>1, <2>2, <2>4, <3>2 DEF Backed
  <2>5. CASE w \in DOMAIN known /\ ~ IgnoredUpdate(known[w], incoming[w])
    <3>1. Carries(MergeKnown(known[w], incoming[w], now), x)
      BY <1>2, <2>1, <2>2, <2>5, MergeCarries
    <3> QED  BY <1>1, <2>1, <2>2, <2>5, <3>1 DEF Backed
  <2> QED  BY <2>3, <2>4, <2>5
<1>5. CASE /\ x \in before
           /\ \A v \in DOMAIN incoming : Heard(v) => x \notin TakenBack(v, incoming[v], known, before)
  <2>1. w \in DOMAIN known /\ Carries(known[w], x)
    BY <1>5 DEF Backed
  <2>2. CASE w \notin DOMAIN incoming \/ IgnoredUpdate(known[w], incoming[w])
    BY <1>1, <2>1, <2>2 DEF Backed
  <2>3. CASE w \in DOMAIN incoming /\ ~ IgnoredUpdate(known[w], incoming[w])
    <3>1. /\ CapturedAt(incoming[w]) \in Nat /\ CapturedAt(known[w]) \in Nat
          /\ incoming[w].observedAt \in Nat
      BY <1>2, <2>1, <2>3 DEF CapturedAt, Observation
    <3>2. x \notin TakenBack(w, incoming[w], known, before)
      BY <1>5, <2>3, <3>1 DEF IgnoredUpdate
    <3>3. ~ (/\ FullyFresh(known[w], incoming[w], now)
             /\ \/ x[2] = "health"
                \/ KnownUse(incoming[w], x[2]) /\ incoming[w].windows[x[2]].resets > now)
      BY <1>5, <2>1, <3>2 DEF TakenBack, FullyFresh
    <3>4. Carries(MergeKnown(known[w], incoming[w], now), x)
      BY <1>2, <2>1, <2>3, <3>3, MergeCarries
    <3> QED  BY <1>1, <2>1, <2>3, <3>4 DEF Backed
  <2> QED  BY <2>2, <2>3
<1> QED  BY <1>3, <1>4, <1>5

\* The observations of the ledger back everything that stands.
StandingBacked == \A x \in standing : Backed(x, obs)

\* Every transaction keeps it: an admission hears its snapshot and then its fresh evidence.
LEMMA StandingNext == LedgerInv /\ StandingBacked /\ [Next]_vars => StandingBacked'
<1> SUFFICES ASSUME LedgerInv, StandingBacked, [Next]_vars PROVE StandingBacked'  OBVIOUS
<1>1. now \in Nat /\ TypedObservations(obs) /\ \A y \in standing : Backed(y, obs)
  BY DEF LedgerInv, TypeOK, StandingBacked
<1>2. CASE UNCHANGED <<obs, standing>>
  BY <1>2 DEF StandingBacked
<1>3. ASSUME NEW incoming, TypedObservations(incoming),
             Commit(MergeResourceObservations(obs, incoming, now), Stand(standing, obs, incoming))
      PROVE  StandingBacked'
  BY <1>1, <1>3, StandBacked DEF Commit, StandingBacked
<1>4. ASSUME NEW incoming \in Snapshots, NEW fresh \in Evidence \cup {NoEvidence}, NEW known,
             known = MergeResourceObservations(obs, incoming, now),
             Commit(Refreshed(known, fresh), History(incoming, known, fresh))
      PROVE  StandingBacked'
  <2> DEFINE heard == Stand(standing, obs, incoming)
  <2>1. TypedObservations(incoming) /\ TypedObservations(known)
    BY <1>1, <1>4, LedgerAssumption, MergeTyped
  <2>2. \A y \in heard : Backed(y, known)
    BY <1>1, <1>4, <2>1, StandBacked
  <2>3. CASE fresh = NoEvidence
    <3>1. obs' = known /\ standing' = heard
      BY <1>4, <2>3 DEF Commit, Refreshed, History
    <3> HIDE DEF heard
    <3> QED  BY <2>2, <3>1 DEF StandingBacked
  <2>4. CASE fresh # NoEvidence
    <3>1. obs' = MergeResourceObservations(known, fresh.obs, now) /\ standing' = Stand(heard, known, fresh.obs)
      BY <1>4, <2>4 DEF Commit, Refreshed, History
    <3>2. TypedObservations(fresh.obs)
      BY <2>4, LedgerAssumption
    <3> HIDE DEF heard
    <3>3. \A x \in Stand(heard, known, fresh.obs) : Backed(x, MergeResourceObservations(known, fresh.obs, now))
      BY <1>1, <2>1, <2>2, <3>2, StandBacked
    <3> QED  BY <3>1, <3>3 DEF StandingBacked
  <2> QED  BY <2>3, <2>4
<1>5. ASSUME NEW r \in Runners, RunTask(r)
      PROVE  StandingBacked'
  <2>1. ASSUME NEW t, NEW c, NEW incoming \in Snapshots, Replay(t, c, incoming)
        PROVE  StandingBacked'
    <3>1. TypedObservations(incoming)
      BY LedgerAssumption
    <3> QED  BY <1>3, <2>1, <3>1 DEF Replay
  <2>2. ASSUME NEW t, NEW c, NEW incoming \in Snapshots, NEW gate, NEW fresh \in Evidence \cup {NoEvidence},
               NEW started,
               \/ Wait(t, c, incoming, gate, fresh)
               \/ Admit(r, t, c, incoming, gate, fresh, started)
        PROVE  StandingBacked'
    <3> DEFINE known == MergeResourceObservations(obs, incoming, now)
    <3>1. Commit(Refreshed(known, fresh), History(incoming, known, fresh))
      BY <2>2 DEF Wait, Admit
    <3>2. known = MergeResourceObservations(obs, incoming, now)
      OBVIOUS
    <3> HIDE DEF known
    <3> QED  BY <1>4, <3>1, <3>2
  <2>3. CASE Settle(r)
    <3>1. run[r].report \in Reports \cup {NoReport}
      BY <2>3 DEF Settle, LedgerInv, TypeOK, Runs
    <3>2. TypedObservations(NoReport)
      BY DEF TypedObservations, NoReport
    <3>3. TypedObservations(run[r].report)
      BY <3>1, <3>2, LedgerAssumption
    <3> QED  BY <1>3, <2>3, <3>3 DEF Settle
  <2>4. ASSUME NEW status, NEW report, Veto(r) \/ Dispatch(r) \/ Finish(r, status, report) \/ Abandon(r)
        PROVE  StandingBacked'
    BY <1>2, <2>4 DEF Veto, Dispatch, Finish, Abandon
  <2> QED  BY <1>5, <2>1, <2>2, <2>3, <2>4 DEF RunTask
<1>6. ASSUME NEW o \in Operators, EditPolicy(o)
      PROVE  StandingBacked'
  BY <1>2, <1>6 DEF EditPolicy, ReadPolicy, SetResourcePoolAllocation, SetResourceWorkerAccess,
              SetResourceQuotaScopeAccess
<1> QED  BY <1>2, <1>5, <1>6 DEF Next, SetClock, vars

\* A worker that the evidence of a plan does not exclude is refused by nothing that the
\* plan's observations carry.
LEMMA NotRefused ==
  ASSUME NEW s, NEW w \in Workers, TypedObservations(s.obs), now \in Nat, policy \in Policies,
         s.ceiling = policy.ceiling, s.attempts = attempts, s.now = now, LedgerInv,
         ~ HardDenial(w, s), ~ (RetryTime(w, s) > s.now),
         NEW x, x[1] \in DOMAIN s.obs, Carries(s.obs[x[1]], x)
  PROVE  ~ Refuses(x, w)
<1> DEFINE o == s.obs[x[1]]
<1> SUFFICES ASSUME Refuses(x, w) PROVE FALSE
  OBVIOUS
<1>1. Observation(o) /\ x[1] \in Workers
  BY DEF TypedObservations
<1>2. x[1] \in Aliases(w) \cap DOMAIN s.obs
  BY <1>1 DEF Aliases, Refuses
<1>3. o.health # "unavailable" /\ (SharesResourceQuota(w, x[1]) => ~ ReserveReached(o, w, s))
  BY <1>2 DEF HardDenial
<1>4. o.retryAfter <= now
  <2>1. \A u \in FailedAttempts(attempts, Account[w]) : attempts[u].finishedAt \in Int
    BY DEF FailedAttempts, AccountAttempts, LedgerInv, TypeOK, Receipts, Null
  <2>2. s.obs[x[1]].retryAfter <= s.now
    BY <1>2, <2>1, RetryPassed DEF LedgerInv
  <2> QED  BY <2>2
<1>5. ReserveOf(w, s) = ReserveOf(w, policy) /\ ReserveOf(w, s) \in Int
  <2>1. policy.ceiling \in 0 .. 100 \cup {Null} /\ Reserve[w] \in Int
    BY AccountAssumption DEF Policies
  <2> QED  BY <2>1 DEF ReserveOf, Null
<1>6. CASE x[2] = "health"
  <2>1. x[2] # "retry" /\ x[2] \notin WindowIds
    BY <1>6, WindowAssumption DEF WindowIds
  <2> QED  BY <1>3, <2>1 DEF Carries
<1>7. CASE x[2] = "retry"
  <2>1. x[2] # "health" /\ x[2] # "quota" /\ x[2] \notin WindowIds
    BY <1>7, WindowAssumption DEF WindowIds
  <2>2. x[3] \in Nat /\ o.retryAfter >= x[3] /\ x[3] > now
    BY <2>1 DEF Carries, Refuses
  <2>3. o.retryAfter \in Int
    BY <1>1 DEF Observation, Null
  <2> HIDE DEF o
  <2> QED  BY <1>4, <2>2, <2>3
<1>8. CASE x[2] = "quota"
  <2>1. x[2] # "health" /\ x[2] # "retry" /\ x[2] \notin WindowIds
    BY <1>8, WindowAssumption DEF WindowIds
  <2> QED  BY <2>1 DEF Carries
<1>9. CASE x[2] \in WindowIds
  <2>1. x[2] # "health" /\ x[2] # "retry" /\ x[2] # "quota"
    BY <1>9, WindowAssumption DEF WindowIds
  <2>2. SharesResourceQuota(w, x[1]) /\ x[3] >= 100 - ReserveOf(w, policy)
    BY <2>1 DEF Refuses, SharesResourceQuota
  <2>3. x[3] \in 0 .. 100 /\ x[2] \in DOMAIN o.windows /\ o.windows[x[2]].used >= x[3]
    BY <1>3, <2>1 DEF Carries
  <2>4. o.windows[x[2]].used \in Int
    <3> HIDE DEF o
    <3>1. WindowReadings(o.windows)
      BY <1>1 DEF Observation
    <3>2. o.windows[x[2]].used \in Null .. 100
      BY <2>3, <3>1 DEF WindowReadings
    <3> QED  BY <3>2 DEF Null
  <2>5. o.windows[x[2]].used # Null /\ o.windows[x[2]].used >= 100 - ReserveOf(w, s)
    <3> HIDE DEF o
    <3> QED  BY <1>5, <2>2, <2>3, <2>4 DEF Null
  <2> QED  BY <1>3, <2>2, <2>3, <2>5 DEF ReserveReached
<1> QED  BY <1>6, <1>7, <1>8, <1>9 DEF Refuses

\* First half: what stands in the ledger.
Respected == \A t \in NewReservations : \A x \in standing' : ~ Refuses(x, attempts'[t].worker)

\* Second half: what the admission itself is told.
Heeded ==
  \A t \in NewReservations, gate \in Gates, fresh \in Evidence \cup {NoEvidence} :
    (\E x \in Told(gate, fresh) : Refuses(x, attempts'[t].worker)) =>
      \A r \in Runners, c \in Contents, incoming \in Snapshots :
         ~ Admit(r, t, c, incoming, gate, fresh, now')

\* The plan of a reservation knows everything that stands.
LEMMA StandingRespected == LedgerInv /\ StandingBacked /\ [Next]_vars => Respected
<1> SUFFICES ASSUME LedgerInv, StandingBacked, [Next]_vars, NEW t \in NewReservations, NEW x \in standing'
             PROVE  ~ Refuses(x, attempts'[t].worker)
  BY DEF Respected
<1>1. PICK s : PlanOf(s) /\ attempts'[t].worker \in Workers /\ ~ EvidenceExcluded(attempts'[t].worker, s)
  BY NewReservation
<1>2. s.obs = obs' /\ s.ceiling = policy.ceiling /\ s.now = now /\ s.attempts = attempts
  BY <1>1 DEF PlanOf
<1>3. TypedObservations(obs') /\ now \in Nat /\ policy \in Policies
  BY AfterReservation
<1>4. x[1] \in DOMAIN obs' /\ Carries(obs'[x[1]], x)
  BY StandingNext DEF StandingBacked, Backed
<1>5. ~ HardDenial(attempts'[t].worker, s) /\ ~ (RetryTime(attempts'[t].worker, s) > s.now)
  BY <1>1 DEF EvidenceExcluded
<1> QED  BY <1>1, <1>2, <1>3, <1>4, <1>5, NotRefused

\* The plan of a reservation carries the vetoes of its caller, and a veto of every allowed
\* worker that the fresh evidence alone excludes.
LEMMA ToldHeeded == LedgerInv => Heeded
<1> SUFFICES ASSUME LedgerInv, NEW t \in NewReservations, NEW gate \in Gates,
                    NEW fresh \in Evidence \cup {NoEvidence}, NEW x \in Told(gate, fresh),
                    Refuses(x, attempts'[t].worker), NEW r \in Runners, NEW c \in Contents,
                    NEW incoming \in Snapshots, Admit(r, t, c, incoming, gate, fresh, now')
             PROVE  FALSE
  BY DEF Heeded
<1> DEFINE known == MergeResourceObservations(obs, incoming, now)
           gated == Gated(c, known, gate, fresh)
           plan  == Snapshot(Refreshed(known, fresh), gated)
<1>1. PICK w \in AllowedIn[c] : Selects(w, AllowedIn[c], plan) /\ attempts' = Record(t, Reserved(c, w, now'))
  BY DEF Admit
<1>2. ~ EvidenceExcluded(w, plan) /\ w \in Workers
  <2>1. ~ EvidenceExcluded(w, plan)
    <3> HIDE DEF plan
    <3> QED  BY <1>1, SelectedIsOpen
  <2> QED  BY <2>1, LedgerAssumption
<1>3. attempts'[t].worker = w
  BY <1>1 DEF Record, Reserved
<1>4. /\ plan.unavailable = gated.unavailable
      /\ plan.quotaUnavailable = gated.quotaUnavailable
  BY DEF Snapshot
<1>5. /\ gate.unavailable \subseteq gated.unavailable
      /\ gate.quotaUnavailable \subseteq gated.quotaUnavailable
      /\ fresh # NoEvidence =>
           /\ fresh.unavailable \subseteq gated.unavailable
           /\ fresh.quotaUnavailable \subseteq gated.quotaUnavailable
           /\ FreshDenials(AllowedIn[c], Snapshot(known, gate), fresh) \subseteq gated.quotaUnavailable
  BY DEF Gated
<1> HIDE DEF gated
<1>6. /\ \A v \in gated.unavailable : Account[v] # Account[w]
      /\ \A v \in gated.quotaUnavailable : ~ (Account[v] = Account[w] /\ SharesResourceQuota(v, w))
      /\ w \notin gated.quotaUnavailable
  <2>1. ~ Vetoed(w, plan)
    BY <1>2 DEF EvidenceExcluded
  <2>2. Account[w] \notin DeniedAccounts(plan)
    BY <2>1 DEF Vetoed
  <2>3. w \notin ExpandResourceQuotaDenials(plan.quotaUnavailable \cup UnprovenWorkers(plan))
    BY <2>1 DEF Vetoed
  <2> HIDE DEF plan
  <2> QED  BY <1>2, <1>4, <2>2, <2>3 DEF DeniedAccounts, ExpandResourceQuotaDenials
<1>7. ASSUME NEW vetoes, vetoes.unavailable \subseteq gated.unavailable,
             vetoes.quotaUnavailable \subseteq gated.quotaUnavailable, x \in Vetoes(vetoes)
      PROVE  FALSE
  <2>1. CASE x \in {<<v, "health", 100>> : v \in vetoes.unavailable}
    <3>1. PICK v \in vetoes.unavailable : x = <<v, "health", 100>>
      BY <2>1
    <3> QED  BY <1>3, <1>6, <1>7, <3>1 DEF Refuses
  <2>2. CASE x \in {<<v, "quota", 100>> : v \in vetoes.quotaUnavailable}
    <3>1. PICK v \in vetoes.quotaUnavailable : x = <<v, "quota", 100>>
      BY <2>2
    <3>2. x[1] = v /\ x[2] = "quota" /\ x[2] \notin WindowIds
      BY <3>1, WindowAssumption DEF WindowIds
    <3>3. Account[v] = Account[w] /\ SharesResourceQuota(v, w)
      BY <1>3, <3>2 DEF Refuses
    <3> QED  BY <1>6, <1>7, <3>3
  <2> QED  BY <1>7, <2>1, <2>2 DEF Vetoes
<1>8. CASE fresh # NoEvidence /\ \E v \in DOMAIN fresh.obs : x \in Says(v, fresh.obs[v])
  <2> DEFINE alone == [Snapshot(known, gate) EXCEPT !.obs = fresh.obs,
                                                    !.unavailable = fresh.unavailable,
                                                    !.quotaUnavailable = fresh.quotaUnavailable]
  <2>1. PICK v \in DOMAIN fresh.obs : x \in Says(v, fresh.obs[v])
    BY <1>8
  <2>2. TypedObservations(fresh.obs)
    BY <1>8, LedgerAssumption
  <2>3. x[1] = v /\ Carries(fresh.obs[v], x)
    BY <2>1, <2>2, SaysCarried DEF TypedObservations
  <2>4. ~ EvidenceExcluded(w, alone)
    <3>1. w \notin FreshDenials(AllowedIn[c], Snapshot(known, gate), fresh)
      BY <1>5, <1>6, <1>8
    <3> QED  BY <1>1, <3>1 DEF FreshDenials
  <2>5. /\ alone.obs = fresh.obs /\ alone.ceiling = policy.ceiling
        /\ alone.attempts = attempts /\ alone.now = now
    BY DEF Snapshot
  <2> HIDE DEF alone
  <2>6. ~ HardDenial(w, alone) /\ ~ (RetryTime(w, alone) > alone.now)
    BY <2>4 DEF EvidenceExcluded
  <2>7. now \in Nat /\ policy \in Policies
    BY DEF LedgerInv, TypeOK
  <2> QED  BY <1>2, <1>3, <2>1, <2>2, <2>3, <2>5, <2>6, <2>7, NotRefused
<1>9. \/ x \in Vetoes(gate)
      \/ fresh # NoEvidence /\ x \in Vetoes(fresh)
      \/ fresh # NoEvidence /\ \E v \in DOMAIN fresh.obs : x \in Says(v, fresh.obs[v])
  BY DEF Told
<1> QED  BY <1>5, <1>7, <1>8, <1>9

\* No task is reserved behind a refusal, an exhausted window or a retry-after time that its
\* provider gave on any alias of the account and has not taken back, nor by an invocation
\* whose vetoes or fresh evidence refuse the worker.
THEOREM DenialsHold == Spec => NoWorkBehindDenial
<1>1. Init => StandingBacked
  BY DEF Init, StandingBacked
<1>2. LedgerInv /\ StandingBacked /\ [Next]_vars => [Respected /\ Heeded]_vars
  BY StandingRespected, ToldHeeded
<1> QED  BY <1>1, <1>2, StandingNext, LedgerInvariant, PTL DEF Spec, NoWorkBehindDenial, Respected, Heeded
=============================================================================
