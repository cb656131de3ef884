------------------------ MODULE StoreTransactionProofs ------------------------
(***************************************************************************)
(* Proofs about StoreTransaction for any number of processes, changes and  *)
(* deaths.                                                                 *)
(***************************************************************************)
EXTENDS StoreTransaction, TLAPS

\* The lock that a process was granted is installed for it, as the process it still is.
HolderInstalled == holder # None => owner = Pid(holder)

\* What a transaction was loaded from is still what the file says.
LoadedIsCurrent == \A p \in Slots : tx[p].pc \in {"loaded", "changed"} => tx[p].base = file

\* What is written, or confirmed, is in the file.
WrittenIsThere == \A p \in Slots : tx[p].pc = "written" \/ tx[p].ok => tx[p].change \in file

\* A transaction is about a change.
Named == \A p \in Slots : tx[p].pc # "idle" => tx[p].change \in Changes

StoreInv ==
  /\ Typed /\ HolderInstalled /\ HoldersWork /\ LoadedIsCurrent /\ WrittenIsThere /\ Named
  /\ ReportedKept

\* At first nothing is done and nobody holds the lock.
LEMMA InitStore == Init => StoreInv
<1> SUFFICES ASSUME Init PROVE StoreInv  OBVIOUS
<1>1. \A p \in Slots : tx[p] = NoTransaction
  BY DEF Init
<1>2. Typed
  BY StoreAssumption DEF Init, Typed, TransactionRecords, NoTransaction, Points
<1>3. HoldersWork
  BY <1>1, StoreAssumption DEF Init, HoldersWork, NoTransaction, Holding
<1> QED  BY <1>1, <1>2, <1>3 DEF Init, StoreInv, HolderInstalled, LoadedIsCurrent, WrittenIsThere,
                                  Named, NoTransaction, ReportedKept

(***************************************************************************)
(* The lock: what each of its steps leaves of the two facts about it.      *)
(***************************************************************************)
\* A step that leaves the lock, its holder and the lives alone.
LEMMA LockUntouched ==
  ASSUME HolderInstalled, UNCHANGED <<owner, holder, life>>
  PROVE  HolderInstalled'
BY DEF HolderInstalled, Pid

\* Installing, granting and giving back.
LEMMA LockMoves ==
  ASSUME StoreInv, NEW p \in Slots, Install(p) \/ Grant(p) \/ GiveBack(p)
  PROVE  HolderInstalled'
<1> USE DEF StoreInv, HolderInstalled, Pid
<1>1. CASE Install(p)
  <2>1. holder = None
    BY <1>1, StoreAssumption DEF Install, Typed
  <2> QED  BY <1>1, <2>1 DEF Install
<1>2. CASE Grant(p)
  BY <1>2 DEF Grant
<1>3. CASE GiveBack(p)
  BY <1>3 DEF GiveBack
<1> QED  BY <1>1, <1>2, <1>3

\* Nobody but its holder takes the lock of a holder away, and he only after giving it back.
LEMMA LockGone ==
  ASSUME StoreInv, NEW p \in Slots, Withdraw(p) \/ Reclaim
  PROVE  holder = None /\ HolderInstalled'
<1>1. holder = None
  <2> SUFFICES ASSUME holder # None PROVE FALSE  OBVIOUS
  <2>1. owner = <<holder, life[holder]>>
    BY DEF StoreInv, HolderInstalled, Pid
  <2>2. CASE Withdraw(p)
    BY <2>1, <2>2 DEF Withdraw, Pid
  <2>3. CASE Reclaim
    BY <2>1, <2>3 DEF Reclaim, Alive
  <2> QED  BY <2>2, <2>3
<1>2. holder' = None
  BY <1>1 DEF Withdraw, Reclaim
<1> QED  BY <1>1, <1>2 DEF HolderInstalled

\* The lock of a process that dies is nobody's.
LEMMA LockDies ==
  ASSUME StoreInv, NEW p \in Slots, Die(p)
  PROVE  HolderInstalled'
<1> SUFFICES ASSUME holder' # None PROVE owner' = <<holder', life'[holder']>>
  BY DEF HolderInstalled, Pid
<1>1. holder' = holder /\ holder # p /\ holder \in Slots
  BY DEF Die, StoreInv, Typed
<1>2. life'[holder] = life[holder]
  BY <1>1 DEF Die, StoreInv, Typed
<1> QED  BY <1>1, <1>2 DEF Die, StoreInv, HolderInstalled, Pid

(***************************************************************************)
(* What a step does to the transactions.                                   *)
(***************************************************************************)
\* Going on changes where one process is and nothing else.
LEMMA GoesOn ==
  ASSUME Typed, NEW p \in Slots, NEW pc \in Points, Go(p, pc)
  PROVE  /\ tx' \in [Slots -> TransactionRecords]
         /\ \A q \in Slots : /\ tx'[q].pc = (IF q = p THEN pc ELSE tx[q].pc)
                             /\ tx'[q].change = tx[q].change
                             /\ tx'[q].base = tx[q].base
                             /\ tx'[q].ok = tx[q].ok
<1>1. tx \in [Slots -> TransactionRecords]
  BY DEF Typed
<1>2. tx' = [tx EXCEPT ![p] = [tx[p] EXCEPT !.pc = pc]]
  BY DEF Go
<1>3. [tx[p] EXCEPT !.pc = pc] \in TransactionRecords
  BY <1>1 DEF TransactionRecords
<1>4. tx' \in [Slots -> TransactionRecords]
  BY <1>1, <1>2, <1>3
<1>5. tx'[p] = [tx[p] EXCEPT !.pc = pc] /\ \A q \in Slots \ {p} : tx'[q] = tx[q]
  BY <1>1, <1>2
<1>6. tx[p] \in TransactionRecords
  BY <1>1
<1>7. /\ tx'[p].pc = pc /\ tx'[p].change = tx[p].change
      /\ tx'[p].base = tx[p].base /\ tx'[p].ok = tx[p].ok
  BY <1>5, <1>6 DEF TransactionRecords
<1> QED  BY <1>4, <1>5, <1>7

\* Loading and confirming go on, too, and note what was loaded, or that it worked.
LEMMA LoadsOne ==
  ASSUME Typed, NEW p \in Slots, Load(p)
  PROVE  /\ tx' \in [Slots -> TransactionRecords]
         /\ tx'[p].pc = "loaded" /\ tx'[p].change = tx[p].change
         /\ tx'[p].base = file /\ tx'[p].ok = tx[p].ok
         /\ \A q \in Slots \ {p} : tx'[q] = tx[q]
<1>1. tx' = [tx EXCEPT ![p] = [tx[p] EXCEPT !.pc = "loaded", !.base = file]]
  BY DEF Load, Typed, TransactionRecords
<1>2. [tx[p] EXCEPT !.pc = "loaded", !.base = file] \in TransactionRecords
  BY DEF Typed, TransactionRecords, Points
<1> QED  BY <1>1, <1>2 DEF Typed, TransactionRecords

\* What confirming a write does.
LEMMA ConfirmsOne ==
  ASSUME Typed, NEW p \in Slots, Confirm(p)
  PROVE  /\ tx' \in [Slots -> TransactionRecords]
         /\ tx'[p].pc = "done" /\ tx'[p].change = tx[p].change /\ tx'[p].base = tx[p].base
         /\ \A q \in Slots \ {p} : tx'[q] = tx[q]
<1>1. tx' = [tx EXCEPT ![p] = [tx[p] EXCEPT !.pc = "done", !.ok = TRUE]]
  BY DEF Confirm, Typed, TransactionRecords
<1>2. [tx[p] EXCEPT !.pc = "done", !.ok = TRUE] \in TransactionRecords
  BY DEF Typed, TransactionRecords, Points
<1> QED  BY <1>1, <1>2 DEF Typed, TransactionRecords

\* Ending a transaction leaves the others alone.
LEMMA EndsOne ==
  ASSUME Typed, NEW p \in Slots, tx' = [tx EXCEPT ![p] = NoTransaction]
  PROVE  /\ tx' \in [Slots -> TransactionRecords]
         /\ tx'[p].pc = "idle" /\ ~tx'[p].ok
         /\ \A q \in Slots \ {p} : tx'[q] = tx[q]
BY DEF Typed, TransactionRecords, NoTransaction, Points

(***************************************************************************)
(* The steps.                                                              *)
(***************************************************************************)
\* Types are kept.
LEMMA TypeStep == StoreInv /\ [Next]_vars => Typed'
<1> SUFFICES ASSUME StoreInv, [Next]_vars PROVE Typed'  OBVIOUS
<1>0. Typed /\ Named
  BY DEF StoreInv
<1>1. CASE UNCHANGED vars
  BY <1>0, <1>1 DEF vars, Typed
<1>2. ASSUME NEW p \in Slots, NEW c \in Changes, Begin(p, c) PROVE Typed'
  BY <1>0, <1>2 DEF Begin, Typed, TransactionRecords, Points
<1>3. ASSUME NEW p \in Slots, Installs(p) \/ RollsBack(p) \/ TakesAway(p) PROVE Typed'
  <2>1. tx' \in [Slots -> TransactionRecords]
    BY <1>0, <1>3, GoesOn DEF Installs, RollsBack, TakesAway, Points
  <2> QED  BY <1>0, <1>3, <2>1 DEF Installs, RollsBack, TakesAway, Install, Withdraw, Pid, Typed
<1>4. ASSUME NEW p \in Slots, Locked(p) \/ Releases(p) PROVE Typed'
  <2>1. tx' \in [Slots -> TransactionRecords]
    BY <1>0, <1>4, GoesOn DEF Locked, Releases, Points
  <2> QED  BY <1>0, <1>4, <2>1 DEF Locked, Releases, Grant, GiveBack, Typed
<1>5. ASSUME NEW p \in Slots, Change(p) \/ Fails(p) \/ Load(p) \/ Confirm(p) PROVE Typed'
  <2>1. tx' \in [Slots -> TransactionRecords]
    BY <1>0, <1>5, GoesOn, LoadsOne, ConfirmsOne DEF Change, Fails, Points
  <2> QED  BY <1>0, <1>5, <2>1 DEF Change, Fails, Load, Confirm, Typed
<1>6. ASSUME NEW p \in Slots, WriteState(p) PROVE Typed'
  <2>1. tx' \in [Slots -> TransactionRecords]
    BY <1>0, <1>6, GoesOn DEF WriteState, Points
  <2>2. tx[p].change \in Changes /\ tx[p].base \subseteq Changes
    BY <1>0, <1>6 DEF WriteState, Named, At, Typed, TransactionRecords
  <2> QED  BY <1>0, <1>6, <2>1, <2>2 DEF WriteState, Typed
<1>7. ASSUME NEW p \in Slots, Busy(p) \/ Uncertain(p) \/ Returns(p) PROVE Typed'
  <2>1. tx' \in [Slots -> TransactionRecords]
    BY <1>0, <1>7, EndsOne DEF Busy, Uncertain, Returns
  <2>2. Returns(p) => tx[p].change \in Changes
    BY <1>0 DEF Returns, Named, At
  <2> QED  BY <1>0, <1>7, <2>1, <2>2 DEF Busy, Uncertain, Returns, Typed
<1>8. ASSUME NEW p \in Slots, Crash(p) PROVE Typed'
  <2>1. tx' \in [Slots -> TransactionRecords]
    BY <1>0, <1>8, EndsOne DEF Crash
  <2> QED  BY <1>0, <1>8, <2>1 DEF Crash, Die, Typed
<1>9. CASE Reclaims
  BY <1>0, <1>9 DEF Reclaims, Reclaim, Typed
<1> QED  BY <1>1, <1>2, <1>3, <1>4, <1>5, <1>6, <1>7, <1>8, <1>9 DEF Next, Otherwise

\* The lock stays with its holder.
LEMMA HolderStep == StoreInv /\ [Next]_vars => HolderInstalled'
<1> SUFFICES ASSUME StoreInv, [Next]_vars PROVE HolderInstalled'  OBVIOUS
<1>1. CASE UNCHANGED <<owner, holder, life>>
  BY <1>1, LockUntouched DEF StoreInv
<1>2. ASSUME NEW p \in Slots, Installs(p) \/ Locked(p) \/ Releases(p) PROVE HolderInstalled'
  BY <1>2, LockMoves DEF Installs, Locked, Releases
<1>3. ASSUME NEW p \in Slots, RollsBack(p) \/ TakesAway(p) PROVE HolderInstalled'
  BY <1>3, LockGone DEF RollsBack, TakesAway
<1>4. ASSUME NEW p \in Slots, Crash(p) PROVE HolderInstalled'
  BY <1>4, LockDies DEF Crash
<1>5. CASE Reclaims
  <2>1. CASE Slots = {}
    BY <1>5, <2>1 DEF Reclaims, Reclaim, StoreInv, Typed
  <2>2. CASE Slots # {}
    BY <1>5, <2>2, LockGone DEF Reclaims
  <2> QED  BY <2>1, <2>2
<1> QED  BY <1>1, <1>2, <1>3, <1>4, <1>5
         DEF Next, Otherwise, vars, Begin, Busy, Load, Change, WriteState, Confirm, Fails, Returns, Uncertain

\* A process works exactly while it holds the lock.
LEMMA WorkStep == StoreInv /\ [Next]_vars => HoldersWork'
<1> SUFFICES ASSUME StoreInv, [Next]_vars PROVE HoldersWork'  OBVIOUS
<1> USE StoreAssumption DEF HoldersWork, Holding, At
<1>0. Typed /\ HoldersWork
  BY DEF StoreInv
<1>1. CASE UNCHANGED vars \/ Reclaims
  BY <1>0, <1>1 DEF vars, Reclaims, Reclaim
<1>2. ASSUME NEW p \in Slots, NEW c \in Changes, Begin(p, c) PROVE HoldersWork'
  BY <1>0, <1>2 DEF Begin, Typed
<1>3. ASSUME NEW p \in Slots, Installs(p) \/ RollsBack(p) \/ TakesAway(p) PROVE HoldersWork'
  BY <1>0, <1>3, GoesOn DEF Installs, RollsBack, TakesAway, Install, Withdraw, Points
<1>4. ASSUME NEW p \in Slots, Locked(p) PROVE HoldersWork'
  BY <1>0, <1>4, GoesOn DEF Locked, Grant, Points
<1>5. ASSUME NEW p \in Slots, Releases(p) PROVE HoldersWork'
  BY <1>0, <1>5, GoesOn DEF Releases, GiveBack, Points
<1>6. ASSUME NEW p \in Slots, Busy(p) \/ Uncertain(p) \/ Returns(p) PROVE HoldersWork'
  BY <1>0, <1>6, EndsOne DEF Busy, Uncertain, Returns
<1>7. ASSUME NEW p \in Slots, Change(p) \/ WriteState(p) \/ Fails(p) PROVE HoldersWork'
  BY <1>0, <1>7, GoesOn DEF Change, WriteState, Fails, Points
<1>8. ASSUME NEW p \in Slots, Load(p) \/ Confirm(p) PROVE HoldersWork'
  BY <1>0, <1>8, LoadsOne, ConfirmsOne DEF Load, Confirm
<1>9. ASSUME NEW p \in Slots, Crash(p) PROVE HoldersWork'
  BY <1>0, <1>9, EndsOne DEF Crash, Die
<1> QED  BY <1>1, <1>2, <1>3, <1>4, <1>5, <1>6, <1>7, <1>8, <1>9 DEF Next, Otherwise

\* The write of the holder adds its change to the file as it is.
LEMMA WriteAdds ==
  ASSUME StoreInv, NEW p \in Slots, WriteState(p)
  PROVE  holder = p /\ owner = Pid(p) /\ file' = file \cup {tx[p].change}
<1>1. holder = p
  BY DEF StoreInv, HoldersWork, Holding, WriteState, At
<1>2. owner = Pid(p)
  BY <1>1, StoreAssumption DEF StoreInv, HolderInstalled
<1>3. tx[p].base = file
  BY DEF StoreInv, LoadedIsCurrent, WriteState, At
<1> QED  BY <1>1, <1>2, <1>3 DEF WriteState

\* The steps other than the write leave the file alone.
LEMMA FileSteps ==
  ASSUME [Next]_vars
  PROVE  file' = file \/ \E p \in Slots : WriteState(p)
BY DEF Next, Otherwise, vars, Begin, Installs, Locked, RollsBack, Busy, Load, Change, Confirm, Fails, Releases,
       TakesAway, Returns, Uncertain, Crash, Reclaims

\* Nothing leaves the file.
LEMMA FileGrows == ASSUME StoreInv, [Next]_vars PROVE file \subseteq file'
BY FileSteps, WriteAdds

\* While a transaction is between its load and its write nobody else writes.
LEMMA CurrentStep == StoreInv /\ [Next]_vars => LoadedIsCurrent'
<1> SUFFICES ASSUME StoreInv, [Next]_vars, NEW q \in Slots, tx'[q].pc \in {"loaded", "changed"}
             PROVE  tx'[q].base = file'
  BY DEF LoadedIsCurrent
<1> USE DEF At, LoadedIsCurrent
<1>0. Typed /\ LoadedIsCurrent /\ HoldersWork
  BY DEF StoreInv
<1>1. CASE UNCHANGED vars \/ Reclaims
  BY <1>0, <1>1 DEF vars, Reclaims
<1>2. ASSUME NEW p \in Slots, WriteState(p) PROVE tx'[q].base = file'
  <2>1. holder = p
    BY <1>2, WriteAdds
  <2>2. q # p /\ tx'[q].pc = tx[q].pc
    BY <1>0, <1>2, GoesOn DEF WriteState, Points
  <2> QED  BY <1>0, <2>1, <2>2 DEF HoldersWork, Holding
<1>3. ASSUME NEW p \in Slots, NEW c \in Changes, Begin(p, c) PROVE tx'[q].base = file'
  BY <1>0, <1>3 DEF Begin, Typed
<1>4. ASSUME NEW p \in Slots, Busy(p) \/ Returns(p) \/ Uncertain(p) \/ Crash(p)
      PROVE  tx'[q].base = file'
  BY <1>0, <1>4, EndsOne DEF Busy, Returns, Uncertain, Crash
<1>5. ASSUME NEW p \in Slots,
             Installs(p) \/ Locked(p) \/ RollsBack(p) \/ Releases(p) \/ TakesAway(p)
      PROVE  tx'[q].base = file'
  BY <1>0, <1>5, GoesOn DEF Installs, Locked, RollsBack, Releases, TakesAway, Points
<1>6. ASSUME NEW p \in Slots, Change(p) \/ Fails(p) PROVE tx'[q].base = file'
  BY <1>0, <1>6, GoesOn DEF Change, Fails, Points
<1>7. ASSUME NEW p \in Slots, Load(p) \/ Confirm(p) PROVE tx'[q].base = file'
  BY <1>0, <1>7, LoadsOne, ConfirmsOne DEF Load, Confirm
<1> QED  BY <1>1, <1>2, <1>3, <1>4, <1>5, <1>6, <1>7 DEF Next, Otherwise

\* What is written stays written, until its transaction is over and after.
LEMMA WrittenStep == StoreInv /\ [Next]_vars => WrittenIsThere'
<1> SUFFICES ASSUME StoreInv, [Next]_vars, NEW q \in Slots, tx'[q].pc = "written" \/ tx'[q].ok
             PROVE  tx'[q].change \in file'
  BY DEF WrittenIsThere
<1> USE DEF At, WrittenIsThere
<1>0. Typed /\ WrittenIsThere /\ file \subseteq file'
  BY FileGrows DEF StoreInv
<1>1. CASE UNCHANGED vars \/ Reclaims
  BY <1>0, <1>1 DEF vars, Reclaims
<1>2. ASSUME NEW p \in Slots, WriteState(p) PROVE tx'[q].change \in file'
  <2>1. tx[p].change \in file'
    BY <1>2, WriteAdds
  <2> QED  BY <1>0, <1>2, <2>1, GoesOn DEF WriteState, Points
<1>3. ASSUME NEW p \in Slots, NEW c \in Changes, Begin(p, c) PROVE tx'[q].change \in file'
  BY <1>0, <1>3 DEF Begin, Typed
<1>4. ASSUME NEW p \in Slots, Busy(p) \/ Returns(p) \/ Uncertain(p) \/ Crash(p)
      PROVE  tx'[q].change \in file'
  BY <1>0, <1>4, EndsOne DEF Busy, Returns, Uncertain, Crash
<1>5. ASSUME NEW p \in Slots,
             Installs(p) \/ Locked(p) \/ RollsBack(p) \/ Releases(p) \/ TakesAway(p)
      PROVE  tx'[q].change \in file'
  BY <1>0, <1>5, GoesOn DEF Installs, Locked, RollsBack, Releases, TakesAway, Points
<1>6. ASSUME NEW p \in Slots, Change(p) \/ Fails(p) PROVE tx'[q].change \in file'
  BY <1>0, <1>6, GoesOn DEF Change, Fails, Points
<1>7. ASSUME NEW p \in Slots, Load(p) \/ Confirm(p) PROVE tx'[q].change \in file'
  BY <1>0, <1>7, LoadsOne, ConfirmsOne DEF Load, Confirm
<1> QED  BY <1>1, <1>2, <1>3, <1>4, <1>5, <1>6, <1>7 DEF Next, Otherwise

\* A transaction is about a change as long as it lasts.
LEMMA NamedStep == StoreInv /\ [Next]_vars => Named'
<1> SUFFICES ASSUME StoreInv, [Next]_vars, NEW q \in Slots, tx'[q].pc # "idle"
             PROVE  tx'[q].change \in Changes
  BY DEF Named
<1> USE DEF At, Named
<1>0. Typed /\ Named
  BY DEF StoreInv
<1>1. CASE UNCHANGED vars \/ Reclaims
  BY <1>0, <1>1 DEF vars, Reclaims
<1>2. ASSUME NEW p \in Slots, NEW c \in Changes, Begin(p, c) PROVE tx'[q].change \in Changes
  BY <1>0, <1>2 DEF Begin, Typed
<1>3. ASSUME NEW p \in Slots, Busy(p) \/ Returns(p) \/ Uncertain(p) \/ Crash(p)
      PROVE  tx'[q].change \in Changes
  BY <1>0, <1>3, EndsOne DEF Busy, Returns, Uncertain, Crash
<1>4. ASSUME NEW p \in Slots,
             Installs(p) \/ Locked(p) \/ RollsBack(p) \/ Releases(p) \/ TakesAway(p)
      PROVE  tx'[q].change \in Changes
  BY <1>0, <1>4, GoesOn DEF Installs, Locked, RollsBack, Releases, TakesAway, Points
<1>5. ASSUME NEW p \in Slots, Change(p) \/ WriteState(p) \/ Fails(p)
      PROVE  tx'[q].change \in Changes
  BY <1>0, <1>5, GoesOn DEF Change, WriteState, Fails, Points, Holding
<1>6. ASSUME NEW p \in Slots, Load(p) \/ Confirm(p) PROVE tx'[q].change \in Changes
  BY <1>0, <1>6, LoadsOne, ConfirmsOne DEF Load, Confirm
<1> QED  BY <1>1, <1>2, <1>3, <1>4, <1>5, <1>6 DEF Next, Otherwise

\* Nothing that a caller was answered leaves the file.
LEMMA ReportedStep == StoreInv /\ [Next]_vars => ReportedKept'
<1> SUFFICES ASSUME StoreInv, [Next]_vars PROVE ReportedKept'  OBVIOUS
<1>0. Typed /\ ReportedKept /\ WrittenIsThere /\ file \subseteq file'
  BY FileGrows DEF StoreInv
<1>1. CASE reported' = reported
  BY <1>0, <1>1 DEF ReportedKept
<1>2. ASSUME NEW p \in Slots, Returns(p) PROVE ReportedKept'
  BY <1>0, <1>2 DEF Returns, ReportedKept, WrittenIsThere
<1> QED  BY <1>1, <1>2
         DEF Next, Otherwise, vars, Begin, Installs, Locked, RollsBack, Busy, Load, Change, WriteState, Confirm,
             Fails, Releases, TakesAway, Uncertain, Crash, Reclaims

-----------------------------------------------------------------------------
\* The inductive invariant: what was loaded is current while its process holds the lock.
THEOREM StoreInvariant == Spec => []StoreInv
<1>1. StoreInv /\ [Next]_vars => StoreInv'
  BY TypeStep, HolderStep, WorkStep, CurrentStep, WrittenStep, NamedStep, ReportedStep DEF StoreInv
<1> QED  BY <1>1, InitStore, PTL DEF Spec

\* Types, and no path out of a transaction keeps the lock, for any number of processes.
THEOREM TypeCorrect == Spec => []TypeOK
<1>1. StoreInv => TypeOK
  BY DEF StoreInv, TypeOK
<1> QED  BY <1>1, StoreInvariant, PTL

\* What transaction() returned for is never lost (pool-runtime.ts 602-615).
THEOREM AnswersAreKept == Spec => []ReportedKept
<1>1. StoreInv => ReportedKept
  BY DEF StoreInv
<1> QED  BY <1>1, StoreInvariant, PTL

\* The transactions are one after the other: what ResourceLedger takes for granted (604-609).
THEOREM TransactionsAreSerial == Spec => OneAfterTheOther
<1>1. StoreInv /\ [Next]_vars =>
        [file' # file => \E p \in Slots : /\ At(p, "changed") /\ owner = Pid(p)
                                          /\ file' = file \cup {tx[p].change}]_vars
  BY FileSteps, WriteAdds DEF WriteState
<1> QED  BY <1>1, StoreInvariant, PTL DEF Spec, OneAfterTheOther

\* transaction() uses of its lock only what LocalStoreLock is shown to give it.
THEOREM KeepsToTheProtocol == Spec => Exclusion
<1>1. Init => Unheld
  BY DEF Init, Unheld
<1>2. StoreInv /\ [Next]_vars => [Protocol]_<<owner, holder, life>>
  <2> SUFFICES ASSUME StoreInv, [Next]_vars, ~UNCHANGED <<owner, holder, life>> PROVE Protocol  OBVIOUS
  <2>1. ASSUME NEW p \in Slots, Installs(p) \/ Locked(p) \/ RollsBack(p) \/ Releases(p)
                                \/ TakesAway(p) \/ Crash(p)
        PROVE  Protocol
    BY <2>1 DEF Protocol, Installs, Locked, RollsBack, Releases, TakesAway, Crash
  <2>2. CASE Reclaims
    <3>1. PICK p \in Slots : owner = <<p, owner[2]>>
      BY <2>2 DEF Reclaims, Reclaim, StoreInv, Typed
    <3> QED  BY <2>2, <3>1 DEF Protocol, Reclaims
  <2> QED  BY <2>1, <2>2 DEF Next, Otherwise, vars, Begin, Busy, Load, Change, WriteState, Confirm, Fails,
                             Returns, Uncertain
<1> QED  BY <1>1, <1>2, StoreInvariant, PTL DEF Spec, Exclusion
=============================================================================
