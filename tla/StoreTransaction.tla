--------------------------- MODULE StoreTransaction ---------------------------
(***************************************************************************)
(* transaction() of pool-runtime.ts: load the pool's file under the        *)
(* store's lock, change what was loaded, write it whole, answer.  Several  *)
(* processes run it on one root and may die at any line.  The lock is the  *)
(* one LocalStoreLock is shown to implement.  ResourceLedger takes a       *)
(* transaction for one step; what is shown here is that it may.            *)
(*                                                                         *)
(* The file is the set of the changes made to it.  Every call can fail:    *)
(* reading, checking, writing, synchronizing, unlinking.                   *)
(***************************************************************************)
EXTENDS StoreLock

CONSTANTS
  Changes,    \* the calls of transaction(), by the change each makes
  MaxLives    \* bound: how many processes of a slot may die

ASSUME StoreAssumption ==
  None \notin Slots /\ None \notin Slots \X Nat /\ None \notin Changes /\ MaxLives \in Nat

VARIABLES
  file,       \* pool-state.json
  begun,      \* the changes some process has begun
  reported,   \* the changes whose transaction returned to its caller
  tx          \* tx[p]: where the process of slot p is in transaction()

vars == <<owner, holder, life, file, begun, reported, tx>>

Points == {"idle", "waiting", "installed", "locked", "loaded", "changed", "written",
           "done", "releasing", "released"}
Holding == {"locked", "loaded", "changed", "written", "done"}

NoTransaction == [pc |-> "idle", change |-> None, base |-> {}, ok |-> FALSE]

Init ==
  /\ life \in [Slots -> 0..1]
  /\ owner \in {<<p, 0>> : p \in {q \in Slots : life[q] = 1}} \cup {None}
  /\ holder = None
  /\ file = {} /\ begun = {} /\ reported = {}
  /\ tx = [p \in Slots |-> NoTransaction]

At(p, pc) == tx[p].pc = pc
Go(p, pc) == tx' = [tx EXCEPT ![p].pc = pc]

-----------------------------------------------------------------------------
Begin(p, c) ==
  /\ At(p, "idle") /\ c \notin begun
  /\ tx' = [tx EXCEPT ![p] = [pc |-> "waiting", change |-> c, base |-> {}, ok |-> FALSE]]
  /\ begun' = begun \cup {c}
  /\ UNCHANGED <<owner, holder, life, file, reported>>

\* acquireLocalStoreLock installs the lock, is granted it or rolls the installation back; a lock
\* that an earlier release left installed is taken away first; null, and an exception, at any time.
Installs(p) ==
  /\ At(p, "waiting") /\ Install(p) /\ Go(p, "installed")
  /\ UNCHANGED <<file, begun, reported>>

Locked(p) ==
  /\ At(p, "installed") /\ Grant(p) /\ Go(p, "locked")
  /\ UNCHANGED <<file, begun, reported>>

RollsBack(p) ==
  /\ (At(p, "installed") \/ At(p, "waiting")) /\ Withdraw(p) /\ Go(p, "waiting")
  /\ UNCHANGED <<file, begun, reported>>

Busy(p) ==
  /\ At(p, "waiting") \/ At(p, "installed")
  /\ tx' = [tx EXCEPT ![p] = NoTransaction]
  /\ UNCHANGED <<owner, holder, life, file, begun, reported>>

Load(p) ==
  /\ At(p, "locked")
  /\ tx' = [tx EXCEPT ![p].pc = "loaded", ![p].base = file]
  /\ UNCHANGED <<owner, holder, life, file, begun, reported>>

\* The change is made in memory and the lock is still this process's own.
Change(p) ==
  /\ At(p, "loaded") /\ owner = Pid(p)
  /\ Go(p, "changed")
  /\ UNCHANGED <<owner, holder, life, file, begun, reported>>

\* Mutant: the file is written in place, and the write may end in the middle of it.
WriteStateInPlace(p) ==
  /\ At(p, "changed")
  /\ \/ file' = tx[p].base \cup {tx[p].change} /\ Go(p, "written")
     \/ file' = {} /\ Go(p, "done")
  /\ UNCHANGED <<owner, holder, life, begun, reported>>

\* The rename: the file becomes what was loaded with the change, whatever it is by now.
WriteState(p) ==
  /\ At(p, "changed")
  /\ file' = tx[p].base \cup {tx[p].change}
  /\ Go(p, "written")
  /\ UNCHANGED <<owner, holder, life, begun, reported>>

Confirm(p) ==
  /\ At(p, "written") /\ owner = Pid(p)
  /\ tx' = [tx EXCEPT ![p].pc = "done", ![p].ok = TRUE]
  /\ UNCHANGED <<owner, holder, life, file, begun, reported>>

\* The catch: an exception before the rename or after it.
Fails(p) ==
  /\ tx[p].pc \in Holding \ {"done"}
  /\ Go(p, "done")
  /\ UNCHANGED <<owner, holder, life, file, begun, reported>>

\* releaseLocalStoreLock, from its first line to the unlink.
Releases(p) ==
  /\ At(p, "done") /\ GiveBack(p) /\ Go(p, "releasing")
  /\ UNCHANGED <<file, begun, reported>>

TakesAway(p) ==
  /\ At(p, "releasing") /\ Withdraw(p) /\ Go(p, "released")
  /\ UNCHANGED <<file, begun, reported>>

\* Mutant: the outcome is not looked at after the release.
ReturnsAnyhow(p) ==
  /\ At(p, "released")
  /\ reported' = reported \cup {tx[p].change}
  /\ tx' = [tx EXCEPT ![p] = NoTransaction]
  /\ UNCHANGED <<owner, holder, life, file, begun>>

\* The caller gets the result, or the error that the change or the write ended with.
Returns(p) ==
  /\ At(p, "released")
  /\ reported' = IF tx[p].ok THEN reported \cup {tx[p].change} ELSE reported
  /\ tx' = [tx EXCEPT ![p] = NoTransaction]
  /\ UNCHANGED <<owner, holder, life, file, begun>>

\* "Resource store release uncertain": the lock may stay installed, the outcome is not told.
Uncertain(p) ==
  /\ At(p, "releasing") \/ At(p, "released")
  /\ tx' = [tx EXCEPT ![p] = NoTransaction]
  /\ UNCHANGED <<owner, holder, life, file, begun, reported>>

\* The process dies where it is; the slot's next process knows nothing of its transaction.
Crash(p) ==
  /\ life[p] < MaxLives /\ Die(p)
  /\ tx' = [tx EXCEPT ![p] = NoTransaction]
  /\ UNCHANGED <<file, begun, reported>>

\* A contender takes a dead process's lock away.
Reclaims ==
  /\ Reclaim
  /\ UNCHANGED <<file, begun, reported, tx>>

\* Everything but the rename.
Otherwise ==
  \/ \E p \in Slots, c \in Changes : Begin(p, c)
  \/ \E p \in Slots :
       \/ Installs(p) \/ Locked(p) \/ RollsBack(p) \/ Busy(p)
       \/ Load(p) \/ Change(p) \/ Confirm(p) \/ Fails(p)
       \/ Releases(p) \/ TakesAway(p) \/ Returns(p) \/ Uncertain(p) \/ Crash(p)
  \/ Reclaims

Next == (\E p \in Slots : WriteState(p)) \/ Otherwise

Spec == Init /\ [][Next]_vars

-----------------------------------------------------------------------------
TransactionRecords ==
  [pc : Points, change : Changes \cup {None}, base : SUBSET Changes, ok : BOOLEAN]

Typed ==
  /\ life \in [Slots -> Nat]
  /\ owner \in (Slots \X Nat) \cup {None}
  /\ holder \in Slots \cup {None}
  /\ file \subseteq Changes /\ begun \subseteq Changes /\ reported \subseteq Changes
  /\ tx \in [Slots -> TransactionRecords]

\* A process is between the grant and the release exactly while it holds the lock.
HoldersWork == \A p \in Slots : tx[p].pc \in Holding <=> holder = p

\* Types of the file, the lock and the transactions; no path out of a transaction keeps the lock.
TypeOK == Typed /\ HoldersWork

\* What transaction() returned for is in the file, for good: no later write, of whatever process,
\* starts from a file that misses it (pool-runtime.ts 602-615).
ReportedKept == reported \subseteq file

\* The transactions are one after the other: what a change was decided on is the file as it is when
\* the change is written, under a lock that is still the writer's (604-609).  It is why
\* ResourceLedger may take a transaction for one step.
OneAfterTheOther ==
  [][file' # file => \E p \in Slots : /\ At(p, "changed") /\ owner = Pid(p)
                                      /\ file' = file \cup {tx[p].change}]_vars
=============================================================================
