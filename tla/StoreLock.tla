----------------------------- MODULE StoreLock ------------------------------
(***************************************************************************)
(* What acquireLocalStoreLock and releaseLocalStoreLock promise to the     *)
(* stores written under them: the lock is installed for one process at a   *)
(* time; a live process keeps it until it gives it back; the lock of a     *)
(* dead one may be taken away at any time.  How contenders see to that in  *)
(* a directory (LocalStoreLock) is left out; StoreTransaction relies on it. *)
(***************************************************************************)
EXTENDS Naturals

CONSTANTS
  Slots,      \* the processes alive at any time
  None

VARIABLES
  owner,      \* the pid the lock is installed for, or None
  holder,     \* the slot whose process was told that it owns the store, or None
  life        \* life[p]: how many processes of slot p have died

Pid(p) == <<p, life[p]>>
Alive(pid) == life[pid[1]] = pid[2]

\* At first nobody holds the lock; a dead process may have left it installed.
Unheld ==
  /\ life \in [Slots -> Nat]
  /\ owner \in (Slots \X Nat) \cup {None} /\ (owner # None => owner[2] < life[owner[1]])
  /\ holder = None

Install(p) ==
  /\ owner = None
  /\ owner' = Pid(p)
  /\ UNCHANGED <<holder, life>>

Grant(p) ==
  /\ owner = Pid(p) /\ holder = None
  /\ holder' = p
  /\ UNCHANGED <<owner, life>>

\* The release begins: the process acts as an owner no more, the lock is still installed.
GiveBack(p) ==
  /\ holder = p
  /\ holder' = None
  /\ UNCHANGED <<owner, life>>

\* A process takes its own lock away: a release, or an installation that is rolled back.
Withdraw(p) ==
  /\ owner = Pid(p) /\ holder # p
  /\ owner' = None
  /\ UNCHANGED <<holder, life>>

Reclaim ==
  /\ owner # None /\ ~Alive(owner)
  /\ owner' = None
  /\ UNCHANGED <<holder, life>>

Die(p) ==
  /\ life' = [life EXCEPT ![p] = @ + 1]
  /\ holder' = IF holder = p THEN None ELSE holder
  /\ UNCHANGED owner

Protocol == \E p \in Slots : Install(p) \/ Grant(p) \/ GiveBack(p) \/ Withdraw(p) \/ Reclaim \/ Die(p)

Exclusion == Unheld /\ [][Protocol]_<<owner, holder, life>>
=============================================================================
