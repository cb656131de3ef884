-------------------------- MODULE MCLocalStoreLock --------------------------
(***************************************************************************)
(* Two processes and one store directory.                                  *)
(***************************************************************************)
EXTENDS LocalStoreLock, TLC

ProcessSymmetry == Permutations(Slots)

Past(lefts, deaths, before) == {[left |-> l, deaths |-> deaths, faults |-> before] : l \in lefts}

\* A holder died: before or after it dropped its candidate name, or while its
\* lock was being removed by a process that died too.
HolderLefts == {{"lock"}, {"lock", "candidate"}, {"lock", "guard"}}

\* A contender died as well, while it held the election.
ReclaimerLefts == {{"lock", "election"}, {"lock", "guard", "election"}, {"lock", "election", "electionGuard"}}

DeadHolder == Past(HolderLefts, 1, MaxFaults)
DeadReclaimer == Past(ReclaimerLefts, 2, MaxFaults)

\* With at most one death and one fault: a death is left to an empty directory, a fault
\* to the lock of a dead holder, and neither to the election of a dead contender.
AnyPast == Past({{}}, 0, 1) \cup Past(HolderLefts, 1, 0) \cup DeadReclaimer
=============================================================================
