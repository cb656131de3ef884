------------------------------- MODULE PoolFile -------------------------------
(***************************************************************************)
(* The pool's file as it is on disk: what transaction() does to it         *)
(* (StoreTransaction) and how long the ledger in it gets (LedgerHeadroom). *)
(* What a transaction decides about the rows is published by its rename;   *)
(* a settlement that writeState refuses ends in the catch.                 *)
(***************************************************************************)
EXTENDS StoreTransaction, LedgerHeadroom

PoolInit == Init /\ EmptyLedger

PoolNext ==
  \/ \E p \in Slots : WriteState(p) /\ Saves
  \/ \E p \in Slots : At(p, "changed") /\ Fails(p) /\ Refusals
  \/ Otherwise /\ UNCHANGED rows
  \/ Strand /\ UNCHANGED vars

PoolSpec == PoolInit /\ [][PoolNext]_<<vars, rows>>
===============================================================================
