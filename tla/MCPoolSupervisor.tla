-------------------------- MODULE MCPoolSupervisor --------------------------
(***************************************************************************)
(* A console with two or three tasks.                                      *)
(***************************************************************************)
EXTENDS PoolSupervisor

ContentSymmetry == Permutations(Contents)
=============================================================================
