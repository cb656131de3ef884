------------------------------ MODULE MCPoolFile ------------------------------
(* Processes that change one pool's file, with room for two of the widest  *)
(* settlements, and die in the middle of it.                               *)
EXTENDS PoolFile, TLC

Symmetry == Permutations(Slots) \cup Permutations(Changes)
===============================================================================
