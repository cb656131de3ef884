--------------------------- MODULE MCPoolEvolution ---------------------------
(***************************************************************************)
(* One task that the console or a runner may run, and two operators with   *)
(* different next configurations in mind.                                  *)
(***************************************************************************)
EXTENDS PoolEvolution, TLC

CONSTANTS o1, o2, c1, c2

MCWants == o1 :> {c1} @@ o2 :> {c2}
=============================================================================
