----------------------------- MODULE MCVouching -----------------------------
(***************************************************************************)
(* Vouching on a small instance: scores move in steps of 5 and 10.         *)
(***************************************************************************)
EXTENDS Vouching

CONSTANT InitialScore

MCInitialScores == [l \in Learners |-> InitialScore]
=============================================================================
