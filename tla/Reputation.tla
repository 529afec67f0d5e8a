----------------------------- MODULE Reputation -----------------------------
(***************************************************************************)
(* The reputation contract's arithmetic: scores are u32 values that every  *)
(* entry point keeps within 0..MaxScore by refusing what would leave it.   *)
(* A refusal reverts the caller's transaction.  A user who has no entry    *)
(* has score 0.                                                            *)
(***************************************************************************)
EXTENDS Integers

MaxScore == 100  \* MAX_SCORE

\* Mutation: the upper bound is not checked.
RaiseUnbounded(score, amount) == amount >= 0

\* increase_score and add_boost.
RaiseOk(score, amount) == score + amount <= MaxScore

\* decrease_score and remove_boost: a checked subtraction.
LowerOk(score, amount) == score >= amount
=============================================================================
