-------------------------------- MODULE Sums --------------------------------
(***************************************************************************)
(* Sums of the values of an integer function over a finite set, the shape  *)
(* of every cross-contract accounting statement of this project: the LP    *)
(* shares of all providers, the debt of all loans of a borrower, the       *)
(* guarantees in escrow, the principal that is out with borrowers.         *)
(***************************************************************************)
EXTENDS Integers, Functions

\* The sum of f[x] over x \in S.
Sum(f, S) == FoldFunctionOnSet(+, 0, f, S)
=============================================================================
