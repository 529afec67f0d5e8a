---------------------------- MODULE MCLoanIndex -----------------------------
(***************************************************************************)
(* LoanIndex with pages of three and two borrowers, from storages that an  *)
(* earlier version left: none, whole pages, and partly filled pages.       *)
(***************************************************************************)
EXTENDS LoanIndex

CONSTANTS u1, u2

MCLegacyOwners == {<<>>, <<u1>>, <<u1, u2, u1, u1>>, <<u2, u2, u1, u1, u1, u2>>}
=============================================================================
