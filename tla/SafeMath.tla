------------------------------ MODULE SafeMath ------------------------------
(***************************************************************************)
(* The arithmetic the contracts share.  Amounts are i128 and every         *)
(* operation is checked: an overflow reverts the transaction, so it is a   *)
(* step that does not happen.  Token amounts are far below 2^127 and the   *)
(* model leaves overflow out.  Division truncates; all its arguments are   *)
(* non-negative here, where truncation is \div.                            *)
(***************************************************************************)
EXTENDS Integers

Bps == 10000

\* calculate_bps_amount: a share of base in basis points, rounded down.
BpsOf(base, bps) == (base * bps) \div Bps

Least(m, n) == IF m < n THEN m ELSE n

Greatest(m, n) == IF m < n THEN n ELSE m

NonNegative(n) == Greatest(n, 0)
=============================================================================
