------------------------------- MODULE Token --------------------------------
(***************************************************************************)
(* The SEP-41 token (the Stellar Asset Contract) that every contract moves *)
(* through token::Client.  It is not part of the repository: the model     *)
(* keeps what src/ relies on, a balance per account and a transfer that    *)
(* traps, and so reverts the whole transaction, on a negative amount or an *)
(* insufficient balance.                                                   *)
(***************************************************************************)
EXTENDS Integers

\* The transfer of amount out of account from does not trap.
TransferOk(b, from, amount) == amount >= 0 /\ b[from] >= amount

\* The balances after the transfer.
Transfer(b, from, to, amount) == [b EXCEPT ![from] = @ - amount, ![to] = @ + amount]
=============================================================================
