-------------------------- MODULE MCLiquidityPool ---------------------------
(***************************************************************************)
(* LiquidityPool on small instances.  Deposits after losses issue ever     *)
(* more shares per token, so the explored states are those with at most    *)
(* MaxShares shares; tokens are conserved, which bounds everything else.   *)
(***************************************************************************)
EXTENDS LiquidityPool, TLC

CONSTANTS ProviderFunds, CreditLineFunds, MaxShares

MCEndowment ==
  [a \in Accounts |-> IF a \in Providers THEN ProviderFunds
                      ELSE IF a = CreditLineAcct THEN CreditLineFunds ELSE 0]

FewShares == pool.shares <= MaxShares

\* No limit was ever switched on, and one vendor is enough.
LimitsUntouched ==
  /\ pool.outflowCap = 0 /\ pool.exposureCap = 0 /\ ~pool.checkVendor
  /\ pool.window.seq = 0 /\ ledger = 1
  /\ \A m \in Merchants \ {CHOOSE n \in Merchants : TRUE} : pool.funded[m] = 0

\* Nothing was lost, repaid or paused.
SimplePool ==
  /\ ~pool.paused
  /\ pool.shares \in {0, pool.liquidity + Dead}
  /\ bal[CreditLineAcct] = CreditLineFunds

\* The accounts of the pool are explored with the admin's limits off, the
\* limits over a pool in which money only comes in and is lent.
Scope == FewShares /\ (LimitsUntouched \/ SimplePool)

\* Providers are interchangeable: no action singles one out.
Symmetry == Permutations(Providers)
=============================================================================
