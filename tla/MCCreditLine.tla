---------------------------- MODULE MCCreditLine ----------------------------
(***************************************************************************)
(* CreditLine on small instances: the contract's own constants (fees in    *)
(* basis points, tiers, limits) with loans of 200 to 500, a day of one or  *)
(* two ticks, and one or two borrowers.                                    *)
(***************************************************************************)
EXTENDS CreditLine, TLC

CONSTANTS BorrowerFunds, ProviderFunds, InitialScore, InitialVendor

MCEndowment ==
  [a \in Accounts |-> IF a \in Borrowers THEN BorrowerFunds
                      ELSE IF a \in Providers THEN ProviderFunds ELSE 0]

MCVendors == [m \in Merchants |-> InitialVendor]

MCScores == [u \in Borrowers |-> InitialScore]

\* Borrowers are interchangeable: they start alike and no action singles one out.
Symmetry == Permutations(Borrowers)

DefaultParams ==
  [minGuarantee |-> 20, threshold |-> 50, penalty |-> 20, largeLoan |-> 5000,
   largePenalty |-> 30, baseInterest |-> 0, grace |-> 0]

StricterParams == [DefaultParams EXCEPT !.baseInterest = 700, !.grace = 1, !.largeLoan = 100]

DefaultOnly == {DefaultParams}
BothParams  == {DefaultParams, StricterParams}

Due(t) == [due |-> t, paid |-> FALSE]

OneInstallment  == [total |-> 200, guarantee |-> 40, schedule |-> <<Due(2)>>]
TwoInstallments == [total |-> 400, guarantee |-> 80, schedule |-> <<Due(2), Due(3)>>]
LowGuarantee    == [total |-> 200, guarantee |-> 39, schedule |-> <<Due(2)>>]
LongOverdue     == [total |-> 200, guarantee |-> 40, schedule |-> <<Due(2), Due(3)>>]
HalfOfLimit     == [total |-> 500, guarantee |-> 100, schedule |-> <<Due(3)>>]
AllGuarantee    == [total |-> 200, guarantee |-> 200, schedule |-> <<>>]

OneRequest   == {OneInstallment}
LargeRequest == {HalfOfLimit}
TwoRequests  == {OneInstallment, TwoInstallments}
LongRequest  == {LongOverdue}
EveryRequest == {OneInstallment, TwoInstallments, LowGuarantee, AllGuarantee}
=============================================================================
