-------------------------------- MODULE Loan --------------------------------
(***************************************************************************)
(* One loan of the creditline contract: what the contract computes about   *)
(* it from its record, the protocol parameters, the borrower's score and   *)
(* the time.  A repayment schedule is a sequence of installments; of each  *)
(* the contract reads its due date and whether it was paid, never its      *)
(* amount.  Loan type, timestamps of creation and funding and the names of *)
(* events carry no control and are left out.                               *)
(*                                                                         *)
(* params is the ProtocolParameters record, of which the credit line reads *)
(*   minGuarantee (percent), threshold, penalty, largeLoan, largePenalty,  *)
(*   baseInterest (bps), grace (seconds).                                  *)
(***************************************************************************)
EXTENDS SafeMath, Sequences

CONSTANT Day   \* SECONDS_PER_DAY

ASSUME LoanAssumption == Day \in Nat \ {0}

LoanStatus == {"Pending", "Active", "Paid", "Defaulted", "Cancelled"}

ServiceFeeBps    == 100
LateFeeBpsPerDay == 50

-----------------------------------------------------------------------------
(* Terms, fixed when the loan is built                                     *)

\* The tier of a score, 1 the best.
Tier(score) == CASE score >= 90 -> 1
                 [] score >= 75 /\ score < 90 -> 2
                 [] score >= 60 /\ score < 75 -> 3
                 [] score < 60 -> 4

InterestRateBps(params, score) ==
  IF params.baseInterest = 0
  THEN <<400, 600, 800, 1000>>[Tier(score)]
  ELSE NonNegative(params.baseInterest - <<600, 400, 200, 0>>[Tier(score)])

CreditLimit(score) == <<10000, 5000, 2500, 1000>>[Tier(score)]

GuaranteeOk(params, total, guarantee) ==
  /\ guarantee > 0
  /\ guarantee <= total
  /\ guarantee >= (total * params.minGuarantee) \div 100

\* The record build_loan returns.
NewLoan(params, score, borrower, vendor, total, guarantee, schedule, status) ==
  LET interest == BpsOf(total, InterestRateBps(params, score))
      fee      == BpsOf(total, ServiceFeeBps)
  IN  [borrower  |-> borrower, vendor |-> vendor,
       total     |-> total,    guarantee |-> guarantee,
       principal |-> total,    interest  |-> interest,
       fee       |-> fee,      late      |-> 0,
       remaining |-> total + interest + fee,
       accrued   |-> 0,        schedule  |-> schedule,
       status    |-> status]

-----------------------------------------------------------------------------
(* Late fees                                                               *)

\* The due dates that have passed; whether the installment was paid is not
\* looked at.
PassedDues(loan, now) ==
  {loan.schedule[k].due : k \in {j \in DOMAIN loan.schedule : loan.schedule[j].due < now}}

\* Mutation: the cursor is forgotten and every accrual starts over.
StartFromDue(loan, now) ==
  CHOOSE d \in PassedDues(loan, now) : \A e \in PassedDues(loan, now) : d <= e

\* The first day not charged for yet starts here: the earliest passed due
\* date, or the cursor where the last accrual stopped.
AccrualStart(loan, now) ==
  Greatest(loan.accrued,
           CHOOSE d \in PassedDues(loan, now) : \A e \in PassedDues(loan, now) : d <= e)

DaysLate(loan, now) ==
  IF PassedDues(loan, now) = {} THEN 0
  ELSE NonNegative(now - AccrualStart(loan, now)) \div Day

LateFee(loan, now) == BpsOf(loan.remaining, LateFeeBpsPerDay * DaysLate(loan, now))

\* Mutation: the late fee does not reach the remaining balance.
AccrueBucketOnly(loan, now) ==
  IF LateFee(loan, now) = 0 THEN loan
  ELSE [loan EXCEPT !.accrued = AccrualStart(loan, now) + DaysLate(loan, now) * Day,
                    !.late    = @ + LateFee(loan, now)]

\* The cursor advances by whole days, and stays where the fee rounds to 0.
Accrue(loan, now) ==
  IF LateFee(loan, now) = 0 THEN loan
  ELSE [loan EXCEPT !.accrued   = AccrualStart(loan, now) + DaysLate(loan, now) * Day,
                    !.late      = @ + LateFee(loan, now),
                    !.remaining = @ + LateFee(loan, now)]

-----------------------------------------------------------------------------
(* Repayment and default                                                   *)

\* Late fees, then interest, then the service fee, then principal.
Allocation(loan, amount) ==
  LET late     == Least(amount, loan.late)
      interest == Least(amount - late, loan.interest)
      fee      == Least(amount - late - interest, loan.fee)
  IN  [late |-> late, interest |-> interest, fee |-> fee,
       principal |-> Least(amount - late - interest - fee, loan.principal)]

ApplyWaterfall(loan, amount) ==
  LET part == Allocation(loan, amount)
  IN  [loan EXCEPT !.late      = @ - part.late,
                   !.interest  = @ - part.interest,
                   !.fee       = @ - part.fee,
                   !.principal = @ - part.principal,
                   !.remaining = @ - amount]

\* The date that decides on time or late: the last entry of the schedule.
LastDue(loan) == IF loan.schedule = <<>> THEN 0 ELSE loan.schedule[Len(loan.schedule)].due

Reward(loan, now) == IF now < LastDue(loan) THEN 15 ELSE 10

Penalty(params, loan) ==
  IF loan.total > params.largeLoan THEN params.largePenalty ELSE params.penalty

\* Mutation: a loan whose last installment is marked paid never matures.
MaturedUnpaid(params, loan, now) ==
  /\ loan.schedule # <<>>
  /\ ~loan.schedule[Len(loan.schedule)].paid
  /\ now > LastDue(loan) + params.grace

\* The loan is past its maturity and the grace period.
Matured(params, loan, now) ==
  /\ loan.schedule # <<>>
  /\ now > LastDue(loan) + params.grace

Shortfall(loan) == loan.principal - loan.guarantee
=============================================================================
