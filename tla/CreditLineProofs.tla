-------------------------- MODULE CreditLineProofs ---------------------------
(***************************************************************************)
(* Proofs about CreditLine, for every set of borrowers, providers, vendors *)
(* and requests, every number of loans, every length of a day and every    *)
(* value of the contract's constants.                                      *)
(*                                                                         *)
(* The order is: the arithmetic of one loan, sums over all loans, the      *)
(* inductive invariant and its preservation by each transaction, and the   *)
(* theorems that follow from it.                                           *)
(***************************************************************************)
EXTENDS CreditLine, PoolAccountingProofs, SequenceTheorems

-----------------------------------------------------------------------------
(* The arithmetic of a loan                                                *)

LEMMA BpsOfNat ==
  ASSUME NEW base \in Nat, NEW bps \in Nat
  PROVE  BpsOf(base, bps) \in Nat
<1>1. base * bps \in Nat
  BY ProductNat
<1>2. QED BY <1>1, DivNat DEF BpsOf, Bps

\* A nonempty set of naturals has a least element.
LEMMA LeastExists ==
  ASSUME NEW S \in SUBSET Nat, S # {}
  PROVE  \E d \in S : \A e \in S : d <= e
<1>1. PICK d \in S : \A e \in S : <<e, d>> \notin OpToRel(<, Nat)
  BY NatLessThanWellFounded, WFMin
<1>2. ASSUME NEW e \in S PROVE d <= e
  <2>1. d \in Nat /\ e \in Nat /\ ~(e < d)
    BY <1>1 DEF OpToRel
  <2>2. QED BY <2>1
<1>3. QED BY <1>2

\* The dates, the fee and the new cursor are naturals.  The days charged for
\* are whole days that have passed since the cursor.
LEMMA AccrualNat ==
  ASSUME NEW loan \in LoanRecord, NEW t \in Nat
  PROVE  /\ DaysLate(loan, t) \in Nat
         /\ DaysLate(loan, t) # 0 =>
              /\ AccrualStart(loan, t) \in Nat
              /\ AccrualStart(loan, t) >= loan.accrued
              /\ AccrualStart(loan, t) + DaysLate(loan, t) * Day \in (loan.accrued + Day)..t
<1>1. Day \in Nat \ {0} /\ loan.accrued \in Nat
  BY LoanAssumption DEF LoanRecord
<1>2. CASE PassedDues(loan, t) = {}
  BY <1>2 DEF DaysLate
<1>3. CASE PassedDues(loan, t) # {}
  <2> DEFINE start == AccrualStart(loan, t)
             first == CHOOSE d \in PassedDues(loan, t) : \A e \in PassedDues(loan, t) : d <= e
             days  == DaysLate(loan, t)
  <2>1. PassedDues(loan, t) \in SUBSET Nat
    <3>1. \A k \in DOMAIN loan.schedule : loan.schedule[k].due \in Nat
      <4>1. loan.schedule \in Seq([due : Nat, paid : BOOLEAN])
        BY DEF LoanRecord
      <4>2. \A k \in DOMAIN loan.schedule : loan.schedule[k] \in [due : Nat, paid : BOOLEAN]
        BY <4>1, ElementOfSeq, LenProperties, Zenon
      <4>3. QED BY <4>2
    <3>2. QED BY <3>1 DEF PassedDues
  <2>2. first \in Nat
    <3>1. first \in PassedDues(loan, t)
      BY <1>3, <2>1, LeastExists
    <3>2. QED BY <2>1, <3>1
  <2>3. start \in Nat /\ start >= loan.accrued
    <3> HIDE DEF first
    <3>1. start = Greatest(loan.accrued, first)
      BY DEF AccrualStart, first
    <3>2. QED BY <1>1, <2>2, <3>1 DEF Greatest
  <2>4. days = NonNegative(t - start) \div Day
    BY <1>3 DEF DaysLate
  <2> HIDE DEF start, first, days
  <2>5. NonNegative(t - start) \in Nat
    BY <2>3 DEF NonNegative, Greatest
  <2>6. days \in Nat /\ days * Day <= NonNegative(t - start)
    BY <1>1, <2>4, <2>5, DivNat
  <2>7. ASSUME days # 0 PROVE start + days * Day \in (loan.accrued + Day)..t
    <3>1. days * Day \in Nat /\ days * Day >= Day
      BY <1>1, <2>6, <2>7, ProductGrows
    <3>2. NonNegative(t - start) = t - start
      BY <1>1, <2>3, <2>5, <2>6, <3>1 DEF NonNegative, Greatest
    <3>3. QED BY <1>1, <2>3, <2>6, <3>1, <3>2
  <2>8. QED BY <2>3, <2>6, <2>7 DEF start, days
<1>4. QED BY <1>2, <1>3

LEMMA LateFeeNat ==
  ASSUME NEW loan \in LoanRecord, NEW t \in Nat
  PROVE  /\ LateFee(loan, t) \in Nat
         /\ LateFee(loan, t) # 0 => DaysLate(loan, t) # 0
<1>1. loan.remaining \in Nat /\ DaysLate(loan, t) \in Nat
  BY AccrualNat DEF LoanRecord
<1>2. LateFeeBpsPerDay * DaysLate(loan, t) \in Nat
  BY <1>1 DEF LateFeeBpsPerDay
<1>3. LateFee(loan, t) \in Nat
  BY <1>1, <1>2, BpsOfNat DEF LateFee
<1>4. DaysLate(loan, t) = 0 => LateFee(loan, t) = 0
  BY <1>1 DEF LateFee, BpsOf, Bps, LateFeeBpsPerDay
<1>5. QED BY <1>3, <1>4

\* What the invariant says of each loan.  The guarantee is between 1 and the
\* total, and a loan that waits for approval still owes all of its principal:
\* what the pool will pay out for it is what the credit line counts as its
\* exposure from then on.
LoanOkay(loan) ==
  /\ loan.remaining = loan.late + loan.interest + loan.fee + loan.principal
  /\ loan.status = "Paid" <=> loan.remaining = 0
  /\ loan.guarantee > 0 /\ loan.guarantee <= loan.total
  /\ loan.status = "Pending" => loan.principal = loan.total

\* A loan of integers: nothing is said about which loan it is.
LEMMA LoanNumbers ==
  ASSUME NEW loan \in LoanRecord
  PROVE  /\ loan.borrower \in Borrowers /\ loan.vendor \in Merchants
         /\ loan.total \in Nat /\ loan.guarantee \in Nat /\ loan.principal \in Nat
         /\ loan.interest \in Nat /\ loan.fee \in Nat /\ loan.late \in Nat
         /\ loan.remaining \in Nat /\ loan.accrued \in Nat
         /\ loan.status \in LoanStatus
         /\ loan.schedule \in Seq([due : Nat, paid : BOOLEAN])
BY DEF LoanRecord

\* An accrual moves the late fees, the remaining balance by as much, and the
\* cursor.  A fee is charged only with a whole day by which the cursor moves.
LEMMA AccrueEffect ==
  ASSUME NEW loan \in LoanRecord, NEW t \in Nat
  PROVE  /\ Accrue(loan, t) \in LoanRecord
         /\ Accrue(loan, t).remaining = loan.remaining + LateFee(loan, t)
         /\ Accrue(loan, t).late = loan.late + LateFee(loan, t)
         /\ Accrue(loan, t).interest = loan.interest /\ Accrue(loan, t).fee = loan.fee
         /\ Accrue(loan, t).principal = loan.principal
         /\ Accrue(loan, t).total = loan.total /\ Accrue(loan, t).guarantee = loan.guarantee
         /\ Accrue(loan, t).borrower = loan.borrower /\ Accrue(loan, t).vendor = loan.vendor
         /\ Accrue(loan, t).status = loan.status
         /\ Accrue(loan, t).accrued # loan.accrued
              => Accrue(loan, t).accrued \in (loan.accrued + Day)..t
         /\ LateFee(loan, t) # 0 => Accrue(loan, t).accrued > loan.accrued
<1> DEFINE fee    == LateFee(loan, t)
           cursor == AccrualStart(loan, t) + DaysLate(loan, t) * Day
           after  == [loan EXCEPT !.accrued = cursor, !.late = @ + fee, !.remaining = @ + fee]
<1>1. fee \in Nat /\ Day \in Nat \ {0} /\ loan.accrued \in Nat
      /\ loan.late \in Nat /\ loan.remaining \in Nat
  BY LateFeeNat, LoanNumbers, LoanAssumption
<1>2. Accrue(loan, t) = IF fee = 0 THEN loan ELSE after
  BY DEF Accrue
<1>3. fee # 0 => cursor \in Nat /\ cursor \in (loan.accrued + Day)..t
  <2>1. fee # 0 => cursor \in (loan.accrued + Day)..t
    BY LateFeeNat, AccrualNat
  <2>2. QED BY <1>1, <2>1
<1> HIDE DEF fee, cursor
<1>4. CASE fee = 0
  BY <1>1, <1>2, <1>4 DEF fee
<1>5. CASE fee # 0
  <2>1. loan.late + fee \in Nat /\ loan.remaining + fee \in Nat /\ cursor \in Nat
    BY <1>1, <1>3, <1>5
  <2>2. after \in LoanRecord
    BY <2>1 DEF LoanRecord
  <2>3. /\ after.remaining = loan.remaining + fee /\ after.late = loan.late + fee
        /\ after.interest = loan.interest /\ after.fee = loan.fee
        /\ after.principal = loan.principal
        /\ after.total = loan.total /\ after.guarantee = loan.guarantee
        /\ after.borrower = loan.borrower /\ after.vendor = loan.vendor
        /\ after.status = loan.status /\ after.accrued = cursor
    BY DEF LoanRecord
  <2>4. cursor > loan.accrued
    BY <1>1, <1>3, <1>5
  <2> HIDE DEF after
  <2>5. QED BY <1>2, <1>3, <1>5, <2>2, <2>3, <2>4 DEF fee
<1>6. QED BY <1>4, <1>5

LEMMA AccrueOkay ==
  ASSUME NEW loan \in LoanRecord, NEW t \in Nat, LoanOkay(loan), loan.status = "Active"
  PROVE  LoanOkay(Accrue(loan, t))
<1> DEFINE after == Accrue(loan, t)
           fee   == LateFee(loan, t)
<1>1. /\ after.remaining = loan.remaining + fee /\ after.late = loan.late + fee
      /\ after.interest = loan.interest /\ after.fee = loan.fee
      /\ after.principal = loan.principal
      /\ after.total = loan.total /\ after.guarantee = loan.guarantee
      /\ after.status = loan.status
  BY AccrueEffect
<1>2. fee \in Nat
  BY LateFeeNat
<1> HIDE DEF after, fee
<1>3. QED BY <1>1, <1>2, LoanNumbers DEF LoanOkay, after

\* The waterfall splits an amount that is owed without remainder, and no part
\* exceeds its bucket.
LEMMA AllocationParts ==
  ASSUME NEW loan \in LoanRecord, LoanOkay(loan), NEW amount \in Nat, amount <= loan.remaining
  PROVE  LET part == Allocation(loan, amount)
         IN  /\ part.late \in Nat /\ part.late <= loan.late
             /\ part.interest \in Nat /\ part.interest <= loan.interest
             /\ part.fee \in Nat /\ part.fee <= loan.fee
             /\ part.principal \in Nat /\ part.principal <= loan.principal
             /\ part.principal + InterestAndFees(part) = amount
             /\ InterestAndFees(part) \in Nat
             /\ InterestAndFees(part) = part.late + part.interest + part.fee
<1> DEFINE late      == Least(amount, loan.late)
           interest  == Least(amount - late, loan.interest)
           fee       == Least(amount - late - interest, loan.fee)
           principal == Least(amount - late - interest - fee, loan.principal)
<1>1. Allocation(loan, amount)
        = [late |-> late, interest |-> interest, fee |-> fee, principal |-> principal]
  BY DEF Allocation
<1>2. /\ late \in Nat /\ late <= loan.late
      /\ interest \in Nat /\ interest <= loan.interest
      /\ fee \in Nat /\ fee <= loan.fee
      /\ principal \in Nat /\ principal <= loan.principal
      /\ principal + (late + interest + fee) = amount
  <2>1. /\ loan.late \in Nat /\ loan.interest \in Nat /\ loan.fee \in Nat
        /\ loan.principal \in Nat
        /\ amount <= loan.late + loan.interest + loan.fee + loan.principal
    BY LoanNumbers DEF LoanOkay
  <2>2. late \in Nat /\ late <= loan.late /\ amount - late \in Nat
        /\ amount - late <= loan.interest + loan.fee + loan.principal
    BY <2>1 DEF Least
  <2> HIDE DEF late
  <2>3. interest \in Nat /\ interest <= loan.interest /\ amount - late - interest \in Nat
        /\ amount - late - interest <= loan.fee + loan.principal
    BY <2>1, <2>2 DEF Least
  <2> HIDE DEF interest
  <2>4. fee \in Nat /\ fee <= loan.fee /\ amount - late - interest - fee \in Nat
        /\ amount - late - interest - fee <= loan.principal
    BY <2>1, <2>3 DEF Least
  <2> HIDE DEF fee
  <2>5. principal = amount - late - interest - fee
    BY <2>1, <2>4 DEF Least
  <2>6. QED BY <2>2, <2>3, <2>4, <2>5
<1> HIDE DEF late, interest, fee, principal
<1>3. QED BY <1>1, <1>2 DEF InterestAndFees

\* Marking installments keeps a schedule a schedule.
LEMMA MarkedSchedule ==
  ASSUME NEW s \in Seq([due : Nat, paid : BOOLEAN]), NEW marked
  PROVE  MarkPaid(s, marked) \in Seq([due : Nat, paid : BOOLEAN])
<1> DEFINE R == [due : Nat, paid : BOOLEAN]
           e == [k \in DOMAIN s |-> [s[k] EXCEPT !.paid = @ \/ k \in marked]]
<1>1. Len(s) \in Nat /\ DOMAIN s = 1..Len(s) /\ \A k \in 1..Len(s) : s[k] \in R
  <2> HIDE DEF R
  <2>1. s \in Seq(R)
    BY DEF R
  <2>2. QED BY <2>1, LenProperties, ElementOfSeq
<1>2. ASSUME NEW k \in 1..Len(s)
      PROVE  [s[k] EXCEPT !.paid = @ \/ k \in marked] \in R
  <2> DEFINE mark == s[k].paid \/ k \in marked
  <2>1. mark \in BOOLEAN
    OBVIOUS
  <2>2. s[k] \in R
    BY <1>1
  <2>3. [s[k] EXCEPT !.paid = @ \/ k \in marked] = [s[k] EXCEPT !.paid = mark]
    OBVIOUS
  <2> HIDE DEF mark
  <2>4. [s[k] EXCEPT !.paid = mark] \in R
    BY <2>1, <2>2
  <2>5. QED BY <2>3, <2>4
<1>3. e \in [1..Len(s) -> R]
  <2> HIDE DEF R
  <2>1. QED BY <1>1, <1>2
<1> HIDE DEF R, e
<1>4. e \in Seq(R)
  <2>1. [1..Len(s) -> R] \in {[1..n -> R] : n \in Nat}
    BY <1>1
  <2>2. e \in UNION {[1..n -> R] : n \in Nat}
    BY <1>3, <2>1
  <2>3. QED BY <2>2, SeqDef, Zenon
<1>5. QED BY <1>4 DEF R, e, MarkPaid

\* A payment of at most what is owed leaves a loan whose balance is still the
\* sum of its buckets; it is paid when, and only when, nothing is left, and
\* then all of the principal has come back.
LEMMA SettledEffect ==
  ASSUME NEW owed \in LoanRecord, LoanOkay(owed), owed.status = "Active",
         NEW amount \in Nat, amount <= owed.remaining, NEW marked
  PROVE  LET s    == Settled(owed, amount, marked)
             part == Allocation(owed, amount)
         IN  /\ s \in LoanRecord
             /\ LoanOkay(s)
             /\ s.remaining = owed.remaining - amount
             /\ s.late = owed.late - part.late
             /\ s.principal = owed.principal - part.principal
             /\ s.status = IF amount = owed.remaining THEN "Paid" ELSE "Active"
             /\ s.total = owed.total /\ s.guarantee = owed.guarantee
             /\ s.borrower = owed.borrower /\ s.vendor = owed.vendor
             /\ s.accrued = owed.accrued
             /\ amount = owed.remaining => part.principal = owed.principal
<1> DEFINE part     == Allocation(owed, amount)
           schedule == MarkPaid(owed.schedule, marked)
           late      == owed.late - part.late
           interest  == owed.interest - part.interest
           fee       == owed.fee - part.fee
           principal == owed.principal - part.principal
           remaining == owed.remaining - amount
           status    == IF remaining = 0 THEN "Paid" ELSE "Active"
           s         == Settled(owed, amount, marked)
<1>1. /\ part.late \in Nat /\ part.late <= owed.late
      /\ part.interest \in Nat /\ part.interest <= owed.interest
      /\ part.fee \in Nat /\ part.fee <= owed.fee
      /\ part.principal \in Nat /\ part.principal <= owed.principal
      /\ part.principal + (part.late + part.interest + part.fee) = amount
  BY AllocationParts
<1>2. schedule \in Seq([due : Nat, paid : BOOLEAN])
  BY LoanNumbers, MarkedSchedule
<1>3. s = [owed EXCEPT !.late = late, !.interest = interest, !.fee = fee,
                       !.principal = principal, !.remaining = remaining,
                       !.status = status, !.schedule = schedule]
  <2> DEFINE rest == ApplyWaterfall(owed, amount)
  <2>1. rest = [owed EXCEPT !.late = late, !.interest = interest, !.fee = fee,
                            !.principal = principal, !.remaining = remaining]
    BY DEF ApplyWaterfall
  <2>2. s = [rest EXCEPT !.status   = IF rest.remaining = 0 THEN "Paid" ELSE rest.status,
                         !.schedule = MarkPaid(rest.schedule, marked)]
    BY DEF Settled
  <2> HIDE DEF s, rest, late, interest, fee, principal, remaining, part
  <2>3. /\ rest.remaining = remaining /\ rest.status = "Active"
        /\ rest.schedule = owed.schedule
    BY <2>1 DEF LoanRecord
  <2>4. s = [rest EXCEPT !.status = status, !.schedule = schedule]
    BY <2>2, <2>3
  <2> HIDE DEF status, schedule
  <2>5. QED BY <2>1, <2>4 DEF LoanRecord
<1> HIDE DEF part, schedule, s
<1>4. /\ late \in Nat /\ interest \in Nat /\ fee \in Nat /\ principal \in Nat
      /\ remaining \in Nat /\ status \in LoanStatus
      /\ remaining = late + interest + fee + principal
      /\ remaining = 0 <=> amount = owed.remaining
      /\ amount = owed.remaining => part.principal = owed.principal
  <2>1. /\ owed.late \in Nat /\ owed.interest \in Nat /\ owed.fee \in Nat
        /\ owed.principal \in Nat /\ owed.remaining \in Nat
        /\ owed.remaining = owed.late + owed.interest + owed.fee + owed.principal
    BY LoanNumbers DEF LoanOkay
  <2>2. late \in Nat /\ interest \in Nat /\ fee \in Nat /\ principal \in Nat
    BY <1>1, <2>1
  <2>3. remaining \in Nat /\ remaining = late + interest + fee + principal
    BY <1>1, <2>1
  <2>4. remaining = 0 <=> amount = owed.remaining
    BY <2>1
  <2>5. amount = owed.remaining => part.principal = owed.principal
    <3>1. principal = 0 => part.principal = owed.principal
      <4>1. part.principal \in Nat
        BY <1>1
      <4>2. owed.principal \in Nat
        BY <2>1
      <4>3. \A m, n \in Nat : m - n = 0 => n = m
        OBVIOUS
      <4>4. QED BY <4>1, <4>2, <4>3
    <3>2. remaining = 0 => principal = 0
      <4> HIDE DEF late, interest, fee, principal, remaining
      <4>1. QED BY <2>2, <2>3
    <3>3. QED BY <2>4, <3>1, <3>2
  <2>6. status \in LoanStatus
    BY DEF LoanStatus
  <2>7. QED BY <2>2, <2>3, <2>4, <2>5, <2>6
<1> HIDE DEF late, interest, fee, principal, remaining, status
<1>5. s \in LoanRecord
  BY <1>2, <1>3, <1>4 DEF LoanRecord
<1>6. /\ s.late = late /\ s.interest = interest /\ s.fee = fee /\ s.principal = principal
      /\ s.remaining = remaining /\ s.status = status
      /\ s.total = owed.total /\ s.guarantee = owed.guarantee
      /\ s.borrower = owed.borrower /\ s.vendor = owed.vendor /\ s.accrued = owed.accrued
  BY <1>3 DEF LoanRecord
<1>7. status = (IF amount = owed.remaining THEN "Paid" ELSE "Active")
  BY <1>4 DEF status
<1>8. LoanOkay(s)
  BY <1>4, <1>6, <1>7 DEF LoanOkay
<1>9. QED
  BY <1>4, <1>5, <1>6, <1>7, <1>8 DEF s, part, late, principal, remaining

LEMMA RateNat ==
  ASSUME NEW p \in ParamChoices, NEW s \in 0..MaxScore
  PROVE  InterestRateBps(p, s) \in Nat
<1>1. Tier(s) \in 1..4
  BY DEF Tier, MaxScore
<1>2. p.baseInterest \in Nat
  BY CreditLineAssumption
<1>3. <<400, 600, 800, 1000>>[Tier(s)] \in Nat
  BY <1>1
<1>4. <<600, 400, 200, 0>>[Tier(s)] \in Nat
  BY <1>1
<1>5. QED BY <1>2, <1>3, <1>4 DEF InterestRateBps, NonNegative, Greatest

\* A new loan owes its total, the interest and the service fee.
LEMMA NewLoanEffect ==
  ASSUME NEW p \in ParamChoices, NEW s \in 0..MaxScore,
         NEW borrower \in Borrowers, NEW vendor \in Merchants, NEW r \in Requests,
         NEW status \in {"Pending", "Active"}, GuaranteeOk(p, r.total, r.guarantee)
  PROVE  LET loan == NewLoan(p, s, borrower, vendor, r.total, r.guarantee, r.schedule, status)
         IN  /\ loan \in LoanRecord
             /\ LoanOkay(loan)
             /\ loan.borrower = borrower /\ loan.vendor = vendor /\ loan.status = status
             /\ loan.total = r.total /\ loan.guarantee = r.guarantee
             /\ loan.principal = r.total /\ loan.remaining > 0
<1> DEFINE interest == BpsOf(r.total, InterestRateBps(p, s))
           fee      == BpsOf(r.total, ServiceFeeBps)
           loan     == NewLoan(p, s, borrower, vendor, r.total, r.guarantee, r.schedule, status)
<1>1. /\ r.total \in Nat /\ r.guarantee \in Nat
      /\ r.schedule \in Seq([due : Nat, paid : BOOLEAN])
  BY CreditLineAssumption
<1>2. interest \in Nat /\ fee \in Nat
  BY <1>1, RateNat, BpsOfNat DEF ServiceFeeBps
<1>3. loan = [borrower  |-> borrower, vendor |-> vendor,
              total     |-> r.total,  guarantee |-> r.guarantee,
              principal |-> r.total,  interest  |-> interest,
              fee       |-> fee,      late      |-> 0,
              remaining |-> r.total + interest + fee,
              accrued   |-> 0,        schedule  |-> r.schedule,
              status    |-> status]
  BY DEF NewLoan
<1> HIDE DEF interest, fee, loan
<1>4. r.guarantee > 0 /\ r.guarantee <= r.total
  BY DEF GuaranteeOk
<1>5. r.total + interest + fee \in Nat /\ r.total + interest + fee > 0
      /\ r.total + interest + fee = 0 + interest + fee + r.total
  BY <1>1, <1>2, <1>4
<1>6. loan \in LoanRecord
  BY <1>1, <1>2, <1>3, <1>5 DEF LoanRecord, LoanStatus
<1>7. LoanOkay(loan) /\ loan.remaining > 0
  BY <1>3, <1>4, <1>5 DEF LoanOkay
<1>8. QED BY <1>3, <1>6, <1>7 DEF loan

-----------------------------------------------------------------------------
(* Sums over all loans                                                     *)

\* The sum over all loans of ls of a number w[loan] that depends on the loan.
Total(w, ls) == Sum([id \in DOMAIN ls |-> w[ls[id]]], DOMAIN ls)

LEMMA LoansFinite ==
  ASSUME NEW ls \in Seq(LoanRecord)
  PROVE  /\ IsFiniteSet(DOMAIN ls) /\ Len(ls) \in Nat /\ DOMAIN ls = 1..Len(ls)
         /\ \A id \in DOMAIN ls : ls[id] \in LoanRecord
BY LenProperties, ElementOfSeq, FS_Interval

LEMMA TotalInt ==
  ASSUME NEW w \in [LoanRecord -> Int], NEW ls \in Seq(LoanRecord)
  PROVE  Total(w, ls) \in Int
<1> DEFINE f == [id \in DOMAIN ls |-> w[ls[id]]]
<1>1. IsFiniteSet(DOMAIN ls) /\ \A id \in DOMAIN ls : f[id] \in Int
  BY LoansFinite
<1> HIDE DEF f
<1>2. Sum(f, DOMAIN ls) \in Int
  BY <1>1, SumInt
<1>3. QED BY <1>2 DEF Total, f

\* A total of naturals is at least what each loan adds to it.
LEMMA TotalAtLeast ==
  ASSUME NEW w \in [LoanRecord -> Nat], NEW ls \in Seq(LoanRecord)
  PROVE  /\ Total(w, ls) \in Nat
         /\ \A id \in DOMAIN ls : Total(w, ls) >= w[ls[id]]
<1> DEFINE f == [id \in DOMAIN ls |-> w[ls[id]]]
<1>1. IsFiniteSet(DOMAIN ls) /\ \A id \in DOMAIN ls : f[id] = w[ls[id]] /\ f[id] \in Nat
  BY LoansFinite
<1>2. Total(w, ls) = Sum(f, DOMAIN ls)
  BY DEF Total
<1> HIDE DEF f
<1>3. Sum(f, DOMAIN ls) \in Nat /\ \A id \in DOMAIN ls : Sum(f, DOMAIN ls) >= f[id]
  BY <1>1, SumNat, SumAtLeast
<1>4. QED BY <1>1, <1>2, <1>3

LEMMA TotalEmpty ==
  ASSUME NEW w
  PROVE  Total(w, <<>>) = 0
BY SumEmpty DEF Total

\* A new loan adds its own number.
LEMMA TotalAppend ==
  ASSUME NEW w \in [LoanRecord -> Int], NEW ls \in Seq(LoanRecord), NEW loan \in LoanRecord
  PROVE  Total(w, Append(ls, loan)) = Total(w, ls) + w[loan]
<1> DEFINE after == Append(ls, loan)
           n == Len(ls) + 1
           f == [id \in DOMAIN ls |-> w[ls[id]]]
           g == [id \in DOMAIN after |-> w[after[id]]]
<1>1. /\ Len(ls) \in Nat /\ DOMAIN ls = 1..Len(ls) /\ IsFiniteSet(DOMAIN ls)
      /\ \A id \in DOMAIN ls : ls[id] \in LoanRecord
  BY LoansFinite
<1>2. after \in Seq(LoanRecord) /\ Len(after) = n /\ after[n] = loan
      /\ \A id \in 1..Len(ls) : after[id] = ls[id]
  BY AppendProperties
<1>3. DOMAIN after = 1..n
  BY <1>2, LoansFinite
<1> HIDE DEF after
<1>4. DOMAIN after = DOMAIN ls \cup {n} /\ n \notin DOMAIN ls
  BY <1>1, <1>3
<1>5. \A id \in DOMAIN ls : f[id] \in Int /\ f[id] = g[id]
  BY <1>1, <1>2, <1>4
<1>6. g[n] = w[loan] /\ g[n] \in Int
  BY <1>2, <1>4
<1>7. Total(w, after) = Sum(g, DOMAIN after) /\ Total(w, ls) = Sum(f, DOMAIN ls)
  BY DEF Total
<1> HIDE DEF f, g, n
<1>8. Sum(g, DOMAIN ls \cup {n}) = Sum(f, DOMAIN ls) + g[n]
  <2> DEFINE S == DOMAIN ls
  <2>1. IsFiniteSet(S) /\ n \notin S /\ g[n] \in Int
        /\ \A id \in S : f[id] \in Int /\ f[id] = g[id]
    BY <1>1, <1>4, <1>5, <1>6
  <2> HIDE DEF S
  <2>2. Sum(g, S \cup {n}) = Sum(f, S) + g[n]
    BY <2>1, SumGrow
  <2>3. QED BY <2>2 DEF S
<1>9. QED BY <1>4, <1>6, <1>7, <1>8 DEF after

\* A loan that moves changes the total by the difference of its number.
LEMMA TotalExcept ==
  ASSUME NEW w \in [LoanRecord -> Int], NEW ls \in Seq(LoanRecord), NEW id \in DOMAIN ls,
         NEW loan \in LoanRecord
  PROVE  Total(w, [ls EXCEPT ![id] = loan]) = Total(w, ls) - w[ls[id]] + w[loan]
<1> DEFINE after == [ls EXCEPT ![id] = loan]
           S == DOMAIN ls
           f == [k \in S |-> w[ls[k]]]
           g == [k \in S |-> w[after[k]]]
<1>1. IsFiniteSet(S) /\ \A k \in S : ls[k] \in LoanRecord
  BY LoansFinite
<1>2. DOMAIN after = S /\ \A k \in S : after[k] = IF k = id THEN loan ELSE ls[k]
  <2>1. ls \in [1..Len(ls) -> LoanRecord] /\ S = 1..Len(ls)
    BY LenProperties
  <2> HIDE DEF S
  <2>2. QED BY <2>1 DEF after
<1> HIDE DEF after
<1>3. Total(w, after) = Sum(g, S) /\ Total(w, ls) = Sum(f, S)
  BY <1>2 DEF Total
<1>4. \A k \in S : f[k] \in Int /\ g[k] \in Int
  BY <1>1, <1>2
<1>5. \A k \in S \ {id} : f[k] = g[k]
  BY <1>2
<1>6. f[id] = w[ls[id]] /\ g[id] = w[loan]
  BY <1>2
<1> HIDE DEF f, g
<1>7. Sum(g, S) = Sum(f, S) - f[id] + g[id]
  <2> HIDE DEF S
  <2>1. id \in S
    BY DEF S
  <2>2. QED BY <1>1, <1>4, <1>5, <2>1, SumChange
<1>8. QED BY <1>3, <1>6, <1>7 DEF after

\* The loans after each kind of change are loans.
LEMMA LoansAppend ==
  ASSUME NEW ls \in Seq(LoanRecord), NEW loan \in LoanRecord
  PROVE  /\ Append(ls, loan) \in Seq(LoanRecord)
         /\ DOMAIN Append(ls, loan) = DOMAIN ls \cup {Len(ls) + 1}
         /\ Len(ls) + 1 \notin DOMAIN ls
         /\ \A id \in DOMAIN Append(ls, loan) :
              Append(ls, loan)[id] = IF id = Len(ls) + 1 THEN loan ELSE ls[id]
<1>1. Len(ls) \in Nat /\ DOMAIN ls = 1..Len(ls)
  BY LoansFinite
<1>2. /\ Append(ls, loan) \in Seq(LoanRecord) /\ Len(Append(ls, loan)) = Len(ls) + 1
      /\ Append(ls, loan)[Len(ls) + 1] = loan
      /\ \A id \in 1..Len(ls) : Append(ls, loan)[id] = ls[id]
  BY AppendProperties
<1>3. DOMAIN Append(ls, loan) = 1..(Len(ls) + 1)
  BY <1>2, LoansFinite
<1>4. QED BY <1>1, <1>2, <1>3

LEMMA LoansExcept ==
  ASSUME NEW ls \in Seq(LoanRecord), NEW id \in DOMAIN ls, NEW loan \in LoanRecord
  PROVE  /\ [ls EXCEPT ![id] = loan] \in Seq(LoanRecord)
         /\ DOMAIN [ls EXCEPT ![id] = loan] = DOMAIN ls
         /\ \A k \in DOMAIN ls :
              [ls EXCEPT ![id] = loan][k] = IF k = id THEN loan ELSE ls[k]
<1>1. id \in 1..Len(ls)
  BY LoansFinite
<1>2. QED BY <1>1, ExceptSeq

-----------------------------------------------------------------------------
(* The inductive invariant                                                 *)

\* What a loan adds to its borrower's debt, to the escrow, to the tokens the
\* pool is out of, to the guarantees the pool kept, to a vendor's payouts.
OwedBy(u)       == [loan \in LoanRecord |-> IF loan.borrower = u /\ loan.status = "Active"
                                            THEN loan.remaining ELSE 0]
Escrowed        == [loan \in LoanRecord |-> IF loan.status \in {"Pending", "Active"}
                                            THEN loan.guarantee ELSE 0]
Exposed         == [loan \in LoanRecord |-> Exposure(loan)]
LentOut         == [loan \in LoanRecord |-> IF loan.status = "Active" THEN Shortfall(loan) ELSE 0]
KeptByPool      == [loan \in LoanRecord |-> IF loan.status = "Paid" THEN loan.guarantee ELSE 0]
PaidOutTo(v)    == [loan \in LoanRecord |->
                      IF loan.vendor = v /\ loan.status \in {"Active", "Paid", "Defaulted"}
                      THEN Contribution(loan) ELSE 0]

NoneDefaulted == \A id \in LoanIds : loans[id].status # "Defaulted"

PoolOkay      == pool.locked <= pool.liquidity /\ SharesAccountedIn(pool)
LoansOkay     == \A id \in LoanIds : LoanOkay(loans[id])
DebtOkay      == \A u \in Borrowers : debt[u] = Total(OwedBy(u), loans)
EscrowOkay    == bal[CreditLineAcct] = Total(Escrowed, loans)
SolventOkay   == bal[PoolAcct] + Total(Exposed, loans) >= pool.liquidity
AvailableOkay == NoneDefaulted => Available(pool) <= bal[PoolAcct]
TokensOkay    == NoneDefaulted =>
                   bal[PoolAcct] = pool.liquidity - Total(LentOut, loans)
                                     + Total(KeptByPool, loans)
FundedOkay    == \A v \in Merchants : pool.funded[v] = Total(PaidOutTo(v), loans)

\* The accounting properties are inductive only together and with the counters
\* of the pool.  A repayment finds its tokens because the balance is the sum of
\* the buckets; a default can be collected because the escrow holds every
\* guarantee; what a default takes off the pool's liquidity stays within the
\* exposure because locked never exceeds liquidity; a withdrawal keeps the pool
\* a pool because no share is lost.
Inv ==
  /\ TypeOK /\ PoolOkay /\ LoansOkay /\ DebtOkay /\ EscrowOkay
  /\ SolventOkay /\ AvailableOkay /\ TokensOkay /\ FundedOkay

LEMMA SystemAccounts ==
  /\ {PoolAcct, CreditLineAcct, Treasury, MerchantFund} \subseteq Accounts
  /\ PoolAcct \in Accounts /\ CreditLineAcct \in Accounts
  /\ Borrowers \subseteq Accounts /\ Providers \subseteq Accounts /\ Merchants \subseteq Accounts
  /\ PoolAcct # CreditLineAcct
  /\ PoolAcct \notin Borrowers /\ PoolAcct \notin Providers /\ PoolAcct \notin Merchants
  /\ CreditLineAcct \notin Borrowers /\ CreditLineAcct \notin Providers
  /\ CreditLineAcct \notin Merchants
  /\ CreditLineAcct # Treasury /\ CreditLineAcct # MerchantFund
BY PoolAssumption, CreditLineAssumption DEF Accounts

LEMMA Weights ==
  /\ \A u \in Borrowers : OwedBy(u) \in [LoanRecord -> Nat]
  /\ Escrowed \in [LoanRecord -> Nat] /\ Exposed \in [LoanRecord -> Nat]
  /\ LentOut \in [LoanRecord -> Int] /\ KeptByPool \in [LoanRecord -> Nat]
  /\ \A v \in Merchants : PaidOutTo(v) \in [LoanRecord -> Int]
<1>1. \A loan \in LoanRecord : /\ loan.remaining \in Nat /\ loan.guarantee \in Nat
                               /\ loan.total \in Nat /\ loan.principal \in Nat
  BY LoanNumbers
<1>2. \A loan \in LoanRecord : Shortfall(loan) \in Int /\ Contribution(loan) \in Int
                               /\ Exposure(loan) \in Nat
  BY <1>1 DEF Shortfall, Contribution, Exposure, NonNegative, Greatest
<1>3. \A u \in Borrowers : OwedBy(u) \in [LoanRecord -> Nat]
  BY <1>1 DEF OwedBy
<1>4. Escrowed \in [LoanRecord -> Nat] /\ KeptByPool \in [LoanRecord -> Nat]
  BY <1>1 DEF Escrowed, KeptByPool
<1>5. Exposed \in [LoanRecord -> Nat] /\ LentOut \in [LoanRecord -> Int]
  BY <1>2 DEF Exposed, LentOut
<1>6. \A v \in Merchants : PaidOutTo(v) \in [LoanRecord -> Int]
  BY <1>2 DEF PaidOutTo
<1>7. QED BY <1>3, <1>4, <1>5, <1>6

LEMMA WeightValues ==
  ASSUME NEW loan \in LoanRecord
  PROVE  /\ \A u \in Borrowers :
              OwedBy(u)[loan] = IF loan.borrower = u /\ loan.status = "Active"
                                THEN loan.remaining ELSE 0
         /\ Escrowed[loan] = IF loan.status \in {"Pending", "Active"} THEN loan.guarantee ELSE 0
         /\ Exposed[loan] = IF loan.status = "Active" THEN NonNegative(Shortfall(loan)) ELSE 0
         /\ LentOut[loan] = IF loan.status = "Active" THEN Shortfall(loan) ELSE 0
         /\ KeptByPool[loan] = IF loan.status = "Paid" THEN loan.guarantee ELSE 0
         /\ \A v \in Merchants :
              PaidOutTo(v)[loan] = IF loan.vendor = v /\ loan.status \in {"Active", "Paid", "Defaulted"}
                                   THEN Contribution(loan) ELSE 0
BY DEF OwedBy, Escrowed, Exposed, Exposure, LentOut, KeptByPool, PaidOutTo

LEMMA TotalsTyped ==
  ASSUME NEW ls \in Seq(LoanRecord)
  PROVE  /\ \A u \in Borrowers : Total(OwedBy(u), ls) \in Nat
         /\ Total(Escrowed, ls) \in Nat /\ Total(Exposed, ls) \in Nat
         /\ Total(LentOut, ls) \in Int /\ Total(KeptByPool, ls) \in Nat
         /\ \A v \in Merchants : Total(PaidOutTo(v), ls) \in Int
BY Weights, TotalAtLeast, TotalInt

\* What a new loan, and a loan that moves, do to each total.
LEMMA TotalsAppend ==
  ASSUME NEW ls \in Seq(LoanRecord), NEW loan \in LoanRecord
  PROVE  LET after == Append(ls, loan)
         IN  /\ \A u \in Borrowers :
                  Total(OwedBy(u), after) = Total(OwedBy(u), ls) + OwedBy(u)[loan]
             /\ Total(Escrowed, after) = Total(Escrowed, ls) + Escrowed[loan]
             /\ Total(Exposed, after) = Total(Exposed, ls) + Exposed[loan]
             /\ Total(LentOut, after) = Total(LentOut, ls) + LentOut[loan]
             /\ Total(KeptByPool, after) = Total(KeptByPool, ls) + KeptByPool[loan]
             /\ \A v \in Merchants :
                  Total(PaidOutTo(v), after) = Total(PaidOutTo(v), ls) + PaidOutTo(v)[loan]
<1>1. /\ \A u \in Borrowers : OwedBy(u) \in [LoanRecord -> Int]
      /\ Escrowed \in [LoanRecord -> Int] /\ Exposed \in [LoanRecord -> Int]
      /\ LentOut \in [LoanRecord -> Int] /\ KeptByPool \in [LoanRecord -> Int]
      /\ \A v \in Merchants : PaidOutTo(v) \in [LoanRecord -> Int]
  BY Weights
<1>2. QED BY <1>1, TotalAppend

LEMMA TotalsExcept ==
  ASSUME NEW ls \in Seq(LoanRecord), NEW id \in DOMAIN ls, NEW loan \in LoanRecord
  PROVE  LET after == [ls EXCEPT ![id] = loan]
             before == ls[id]
         IN  /\ \A u \in Borrowers : Total(OwedBy(u), after)
                  = Total(OwedBy(u), ls) - OwedBy(u)[before] + OwedBy(u)[loan]
             /\ Total(Escrowed, after) = Total(Escrowed, ls) - Escrowed[before] + Escrowed[loan]
             /\ Total(Exposed, after) = Total(Exposed, ls) - Exposed[before] + Exposed[loan]
             /\ Total(LentOut, after) = Total(LentOut, ls) - LentOut[before] + LentOut[loan]
             /\ Total(KeptByPool, after)
                  = Total(KeptByPool, ls) - KeptByPool[before] + KeptByPool[loan]
             /\ \A v \in Merchants : Total(PaidOutTo(v), after)
                  = Total(PaidOutTo(v), ls) - PaidOutTo(v)[before] + PaidOutTo(v)[loan]
<1>1. /\ \A u \in Borrowers : OwedBy(u) \in [LoanRecord -> Int]
      /\ Escrowed \in [LoanRecord -> Int] /\ Exposed \in [LoanRecord -> Int]
      /\ LentOut \in [LoanRecord -> Int] /\ KeptByPool \in [LoanRecord -> Int]
      /\ \A v \in Merchants : PaidOutTo(v) \in [LoanRecord -> Int]
  BY Weights
<1>2. QED BY <1>1, TotalExcept

\* A new loan: every total gains what the loan adds.
LEMMA LoanAdded ==
  ASSUME Inv, NEW loan \in LoanRecord, LoanOkay(loan), loan.status # "Defaulted",
         loans' = Append(loans, loan)
  PROVE  /\ loans' \in Seq(LoanRecord) /\ LoansOkay' /\ (NoneDefaulted' => NoneDefaulted)
         /\ \A u \in Borrowers : Total(OwedBy(u), loans') = Total(OwedBy(u), loans) + OwedBy(u)[loan]
         /\ Total(Escrowed, loans') = Total(Escrowed, loans) + Escrowed[loan]
         /\ Total(Exposed, loans') = Total(Exposed, loans) + Exposed[loan]
         /\ Total(LentOut, loans') = Total(LentOut, loans) + LentOut[loan]
         /\ Total(KeptByPool, loans') = Total(KeptByPool, loans) + KeptByPool[loan]
         /\ \A v \in Merchants :
              Total(PaidOutTo(v), loans') = Total(PaidOutTo(v), loans) + PaidOutTo(v)[loan]
<1>1. loans \in Seq(LoanRecord) /\ LoansOkay
  BY DEF Inv, TypeOK
<1>2. /\ loans' \in Seq(LoanRecord) /\ DOMAIN loans' = DOMAIN loans \cup {Len(loans) + 1}
      /\ Len(loans) + 1 \notin DOMAIN loans
      /\ \A id \in DOMAIN loans' : loans'[id] = IF id = Len(loans) + 1 THEN loan ELSE loans[id]
  BY <1>1, LoansAppend
<1>3. LoansOkay'
  BY <1>1, <1>2 DEF LoansOkay, LoanIds
<1>4. NoneDefaulted' => NoneDefaulted
  BY <1>2 DEF NoneDefaulted, LoanIds
<1>5. QED BY <1>1, <1>2, <1>3, <1>4, TotalsAppend

\* A loan that moves: every total changes by the difference.
LEMMA LoanMoved ==
  ASSUME Inv, NEW id \in LoanIds, NEW loan \in LoanRecord, LoanOkay(loan),
         loans' = [loans EXCEPT ![id] = loan]
  PROVE  LET before == loans[id]
         IN  /\ loans' \in Seq(LoanRecord) /\ LoansOkay'
             /\ before.status # "Defaulted" => (NoneDefaulted' => NoneDefaulted)
             /\ loan.status = "Defaulted" => ~NoneDefaulted'
             /\ \A u \in Borrowers : Total(OwedBy(u), loans')
                  = Total(OwedBy(u), loans) - OwedBy(u)[before] + OwedBy(u)[loan]
             /\ Total(Escrowed, loans')
                  = Total(Escrowed, loans) - Escrowed[before] + Escrowed[loan]
             /\ Total(Exposed, loans') = Total(Exposed, loans) - Exposed[before] + Exposed[loan]
             /\ Total(LentOut, loans') = Total(LentOut, loans) - LentOut[before] + LentOut[loan]
             /\ Total(KeptByPool, loans')
                  = Total(KeptByPool, loans) - KeptByPool[before] + KeptByPool[loan]
             /\ \A v \in Merchants : Total(PaidOutTo(v), loans')
                  = Total(PaidOutTo(v), loans) - PaidOutTo(v)[before] + PaidOutTo(v)[loan]
<1>1. loans \in Seq(LoanRecord) /\ LoansOkay /\ id \in DOMAIN loans
  BY DEF Inv, TypeOK, LoanIds
<1>2. /\ loans' \in Seq(LoanRecord) /\ DOMAIN loans' = DOMAIN loans
      /\ \A k \in DOMAIN loans : loans'[k] = IF k = id THEN loan ELSE loans[k]
  BY <1>1, LoansExcept
<1>3. LoansOkay'
  BY <1>1, <1>2 DEF LoansOkay, LoanIds
<1>4. loans[id].status # "Defaulted" => (NoneDefaulted' => NoneDefaulted)
  BY <1>2 DEF NoneDefaulted, LoanIds
<1>5. loan.status = "Defaulted" => ~NoneDefaulted'
  BY <1>1, <1>2 DEF NoneDefaulted, LoanIds
<1> DEFINE after  == [loans EXCEPT ![id] = loan]
           before == loans[id]
<1>6. /\ \A u \in Borrowers : Total(OwedBy(u), after)
           = Total(OwedBy(u), loans) - OwedBy(u)[before] + OwedBy(u)[loan]
      /\ Total(Escrowed, after) = Total(Escrowed, loans) - Escrowed[before] + Escrowed[loan]
      /\ Total(Exposed, after) = Total(Exposed, loans) - Exposed[before] + Exposed[loan]
      /\ Total(LentOut, after) = Total(LentOut, loans) - LentOut[before] + LentOut[loan]
      /\ Total(KeptByPool, after)
           = Total(KeptByPool, loans) - KeptByPool[before] + KeptByPool[loan]
      /\ \A v \in Merchants : Total(PaidOutTo(v), after)
           = Total(PaidOutTo(v), loans) - PaidOutTo(v)[before] + PaidOutTo(v)[loan]
  BY <1>1, TotalsExcept
<1>7. loans' = after
  OBVIOUS
<1> HIDE DEF after
<1>8. QED BY <1>2, <1>3, <1>4, <1>5, <1>6, <1>7

\* The status of a loan alone.
LEMMA StatusChanged ==
  ASSUME NEW loan \in LoanRecord, NEW status \in LoanStatus
  PROVE  LET after == [loan EXCEPT !.status = status]
         IN  /\ after \in LoanRecord /\ after.status = status
             /\ after.borrower = loan.borrower /\ after.vendor = loan.vendor
             /\ after.total = loan.total /\ after.guarantee = loan.guarantee
             /\ after.principal = loan.principal /\ after.interest = loan.interest
             /\ after.fee = loan.fee /\ after.late = loan.late
             /\ after.remaining = loan.remaining /\ after.accrued = loan.accrued
BY DEF LoanRecord

\* The facts of the invariant that the transactions use most.
LEMMA InvFacts ==
  ASSUME Inv
  PROVE  /\ loans \in Seq(LoanRecord) /\ bal \in [Accounts -> Nat] /\ pool \in PoolType
         /\ \A id \in LoanIds : loans[id] \in LoanRecord /\ LoanOkay(loans[id])
         /\ bal[PoolAcct] \in Nat /\ bal[CreditLineAcct] \in Nat
         /\ pool.locked \in Nat /\ pool.liquidity \in Nat /\ pool.locked <= pool.liquidity
         /\ SharesAccountedIn(pool) /\ now \in Nat
         /\ debt \in [Borrowers -> Nat] /\ score \in [Borrowers -> 0..MaxScore]
         /\ params \in ParamChoices
<1>1. loans \in Seq(LoanRecord) /\ bal \in [Accounts -> Nat] /\ pool \in PoolType
      /\ now \in Nat /\ debt \in [Borrowers -> Nat] /\ score \in [Borrowers -> 0..MaxScore]
      /\ params \in ParamChoices
  BY DEF Inv, TypeOK
<1>2. \A id \in LoanIds : loans[id] \in LoanRecord /\ LoanOkay(loans[id])
  BY <1>1, LoansFinite DEF Inv, LoansOkay, LoanIds
<1>3. bal[PoolAcct] \in Nat /\ bal[CreditLineAcct] \in Nat
  BY <1>1, SystemAccounts
<1>4. pool.locked \in Nat /\ pool.liquidity \in Nat
  BY <1>1 DEF PoolType
<1>5. pool.locked <= pool.liquidity /\ SharesAccountedIn(pool)
  BY DEF Inv, PoolOkay
<1>6. QED BY <1>1, <1>2, <1>3, <1>4, <1>5

LEMMA InitInv == Init => Inv
<1> SUFFICES ASSUME Init PROVE Inv
  OBVIOUS
<1>1. /\ loans = <<>> /\ debt = [u \in Borrowers |-> 0] /\ paused = FALSE
      /\ params \in ParamChoices /\ score = InitialScores /\ vendorStatus = InitialStatus
      /\ pool = InitPool(TRUE) /\ bal = Endowment /\ now = 1
  BY DEF Init
<1>2. loans \in Seq(LoanRecord) /\ LoanIds = {}
  BY <1>1, EmptySeq DEF LoanIds
<1>3. pool \in PoolType
  BY <1>1 DEF InitPool, PoolType
<1>4. TypeOK
  BY <1>1, <1>2, <1>3, CreditLineAssumption DEF TypeOK
<1>5. /\ pool.locked = 0 /\ pool.liquidity = 0 /\ pool.shares = 0
      /\ pool.lp = [l \in Providers |-> 0] /\ pool.funded = [m \in Merchants |-> 0]
  BY <1>1 DEF InitPool
<1>6. PoolOkay
  BY <1>5 DEF PoolOkay, SharesAccountedIn
<1>7. \A w : Total(w, loans) = 0
  BY <1>1, TotalEmpty
<1>8. bal[PoolAcct] = 0 /\ bal[CreditLineAcct] = 0
  BY <1>1, CreditLineAssumption
<1>9. LoansOkay /\ DebtOkay /\ EscrowOkay /\ FundedOkay
  BY <1>1, <1>2, <1>5, <1>7, <1>8 DEF LoansOkay, DebtOkay, EscrowOkay, FundedOkay
<1>10. SolventOkay /\ AvailableOkay /\ TokensOkay
  BY <1>5, <1>7, <1>8 DEF SolventOkay, AvailableOkay, TokensOkay, Available
<1>11. QED BY <1>4, <1>6, <1>9, <1>10 DEF Inv

\* A transaction of a provider or an admin: loans and debts stay, and the
\* pool's tokens move with its liquidity.
LEMMA BooksStay ==
  ASSUME Inv, TypeOK', PoolOkay', UNCHANGED <<loans, debt>>,
         bal'[CreditLineAcct] = bal[CreditLineAcct], NEW d \in Int,
         bal'[PoolAcct] = bal[PoolAcct] + d, pool'.liquidity = pool.liquidity + d,
         pool'.locked = pool.locked, pool'.funded = pool.funded
  PROVE  Inv'
<1>1. /\ bal[PoolAcct] \in Nat /\ pool.liquidity \in Nat /\ pool.locked \in Nat
      /\ loans \in Seq(LoanRecord)
  BY InvFacts
<1>2. /\ Total(Exposed, loans) \in Nat /\ Total(LentOut, loans) \in Int
      /\ Total(KeptByPool, loans) \in Nat
  BY <1>1, TotalsTyped
<1>3. LoansOkay' /\ DebtOkay' /\ EscrowOkay' /\ FundedOkay'
  BY DEF Inv, LoansOkay, LoanIds, DebtOkay, EscrowOkay, FundedOkay
<1>4. NoneDefaulted' = NoneDefaulted
  BY DEF NoneDefaulted, LoanIds
<1>5. SolventOkay'
  BY <1>1, <1>2 DEF Inv, SolventOkay
<1>6. AvailableOkay'
  BY <1>1, <1>4 DEF Inv, AvailableOkay, Available
<1>7. TokensOkay'
  BY <1>1, <1>2, <1>4 DEF Inv, TokensOkay
<1>8. QED BY <1>3, <1>5, <1>6, <1>7 DEF Inv

LEMMA DepositInv ==
  ASSUME Inv, NEW provider \in Providers, NEW amount \in Nat, Deposit(provider, amount)
  PROVE  Inv'
<1>1. /\ pool \in PoolType /\ SharesAccountedIn(pool) /\ bal \in [Accounts -> Nat]
      /\ pool.locked \in Nat /\ pool.liquidity \in Nat /\ pool.locked <= pool.liquidity
  BY InvFacts
<1>2. /\ provider \in Accounts /\ PoolAcct \in Accounts /\ CreditLineAcct \in Accounts
      /\ provider # PoolAcct /\ provider # CreditLineAcct /\ PoolAcct # CreditLineAcct
  BY SystemAccounts
<1>3. /\ pool' \in PoolType /\ SharesAccountedIn(pool') /\ pool'.locked = pool.locked
      /\ pool'.liquidity = pool.liquidity + amount /\ pool'.funded = pool.funded
  BY <1>1, DepositEffect DEF Deposit
<1>4. bal[provider] >= amount /\ bal' = Transfer(bal, provider, PoolAcct, amount)
      /\ UNCHANGED <<loans, debt, paused, params, score, vendorStatus, now>>
  BY DEF Deposit, DepositOk, TransferOk
<1>5. bal' \in [Accounts -> Nat]
  BY <1>1, <1>2, <1>4, TransferType
<1>6. bal'[PoolAcct] = bal[PoolAcct] + amount /\ bal'[CreditLineAcct] = bal[CreditLineAcct]
  BY <1>1, <1>2, <1>4 DEF Transfer
<1>7. TypeOK' /\ PoolOkay'
  BY <1>1, <1>3, <1>4, <1>5 DEF Inv, TypeOK, PoolOkay
<1>8. amount \in Int
  OBVIOUS
<1>9. QED BY <1>3, <1>4, <1>6, <1>7, <1>8, BooksStay

LEMMA WithdrawInv ==
  ASSUME Inv, NEW provider \in Providers, Withdraw(provider, pool.lp[provider])
  PROVE  Inv'
<1> DEFINE shares == pool.lp[provider]
           worth  == Worth(pool, shares)
<1>1. /\ pool \in PoolType /\ SharesAccountedIn(pool) /\ bal \in [Accounts -> Nat]
      /\ pool.locked \in Nat /\ pool.liquidity \in Nat /\ pool.locked <= pool.liquidity
  BY InvFacts
<1>2. /\ provider \in Accounts /\ PoolAcct \in Accounts /\ CreditLineAcct \in Accounts
      /\ provider # PoolAcct /\ provider # CreditLineAcct /\ PoolAcct # CreditLineAcct
  BY SystemAccounts
<1>3. shares \in Nat
  BY <1>1 DEF PoolType
<1>4. /\ shares > 0 /\ pool.lp[provider] >= shares /\ worth <= Available(pool)
      /\ bal[PoolAcct] >= worth
      /\ bal' = Transfer(bal, PoolAcct, provider, worth)
      /\ pool' = WithdrawFrom(pool, provider, shares)
      /\ UNCHANGED <<loans, debt, paused, params, score, vendorStatus, now>>
  BY DEF Withdraw, WithdrawOk, TransferOk
<1> HIDE DEF shares
<1>5. /\ pool' \in PoolType /\ SharesAccountedIn(pool') /\ pool'.locked = pool.locked
      /\ pool'.locked <= pool'.liquidity
      /\ pool'.liquidity = pool.liquidity - worth /\ pool'.funded = pool.funded
  BY <1>1, <1>3, <1>4, WithdrawEffect
<1>6. worth \in Nat
  BY <1>1, <1>3, WorthNat
<1> HIDE DEF worth
<1>7. bal' \in [Accounts -> Nat]
  BY <1>1, <1>2, <1>4, <1>6, TransferType
<1>8. bal'[PoolAcct] = bal[PoolAcct] - worth /\ bal'[CreditLineAcct] = bal[CreditLineAcct]
  BY <1>1, <1>2, <1>4, <1>6 DEF Transfer
<1>9. TypeOK' /\ PoolOkay'
  BY <1>1, <1>4, <1>5, <1>7 DEF Inv, TypeOK, PoolOkay
<1>10. /\ -worth \in Int /\ pool'.liquidity = pool.liquidity + (-worth)
       /\ bal'[PoolAcct] = bal[PoolAcct] + (-worth)
  BY <1>1, <1>2, <1>5, <1>6, <1>8
<1>11. QED BY <1>4, <1>5, <1>8, <1>9, <1>10, BooksStay

\* The admins, the other score updaters, governance and the clock.
LEMMA OthersInv ==
  ASSUME Inv,
         \/ \E p \in PauseChoices : SetPaused(p)
         \/ \E p \in PauseChoices : SetPoolPaused(p)
         \/ \E u \in Borrowers, s \in ScoreChoices : UpdateScore(u, s)
         \/ \E v \in MovedVendors : RegisterVendor(v)
         \/ \E v \in MovedVendors : ApproveVendor(v)
         \/ \E v \in MovedVendors : ActivateVendor(v)
         \/ \E v \in MovedVendors : SuspendVendor(v)
         \/ \E p \in ParamChoices : ExecuteParameters(p)
         \/ Tick
         \/ UNCHANGED vars
  PROVE  Inv' /\ UNCHANGED <<loans, debt, bal>>
<1>1. /\ pool \in PoolType /\ bal[PoolAcct] \in Nat
      /\ pool.locked \in Nat /\ pool.liquidity \in Nat /\ pool.locked <= pool.liquidity
      /\ SharesAccountedIn(pool)
  BY InvFacts
<1>2. UNCHANGED <<loans, debt, bal>>
  BY DEF SetPaused, SetPoolPaused, UpdateScore, RegisterVendor, ApproveVendor,
         ActivateVendor, SuspendVendor, ExecuteParameters, Tick, vars
<1>3. /\ pool' \in PoolType /\ pool'.shares = pool.shares /\ pool'.lp = pool.lp
      /\ pool'.locked = pool.locked /\ pool'.liquidity = pool.liquidity
      /\ pool'.funded = pool.funded
  <2>1. CASE \E p \in PauseChoices : SetPoolPaused(p)
    <3>1. PICK p \in BOOLEAN : pool' = [pool EXCEPT !.paused = p]
      BY <2>1, CreditLineAssumption DEF SetPoolPaused
    <3>2. QED BY <1>1, <3>1 DEF PoolType
  <2>2. CASE pool' = pool
    BY <1>1, <2>2
  <2>3. QED
    BY <2>1, <2>2 DEF SetPaused, UpdateScore, RegisterVendor, ApproveVendor,
                      ActivateVendor, SuspendVendor, ExecuteParameters, Tick, vars
<1>4. /\ paused' \in BOOLEAN /\ params' \in ParamChoices
      /\ score' \in [Borrowers -> 0..MaxScore]
      /\ vendorStatus' \in [Merchants -> VendorStatus] /\ now' \in Nat
  <2>1. /\ paused \in BOOLEAN /\ params \in ParamChoices
        /\ score \in [Borrowers -> 0..MaxScore]
        /\ vendorStatus \in [Merchants -> VendorStatus] /\ now \in Nat
    BY DEF Inv, TypeOK
  <2>2. CASE \E p \in PauseChoices : SetPaused(p)
    BY <2>1, <2>2, CreditLineAssumption DEF SetPaused
  <2>3. CASE \E u \in Borrowers, s \in ScoreChoices : UpdateScore(u, s)
    BY <2>1, <2>3, CreditLineAssumption DEF UpdateScore
  <2>4. CASE \E v \in MovedVendors : \/ RegisterVendor(v) \/ ApproveVendor(v)
                                     \/ ActivateVendor(v) \/ SuspendVendor(v)
    BY <2>1, <2>4 DEF RegisterVendor, ApproveVendor, ActivateVendor, SuspendVendor, VendorStatus
  <2>5. CASE \E p \in ParamChoices : ExecuteParameters(p)
    BY <2>1, <2>5 DEF ExecuteParameters
  <2>6. CASE Tick
    BY <2>1, <2>6 DEF Tick
  <2>7. CASE UNCHANGED <<paused, params, score, vendorStatus, now>>
    BY <2>1, <2>7
  <2>8. QED
    BY <2>2, <2>3, <2>4, <2>5, <2>6, <2>7 DEF SetPoolPaused, vars
<1>5. PoolOkay'
  BY <1>1, <1>3 DEF PoolOkay, SharesAccountedIn
<1>6. TypeOK'
  BY <1>2, <1>3, <1>4 DEF Inv, TypeOK
<1>7. /\ bal'[CreditLineAcct] = bal[CreditLineAcct] /\ bal'[PoolAcct] = bal[PoolAcct] + 0
      /\ pool'.liquidity = pool.liquidity + 0
  BY <1>1, <1>2, <1>3
<1>8. QED BY <1>2, <1>3, <1>5, <1>6, <1>7, BooksStay

\* Funding a loan: the pool pays out and locks the contribution, or nothing
\* when the guarantee covers the total; the escrow is not touched.
LEMMA FundedEffect ==
  ASSUME Inv, NEW loan \in LoanRecord, LoanOkay(loan), NEW b \in [Accounts -> Nat],
         FundingOk(b, loan)
  PROVE  LET c == Contribution(loan)
             p == FundedPool(loan)
         IN  /\ c \in Nat /\ b[PoolAcct] \in Nat
             /\ p \in PoolType /\ SharesAccountedIn(p) /\ p.locked <= p.liquidity
             /\ p.locked = pool.locked + c /\ p.liquidity = pool.liquidity
             /\ \A v \in Merchants :
                  p.funded[v] = IF v = loan.vendor THEN pool.funded[v] + c ELSE pool.funded[v]
             /\ PayVendor(b, loan) \in [Accounts -> Nat]
             /\ PayVendor(b, loan)[PoolAcct] = b[PoolAcct] - c
             /\ PayVendor(b, loan)[CreditLineAcct] = b[CreditLineAcct]
<1> DEFINE c == Contribution(loan)
           p == FundedPool(loan)
<1>1. /\ pool \in PoolType /\ SharesAccountedIn(pool) /\ now \in Nat
      /\ pool.locked \in Nat /\ pool.liquidity \in Nat /\ pool.locked <= pool.liquidity
  BY InvFacts
<1>2. /\ loan.vendor \in Merchants /\ loan.total \in Nat /\ loan.guarantee \in Nat
      /\ loan.guarantee <= loan.total
  BY LoanNumbers DEF LoanOkay
<1>3. c \in Nat
  BY <1>2 DEF Contribution
<1>4. /\ loan.vendor \in Accounts /\ PoolAcct \in Accounts /\ CreditLineAcct \in Accounts
      /\ loan.vendor # PoolAcct /\ loan.vendor # CreditLineAcct /\ PoolAcct # CreditLineAcct
  BY <1>2, SystemAccounts
<1>5. b[PoolAcct] \in Nat
  BY <1>4
<1>6. c > 0 => c <= Available(pool) /\ b[PoolAcct] >= c
  BY DEF FundingOk, FundLoanOk, TransferOk
<1> HIDE DEF c
<1>7. p = IF c > 0 THEN FundLoanFrom(pool, now, loan.vendor, c) ELSE pool
  BY DEF FundedPool, c
<1> HIDE DEF p
<1>8. /\ p \in PoolType /\ SharesAccountedIn(p) /\ p.locked <= p.liquidity
      /\ p.locked = pool.locked + c /\ p.liquidity = pool.liquidity
  <2>1. CASE c > 0
    <3> DEFINE r == FundLoanFrom(pool, now, loan.vendor, c)
    <3>1. /\ r \in PoolType /\ SharesAccountedIn(r) /\ r.locked <= r.liquidity
          /\ r.locked = pool.locked + c /\ r.liquidity = pool.liquidity
      <4> DEFINE vendor == loan.vendor
      <4>1. vendor \in Merchants /\ c <= Available(pool)
        BY <1>2, <1>6, <2>1
      <4> HIDE DEF vendor
      <4>2. LET q == FundLoanFrom(pool, now, vendor, c)
            IN  /\ q \in PoolType /\ SharesAccountedIn(q) /\ q.locked <= q.liquidity
                /\ q.locked = pool.locked + c /\ q.liquidity = pool.liquidity
        BY <1>1, <1>3, <4>1, FundLoanEffect
      <4>3. QED BY <4>2 DEF vendor
    <3> HIDE DEF r
    <3>2. p = r
      BY <1>7, <2>1 DEF r
    <3>3. QED BY <3>1, <3>2
  <2>2. CASE ~(c > 0)
    BY <1>1, <1>3, <1>7, <2>2
  <2>3. QED BY <2>1, <2>2
<1>9. \A v \in Merchants :
        p.funded[v] = IF v = loan.vendor THEN pool.funded[v] + c ELSE pool.funded[v]
  <2>1. CASE c > 0
    <3>1. p = FundLoanFrom(pool, now, loan.vendor, c)
      BY <1>7, <2>1
    <3>2. QED BY <1>1, <1>2, <1>3, <3>1, FundLoanExposure
  <2>2. CASE ~(c > 0)
    <3>1. \A v \in Merchants : pool.funded[v] \in Nat
      BY <1>1 DEF PoolType
    <3>2. QED BY <1>3, <1>7, <2>2, <3>1
  <2>3. QED BY <2>1, <2>2
<1>10. b[PoolAcct] >= c
  BY <1>3, <1>5, <1>6
<1>11. PayVendor(b, loan) = Transfer(b, PoolAcct, loan.vendor, c)
  BY DEF PayVendor, c
<1>12. PayVendor(b, loan) \in [Accounts -> Nat]
  BY <1>3, <1>4, <1>10, <1>11, TransferType
<1>13. /\ PayVendor(b, loan)[PoolAcct] = b[PoolAcct] - c
       /\ PayVendor(b, loan)[CreditLineAcct] = b[CreditLineAcct]
  BY <1>3, <1>4, <1>11 DEF Transfer
<1>14. QED BY <1>3, <1>5, <1>8, <1>9, <1>12, <1>13 DEF c, p

\* A borrower's payment into the credit line.
LEMMA PaidIn ==
  ASSUME NEW b \in [Accounts -> Nat], NEW borrower \in Borrowers, NEW amount \in Nat,
         b[borrower] >= amount
  PROVE  LET after == Transfer(b, borrower, CreditLineAcct, amount)
         IN  /\ after \in [Accounts -> Nat]
             /\ after[CreditLineAcct] = b[CreditLineAcct] + amount
             /\ after[PoolAcct] = b[PoolAcct]
<1>1. /\ borrower \in Accounts /\ PoolAcct \in Accounts /\ CreditLineAcct \in Accounts
      /\ borrower # PoolAcct /\ borrower # CreditLineAcct /\ PoolAcct # CreditLineAcct
  BY SystemAccounts
<1>2. Transfer(b, borrower, CreditLineAcct, amount) \in [Accounts -> Nat]
  BY <1>1, TransferType
<1>3. QED BY <1>1, <1>2 DEF Transfer

\* The refund of a guarantee.
LEMMA Refunded ==
  ASSUME NEW b \in [Accounts -> Nat], NEW borrower \in Borrowers, NEW amount \in Nat,
         b[CreditLineAcct] >= amount
  PROVE  LET after == Transfer(b, CreditLineAcct, borrower, amount)
         IN  /\ after \in [Accounts -> Nat]
             /\ after[CreditLineAcct] = b[CreditLineAcct] - amount
             /\ after[PoolAcct] = b[PoolAcct]
<1>1. /\ borrower \in Accounts /\ PoolAcct \in Accounts /\ CreditLineAcct \in Accounts
      /\ borrower # PoolAcct /\ borrower # CreditLineAcct /\ PoolAcct # CreditLineAcct
  BY SystemAccounts
<1>2. Transfer(b, CreditLineAcct, borrower, amount) \in [Accounts -> Nat]
  BY <1>1, TransferType
<1>3. QED BY <1>1, <1>2 DEF Transfer

LEMMA RequestLoanInv ==
  ASSUME Inv, NEW borrower \in Borrowers, NEW vendor \in Merchants, NEW r \in Requests,
         RequestLoan(borrower, vendor, r)
  PROVE  Inv'
<1> DEFINE loan == NewLoan(params, score[borrower], borrower, vendor,
                           r.total, r.guarantee, r.schedule, "Pending")
<1>1. /\ bal \in [Accounts -> Nat] /\ loans \in Seq(LoanRecord)
      /\ params \in ParamChoices /\ score[borrower] \in 0..MaxScore
      /\ r.guarantee \in Nat
  BY InvFacts, CreditLineAssumption
<1>2. /\ LoanOk(loan) /\ TransferOk(bal, borrower, loan.guarantee)
      /\ loans' = Append(loans, loan)
      /\ bal' = Transfer(bal, borrower, CreditLineAcct, loan.guarantee)
      /\ UNCHANGED <<debt, paused, params, score, vendorStatus, pool, now>>
  BY DEF RequestLoan
<1>3. loan.total = r.total /\ loan.guarantee = r.guarantee
  BY DEF NewLoan
<1>4. /\ loan \in LoanRecord /\ LoanOkay(loan)
      /\ loan.borrower = borrower /\ loan.vendor = vendor /\ loan.status = "Pending"
  <2>1. GuaranteeOk(params, r.total, r.guarantee)
    BY <1>2, <1>3 DEF LoanOk
  <2>2. QED BY <1>1, <2>1, NewLoanEffect
<1> HIDE DEF loan
<1>5. /\ bal' \in [Accounts -> Nat] /\ bal'[PoolAcct] = bal[PoolAcct]
      /\ bal'[CreditLineAcct] = bal[CreditLineAcct] + loan.guarantee
  <2>1. bal[borrower] >= loan.guarantee
    BY <1>2 DEF TransferOk
  <2>2. QED BY <1>1, <1>2, <1>3, <2>1, PaidIn
<1>6. /\ loans' \in Seq(LoanRecord) /\ LoansOkay' /\ (NoneDefaulted' => NoneDefaulted)
      /\ \A u \in Borrowers : Total(OwedBy(u), loans') = Total(OwedBy(u), loans) + 0
      /\ Total(Escrowed, loans') = Total(Escrowed, loans) + loan.guarantee
      /\ Total(Exposed, loans') = Total(Exposed, loans) + 0
      /\ Total(LentOut, loans') = Total(LentOut, loans) + 0
      /\ Total(KeptByPool, loans') = Total(KeptByPool, loans) + 0
      /\ \A v \in Merchants : Total(PaidOutTo(v), loans') = Total(PaidOutTo(v), loans) + 0
  BY <1>2, <1>4, LoanAdded, WeightValues
<1>7. /\ \A u \in Borrowers : Total(OwedBy(u), loans) \in Nat
      /\ Total(Escrowed, loans) \in Nat /\ Total(Exposed, loans) \in Nat
      /\ Total(LentOut, loans) \in Int /\ Total(KeptByPool, loans) \in Nat
      /\ \A v \in Merchants : Total(PaidOutTo(v), loans) \in Int
  BY <1>1, TotalsTyped
<1>8. TypeOK' /\ PoolOkay'
  BY <1>2, <1>5, <1>6 DEF Inv, TypeOK, PoolOkay
<1>9. DebtOkay' /\ EscrowOkay' /\ FundedOkay'
  BY <1>2, <1>5, <1>6, <1>7 DEF Inv, DebtOkay, EscrowOkay, FundedOkay
<1>10. SolventOkay' /\ AvailableOkay' /\ TokensOkay'
  BY <1>2, <1>5, <1>6, <1>7 DEF Inv, SolventOkay, AvailableOkay, TokensOkay
<1>11. QED BY <1>6, <1>8, <1>9, <1>10 DEF Inv

\* The accounting of every transaction in which the pool pays out c for a loan
\* that becomes active with it.
LEMMA FundedBooks ==
  ASSUME Inv, NEW c \in Nat, NEW vendor \in Merchants,
         loans' \in Seq(LoanRecord), NoneDefaulted' => NoneDefaulted,
         bal'[PoolAcct] = bal[PoolAcct] - c,
         pool'.locked = pool.locked + c, pool'.liquidity = pool.liquidity,
         \A v \in Merchants :
           pool'.funded[v] = IF v = vendor THEN pool.funded[v] + c ELSE pool.funded[v],
         Total(Exposed, loans') = Total(Exposed, loans) + c,
         Total(LentOut, loans') = Total(LentOut, loans) + c,
         Total(KeptByPool, loans') = Total(KeptByPool, loans),
         \A v \in Merchants : Total(PaidOutTo(v), loans')
           = IF v = vendor THEN Total(PaidOutTo(v), loans) + c ELSE Total(PaidOutTo(v), loans)
  PROVE  SolventOkay' /\ AvailableOkay' /\ TokensOkay' /\ FundedOkay'
<1>1. /\ bal[PoolAcct] \in Nat /\ pool.locked \in Nat /\ pool.liquidity \in Nat
      /\ loans \in Seq(LoanRecord)
  BY InvFacts
<1>2. /\ Total(Exposed, loans) \in Nat /\ Total(LentOut, loans) \in Int
      /\ Total(KeptByPool, loans) \in Nat
  BY <1>1, TotalsTyped
<1>3. SolventOkay'
  BY <1>1, <1>2 DEF Inv, SolventOkay
<1>4. AvailableOkay'
  BY <1>1 DEF Inv, AvailableOkay, Available
<1>5. TokensOkay'
  BY <1>1, <1>2 DEF Inv, TokensOkay
<1>6. FundedOkay'
  BY DEF Inv, FundedOkay
<1>7. QED BY <1>3, <1>4, <1>5, <1>6

\* A transaction that moves one borrower's debt by as much as the sum of the
\* borrower's active balances.
LEMMA DebtMoved ==
  ASSUME Inv, loans' \in Seq(LoanRecord), NEW borrower \in Borrowers, NEW d \in Int,
         debt' = [debt EXCEPT ![borrower] = debt[borrower] + d],
         \A u \in Borrowers : Total(OwedBy(u), loans')
           = IF u = borrower THEN Total(OwedBy(u), loans) + d ELSE Total(OwedBy(u), loans)
  PROVE  DebtOkay' /\ debt' \in [Borrowers -> Nat]
<1>1. /\ debt \in [Borrowers -> Nat]
      /\ \A u \in Borrowers : debt[u] = Total(OwedBy(u), loans)
  BY InvFacts DEF Inv, DebtOkay
<1>2. \A u \in Borrowers : Total(OwedBy(u), loans') \in Nat
  BY TotalsTyped
<1>3. \A u \in Borrowers :
        debt'[u] = IF u = borrower THEN debt[u] + d ELSE debt[u]
  BY <1>1
<1>4. \A u \in Borrowers : debt'[u] = Total(OwedBy(u), loans')
  BY <1>1, <1>3
<1>5. debt[borrower] + d \in Nat
  BY <1>1, <1>2
<1>6. debt' \in [Borrowers -> Nat]
  BY <1>1, <1>5
<1>7. QED BY <1>4, <1>6 DEF DebtOkay

LEMMA CreateLoanInv ==
  ASSUME Inv, NEW borrower \in Borrowers, NEW vendor \in Merchants, NEW r \in Requests,
         CreateLoan(borrower, vendor, r)
  PROVE  Inv'
<1> DEFINE loan   == NewLoan(params, score[borrower], borrower, vendor,
                             r.total, r.guarantee, r.schedule, "Active")
           pulled == Transfer(bal, borrower, CreditLineAcct, loan.guarantee)
           c      == Contribution(loan)
<1>1. /\ bal \in [Accounts -> Nat] /\ loans \in Seq(LoanRecord)
      /\ params \in ParamChoices /\ score[borrower] \in 0..MaxScore
      /\ debt \in [Borrowers -> Nat] /\ r.guarantee \in Nat /\ bal[PoolAcct] \in Nat
      /\ bal[CreditLineAcct] \in Nat
  BY InvFacts, CreditLineAssumption
<1>2. /\ LoanOk(loan) /\ TransferOk(bal, borrower, loan.guarantee) /\ FundingOk(pulled, loan)
      /\ loans' = Append(loans, loan)
      /\ debt' = [debt EXCEPT ![borrower] = @ + loan.remaining]
      /\ pool' = FundedPool(loan) /\ bal' = PayVendor(pulled, loan)
      /\ UNCHANGED <<paused, params, score, vendorStatus, now>>
  BY DEF CreateLoan
<1>3. loan.total = r.total /\ loan.guarantee = r.guarantee
  BY DEF NewLoan
<1>4. /\ loan \in LoanRecord /\ LoanOkay(loan) /\ loan.principal = r.total
      /\ loan.borrower = borrower /\ loan.vendor = vendor /\ loan.status = "Active"
  <2>1. GuaranteeOk(params, r.total, r.guarantee)
    BY <1>2, <1>3 DEF LoanOk
  <2>2. QED BY <1>1, <2>1, NewLoanEffect
<1> HIDE DEF loan
<1>5. /\ pulled \in [Accounts -> Nat] /\ pulled[PoolAcct] = bal[PoolAcct]
      /\ pulled[CreditLineAcct] = bal[CreditLineAcct] + loan.guarantee
  <2>1. bal[borrower] >= loan.guarantee /\ loan.guarantee \in Nat
    BY <1>1, <1>2, <1>3 DEF TransferOk
  <2>2. QED BY <1>1, <2>1, PaidIn
<1> HIDE DEF pulled, c
<1>6. /\ c \in Nat /\ pool' \in PoolType /\ SharesAccountedIn(pool')
      /\ pool'.locked <= pool'.liquidity
      /\ pool'.locked = pool.locked + c /\ pool'.liquidity = pool.liquidity
      /\ \A v \in Merchants :
           pool'.funded[v] = IF v = vendor THEN pool.funded[v] + c ELSE pool.funded[v]
      /\ bal' \in [Accounts -> Nat] /\ bal'[PoolAcct] = bal[PoolAcct] - c
      /\ bal'[CreditLineAcct] = bal[CreditLineAcct] + loan.guarantee
  BY <1>2, <1>4, <1>5, FundedEffect DEF c
<1>7. /\ Shortfall(loan) = c /\ NonNegative(Shortfall(loan)) = c
      /\ loan.remaining \in Nat /\ loan.guarantee \in Nat
  BY <1>3, <1>4, <1>6, LoanNumbers DEF c, Contribution, Shortfall, NonNegative, Greatest
<1>8. /\ \A u \in Borrowers : OwedBy(u)[loan] = IF borrower = u THEN loan.remaining ELSE 0
      /\ Escrowed[loan] = loan.guarantee /\ Exposed[loan] = c /\ LentOut[loan] = c
      /\ KeptByPool[loan] = 0
      /\ \A v \in Merchants : PaidOutTo(v)[loan] = IF vendor = v THEN c ELSE 0
  BY <1>4, <1>7, WeightValues DEF c
<1>9. /\ \A u \in Borrowers : Total(OwedBy(u), loans) \in Nat
      /\ Total(Escrowed, loans) \in Nat /\ Total(Exposed, loans) \in Nat
      /\ Total(LentOut, loans) \in Int /\ Total(KeptByPool, loans) \in Nat
      /\ \A v \in Merchants : Total(PaidOutTo(v), loans) \in Int
  BY <1>1, TotalsTyped
<1>10. /\ loans' \in Seq(LoanRecord) /\ LoansOkay' /\ (NoneDefaulted' => NoneDefaulted)
       /\ \A u \in Borrowers :
            Total(OwedBy(u), loans') = Total(OwedBy(u), loans) + OwedBy(u)[loan]
       /\ Total(Escrowed, loans') = Total(Escrowed, loans) + loan.guarantee
       /\ Total(Exposed, loans') = Total(Exposed, loans) + c
       /\ Total(LentOut, loans') = Total(LentOut, loans) + c
       /\ Total(KeptByPool, loans') = Total(KeptByPool, loans)
       /\ \A v \in Merchants : Total(PaidOutTo(v), loans')
            = IF v = vendor THEN Total(PaidOutTo(v), loans) + c ELSE Total(PaidOutTo(v), loans)
  <2>1. loan.status # "Defaulted"
    BY <1>4
  <2>2. QED BY <1>2, <1>4, <1>8, <1>9, <2>1, LoanAdded
<1>11. DebtOkay' /\ debt' \in [Borrowers -> Nat]
  <2> DEFINE d == loan.remaining
  <2>1. \A u \in Borrowers : Total(OwedBy(u), loans')
          = IF u = borrower THEN Total(OwedBy(u), loans) + d ELSE Total(OwedBy(u), loans)
    BY <1>7, <1>8, <1>9, <1>10
  <2>2. d \in Int /\ debt' = [debt EXCEPT ![borrower] = debt[borrower] + d]
    BY <1>2, <1>7
  <2> HIDE DEF d
  <2>3. QED BY <1>10, <2>1, <2>2, DebtMoved
<1>12. TypeOK' /\ PoolOkay'
  BY <1>2, <1>6, <1>10, <1>11 DEF Inv, TypeOK, PoolOkay
<1>14. EscrowOkay'
  BY <1>6, <1>10 DEF Inv, EscrowOkay
<1>15. SolventOkay' /\ AvailableOkay' /\ TokensOkay' /\ FundedOkay'
  BY <1>6, <1>10, FundedBooks
<1>16. QED BY <1>10, <1>11, <1>12, <1>14, <1>15 DEF Inv

LEMMA ApproveLoanInv ==
  ASSUME Inv, NEW id \in LoanIds, ApproveLoan(id)
  PROVE  Inv'
<1> DEFINE loan == loans[id]
           opened == [loan EXCEPT !.status = "Active"]
           c == Contribution(loan)
<1>1. /\ bal \in [Accounts -> Nat] /\ loans \in Seq(LoanRecord)
      /\ debt \in [Borrowers -> Nat] /\ bal[PoolAcct] \in Nat /\ bal[CreditLineAcct] \in Nat
      /\ loan \in LoanRecord /\ LoanOkay(loan)
  BY InvFacts
<1>2. /\ loan.status = "Pending" /\ FundingOk(bal, loan)
      /\ loans' = [loans EXCEPT ![id] = opened]
      /\ debt' = [debt EXCEPT ![loan.borrower] = @ + loan.remaining]
      /\ pool' = FundedPool(loan) /\ bal' = PayVendor(bal, loan)
      /\ UNCHANGED <<paused, params, score, vendorStatus, now>>
  BY DEF ApproveLoan
<1>3. /\ loan.borrower \in Borrowers /\ loan.vendor \in Merchants
      /\ loan.remaining \in Nat /\ loan.guarantee \in Nat /\ loan.total \in Nat
      /\ loan.principal = loan.total
  BY <1>1, <1>2, LoanNumbers DEF LoanOkay
<1> HIDE DEF loan, c
<1>4. /\ opened \in LoanRecord /\ opened.status = "Active"
      /\ opened.borrower = loan.borrower /\ opened.vendor = loan.vendor
      /\ opened.total = loan.total /\ opened.guarantee = loan.guarantee
      /\ opened.principal = loan.principal /\ opened.interest = loan.interest
      /\ opened.fee = loan.fee /\ opened.late = loan.late /\ opened.remaining = loan.remaining
  BY <1>1, StatusChanged DEF LoanStatus
<1> HIDE DEF opened
<1>5. LoanOkay(opened)
  BY <1>1, <1>2, <1>4 DEF LoanOkay
<1>6. /\ c \in Nat /\ pool' \in PoolType /\ SharesAccountedIn(pool')
      /\ pool'.locked <= pool'.liquidity
      /\ pool'.locked = pool.locked + c /\ pool'.liquidity = pool.liquidity
      /\ \A v \in Merchants :
           pool'.funded[v] = IF v = loan.vendor THEN pool.funded[v] + c ELSE pool.funded[v]
      /\ bal' \in [Accounts -> Nat] /\ bal'[PoolAcct] = bal[PoolAcct] - c
      /\ bal'[CreditLineAcct] = bal[CreditLineAcct]
  BY <1>1, <1>2, FundedEffect DEF c
<1>7. /\ Shortfall(opened) = c /\ NonNegative(Shortfall(opened)) = c /\ Contribution(opened) = c
  BY <1>3, <1>4, <1>6 DEF c, Contribution, Shortfall, NonNegative, Greatest
<1>8. /\ \A u \in Borrowers : /\ OwedBy(u)[loan] = 0
                              /\ OwedBy(u)[opened]
                                   = IF loan.borrower = u THEN loan.remaining ELSE 0
      /\ Escrowed[loan] = loan.guarantee /\ Escrowed[opened] = loan.guarantee
      /\ Exposed[loan] = 0 /\ Exposed[opened] = c /\ LentOut[loan] = 0 /\ LentOut[opened] = c
      /\ KeptByPool[loan] = 0 /\ KeptByPool[opened] = 0
      /\ \A v \in Merchants : /\ PaidOutTo(v)[loan] = 0
                              /\ PaidOutTo(v)[opened] = IF loan.vendor = v THEN c ELSE 0
  BY <1>1, <1>2, <1>4, <1>7, WeightValues
<1>9. /\ \A u \in Borrowers : Total(OwedBy(u), loans) \in Nat
      /\ Total(Escrowed, loans) \in Nat /\ Total(Exposed, loans) \in Nat
      /\ Total(LentOut, loans) \in Int /\ Total(KeptByPool, loans) \in Nat
      /\ \A v \in Merchants : Total(PaidOutTo(v), loans) \in Int
  BY <1>1, TotalsTyped
<1>10. /\ loans' \in Seq(LoanRecord) /\ LoansOkay' /\ (NoneDefaulted' => NoneDefaulted)
       /\ \A u \in Borrowers : Total(OwedBy(u), loans')
            = Total(OwedBy(u), loans) - OwedBy(u)[loan] + OwedBy(u)[opened]
       /\ Total(Escrowed, loans') = Total(Escrowed, loans) - Escrowed[loan] + Escrowed[opened]
       /\ Total(Exposed, loans') = Total(Exposed, loans) - Exposed[loan] + Exposed[opened]
       /\ Total(LentOut, loans') = Total(LentOut, loans) - LentOut[loan] + LentOut[opened]
       /\ Total(KeptByPool, loans')
            = Total(KeptByPool, loans) - KeptByPool[loan] + KeptByPool[opened]
       /\ \A v \in Merchants : Total(PaidOutTo(v), loans')
            = Total(PaidOutTo(v), loans) - PaidOutTo(v)[loan] + PaidOutTo(v)[opened]
  <2>1. loans[id].status # "Defaulted"
    BY <1>2 DEF loan
  <2>2. QED BY <1>2, <1>4, <1>5, <2>1, LoanMoved DEF loan
<1>11. /\ Total(Escrowed, loans') = Total(Escrowed, loans)
       /\ Total(Exposed, loans') = Total(Exposed, loans) + c
       /\ Total(LentOut, loans') = Total(LentOut, loans) + c
       /\ Total(KeptByPool, loans') = Total(KeptByPool, loans)
  BY <1>3, <1>6, <1>8, <1>9, <1>10
<1>12. \A v \in Merchants : Total(PaidOutTo(v), loans')
          = IF v = loan.vendor THEN Total(PaidOutTo(v), loans) + c
            ELSE Total(PaidOutTo(v), loans)
  <2>1. ASSUME NEW v \in Merchants
        PROVE  Total(PaidOutTo(v), loans')
                 = IF v = loan.vendor THEN Total(PaidOutTo(v), loans) + c
                   ELSE Total(PaidOutTo(v), loans)
    <3>1. Total(PaidOutTo(v), loans') = Total(PaidOutTo(v), loans) - PaidOutTo(v)[loan]
            + PaidOutTo(v)[opened]
      BY <1>10
    <3>2. PaidOutTo(v)[loan] = 0 /\ PaidOutTo(v)[opened] = IF loan.vendor = v THEN c ELSE 0
      BY <1>8
    <3>3. QED BY <1>6, <1>9, <3>1, <3>2
  <2>2. QED BY <2>1
<1>13. DebtOkay' /\ debt' \in [Borrowers -> Nat]
  <2> DEFINE borrower == loan.borrower
             d == loan.remaining
  <2>1. ASSUME NEW u \in Borrowers
        PROVE  Total(OwedBy(u), loans')
                 = IF u = borrower THEN Total(OwedBy(u), loans) + d ELSE Total(OwedBy(u), loans)
    <3>1. Total(OwedBy(u), loans') = Total(OwedBy(u), loans) - OwedBy(u)[loan]
            + OwedBy(u)[opened]
      BY <1>10
    <3>2. OwedBy(u)[loan] = 0
          /\ OwedBy(u)[opened] = IF loan.borrower = u THEN loan.remaining ELSE 0
      BY <1>8
    <3>3. QED BY <1>3, <1>9, <3>1, <3>2
  <2>2. /\ borrower \in Borrowers /\ d \in Int
        /\ debt' = [debt EXCEPT ![borrower] = debt[borrower] + d]
    BY <1>2, <1>3
  <2> HIDE DEF borrower, d
  <2>3. QED BY <1>10, <2>1, <2>2, DebtMoved
<1>14. TypeOK' /\ PoolOkay'
  BY <1>2, <1>6, <1>10, <1>13 DEF Inv, TypeOK, PoolOkay
<1>15. EscrowOkay'
  BY <1>6, <1>11 DEF Inv, EscrowOkay
<1>16. SolventOkay' /\ AvailableOkay' /\ TokensOkay' /\ FundedOkay'
  BY <1>3, <1>6, <1>10, <1>11, <1>12, FundedBooks
<1>17. QED BY <1>10, <1>13, <1>14, <1>15, <1>16 DEF Inv

\* A cancelled request leaves with its guarantee.
LEMMA CancelLoanInv ==
  ASSUME Inv, NEW id \in LoanIds, CancelLoan(id)
  PROVE  Inv'
<1> DEFINE loan == loans[id]
           closed == [loan EXCEPT !.status = "Cancelled"]
<1>1. /\ bal \in [Accounts -> Nat] /\ loans \in Seq(LoanRecord)
      /\ bal[PoolAcct] \in Nat /\ bal[CreditLineAcct] \in Nat
      /\ pool.liquidity \in Nat /\ pool.locked \in Nat
      /\ loan \in LoanRecord /\ LoanOkay(loan)
  BY InvFacts
<1>2. /\ loan.status = "Pending" /\ bal[CreditLineAcct] >= loan.guarantee
      /\ loans' = [loans EXCEPT ![id] = closed]
      /\ bal' = Transfer(bal, CreditLineAcct, loan.borrower, loan.guarantee)
      /\ UNCHANGED <<debt, paused, params, score, vendorStatus, pool, now>>
  BY DEF CancelLoan, TransferOk
<1>3. loan.borrower \in Borrowers /\ loan.guarantee \in Nat
  BY <1>1, LoanNumbers
<1> HIDE DEF loan
<1>4. /\ closed \in LoanRecord /\ closed.status = "Cancelled"
      /\ closed.borrower = loan.borrower /\ closed.vendor = loan.vendor
      /\ closed.total = loan.total /\ closed.guarantee = loan.guarantee
      /\ closed.principal = loan.principal /\ closed.interest = loan.interest
      /\ closed.fee = loan.fee /\ closed.late = loan.late /\ closed.remaining = loan.remaining
  BY <1>1, StatusChanged DEF LoanStatus
<1> HIDE DEF closed
<1>5. LoanOkay(closed)
  BY <1>1, <1>2, <1>4 DEF LoanOkay
<1>6. /\ bal' \in [Accounts -> Nat] /\ bal'[PoolAcct] = bal[PoolAcct]
      /\ bal'[CreditLineAcct] = bal[CreditLineAcct] - loan.guarantee
  <2> DEFINE borrower == loan.borrower
             amount == loan.guarantee
  <2>1. /\ borrower \in Borrowers /\ amount \in Nat /\ bal[CreditLineAcct] >= amount
        /\ bal' = Transfer(bal, CreditLineAcct, borrower, amount)
    BY <1>2, <1>3
  <2> HIDE DEF borrower, amount
  <2>2. /\ bal' \in [Accounts -> Nat] /\ bal'[PoolAcct] = bal[PoolAcct]
        /\ bal'[CreditLineAcct] = bal[CreditLineAcct] - amount
    BY <1>1, <2>1, Refunded
  <2>3. QED BY <2>2 DEF amount
<1>7. /\ \A u \in Borrowers : OwedBy(u)[loan] = 0 /\ OwedBy(u)[closed] = 0
      /\ Escrowed[loan] = loan.guarantee /\ Escrowed[closed] = 0
      /\ Exposed[loan] = 0 /\ Exposed[closed] = 0 /\ LentOut[loan] = 0 /\ LentOut[closed] = 0
      /\ KeptByPool[loan] = 0 /\ KeptByPool[closed] = 0
      /\ \A v \in Merchants : PaidOutTo(v)[loan] = 0 /\ PaidOutTo(v)[closed] = 0
  BY <1>1, <1>2, <1>4, WeightValues
<1>8. /\ \A u \in Borrowers : Total(OwedBy(u), loans) \in Nat
      /\ Total(Escrowed, loans) \in Nat /\ Total(Exposed, loans) \in Nat
      /\ Total(LentOut, loans) \in Int /\ Total(KeptByPool, loans) \in Nat
      /\ \A v \in Merchants : Total(PaidOutTo(v), loans) \in Int
  BY <1>1, TotalsTyped
<1>9. /\ loans' \in Seq(LoanRecord) /\ LoansOkay' /\ (NoneDefaulted' => NoneDefaulted)
      /\ \A u \in Borrowers : Total(OwedBy(u), loans')
           = Total(OwedBy(u), loans) - OwedBy(u)[loan] + OwedBy(u)[closed]
      /\ Total(Escrowed, loans') = Total(Escrowed, loans) - Escrowed[loan] + Escrowed[closed]
      /\ Total(Exposed, loans') = Total(Exposed, loans) - Exposed[loan] + Exposed[closed]
      /\ Total(LentOut, loans') = Total(LentOut, loans) - LentOut[loan] + LentOut[closed]
      /\ Total(KeptByPool, loans')
           = Total(KeptByPool, loans) - KeptByPool[loan] + KeptByPool[closed]
      /\ \A v \in Merchants : Total(PaidOutTo(v), loans')
           = Total(PaidOutTo(v), loans) - PaidOutTo(v)[loan] + PaidOutTo(v)[closed]
  <2>1. loans[id].status # "Defaulted"
    BY <1>2 DEF loan
  <2>2. QED BY <1>2, <1>4, <1>5, <2>1, LoanMoved DEF loan
<1>10. /\ Total(Escrowed, loans') = Total(Escrowed, loans) - loan.guarantee
       /\ Total(Exposed, loans') = Total(Exposed, loans)
       /\ Total(LentOut, loans') = Total(LentOut, loans)
       /\ Total(KeptByPool, loans') = Total(KeptByPool, loans)
  BY <1>3, <1>7, <1>8, <1>9
<1>11. /\ \A u \in Borrowers : Total(OwedBy(u), loans') = Total(OwedBy(u), loans)
       /\ \A v \in Merchants : Total(PaidOutTo(v), loans') = Total(PaidOutTo(v), loans)
  <2>1. \A t \in Int : t - 0 + 0 = t
    OBVIOUS
  <2>2. QED BY <1>7, <1>8, <1>9, <2>1
<1>12. TypeOK' /\ PoolOkay'
  BY <1>2, <1>6, <1>9 DEF Inv, TypeOK, PoolOkay
<1>13. DebtOkay' /\ FundedOkay' /\ EscrowOkay'
  BY <1>2, <1>6, <1>10, <1>11 DEF Inv, DebtOkay, FundedOkay, EscrowOkay
<1>14. SolventOkay' /\ AvailableOkay' /\ TokensOkay'
  BY <1>2, <1>6, <1>9, <1>10 DEF Inv, SolventOkay, AvailableOkay, TokensOkay
<1>15. QED BY <1>9, <1>12, <1>13, <1>14 DEF Inv

\* A late fee reaches the debt as well as the loan.
LEMMA ApplyLateFeesInv ==
  ASSUME Inv, NEW id \in LoanIds, ApplyLateFees(id)
  PROVE  Inv'
<1> DEFINE loan == loans[id]
           late == Accrue(loan, now)
           fee  == LateFee(loan, now)
<1>1. /\ bal \in [Accounts -> Nat] /\ loans \in Seq(LoanRecord) /\ now \in Nat
      /\ loan \in LoanRecord /\ LoanOkay(loan)
  BY InvFacts
<1>2. /\ loan.status = "Active"
      /\ loans' = [loans EXCEPT ![id] = late]
      /\ debt' = [debt EXCEPT ![loan.borrower] = debt[loan.borrower] + fee]
      /\ UNCHANGED <<paused, params, score, vendorStatus, pool, bal, now>>
  BY DEF ApplyLateFees
<1>3. loan.borrower \in Borrowers /\ loan.guarantee \in Nat /\ loan.remaining \in Nat
      /\ Shortfall(loan) \in Int /\ NonNegative(Shortfall(loan)) \in Nat
      /\ Contribution(loan) \in Int
  BY <1>1, LoanNumbers DEF Shortfall, NonNegative, Greatest, Contribution
<1> HIDE DEF loan
<1>4. /\ late \in LoanRecord /\ LoanOkay(late)
      /\ late.remaining = loan.remaining + fee /\ late.principal = loan.principal
      /\ late.total = loan.total /\ late.guarantee = loan.guarantee
      /\ late.borrower = loan.borrower /\ late.vendor = loan.vendor
      /\ late.status = "Active" /\ fee \in Nat
  BY <1>1, <1>2, AccrueEffect, AccrueOkay, LateFeeNat
<1> HIDE DEF late, fee
<1>5. Shortfall(late) = Shortfall(loan) /\ Contribution(late) = Contribution(loan)
  BY <1>4 DEF Shortfall, Contribution
<1>6. /\ \A u \in Borrowers :
           /\ OwedBy(u)[loan] = IF loan.borrower = u THEN loan.remaining ELSE 0
           /\ OwedBy(u)[late] = IF loan.borrower = u THEN loan.remaining + fee ELSE 0
      /\ Escrowed[late] = Escrowed[loan] /\ Exposed[late] = Exposed[loan]
      /\ LentOut[late] = LentOut[loan] /\ KeptByPool[late] = KeptByPool[loan]
      /\ \A v \in Merchants : PaidOutTo(v)[late] = PaidOutTo(v)[loan]
  BY <1>1, <1>2, <1>4, <1>5, WeightValues
<1>7. /\ Escrowed[loan] \in Int /\ Exposed[loan] \in Int /\ LentOut[loan] \in Int
      /\ KeptByPool[loan] \in Int /\ \A v \in Merchants : PaidOutTo(v)[loan] \in Int
  BY <1>1, Weights
<1>8. /\ \A u \in Borrowers : Total(OwedBy(u), loans) \in Nat
      /\ Total(Escrowed, loans) \in Nat /\ Total(Exposed, loans) \in Nat
      /\ Total(LentOut, loans) \in Int /\ Total(KeptByPool, loans) \in Nat
      /\ \A v \in Merchants : Total(PaidOutTo(v), loans) \in Int
  BY <1>1, TotalsTyped
<1>9. /\ loans' \in Seq(LoanRecord) /\ LoansOkay' /\ (NoneDefaulted' => NoneDefaulted)
      /\ \A u \in Borrowers : Total(OwedBy(u), loans')
           = Total(OwedBy(u), loans) - OwedBy(u)[loan] + OwedBy(u)[late]
      /\ Total(Escrowed, loans') = Total(Escrowed, loans) - Escrowed[loan] + Escrowed[late]
      /\ Total(Exposed, loans') = Total(Exposed, loans) - Exposed[loan] + Exposed[late]
      /\ Total(LentOut, loans') = Total(LentOut, loans) - LentOut[loan] + LentOut[late]
      /\ Total(KeptByPool, loans')
           = Total(KeptByPool, loans) - KeptByPool[loan] + KeptByPool[late]
      /\ \A v \in Merchants : Total(PaidOutTo(v), loans')
           = Total(PaidOutTo(v), loans) - PaidOutTo(v)[loan] + PaidOutTo(v)[late]
  <2>1. loans[id].status # "Defaulted"
    BY <1>2 DEF loan
  <2>2. QED BY <1>2, <1>4, <2>1, LoanMoved DEF loan
<1>10. /\ Total(Escrowed, loans') = Total(Escrowed, loans)
       /\ Total(Exposed, loans') = Total(Exposed, loans)
       /\ Total(LentOut, loans') = Total(LentOut, loans)
       /\ Total(KeptByPool, loans') = Total(KeptByPool, loans)
       /\ \A v \in Merchants : Total(PaidOutTo(v), loans') = Total(PaidOutTo(v), loans)
  <2>1. /\ Total(Escrowed, loans') = Total(Escrowed, loans)
        /\ Total(Exposed, loans') = Total(Exposed, loans)
        /\ Total(LentOut, loans') = Total(LentOut, loans)
        /\ Total(KeptByPool, loans') = Total(KeptByPool, loans)
    BY <1>6, <1>7, <1>8, <1>9
  <2>2. ASSUME NEW v \in Merchants
        PROVE  Total(PaidOutTo(v), loans') = Total(PaidOutTo(v), loans)
    <3>1. /\ PaidOutTo(v)[late] = PaidOutTo(v)[loan] /\ PaidOutTo(v)[loan] \in Int
          /\ Total(PaidOutTo(v), loans) \in Int
          /\ Total(PaidOutTo(v), loans')
               = Total(PaidOutTo(v), loans) - PaidOutTo(v)[loan] + PaidOutTo(v)[late]
      BY <1>6, <1>7, <1>8, <1>9
    <3>2. QED BY <3>1
  <2>3. QED BY <2>1, <2>2
<1>11. DebtOkay' /\ debt' \in [Borrowers -> Nat]
  <2> DEFINE borrower == loan.borrower
             d == fee
  <2>1. ASSUME NEW u \in Borrowers
        PROVE  Total(OwedBy(u), loans')
                 = IF u = borrower THEN Total(OwedBy(u), loans) + d ELSE Total(OwedBy(u), loans)
    <3>1. Total(OwedBy(u), loans') = Total(OwedBy(u), loans) - OwedBy(u)[loan]
            + OwedBy(u)[late]
      BY <1>9
    <3>2. QED BY <1>3, <1>4, <1>6, <1>8, <3>1
  <2>2. /\ borrower \in Borrowers /\ d \in Int
        /\ debt' = [debt EXCEPT ![borrower] = debt[borrower] + d]
    BY <1>2, <1>3, <1>4
  <2> HIDE DEF borrower, d
  <2>3. QED BY <1>9, <2>1, <2>2, DebtMoved
<1>12. TypeOK' /\ PoolOkay'
  BY <1>2, <1>9, <1>11 DEF Inv, TypeOK, PoolOkay
<1>13. FundedOkay' /\ EscrowOkay'
  BY <1>2, <1>10 DEF Inv, FundedOkay, EscrowOkay
<1>14. SolventOkay' /\ AvailableOkay' /\ TokensOkay'
  BY <1>2, <1>9, <1>10 DEF Inv, SolventOkay, AvailableOkay, TokensOkay
<1>15. QED BY <1>9, <1>11, <1>12, <1>13, <1>14 DEF Inv

\* What a repayment is made of: late fees come first, the payment leaves the
\* borrower through the credit line for the pool and the two funds, and only
\* the last one takes the guarantee out of the escrow.
LEMMA SettleEffect ==
  ASSUME Inv, NEW id \in LoanIds, NEW amount \in Nat, NEW marked,
         SettleOk(id, amount), Settle(id, amount, marked)
  PROVE  LET loan == loans[id]
             owed == Accrue(loan, now)
             s    == Settled(owed, amount, marked)
             part == Allocation(owed, amount)
             last == amount = owed.remaining
             rest == InterestAndFees(part)
         IN  /\ loan.status = "Active"
             /\ owed.remaining = loan.remaining + LateFee(loan, now)
             /\ s \in LoanRecord /\ LoanOkay(s)
             /\ s.remaining = loan.remaining + LateFee(loan, now) - amount
             /\ s.principal = loan.principal - part.principal
             /\ s.status = IF last THEN "Paid" ELSE "Active"
             /\ s.total = loan.total /\ s.guarantee = loan.guarantee
             /\ s.borrower = loan.borrower /\ s.vendor = loan.vendor
             /\ part.principal \in Nat /\ part.principal <= loan.principal
             /\ last => part.principal = loan.principal
             /\ pool' \in PoolType /\ SharesAccountedIn(pool') /\ pool'.locked <= pool'.liquidity
             /\ pool'.locked = NonNegative(pool.locked - part.principal)
             /\ LpPart(rest) \in Nat /\ pool'.liquidity = pool.liquidity + LpPart(rest)
             /\ pool'.funded = pool.funded
             /\ bal' \in [Accounts -> Nat]
             /\ bal'[PoolAcct] = bal[PoolAcct] + part.principal + LpPart(rest)
             /\ bal'[CreditLineAcct] = IF last THEN bal[CreditLineAcct] - loan.guarantee
                                       ELSE bal[CreditLineAcct]
<1> DEFINE loan == loans[id]
           owed == Accrue(loan, now)
           s    == Settled(owed, amount, marked)
           part == Allocation(owed, amount)
           last == amount = owed.remaining
           pp   == part.principal
           rest == InterestAndFees(part)
           paid == Transfer(bal, owed.borrower, CreditLineAcct, amount)
           sent == PassOn(owed, amount)
<1>1. /\ bal \in [Accounts -> Nat] /\ now \in Nat /\ pool \in PoolType
      /\ SharesAccountedIn(pool) /\ pool.locked <= pool.liquidity
      /\ bal[PoolAcct] \in Nat /\ bal[CreditLineAcct] \in Nat
      /\ loan \in LoanRecord /\ LoanOkay(loan)
  BY InvFacts
<1>2. /\ owed.status = "Active" /\ amount <= owed.remaining /\ bal[owed.borrower] >= amount
      /\ last => sent[CreditLineAcct] >= owed.guarantee
  BY DEF SettleOk, TransferOk
<1>3. /\ pool' = ReceiveRepaymentInto(pool, pp, rest)
      /\ bal' = IF last THEN Transfer(sent, CreditLineAcct, owed.borrower, owed.guarantee)
                ELSE sent
  BY DEF Settle
<1>4. sent = TakeRepayment(paid, pp, rest)
  BY DEF PassOn
<1> HIDE DEF loan
<1>5. /\ owed \in LoanRecord /\ loan.status = "Active"
      /\ owed.remaining = loan.remaining + LateFee(loan, now)
      /\ owed.principal = loan.principal /\ owed.total = loan.total
      /\ owed.guarantee = loan.guarantee /\ owed.borrower = loan.borrower
      /\ owed.vendor = loan.vendor
  BY <1>1, <1>2, AccrueEffect
<1>6. LoanOkay(owed)
  BY <1>1, <1>5, AccrueOkay
<1>7. /\ owed.borrower \in Borrowers /\ owed.guarantee \in Nat
  BY <1>5, LoanNumbers
<1> HIDE DEF owed
<1>8. /\ pp \in Nat /\ pp <= owed.principal /\ rest \in Nat /\ pp + rest = amount
  BY <1>2, <1>5, <1>6, AllocationParts
<1>9. /\ s \in LoanRecord /\ LoanOkay(s)
      /\ s.remaining = owed.remaining - amount /\ s.principal = owed.principal - pp
      /\ s.status = IF last THEN "Paid" ELSE "Active"
      /\ s.total = owed.total /\ s.guarantee = owed.guarantee
      /\ s.borrower = owed.borrower /\ s.vendor = owed.vendor
      /\ last => pp = owed.principal
  BY <1>2, <1>5, <1>6, SettledEffect
<1>10. /\ paid \in [Accounts -> Nat] /\ paid[CreditLineAcct] = bal[CreditLineAcct] + amount
       /\ paid[PoolAcct] = bal[PoolAcct]
  <2> DEFINE borrower == owed.borrower
  <2>1. borrower \in Borrowers /\ bal[borrower] >= amount
    BY <1>2, <1>7
  <2> HIDE DEF borrower
  <2>2. LET after == Transfer(bal, borrower, CreditLineAcct, amount)
        IN  /\ after \in [Accounts -> Nat]
            /\ after[CreditLineAcct] = bal[CreditLineAcct] + amount
            /\ after[PoolAcct] = bal[PoolAcct]
    BY <1>1, <2>1, PaidIn
  <2>3. QED BY <2>2 DEF borrower
<1> HIDE DEF s, part, last, pp, rest, paid, sent
<1>11. LpPart(rest) \in Nat
  BY <1>8, InterestParts
<1>12. /\ pool' \in PoolType /\ SharesAccountedIn(pool') /\ pool'.locked <= pool'.liquidity
       /\ pool'.locked = NonNegative(pool.locked - pp)
       /\ pool'.liquidity = pool.liquidity + LpPart(rest) /\ pool'.funded = pool.funded
  <2> DEFINE r == ReceiveRepaymentInto(pool, pp, rest)
  <2>1. /\ r \in PoolType /\ SharesAccountedIn(r)
        /\ r.locked <= pool.locked /\ r.liquidity >= pool.liquidity
        /\ r.locked = NonNegative(pool.locked - pp)
        /\ r.liquidity = pool.liquidity + LpPart(rest) /\ r.funded = pool.funded
    BY <1>1, <1>8, ReceiveRepaymentEffect
  <2> HIDE DEF r
  <2>2. pool' = r
    BY <1>3 DEF r
  <2>3. r.locked <= r.liquidity
    BY <1>1, <2>1 DEF PoolType
  <2>4. QED BY <2>1, <2>2, <2>3
<1>13. /\ sent \in [Accounts -> Nat] /\ sent[PoolAcct] = bal[PoolAcct] + pp + LpPart(rest)
       /\ sent[CreditLineAcct] = bal[CreditLineAcct]
  <2>1. /\ {PoolAcct, CreditLineAcct, Treasury, MerchantFund} \subseteq Accounts
        /\ CreditLineAcct \in Accounts \ {PoolAcct, Treasury, MerchantFund}
    BY SystemAccounts
  <2>2. paid[CreditLineAcct] >= pp + rest
    BY <1>1, <1>8, <1>10
  <2>3. /\ sent \in [Accounts -> Nat] /\ sent[PoolAcct] = paid[PoolAcct] + pp + LpPart(rest)
        /\ sent[CreditLineAcct] = paid[CreditLineAcct] - (pp + rest)
    BY <1>4, <1>8, <1>10, <2>1, <2>2, TakeRepaymentEffect
  <2>4. QED BY <1>1, <1>8, <1>10, <2>3
<1>14. /\ bal' \in [Accounts -> Nat] /\ bal'[PoolAcct] = sent[PoolAcct]
       /\ bal'[CreditLineAcct] = IF last THEN sent[CreditLineAcct] - owed.guarantee
                                 ELSE sent[CreditLineAcct]
  <2>1. CASE last
    <3> DEFINE borrower == owed.borrower
               g == owed.guarantee
    <3>1. /\ borrower \in Borrowers /\ g \in Nat /\ sent[CreditLineAcct] >= g
          /\ bal' = Transfer(sent, CreditLineAcct, borrower, g)
      BY <1>2, <1>3, <1>7, <2>1
    <3> HIDE DEF borrower, g
    <3>2. /\ bal' \in [Accounts -> Nat] /\ bal'[PoolAcct] = sent[PoolAcct]
          /\ bal'[CreditLineAcct] = sent[CreditLineAcct] - g
      BY <1>13, <3>1, Refunded
    <3>3. QED BY <2>1, <3>2 DEF g
  <2>2. CASE ~last
    BY <1>3, <1>13, <2>2
  <2>3. QED BY <2>1, <2>2
<1>15. /\ loan.status = "Active" /\ owed.remaining = loan.remaining + LateFee(loan, now)
       /\ s \in LoanRecord /\ LoanOkay(s)
       /\ s.remaining = loan.remaining + LateFee(loan, now) - amount
       /\ s.principal = loan.principal - pp
       /\ s.status = IF last THEN "Paid" ELSE "Active"
       /\ s.total = loan.total /\ s.guarantee = loan.guarantee
       /\ s.borrower = loan.borrower /\ s.vendor = loan.vendor
       /\ pp \in Nat /\ pp <= loan.principal
       /\ last => pp = loan.principal
  <2>1. s.remaining = loan.remaining + LateFee(loan, now) - amount
    <3>1. loan.remaining \in Nat /\ LateFee(loan, now) \in Nat
      BY <1>1, LoanNumbers, LateFeeNat
    <3>2. QED BY <1>5, <1>9, <3>1
  <2>2. QED BY <1>5, <1>8, <1>9, <2>1
<1>16. /\ bal' \in [Accounts -> Nat] /\ bal'[PoolAcct] = bal[PoolAcct] + pp + LpPart(rest)
       /\ bal'[CreditLineAcct] = IF last THEN bal[CreditLineAcct] - loan.guarantee
                                 ELSE bal[CreditLineAcct]
  BY <1>5, <1>13, <1>14
<1>17. QED
  BY <1>11, <1>12, <1>15, <1>16 DEF s, part, last, pp, rest, loan, owed

\* A repayment, late fees included: what leaves the debt is what leaves the
\* loan; the pool gains the principal that is no longer exposed and its part of
\* the interest; the last one also leaves it the guarantee's worth of
\* principal that it had never paid out.
LEMMA SettleInv ==
  ASSUME Inv, NEW id \in LoanIds, NEW amount \in Nat, NEW marked,
         SettleOk(id, amount), Settle(id, amount, marked)
  PROVE  Inv'
<1> DEFINE loan == loans[id]
           owed == Accrue(loan, now)
           s    == Settled(owed, amount, marked)
           fee  == LateFee(loan, now)
           part == Allocation(owed, amount)
           pp   == part.principal
           lp   == LpPart(InterestAndFees(part))
           last == amount = owed.remaining
<1>1. /\ loans \in Seq(LoanRecord) /\ now \in Nat /\ loan \in LoanRecord /\ LoanOkay(loan)
      /\ bal[PoolAcct] \in Nat /\ bal[CreditLineAcct] \in Nat
      /\ pool.locked \in Nat /\ pool.liquidity \in Nat
      /\ score \in [Borrowers -> 0..MaxScore]
  BY InvFacts
<1>2. /\ loans' = [loans EXCEPT ![id] = s]
      /\ debt' = [debt EXCEPT ![owed.borrower] = debt[owed.borrower] + fee - amount]
      /\ score' = IF last THEN [score EXCEPT ![owed.borrower] = score[owed.borrower]
                                                                  + Reward(owed, now)]
                  ELSE score
      /\ last => RaiseOk(score[owed.borrower], Reward(owed, now))
      /\ UNCHANGED <<paused, params, vendorStatus, now>>
  BY DEF Settle, SettleOk
<1>3. /\ loan.status = "Active" /\ owed.remaining = loan.remaining + fee
      /\ s \in LoanRecord /\ LoanOkay(s) /\ s.remaining = loan.remaining + fee - amount
      /\ s.principal = loan.principal - pp /\ s.status = IF last THEN "Paid" ELSE "Active"
      /\ s.total = loan.total /\ s.guarantee = loan.guarantee
      /\ s.borrower = loan.borrower /\ s.vendor = loan.vendor
      /\ pp \in Nat /\ pp <= loan.principal
  BY SettleEffect
<1>4. /\ last => pp = loan.principal
      /\ pool' \in PoolType /\ SharesAccountedIn(pool') /\ pool'.locked <= pool'.liquidity
      /\ pool'.locked = NonNegative(pool.locked - pp)
      /\ lp \in Nat /\ pool'.liquidity = pool.liquidity + lp
      /\ pool'.funded = pool.funded
      /\ bal' \in [Accounts -> Nat] /\ bal'[PoolAcct] = bal[PoolAcct] + pp + lp
      /\ bal'[CreditLineAcct] = IF last THEN bal[CreditLineAcct] - loan.guarantee
                                ELSE bal[CreditLineAcct]
  BY SettleEffect
<1>5. /\ loan.borrower \in Borrowers /\ loan.guarantee \in Nat /\ loan.remaining \in Nat
      /\ loan.principal \in Nat /\ loan.total \in Nat /\ fee \in Nat
  BY <1>1, LoanNumbers, LateFeeNat
<1>6. owed.borrower = loan.borrower /\ (last <=> amount = loan.remaining + fee)
  BY <1>1, <1>3, AccrueEffect
<1> HIDE DEF loan, owed, s, fee, part, pp, lp, last
<1>7. /\ Shortfall(loan) = loan.principal - loan.guarantee
      /\ Shortfall(s) = loan.principal - pp - loan.guarantee
      /\ Contribution(s) = Contribution(loan)
  BY <1>3, <1>5 DEF Shortfall, Contribution
<1>8. /\ \A u \in Borrowers :
           /\ OwedBy(u)[loan] = IF loan.borrower = u THEN loan.remaining ELSE 0
           /\ OwedBy(u)[s] = IF loan.borrower = u THEN loan.remaining + fee - amount ELSE 0
      /\ Escrowed[loan] = loan.guarantee /\ Exposed[loan] = NonNegative(Shortfall(loan))
      /\ LentOut[loan] = Shortfall(loan) /\ KeptByPool[loan] = 0
      /\ Escrowed[s] = IF last THEN 0 ELSE loan.guarantee
      /\ Exposed[s] = IF last THEN 0 ELSE NonNegative(Shortfall(s))
      /\ LentOut[s] = IF last THEN 0 ELSE Shortfall(s)
      /\ KeptByPool[s] = IF last THEN loan.guarantee ELSE 0
      /\ \A v \in Merchants : PaidOutTo(v)[s] = PaidOutTo(v)[loan]
  <2>1. ASSUME NEW u \in Borrowers
        PROVE  /\ OwedBy(u)[loan] = IF loan.borrower = u THEN loan.remaining ELSE 0
               /\ OwedBy(u)[s] = IF loan.borrower = u THEN loan.remaining + fee - amount ELSE 0
    <3>1. /\ OwedBy(u)[loan] = IF loan.borrower = u THEN loan.remaining ELSE 0
          /\ OwedBy(u)[s] = IF s.borrower = u /\ s.status = "Active" THEN s.remaining ELSE 0
      BY <1>1, <1>3, WeightValues
    <3>2. last => loan.remaining + fee - amount = 0
      BY <1>5, <1>6
    <3>3. QED BY <1>3, <3>1, <3>2
  <2>2. /\ Escrowed[loan] = loan.guarantee /\ Exposed[loan] = NonNegative(Shortfall(loan))
        /\ LentOut[loan] = Shortfall(loan) /\ KeptByPool[loan] = 0
        /\ Escrowed[s] = IF last THEN 0 ELSE loan.guarantee
        /\ Exposed[s] = IF last THEN 0 ELSE NonNegative(Shortfall(s))
        /\ LentOut[s] = IF last THEN 0 ELSE Shortfall(s)
        /\ KeptByPool[s] = IF last THEN loan.guarantee ELSE 0
    BY <1>1, <1>3, WeightValues
  <2>3. \A v \in Merchants : PaidOutTo(v)[s] = PaidOutTo(v)[loan]
    BY <1>1, <1>3, <1>7, WeightValues
  <2>4. QED BY <2>1, <2>2, <2>3
<1>9. /\ \A u \in Borrowers : Total(OwedBy(u), loans) \in Nat
      /\ Total(Escrowed, loans) \in Nat /\ Total(Exposed, loans) \in Nat
      /\ Total(LentOut, loans) \in Int /\ Total(KeptByPool, loans) \in Nat
      /\ \A v \in Merchants : /\ Total(PaidOutTo(v), loans) \in Int
                              /\ PaidOutTo(v)[loan] \in Int
  BY <1>1, TotalsTyped, Weights
<1>10. /\ loans' \in Seq(LoanRecord) /\ LoansOkay' /\ (NoneDefaulted' => NoneDefaulted)
       /\ \A u \in Borrowers : Total(OwedBy(u), loans')
            = Total(OwedBy(u), loans) - OwedBy(u)[loan] + OwedBy(u)[s]
       /\ Total(Escrowed, loans') = Total(Escrowed, loans) - Escrowed[loan] + Escrowed[s]
       /\ Total(Exposed, loans') = Total(Exposed, loans) - Exposed[loan] + Exposed[s]
       /\ Total(LentOut, loans') = Total(LentOut, loans) - LentOut[loan] + LentOut[s]
       /\ Total(KeptByPool, loans')
            = Total(KeptByPool, loans) - KeptByPool[loan] + KeptByPool[s]
       /\ \A v \in Merchants : Total(PaidOutTo(v), loans')
            = Total(PaidOutTo(v), loans) - PaidOutTo(v)[loan] + PaidOutTo(v)[s]
  <2>1. loans[id].status # "Defaulted"
    BY <1>3 DEF loan
  <2>2. QED BY <1>2, <1>3, <2>1, LoanMoved DEF loan
<1>11. DebtOkay' /\ debt' \in [Borrowers -> Nat]
  <2> DEFINE borrower == loan.borrower
             d == fee - amount
  <2>1. ASSUME NEW u \in Borrowers
        PROVE  Total(OwedBy(u), loans')
                 = IF u = borrower THEN Total(OwedBy(u), loans) + d ELSE Total(OwedBy(u), loans)
    <3>1. Total(OwedBy(u), loans') = Total(OwedBy(u), loans) - OwedBy(u)[loan]
            + OwedBy(u)[s]
      BY <1>10
    <3>2. QED BY <1>5, <1>8, <1>9, <3>1
  <2>2. /\ borrower \in Borrowers /\ d \in Int
        /\ debt' = [debt EXCEPT ![borrower] = debt[borrower] + d]
    <3>1. debt[borrower] \in Nat /\ borrower \in Borrowers
      BY <1>5, InvFacts
    <3>2. debt[borrower] + fee - amount = debt[borrower] + d
      BY <1>5, <3>1
    <3>3. QED BY <1>2, <1>5, <1>6, <3>1, <3>2
  <2> HIDE DEF borrower, d
  <2>3. QED BY <1>10, <2>1, <2>2, DebtMoved
<1>12. score' \in [Borrowers -> 0..MaxScore]
  <2>1. Reward(owed, now) \in Nat
    BY DEF Reward
  <2>2. CASE last
    <3> DEFINE raised == score[loan.borrower] + Reward(owed, now)
    <3>1. score' = [score EXCEPT ![loan.borrower] = raised]
      BY <1>2, <1>6, <2>2
    <3>2. RaiseOk(score[loan.borrower], Reward(owed, now))
      BY <1>2, <1>6, <2>2
    <3>3. score[loan.borrower] \in 0..MaxScore
      BY <1>1, <1>5
    <3>4. raised \in 0..MaxScore
      BY <2>1, <3>2, <3>3 DEF RaiseOk, MaxScore
    <3> HIDE DEF raised
    <3>5. QED BY <1>1, <1>5, <3>1, <3>4
  <2>3. CASE ~last
    BY <1>1, <1>2, <2>3
  <2>4. QED BY <2>2, <2>3
<1>13. TypeOK' /\ PoolOkay'
  BY <1>2, <1>4, <1>10, <1>11, <1>12 DEF Inv, TypeOK, PoolOkay
<1>14. EscrowOkay'
  BY <1>1, <1>4, <1>5, <1>8, <1>9, <1>10 DEF Inv, EscrowOkay
<1>15. FundedOkay'
  <2>1. ASSUME NEW v \in Merchants PROVE pool'.funded[v] = Total(PaidOutTo(v), loans')
    <3>1. /\ PaidOutTo(v)[s] = PaidOutTo(v)[loan] /\ PaidOutTo(v)[loan] \in Int
          /\ Total(PaidOutTo(v), loans) \in Int
          /\ Total(PaidOutTo(v), loans')
               = Total(PaidOutTo(v), loans) - PaidOutTo(v)[loan] + PaidOutTo(v)[s]
      BY <1>8, <1>9, <1>10
    <3>2. Total(PaidOutTo(v), loans') = Total(PaidOutTo(v), loans)
      BY <3>1
    <3>3. QED BY <1>4, <3>2 DEF Inv, FundedOkay
  <2>2. QED BY <2>1 DEF FundedOkay
<1>16. SolventOkay'
  <2>1. pp + Exposed[s] >= Exposed[loan] /\ Exposed[s] \in Nat /\ Exposed[loan] \in Nat
    BY <1>3, <1>4, <1>5, <1>7, <1>8 DEF NonNegative, Greatest
  <2>2. bal[PoolAcct] + Total(Exposed, loans) >= pool.liquidity
    BY DEF Inv, SolventOkay
  <2>3. /\ Total(Exposed, loans) \in Nat
        /\ Total(Exposed, loans') = Total(Exposed, loans) - Exposed[loan] + Exposed[s]
    BY <1>9, <1>10
  <2>4. /\ bal'[PoolAcct] = bal[PoolAcct] + pp + lp /\ pool'.liquidity = pool.liquidity + lp
        /\ pp \in Nat /\ lp \in Nat
    BY <1>3, <1>4
  <2>5. bal'[PoolAcct] + Total(Exposed, loans') >= pool'.liquidity
    <3>1. \A b, e, q, x, y, m, n \in Int :
            m + y >= x /\ b + e >= q => (b + m + n) + (e - x + y) >= q + n
      OBVIOUS
    <3>2. /\ bal[PoolAcct] \in Int /\ Total(Exposed, loans) \in Int /\ pool.liquidity \in Int
          /\ Exposed[loan] \in Int /\ Exposed[s] \in Int /\ pp \in Int /\ lp \in Int
      BY <1>1, <2>1, <2>3, <2>4
    <3>3. (bal[PoolAcct] + pp + lp) + (Total(Exposed, loans) - Exposed[loan] + Exposed[s])
            >= pool.liquidity + lp
      BY <2>1, <2>2, <3>1, <3>2
    <3>4. QED BY <2>3, <2>4, <3>3
  <2>6. QED BY <2>5 DEF SolventOkay
<1>17. AvailableOkay'
  <2>1. pool'.locked \in Nat /\ pool'.locked >= pool.locked - pp
    BY <1>1, <1>3, <1>4 DEF NonNegative, Greatest
  <2>2. NoneDefaulted' => pool.liquidity - pool.locked <= bal[PoolAcct]
    BY <1>10 DEF Inv, AvailableOkay, Available
  <2>3. QED BY <1>1, <1>3, <1>4, <2>1, <2>2 DEF AvailableOkay, Available
<1>18. TokensOkay'
  <2>1. /\ LentOut[loan] \in Int /\ LentOut[s] \in Int
        /\ KeptByPool[loan] = 0 /\ KeptByPool[s] \in Nat
        /\ pp = LentOut[loan] - LentOut[s] + KeptByPool[s]
    BY <1>3, <1>4, <1>5, <1>7, <1>8
  <2>2. NoneDefaulted' => bal[PoolAcct] = pool.liquidity - Total(LentOut, loans)
                                            + Total(KeptByPool, loans)
    BY <1>10 DEF Inv, TokensOkay
  <2>3. /\ Total(LentOut, loans) \in Int /\ Total(KeptByPool, loans) \in Nat
        /\ Total(LentOut, loans') = Total(LentOut, loans) - LentOut[loan] + LentOut[s]
        /\ Total(KeptByPool, loans')
             = Total(KeptByPool, loans) - KeptByPool[loan] + KeptByPool[s]
    BY <1>9, <1>10
  <2>4. /\ bal'[PoolAcct] = bal[PoolAcct] + pp + lp /\ pool'.liquidity = pool.liquidity + lp
        /\ pp \in Nat /\ lp \in Nat
    BY <1>3, <1>4
  <2>5. NoneDefaulted' => bal'[PoolAcct] = pool'.liquidity - Total(LentOut, loans')
                                             + Total(KeptByPool, loans')
    <3>1. \A q, e, k, x, y, z, m, n \in Int :
            m = x - y + z => (q - e + k) + m + n = (q + n) - (e - x + y) + (k - 0 + z)
      OBVIOUS
    <3>2. /\ pool.liquidity \in Int /\ Total(LentOut, loans) \in Int
          /\ Total(KeptByPool, loans) \in Int /\ LentOut[loan] \in Int /\ LentOut[s] \in Int
          /\ KeptByPool[s] \in Int /\ pp \in Int /\ lp \in Int
      <4>1. LentOut[loan] \in Int /\ LentOut[s] \in Int /\ KeptByPool[s] \in Int
        BY <2>1
      <4>2. Total(LentOut, loans) \in Int /\ Total(KeptByPool, loans) \in Int
        BY <2>3
      <4>3. pool.liquidity \in Int /\ pp \in Int /\ lp \in Int
        BY <1>1, <2>4
      <4>4. QED BY <4>1, <4>2, <4>3
    <3>3. (pool.liquidity - Total(LentOut, loans) + Total(KeptByPool, loans)) + pp + lp
            = (pool.liquidity + lp) - (Total(LentOut, loans) - LentOut[loan] + LentOut[s])
                + (Total(KeptByPool, loans) - 0 + KeptByPool[s])
      BY <2>1, <3>1, <3>2
    <3>4. QED BY <2>1, <2>2, <2>3, <2>4, <3>3
  <2>6. QED BY <2>5 DEF TokensOkay
<1>19. QED BY <1>10, <1>11, <1>13, <1>14, <1>15, <1>16, <1>17, <1>18 DEF Inv

\* What a default does to the pool: the guarantee comes in as tokens; the
\* liquidity gains at most as much, and then loses the shortfall, or all.
LEMMA DefaultEffect ==
  ASSUME Inv, NEW id \in LoanIds, MarkDefaulted(id)
  PROVE  LET loan == loans[id]
         IN  /\ pool' \in PoolType /\ SharesAccountedIn(pool') /\ pool'.locked <= pool'.liquidity
             /\ pool'.funded = pool.funded
             /\ pool'.liquidity <= pool.liquidity + loan.guarantee - NonNegative(Shortfall(loan))
                  \/ pool'.liquidity = 0
             /\ bal' \in [Accounts -> Nat]
             /\ bal'[PoolAcct] = bal[PoolAcct] + loan.guarantee
             /\ bal'[CreditLineAcct] = bal[CreditLineAcct] - loan.guarantee
<1> DEFINE loan == loans[id]
           g == loan.guarantee
           short == Shortfall(loan)
           p1 == ReceiveGuaranteeInto(pool, g)
<1>1. /\ bal \in [Accounts -> Nat] /\ pool \in PoolType /\ SharesAccountedIn(pool)
      /\ pool.locked \in Nat /\ pool.liquidity \in Nat /\ pool.locked <= pool.liquidity
      /\ loan \in LoanRecord
  BY InvFacts
<1>2. /\ bal[CreditLineAcct] >= g
      /\ pool' = IF short > 0 THEN AbsorbLossFrom(p1, short) ELSE p1
      /\ bal' = Transfer(bal, CreditLineAcct, PoolAcct, g)
  BY DEF MarkDefaulted, MarkDefaultedOk, ReceiveGuaranteeOk, TransferOk
<1>3. g \in Nat /\ short \in Int
  BY <1>1, LoanNumbers DEF Shortfall
<1> HIDE DEF g, short
<1>4. /\ p1 \in PoolType /\ SharesAccountedIn(p1) /\ p1.locked <= p1.liquidity
      /\ p1.liquidity = pool.liquidity + Least(g, pool.locked) /\ p1.funded = pool.funded
  BY <1>1, <1>3, ReceiveGuaranteeEffect
<1> HIDE DEF p1
<1>5. p1.liquidity \in Nat /\ p1.liquidity <= pool.liquidity + g
  BY <1>1, <1>3, <1>4 DEF Least
<1>6. /\ pool' \in PoolType /\ SharesAccountedIn(pool') /\ pool'.locked <= pool'.liquidity
      /\ pool'.funded = pool.funded
      /\ pool'.liquidity <= pool.liquidity + g - NonNegative(short) \/ pool'.liquidity = 0
  <2>1. CASE short > 0
    <3> DEFINE p2 == AbsorbLossFrom(p1, short)
    <3>1. short \in Nat
      BY <1>3, <2>1
    <3>2. /\ p2 \in PoolType /\ SharesAccountedIn(p2) /\ p2.locked <= p2.liquidity
          /\ p2.liquidity = p1.liquidity - Least(short, p1.liquidity)
          /\ p2.funded = p1.funded
      BY <1>4, <3>1, AbsorbLossEffect
    <3> HIDE DEF p2
    <3>3. p2.liquidity <= pool.liquidity + g - NonNegative(short) \/ p2.liquidity = 0
      BY <1>1, <1>3, <1>5, <2>1, <3>1, <3>2 DEF Least, NonNegative, Greatest
    <3>4. pool' = p2
      BY <1>2, <2>1 DEF p2
    <3>5. QED BY <1>4, <3>2, <3>3, <3>4
  <2>2. CASE ~(short > 0)
    <3>1. pool' = p1
      BY <1>2, <2>2
    <3>2. NonNegative(short) = 0
      BY <1>3, <2>2 DEF NonNegative, Greatest
    <3>3. QED BY <1>1, <1>3, <1>4, <1>5, <3>1, <3>2
  <2>3. QED BY <2>1, <2>2
<1>7. /\ PoolAcct \in Accounts /\ CreditLineAcct \in Accounts /\ PoolAcct # CreditLineAcct
  BY SystemAccounts
<1>8. bal' \in [Accounts -> Nat]
  BY <1>1, <1>2, <1>3, <1>7, TransferType
<1>9. bal'[PoolAcct] = bal[PoolAcct] + g /\ bal'[CreditLineAcct] = bal[CreditLineAcct] - g
  BY <1>1, <1>2, <1>3, <1>7 DEF Transfer
<1>10. QED BY <1>6, <1>8, <1>9 DEF g, short

\* A default, the tokens of the guarantee included: the exposure of the loan
\* ends, and the liquidity with it unless nothing of it is left.
LEMMA MarkDefaultedInv ==
  ASSUME Inv, NEW id \in LoanIds, MarkDefaulted(id)
  PROVE  Inv'
<1> DEFINE loan == loans[id]
           closed == [loan EXCEPT !.status = "Defaulted"]
           x == NonNegative(Shortfall(loan))
<1>1. /\ loans \in Seq(LoanRecord) /\ loan \in LoanRecord /\ LoanOkay(loan)
      /\ bal[PoolAcct] \in Nat /\ bal[CreditLineAcct] \in Nat /\ pool.liquidity \in Nat
      /\ score \in [Borrowers -> 0..MaxScore] /\ params \in ParamChoices
  BY InvFacts
<1>2. /\ loan.status = "Active"
      /\ loans' = [loans EXCEPT ![id] = closed]
      /\ debt' = [debt EXCEPT ![loan.borrower] = debt[loan.borrower] - loan.remaining]
      /\ LowerOk(score[loan.borrower], Penalty(params, loan))
      /\ score' = [score EXCEPT ![loan.borrower] = score[loan.borrower] - Penalty(params, loan)]
      /\ UNCHANGED <<paused, params, vendorStatus, now>>
  BY DEF MarkDefaulted, MarkDefaultedOk
<1>3. /\ pool' \in PoolType /\ SharesAccountedIn(pool') /\ pool'.locked <= pool'.liquidity
      /\ pool'.funded = pool.funded
      /\ pool'.liquidity <= pool.liquidity + loan.guarantee - x \/ pool'.liquidity = 0
      /\ bal' \in [Accounts -> Nat]
      /\ bal'[PoolAcct] = bal[PoolAcct] + loan.guarantee
      /\ bal'[CreditLineAcct] = bal[CreditLineAcct] - loan.guarantee
  BY DefaultEffect
<1>4. /\ loan.borrower \in Borrowers /\ loan.guarantee \in Nat /\ loan.remaining \in Nat
      /\ x \in Nat
  BY <1>1, LoanNumbers DEF Shortfall, NonNegative, Greatest
<1> HIDE DEF loan
<1>5. /\ closed \in LoanRecord /\ closed.status = "Defaulted"
      /\ closed.borrower = loan.borrower /\ closed.vendor = loan.vendor
      /\ closed.total = loan.total /\ closed.guarantee = loan.guarantee
      /\ closed.principal = loan.principal /\ closed.interest = loan.interest
      /\ closed.fee = loan.fee /\ closed.late = loan.late /\ closed.remaining = loan.remaining
  BY <1>1, StatusChanged DEF LoanStatus
<1> HIDE DEF closed
<1>6. LoanOkay(closed) /\ Contribution(closed) = Contribution(loan)
  BY <1>1, <1>2, <1>5 DEF LoanOkay, Contribution
<1>7. /\ \A u \in Borrowers :
           /\ OwedBy(u)[loan] = IF loan.borrower = u THEN loan.remaining ELSE 0
           /\ OwedBy(u)[closed] = 0
      /\ Escrowed[loan] = loan.guarantee /\ Escrowed[closed] = 0
      /\ Exposed[loan] = x /\ Exposed[closed] = 0
      /\ \A v \in Merchants : PaidOutTo(v)[closed] = PaidOutTo(v)[loan]
  <2>1. /\ Escrowed[loan] = loan.guarantee /\ Escrowed[closed] = 0
        /\ Exposed[loan] = x /\ Exposed[closed] = 0
    BY <1>1, <1>2, <1>5, WeightValues
  <2>2. \A u \in Borrowers :
          /\ OwedBy(u)[loan] = IF loan.borrower = u THEN loan.remaining ELSE 0
          /\ OwedBy(u)[closed] = 0
    BY <1>1, <1>2, <1>5, WeightValues
  <2>3. \A v \in Merchants : PaidOutTo(v)[closed] = PaidOutTo(v)[loan]
    BY <1>1, <1>2, <1>5, <1>6, WeightValues
  <2>4. QED BY <2>1, <2>2, <2>3
<1> HIDE DEF x
<1>8. /\ \A u \in Borrowers : Total(OwedBy(u), loans) \in Nat
      /\ Total(Escrowed, loans) \in Nat /\ Total(Exposed, loans) \in Nat
      /\ \A v \in Merchants : /\ Total(PaidOutTo(v), loans) \in Int
                              /\ PaidOutTo(v)[loan] \in Int
  BY <1>1, TotalsTyped, Weights
<1>9. /\ loans' \in Seq(LoanRecord) /\ LoansOkay' /\ ~NoneDefaulted'
      /\ \A u \in Borrowers : Total(OwedBy(u), loans')
           = Total(OwedBy(u), loans) - OwedBy(u)[loan] + OwedBy(u)[closed]
      /\ Total(Escrowed, loans') = Total(Escrowed, loans) - Escrowed[loan] + Escrowed[closed]
      /\ Total(Exposed, loans') = Total(Exposed, loans) - Exposed[loan] + Exposed[closed]
      /\ \A v \in Merchants : Total(PaidOutTo(v), loans')
           = Total(PaidOutTo(v), loans) - PaidOutTo(v)[loan] + PaidOutTo(v)[closed]
  BY <1>2, <1>5, <1>6, LoanMoved DEF loan
<1>10. DebtOkay' /\ debt' \in [Borrowers -> Nat]
  <2> DEFINE borrower == loan.borrower
             d == -loan.remaining
  <2>1. ASSUME NEW u \in Borrowers
        PROVE  Total(OwedBy(u), loans')
                 = IF u = borrower THEN Total(OwedBy(u), loans) + d ELSE Total(OwedBy(u), loans)
    <3>1. Total(OwedBy(u), loans') = Total(OwedBy(u), loans) - OwedBy(u)[loan]
            + OwedBy(u)[closed]
      BY <1>9
    <3>2. /\ OwedBy(u)[loan] = IF loan.borrower = u THEN loan.remaining ELSE 0
          /\ OwedBy(u)[closed] = 0 /\ Total(OwedBy(u), loans) \in Nat
      BY <1>7, <1>8
    <3>3. QED BY <1>4, <3>1, <3>2
  <2>2. /\ borrower \in Borrowers /\ d \in Int
        /\ debt' = [debt EXCEPT ![borrower] = debt[borrower] + d]
    <3>1. debt[borrower] \in Nat /\ borrower \in Borrowers
      BY <1>4, InvFacts
    <3>2. debt[borrower] - loan.remaining = debt[borrower] + d
      BY <1>4, <3>1
    <3>3. debt' = [debt EXCEPT ![borrower] = debt[borrower] - loan.remaining]
      BY <1>2
    <3>4. d \in Int
      BY <1>4
    <3> HIDE DEF d, borrower
    <3>5. QED BY <3>1, <3>2, <3>3, <3>4
  <2> HIDE DEF borrower, d
  <2>3. QED BY <1>9, <2>1, <2>2, DebtMoved
<1>11. score' \in [Borrowers -> 0..MaxScore]
  <2> DEFINE lowered == score[loan.borrower] - Penalty(params, loan)
  <2>1. Penalty(params, loan) \in Nat
    BY <1>1, CreditLineAssumption DEF Penalty
  <2>2. score[loan.borrower] \in 0..MaxScore
    BY <1>1, <1>4
  <2>3. lowered \in 0..MaxScore
    BY <1>2, <2>1, <2>2 DEF LowerOk, MaxScore
  <2>4. score' = [score EXCEPT ![loan.borrower] = lowered]
    BY <1>2
  <2> HIDE DEF lowered
  <2>5. QED BY <1>1, <1>4, <2>3, <2>4
<1>12. TypeOK' /\ PoolOkay'
  BY <1>2, <1>3, <1>9, <1>10, <1>11 DEF Inv, TypeOK, PoolOkay
<1>13. EscrowOkay'
  <2>1. bal[CreditLineAcct] = Total(Escrowed, loans)
    BY DEF Inv, EscrowOkay
  <2>2. Total(Escrowed, loans') = Total(Escrowed, loans) - loan.guarantee
    BY <1>4, <1>7, <1>8, <1>9
  <2>3. QED BY <1>3, <2>1, <2>2 DEF EscrowOkay
<1>14. FundedOkay'
  <2>1. ASSUME NEW v \in Merchants PROVE pool'.funded[v] = Total(PaidOutTo(v), loans')
    <3>1. /\ PaidOutTo(v)[closed] = PaidOutTo(v)[loan] /\ PaidOutTo(v)[loan] \in Int
          /\ Total(PaidOutTo(v), loans) \in Int
          /\ Total(PaidOutTo(v), loans')
               = Total(PaidOutTo(v), loans) - PaidOutTo(v)[loan] + PaidOutTo(v)[closed]
      BY <1>7, <1>8, <1>9
    <3>2. Total(PaidOutTo(v), loans') = Total(PaidOutTo(v), loans)
      BY <3>1
    <3>3. QED BY <1>3, <3>2 DEF Inv, FundedOkay
  <2>2. QED BY <2>1 DEF FundedOkay
<1>15. SolventOkay'
  <2>1. Total(Exposed, loans') = Total(Exposed, loans) - x
    BY <1>4, <1>7, <1>8, <1>9
  <2>2. Total(Exposed, loans') \in Nat
    BY <1>9, TotalsTyped
  <2>3. bal[PoolAcct] + Total(Exposed, loans) >= pool.liquidity
    BY DEF Inv, SolventOkay
  <2>4. bal'[PoolAcct] + Total(Exposed, loans') >= pool'.liquidity
    <3>1. bal'[PoolAcct] = bal[PoolAcct] + loan.guarantee
      BY <1>3
    <3>2. pool'.liquidity \in Nat
      BY <1>3 DEF PoolType
    <3>3. CASE pool'.liquidity = 0
      BY <1>1, <1>4, <2>2, <3>1, <3>3
    <3>4. CASE pool'.liquidity <= pool.liquidity + loan.guarantee - x
      <4>1. \A b, e, q, l, g, y \in Int :
              b + e >= q /\ l <= q + g - y => (b + g) + (e - y) >= l
        OBVIOUS
      <4>2. /\ bal[PoolAcct] \in Int /\ Total(Exposed, loans) \in Int /\ pool.liquidity \in Int
            /\ pool'.liquidity \in Int /\ loan.guarantee \in Int /\ x \in Int
        BY <1>1, <1>4, <1>8, <3>2
      <4>3. (bal[PoolAcct] + loan.guarantee) + (Total(Exposed, loans) - x) >= pool'.liquidity
        BY <2>3, <3>4, <4>1, <4>2
      <4>4. QED BY <2>1, <3>1, <4>3
    <3>5. QED BY <1>3, <3>3, <3>4
  <2>5. QED BY <2>4 DEF SolventOkay
<1>16. AvailableOkay' /\ TokensOkay'
  BY <1>9 DEF AvailableOkay, TokensOkay
<1>17. QED BY <1>9, <1>10, <1>12, <1>13, <1>14, <1>15, <1>16 DEF Inv

\* An amount that is accepted is a natural number, wherever it came from.
LEMMA Inputs ==
  /\ RepayAmounts \subseteq Nat /\ DepositAmounts \subseteq Nat
  /\ Inv => \A id \in LoanIds : \A a \in Payments(id) : SettleOk(id, a) => a \in Nat
<1>1. ASSUME Inv, NEW id \in LoanIds, NEW a \in Payments(id), SettleOk(id, a)
      PROVE  a \in Nat
  <2> DEFINE owed == Accrue(loans[id], now)
  <2>1. loans[id] \in LoanRecord /\ now \in Nat
    BY <1>1, InvFacts
  <2>2. owed \in LoanRecord
    BY <2>1, AccrueEffect
  <2>3. owed.remaining \in Nat /\ owed.late \in Nat
    BY <2>2, LoanNumbers
  <2>4. a > 0
    BY <1>1 DEF SettleOk
  <2>5. a \in RepayAmounts \/ a = owed.remaining \/ a = owed.late - 1
    BY <1>1 DEF Payments, Owed
  <2> HIDE DEF owed
  <2>6. QED BY <2>3, <2>4, <2>5, CreditLineAssumption
<1>2. QED BY <1>1, CreditLineAssumption

LEMMA NextInv == Inv /\ [Next]_vars => Inv'
<1> SUFFICES ASSUME Inv, [Next]_vars PROVE Inv'
  OBVIOUS
<1>1. CASE \E u \in Borrowers, v \in Merchants, r \in Requests :
             Len(loans) < MaxLoans /\ CreateLoan(u, v, r)
  BY <1>1, CreateLoanInv
<1>2. CASE \E u \in Borrowers, v \in Merchants, r \in Requests :
             Len(loans) < MaxLoans /\ RequestLoan(u, v, r)
  BY <1>2, RequestLoanInv
<1>3. CASE \E id \in LoanIds : ApproveLoan(id)
  BY <1>3, ApproveLoanInv
<1>4. CASE \E id \in LoanIds : CancelLoan(id)
  BY <1>4, CancelLoanInv
<1>5. CASE \E id \in LoanIds : \E a \in Payments(id) : RepayLoan(id, a)
  BY <1>5, Inputs, SettleInv DEF RepayLoan
<1>6. CASE \E id \in LoanIds : \E k \in DOMAIN loans[id].schedule, a \in Payments(id) :
                                  RepayInstallment(id, k, a)
  BY <1>6, Inputs, SettleInv DEF RepayInstallment
<1>7. CASE \E id \in LoanIds : ApplyLateFees(id)
  BY <1>7, ApplyLateFeesInv
<1>8. CASE \E id \in LoanIds : MarkDefaulted(id)
  BY <1>8, MarkDefaultedInv
<1>9. CASE \E l \in Providers, a \in DepositAmounts : Deposit(l, a)
  BY <1>9, Inputs, DepositInv
<1>10. CASE \E l \in Providers : Withdraw(l, pool.lp[l])
  BY <1>10, WithdrawInv
<1>11. CASE \/ \E p \in PauseChoices : SetPaused(p)
            \/ \E p \in PauseChoices : SetPoolPaused(p)
            \/ \E u \in Borrowers, s \in ScoreChoices : UpdateScore(u, s)
            \/ \E v \in MovedVendors : RegisterVendor(v)
            \/ \E v \in MovedVendors : ApproveVendor(v)
            \/ \E v \in MovedVendors : ActivateVendor(v)
            \/ \E v \in MovedVendors : SuspendVendor(v)
            \/ \E p \in ParamChoices : ExecuteParameters(p)
            \/ Tick
            \/ UNCHANGED vars
  BY <1>11, OthersInv
<1>12. QED
  BY <1>1, <1>2, <1>3, <1>4, <1>5, <1>6, <1>7, <1>8, <1>9, <1>10, <1>11 DEF Next

LEMMA InvHolds == Spec => []Inv
BY InitInv, NextInv, PTL DEF Spec

-----------------------------------------------------------------------------
(* The theorems                                                            *)

\* Every balance, bucket, debt counter and score keeps its type: no payment,
\* fee, default or refund ever takes one below zero.
THEOREM TypesHold == Spec => []TypeOK
<1>1. Inv => TypeOK
  BY DEF Inv
<1>2. QED BY <1>1, InvHolds, PTL

\* The remaining balance of a loan is the sum of its four buckets through every
\* mix of accruals, partial payments and installments, and the paid loans are
\* exactly those with nothing left.
THEOREM BucketsBalance == Spec => []LoansBalanced
<1>1. Inv => LoansBalanced
  BY DEF Inv, LoansOkay, LoanOkay, LoansBalanced
<1>2. QED BY <1>1, InvHolds, PTL

\* The debt counter of every borrower, which seven transactions adjust each by
\* its own amount, is what the borrower's active loans add up to.
THEOREM DebtsAddUp == Spec => []DebtIsActiveBalance
<1>1. ASSUME Inv, NEW u \in Borrowers
      PROVE  debt[u] = Sum([id \in LoanIds |->
                              IF loans[id].borrower = u /\ loans[id].status = "Active"
                              THEN loans[id].remaining ELSE 0], LoanIds)
  <2> DEFINE f == [id \in LoanIds |-> IF loans[id].borrower = u /\ loans[id].status = "Active"
                                      THEN loans[id].remaining ELSE 0]
  <2>1. debt[u] = Total(OwedBy(u), loans)
    BY <1>1 DEF Inv, DebtOkay
  <2>2. \A id \in LoanIds : loans[id] \in LoanRecord
    BY <1>1, InvFacts
  <2>3. f = [id \in DOMAIN loans |-> OwedBy(u)[loans[id]]]
    BY <2>2 DEF OwedBy, LoanIds
  <2> HIDE DEF f
  <2>4. Total(OwedBy(u), loans) = Sum(f, LoanIds)
    BY <2>3 DEF Total, LoanIds
  <2>5. QED BY <2>1, <2>4 DEF f
<1>2. Inv => DebtIsActiveBalance
  BY <1>1 DEF DebtIsActiveBalance
<1>3. QED BY <1>2, InvHolds, PTL

\* The credit line's account holds the guarantees of the pending and the active
\* loans and nothing else: no guarantee is refunded or forfeited twice, and
\* none is left behind.
THEOREM EscrowHeld == Spec => []EscrowExact
<1>1. ASSUME Inv PROVE EscrowExact
  <2> DEFINE f == [id \in LoanIds |-> IF loans[id].status \in {"Pending", "Active"}
                                      THEN loans[id].guarantee ELSE 0]
  <2>1. bal[CreditLineAcct] = Total(Escrowed, loans)
    BY <1>1 DEF Inv, EscrowOkay
  <2>2. \A id \in LoanIds : loans[id] \in LoanRecord
    BY <1>1, InvFacts
  <2>3. f = [id \in DOMAIN loans |-> Escrowed[loans[id]]]
    BY <2>2 DEF Escrowed, LoanIds
  <2> HIDE DEF f
  <2>4. Total(Escrowed, loans) = Sum(f, LoanIds)
    BY <2>3 DEF Total, LoanIds
  <2>5. QED BY <2>1, <2>4 DEF f, EscrowExact
<1>2. QED BY <1>1, InvHolds, PTL

\* The liquidity that the pool reports is in its account or out on active
\* loans, after any mix of repayments, defaults, deposits and withdrawals.
THEOREM Solvency == Spec => []PoolSolvent
<1>1. ASSUME Inv PROVE PoolSolvent
  <2>1. \A id \in LoanIds : loans[id] \in LoanRecord
    BY <1>1, InvFacts
  <2>2. [id \in LoanIds |-> Exposure(loans[id])] = [id \in DOMAIN loans |-> Exposed[loans[id]]]
    BY <2>1 DEF Exposed, LoanIds
  <2>3. Outstanding = Total(Exposed, loans)
    BY <2>2 DEF Outstanding, Total, LoanIds
  <2>4. QED BY <1>1, <2>3 DEF Inv, SolventOkay, PoolSolvent
<1>2. QED BY <1>1, InvHolds, PTL

\* As long as nothing has defaulted, what the pool calls available is in its
\* account, although a full repayment unlocks more than its loan had locked.
THEOREM AvailableHeld == Spec => []AvailableIsHeldUntilDefault
<1>1. Inv => AvailableIsHeldUntilDefault
  BY DEF Inv, AvailableOkay, NoneDefaulted, AvailableIsHeldUntilDefault
<1>2. QED BY <1>1, InvHolds, PTL

\* As long as nothing has defaulted, the pool's account is its liquidity, less
\* what is out on active loans, plus the guarantees of the paid loans: those
\* the pool collected as principal, and no share can redeem them.
THEOREM PoolTokens == Spec => []PoolTokensExact
<1>1. ASSUME Inv PROVE PoolTokensExact
  <2> DEFINE lent == [id \in LoanIds |-> IF loans[id].status = "Active"
                                         THEN Shortfall(loans[id]) ELSE 0]
             kept == [id \in LoanIds |-> IF loans[id].status = "Paid"
                                         THEN loans[id].guarantee ELSE 0]
  <2>1. NoneDefaulted => bal[PoolAcct] = pool.liquidity - Total(LentOut, loans)
                                           + Total(KeptByPool, loans)
    BY <1>1 DEF Inv, TokensOkay
  <2>2. \A id \in LoanIds : loans[id] \in LoanRecord
    BY <1>1, InvFacts
  <2>3. lent = [id \in DOMAIN loans |-> LentOut[loans[id]]]
    BY <2>2 DEF LentOut, LoanIds
  <2>4. kept = [id \in DOMAIN loans |-> KeptByPool[loans[id]]]
    BY <2>2 DEF KeptByPool, LoanIds
  <2> HIDE DEF lent, kept
  <2>5. Total(LentOut, loans) = Sum(lent, LoanIds) /\ Total(KeptByPool, loans) = Sum(kept, LoanIds)
    BY <2>3, <2>4 DEF Total, LoanIds
  <2>6. QED BY <2>1, <2>5 DEF lent, kept, NoneDefaulted, PoolTokensExact
<1>2. QED BY <1>1, InvHolds, PTL

\* No state of the pool and no pause keeps a borrower who has the tokens from
\* paying a part of a debt.
THEOREM PartialRepaymentsPass == Spec => []PartialRepaymentNeverBlocked
<1>1. ASSUME Inv, NEW id \in LoanIds, NEW a \in RepayAmounts,
             loans[id].status = "Active", a > 0, a < Owed(id), bal[loans[id].borrower] >= a
      PROVE  SettleOk(id, a)
  <2> DEFINE loan == loans[id]
             owed == Accrue(loan, now)
             part == Allocation(owed, a)
             pp == part.principal
             rest == InterestAndFees(part)
             paid == Transfer(bal, owed.borrower, CreditLineAcct, a)
  <2>1. /\ loan \in LoanRecord /\ LoanOkay(loan) /\ now \in Nat
        /\ bal \in [Accounts -> Nat] /\ bal[CreditLineAcct] \in Nat
    BY <1>1, InvFacts
  <2>2. a \in Nat /\ a > 0 /\ a < owed.remaining /\ a # owed.remaining
    BY <1>1, Inputs DEF Owed
  <2>3. /\ owed \in LoanRecord /\ LoanOkay(owed) /\ owed.status = "Active"
        /\ owed.borrower = loan.borrower
    BY <1>1, <2>1, AccrueEffect, AccrueOkay
  <2>4. owed.borrower \in Borrowers /\ bal[owed.borrower] >= a /\ a <= owed.remaining
    BY <1>1, <2>2, <2>3, LoanNumbers
  <2> HIDE DEF owed
  <2>5. pp \in Nat /\ rest \in Nat /\ pp + rest = a
    BY <2>2, <2>3, <2>4, AllocationParts
  <2>6. paid[CreditLineAcct] = bal[CreditLineAcct] + a
    <3> DEFINE borrower == owed.borrower
    <3>1. borrower \in Borrowers /\ bal[borrower] >= a
      BY <2>4
    <3> HIDE DEF borrower
    <3>2. Transfer(bal, borrower, CreditLineAcct, a)[CreditLineAcct] = bal[CreditLineAcct] + a
      BY <2>1, <2>2, <3>1, PaidIn
    <3>3. QED BY <3>2 DEF borrower
  <2> HIDE DEF part, pp, rest, paid
  <2>7. pp >= 0 /\ rest >= 0 /\ pp + rest > 0 /\ paid[CreditLineAcct] >= pp + rest
    BY <2>1, <2>2, <2>5, <2>6
  <2>8. ReceiveRepaymentOk(paid, pp, rest)
    <3>1. TransferOk(paid, CreditLineAcct, pp + rest)
      BY <2>2, <2>5, <2>7 DEF TransferOk
    <3>2. QED BY <2>7, <3>1 DEF ReceiveRepaymentOk
  <2>9. QED BY <2>2, <2>3, <2>4, <2>8 DEF SettleOk, TransferOk, owed, part, pp, rest, paid
<1>2. Inv => PartialRepaymentNeverBlocked
  BY <1>1 DEF PartialRepaymentNeverBlocked
<1>3. QED BY <1>2, InvHolds, PTL

\* While neither contract is paused, a matured loan can be defaulted exactly
\* when the borrower's score can bear the penalty: the escrow always holds its
\* guarantee, and neither cap of the pool's two steps refuses.
THEOREM DefaultsOnlyNeedScore == Spec => []DefaultBlockedOnlyByScore
<1>1. ASSUME Inv, NEW id \in LoanIds, loans[id].status = "Active",
             Matured(params, loans[id], now), ~paused, ~pool.paused
      PROVE  MarkDefaultedOk(id) <=> LowerOk(score[loans[id].borrower], Penalty(params, loans[id]))
  <2> DEFINE loan == loans[id]
             g == loan.guarantee
             p1 == ReceiveGuaranteeInto(pool, g)
  <2>1. /\ loan \in LoanRecord /\ LoanOkay(loan) /\ loans \in Seq(LoanRecord)
        /\ pool \in PoolType /\ SharesAccountedIn(pool) /\ pool.locked <= pool.liquidity
    BY <1>1, InvFacts
  <2>2. g \in Nat /\ g > 0
    BY <2>1, LoanNumbers DEF LoanOkay
  <2>3. bal[CreditLineAcct] >= g
    <3>1. Escrowed \in [LoanRecord -> Nat] /\ id \in DOMAIN loans
      BY Weights DEF LoanIds
    <3>2. Total(Escrowed, loans) >= Escrowed[loan]
      BY <2>1, <3>1, TotalAtLeast
    <3>3. Escrowed[loan] = g
      BY <1>1, <2>1, WeightValues
    <3>4. QED BY <1>1, <3>2, <3>3 DEF Inv, EscrowOkay
  <2>4. ReceiveGuaranteeOk(pool, bal, g)
    BY <1>1, <2>2, <2>3 DEF ReceiveGuaranteeOk, TransferOk
  <2> HIDE DEF g
  <2>5. p1.paused = pool.paused
    BY <2>1, <2>2, ReceiveGuaranteeEffect
  <2>6. Shortfall(loan) > 0 => AbsorbLossOk(p1, Shortfall(loan))
    BY <1>1, <2>5 DEF AbsorbLossOk
  <2>7. QED BY <1>1, <2>4, <2>6 DEF MarkDefaultedOk, g
<1>2. Inv => DefaultBlockedOnlyByScore
  BY <1>1 DEF DefaultBlockedOnlyByScore
<1>3. QED BY <1>2, InvHolds, PTL

-----------------------------------------------------------------------------
(* The days late that are charged                                          *)

LEMMA DivRemainder ==
  ASSUME NEW a \in Nat, NEW b \in Nat \ {0}
  PROVE  a < (a \div b) * b + b
OBVIOUS

DuesOf(loan) == {loan.schedule[k].due : k \in DOMAIN loan.schedule}

\* The days an accrual charges for: whole days, from the cursor or a passed
\* due date, up to less than a day before now.
LEMMA AccrualDays ==
  ASSUME NEW loan \in LoanRecord, NEW t \in Nat, DaysLate(loan, t) # 0
  PROVE  LET from == AccrualStart(loan, t)
             days == DaysLate(loan, t)
         IN  /\ from \in DuesOf(loan) \cup {loan.accrued} /\ from \in Nat
             /\ days \in 1..t /\ days * Day \in Nat
             /\ from >= loan.accrued /\ \E due \in DuesOf(loan) : from >= due
             /\ from + days * Day <= t /\ t < from + days * Day + Day
<1> DEFINE from  == AccrualStart(loan, t)
           days  == DaysLate(loan, t)
           first == CHOOSE d \in PassedDues(loan, t) : \A e \in PassedDues(loan, t) : d <= e
<1>1. Day \in Nat \ {0} /\ loan.accrued \in Nat
  BY LoanAssumption, LoanNumbers
<1>2. /\ days \in Nat \ {0} /\ from \in Nat /\ from >= loan.accrued
      /\ from + days * Day \in (loan.accrued + Day)..t
  BY AccrualNat
<1>3. PassedDues(loan, t) # {} /\ days = NonNegative(t - from) \div Day
  BY <1>2 DEF DaysLate
<1>4. PassedDues(loan, t) \subseteq DuesOf(loan) /\ PassedDues(loan, t) \in SUBSET Nat
  <2>1. \A k \in DOMAIN loan.schedule : loan.schedule[k].due \in Nat
    <3>1. loan.schedule \in Seq([due : Nat, paid : BOOLEAN])
      BY LoanNumbers
    <3>2. \A k \in DOMAIN loan.schedule : loan.schedule[k] \in [due : Nat, paid : BOOLEAN]
      BY <3>1, ElementOfSeq, LenProperties, Zenon
    <3>3. QED BY <3>2
  <2>2. QED BY <2>1 DEF PassedDues, DuesOf
<1>5. first \in DuesOf(loan) /\ first \in Nat
  <2>1. first \in PassedDues(loan, t)
    BY <1>3, <1>4, LeastExists
  <2>2. QED BY <1>4, <2>1
<1>6. from = Greatest(loan.accrued, first)
  BY DEF AccrualStart
<1> HIDE DEF first, from, days
<1>7. from \in DuesOf(loan) \cup {loan.accrued} /\ from >= first
  BY <1>1, <1>5, <1>6 DEF Greatest
<1>8. days * Day \in Nat /\ days * Day >= days
  <2>1. Day * days \in Nat /\ Day * days >= days
    BY <1>1, <1>2, ProductGrows
  <2>2. \A m, n \in Nat : m * n = n * m
    OBVIOUS
  <2>3. QED BY <1>1, <1>2, <2>1, <2>2
<1>9. from + days * Day <= t /\ days \in 1..t
  BY <1>1, <1>2, <1>8
<1>10. t < from + days * Day + Day
  <2>1. t - from \in Nat /\ NonNegative(t - from) = t - from
    BY <1>2, <1>8, <1>9 DEF NonNegative, Greatest
  <2>2. t - from < days * Day + Day
    BY <1>1, <1>3, <2>1, DivRemainder
  <2>3. QED BY <1>1, <1>2, <1>8, <2>1, <2>2
<1>11. QED
  BY <1>2, <1>5, <1>7, <1>8, <1>9, <1>10 DEF from, days

\* What a step that takes a loan from before to after may charge.
Charging(before, after, charged) ==
  \/ charged = 0 /\ after.accrued = before.accrued
  \/ \E from \in DuesOf(before) \cup {before.accrued}, days \in 1..now :
       /\ charged = BpsOf(before.remaining, LateFeeBpsPerDay * days)
       /\ after.accrued = from + days * Day
       /\ from >= before.accrued /\ \E due \in DuesOf(before) : from >= due
       /\ after.accrued <= now /\ now < after.accrued + Day

\* An accrual charges the fee for just those days and leaves the cursor at
\* their end, or charges nothing and leaves the cursor where it was.
LEMMA AccrualCharges ==
  ASSUME NEW loan \in LoanRecord, now \in Nat, NEW after,
         after.accrued = Accrue(loan, now).accrued
  PROVE  Charging(loan, after, LateFee(loan, now))
<1>1. CASE LateFee(loan, now) = 0
  BY <1>1 DEF Accrue, Charging
<1>2. CASE LateFee(loan, now) # 0
  <2> DEFINE from == AccrualStart(loan, now)
             days == DaysLate(loan, now)
  <2>1. DaysLate(loan, now) # 0
    BY <1>2, LateFeeNat
  <2>2. /\ from \in DuesOf(loan) \cup {loan.accrued} /\ from \in Nat
        /\ days \in 1..now /\ days * Day \in Nat
        /\ from >= loan.accrued /\ \E due \in DuesOf(loan) : from >= due
        /\ from + days * Day <= now /\ now < from + days * Day + Day
    BY <2>1, AccrualDays
  <2>3. after.accrued = from + days * Day
    <3>1. Accrue(loan, now) = [loan EXCEPT !.accrued   = from + days * Day,
                                           !.late      = @ + LateFee(loan, now),
                                           !.remaining = @ + LateFee(loan, now)]
      BY <1>2 DEF Accrue
    <3> HIDE DEF from, days
    <3>2. QED BY <3>1 DEF LoanRecord
  <2>4. LateFee(loan, now) = BpsOf(loan.remaining, LateFeeBpsPerDay * days)
    BY DEF LateFee
  <2> HIDE DEF from, days
  <2>5. QED BY <2>2, <2>3, <2>4 DEF Charging
<1>3. QED BY <1>1, <1>2

LEMMA TransferElsewhere ==
  ASSUME NEW b \in [Accounts -> Nat], NEW from, NEW to, NEW amount, NEW x \in Accounts,
         x # from, x # to
  PROVE  Transfer(b, from, to, amount)[x] = b[x]
BY DEF Transfer

\* A borrower that collects the treasury's or the merchant fund's fees gets
\* part of its own payment back.
BorrowersApart == Borrowers \cap {Treasury, MerchantFund} = {}

\* Of a repayment the borrower's balance loses the amount, less the guarantee
\* that the last one returns.
LEMMA SettlePaid ==
  ASSUME Inv, BorrowersApart, NEW id \in LoanIds, NEW amount \in Nat, NEW marked,
         SettleOk(id, amount), Settle(id, amount, marked)
  PROVE  LET loan == loans[id]
             last == amount = Accrue(loan, now).remaining
         IN  bal'[loan.borrower] = IF last THEN bal[loan.borrower] - amount + loan.guarantee
                                   ELSE bal[loan.borrower] - amount
<1> DEFINE loan == loans[id]
           owed == Accrue(loan, now)
           part == Allocation(owed, amount)
           pp == part.principal
           rest == InterestAndFees(part)
           u == loan.borrower
           g == loan.guarantee
           paid == Transfer(bal, u, CreditLineAcct, amount)
           sent == PassOn(owed, amount)
           last == amount = owed.remaining
<1>1. loan \in LoanRecord /\ LoanOkay(loan) /\ now \in Nat /\ bal \in [Accounts -> Nat]
      /\ bal[CreditLineAcct] \in Nat
  BY InvFacts
<1>2. /\ owed \in LoanRecord /\ owed.status = loan.status
      /\ owed.borrower = u /\ owed.guarantee = g
  BY <1>1, AccrueEffect
<1>3. /\ owed.status = "Active" /\ amount <= owed.remaining /\ bal[u] >= amount
      /\ bal' = IF last THEN Transfer(sent, CreditLineAcct, u, g) ELSE sent
      /\ sent = TakeRepayment(paid, pp, rest)
  <2>1. /\ owed.status = "Active" /\ amount <= owed.remaining /\ bal[owed.borrower] >= amount
        /\ bal' = IF last THEN Transfer(sent, CreditLineAcct, owed.borrower, owed.guarantee)
                  ELSE sent
        /\ sent = TakeRepayment(Transfer(bal, owed.borrower, CreditLineAcct, amount), pp, rest)
    BY DEF SettleOk, TransferOk, Settle, PassOn
  <2> HIDE DEF loan, owed, sent, pp, rest
  <2>2. QED BY <1>2, <2>1
<1>4. LoanOkay(owed)
  BY <1>1, <1>2, <1>3, AccrueOkay
<1>5. u \in Borrowers /\ g \in Nat
  BY <1>1, LoanNumbers
<1> HIDE DEF owed
<1>6. pp \in Nat /\ rest \in Nat /\ pp + rest = amount
  BY <1>2, <1>3, <1>4, AllocationParts
<1> HIDE DEF loan, part, pp, rest, sent, last, g
<1>7. /\ u \in Accounts \ {PoolAcct, Treasury, MerchantFund} /\ u # CreditLineAcct
      /\ CreditLineAcct \in Accounts
  BY <1>5, SystemAccounts DEF BorrowersApart
<1> HIDE DEF u
<1>8. paid \in [Accounts -> Nat] /\ paid[CreditLineAcct] = bal[CreditLineAcct] + amount
  BY <1>1, <1>3, <1>5, PaidIn
<1>9. paid[u] = bal[u] - amount
  BY <1>1, <1>7 DEF Transfer
<1> HIDE DEF paid
<1>10. sent \in [Accounts -> Nat] /\ sent[u] = paid[u]
  <2>1. paid[CreditLineAcct] >= pp + rest
    BY <1>1, <1>6, <1>8
  <2>2. QED BY <1>3, <1>6, <1>7, <1>8, <2>1, SystemAccounts, TakeRepaymentEffect
<1>11. last => bal'[u] = sent[u] + g
  BY <1>3, <1>7, <1>10 DEF Transfer
<1>12. ~last => bal'[u] = sent[u]
  BY <1>3
<1>13. QED BY <1>9, <1>10, <1>11, <1>12 DEF last, u, g, owed, loan

\* A repayment charges the fee of its accrual, also when it pays it at once.
LEMMA SettleCharges ==
  ASSUME Inv, BorrowersApart, NEW id \in LoanIds, NEW amount \in Nat, NEW marked,
         SettleOk(id, amount), Settle(id, amount, marked)
  PROVE  /\ \A k \in LoanIds : k # id => loans'[k] = loans[k]
         /\ Charging(loans[id], loans'[id], Charged(id))
<1> DEFINE loan == loans[id]
           owed == Accrue(loan, now)
           fee  == LateFee(loan, now)
           s    == Settled(owed, amount, marked)
           last == amount = owed.remaining
           u    == loan.borrower
<1>1. /\ loans \in Seq(LoanRecord) /\ now \in Nat /\ loan \in LoanRecord /\ LoanOkay(loan)
      /\ bal \in [Accounts -> Nat]
  BY InvFacts
<1>2. /\ loan.remaining \in Nat /\ loan.guarantee \in Nat /\ fee \in Nat /\ bal[u] \in Nat
  BY <1>1, LoanNumbers, LateFeeNat, SystemAccounts
<1>3. /\ loan.status = "Active" /\ s \in LoanRecord
      /\ s.remaining = loan.remaining + fee - amount
      /\ s.status = IF last THEN "Paid" ELSE "Active"
  BY SettleEffect
<1>4. bal'[u] = IF last THEN bal[u] - amount + loan.guarantee ELSE bal[u] - amount
  BY SettlePaid
<1>5. s.accrued = owed.accrued
  <2>1. owed \in LoanRecord /\ owed.status = loan.status
    BY <1>1, AccrueEffect
  <2>2. amount <= owed.remaining
    BY DEF SettleOk
  <2>3. LoanOkay(owed)
    BY <1>1, <1>3, AccrueOkay
  <2> HIDE DEF owed
  <2>4. QED BY <1>3, <2>1, <2>2, <2>3, SettledEffect
<1>6. loans' = [loans EXCEPT ![id] = s]
  BY DEF Settle
<1>7. Charging(loan, s, fee)
  BY <1>1, <1>5, AccrualCharges
<1> HIDE DEF s, owed, fee
<1>8. \A k \in LoanIds : loans'[k] = IF k = id THEN s ELSE loans[k]
  BY <1>1, <1>3, <1>6, LoansExcept DEF LoanIds
<1>9. Charged(id) = fee
  <2>1. Charged(id) = s.remaining - loan.remaining
                        + (bal[u] - bal'[u] + (IF s.status = "Paid" THEN loan.guarantee ELSE 0))
    BY <1>8 DEF Charged, PaidOn
  <2>2. CASE last
    <3>1. s.status = "Paid" /\ bal'[u] = bal[u] - amount + loan.guarantee
      BY <1>3, <1>4, <2>2
    <3> HIDE DEF loan, u
    <3>2. QED BY <1>2, <1>3, <2>1, <3>1
  <2>3. CASE ~last
    <3>1. s.status = "Active" /\ bal'[u] = bal[u] - amount
      BY <1>3, <1>4, <2>3
    <3> HIDE DEF loan, u
    <3>2. QED BY <1>2, <1>3, <2>1, <3>1
  <2>4. QED BY <2>2, <2>3
<1>10. QED BY <1>7, <1>8, <1>9 DEF loan

\* An accrual alone charges its fee, and nobody pays.
LEMMA AccruedCharges ==
  ASSUME Inv, NEW id \in LoanIds, ApplyLateFees(id)
  PROVE  /\ \A k \in LoanIds : k # id => loans'[k] = loans[k]
         /\ Charging(loans[id], loans'[id], Charged(id))
<1> DEFINE loan == loans[id]
           owed == Accrue(loan, now)
           u    == loan.borrower
<1>1. /\ loans \in Seq(LoanRecord) /\ now \in Nat /\ loan \in LoanRecord
      /\ bal \in [Accounts -> Nat]
  BY InvFacts
<1>2. /\ loan.remaining \in Nat /\ LateFee(loan, now) \in Nat /\ bal[u] \in Nat
  BY <1>1, LoanNumbers, LateFeeNat, SystemAccounts
<1>3. /\ owed \in LoanRecord /\ owed.remaining = loan.remaining + LateFee(loan, now)
      /\ owed.status = loan.status
  BY <1>1, AccrueEffect
<1>4. loan.status = "Active" /\ loans' = [loans EXCEPT ![id] = owed] /\ bal' = bal
  BY DEF ApplyLateFees
<1>5. Charging(loan, owed, LateFee(loan, now))
  BY <1>1, AccrualCharges
<1> HIDE DEF owed
<1>6. \A k \in LoanIds : loans'[k] = IF k = id THEN owed ELSE loans[k]
  BY <1>1, <1>3, <1>4, LoansExcept DEF LoanIds
<1>7. Charged(id) = LateFee(loan, now)
  <2>1. Charged(id) = owed.remaining - loan.remaining
                        + (bal[u] - bal[u] + (IF owed.status = "Paid" THEN loan.guarantee ELSE 0))
    BY <1>4, <1>6 DEF Charged, PaidOn
  <2>2. owed.status # "Paid"
    BY <1>3, <1>4
  <2> HIDE DEF loan, u
  <2>3. QED BY <1>2, <1>3, <2>1, <2>2
<1>8. QED BY <1>5, <1>6, <1>7 DEF loan

\* A default charges nothing, and the borrower pays nothing.
LEMMA DefaultCharges ==
  ASSUME Inv, NEW id \in LoanIds, MarkDefaulted(id)
  PROVE  /\ \A k \in LoanIds : k # id => loans'[k] = loans[k]
         /\ Charging(loans[id], loans'[id], Charged(id))
<1> DEFINE loan == loans[id]
           new  == [loan EXCEPT !.status = "Defaulted"]
           u    == loan.borrower
           g    == loan.guarantee
<1>1. /\ loans \in Seq(LoanRecord) /\ loan \in LoanRecord /\ bal \in [Accounts -> Nat]
  BY InvFacts
<1>2. /\ loan.remaining \in Nat /\ u \in Borrowers
  BY <1>1, LoanNumbers
<1>3. /\ new \in LoanRecord /\ new.remaining = loan.remaining
      /\ new.accrued = loan.accrued /\ new.status = "Defaulted"
  <2>1. "Defaulted" \in LoanStatus
    BY DEF LoanStatus
  <2>2. QED BY <1>1, <2>1, StatusChanged
<1>4. loans' = [loans EXCEPT ![id] = new] /\ bal' = Transfer(bal, CreditLineAcct, PoolAcct, g)
  BY DEF MarkDefaulted
<1> HIDE DEF new, g
<1>5. \A k \in LoanIds : loans'[k] = IF k = id THEN new ELSE loans[k]
  BY <1>1, <1>3, <1>4, LoansExcept DEF LoanIds
<1>6. bal'[u] = bal[u] /\ bal[u] \in Nat
  BY <1>1, <1>2, <1>4, SystemAccounts, TransferElsewhere
<1>7. Charged(id) = 0
  <2>1. Charged(id) = new.remaining - loan.remaining
                        + (bal[u] - bal'[u] + (IF new.status = "Paid" THEN loan.guarantee ELSE 0))
    BY <1>5 DEF Charged, PaidOn
  <2> HIDE DEF loan, u
  <2>2. QED BY <1>2, <1>3, <1>6, <2>1
<1>8. QED BY <1>3, <1>5, <1>7 DEF loan, Charging

LEMMA StepCharges ==
  ASSUME Inv, BorrowersApart, [Next]_vars, NEW id \in LoanIds,
         loans[id].status = "Active", loans'[id] # loans[id]
  PROVE  Charging(loans[id], loans'[id], Charged(id))
<1>1. /\ loans \in Seq(LoanRecord)
      /\ \A k \in LoanIds : loans[k] \in LoanRecord
  BY InvFacts
<1>2. CASE \E u \in Borrowers, v \in Merchants, r \in Requests :
             CreateLoan(u, v, r) \/ RequestLoan(u, v, r)
  <2>1. PICK u \in Borrowers, v \in Merchants, r \in Requests :
          CreateLoan(u, v, r) \/ RequestLoan(u, v, r)
    BY <1>2
  <2>2. PICK status \in {"Pending", "Active"} :
          LET loan == NewLoan(params, score[u], u, v, r.total, r.guarantee, r.schedule, status)
          IN  LoanOk(loan) /\ loans' = Append(loans, loan)
    BY <2>1 DEF CreateLoan, RequestLoan
  <2> DEFINE loan == NewLoan(params, score[u], u, v, r.total, r.guarantee, r.schedule, status)
  <2>3. loan \in LoanRecord
    <3>1. params \in ParamChoices /\ score[u] \in 0..MaxScore
      BY InvFacts
    <3>2. GuaranteeOk(params, r.total, r.guarantee)
      BY <2>2 DEF LoanOk, NewLoan
    <3>3. QED BY <3>1, <3>2, NewLoanEffect
  <2>4. loans' = Append(loans, loan)
    BY <2>2
  <2> HIDE DEF loan
  <2>5. loans'[id] = loans[id]
    BY <1>1, <2>3, <2>4, LoansAppend DEF LoanIds
  <2>6. QED BY <2>5
<1>3. CASE \E k \in LoanIds : ApproveLoan(k) \/ CancelLoan(k)
  <2>1. PICK k \in LoanIds, status \in LoanStatus :
          loans[k].status = "Pending"
            /\ loans' = [loans EXCEPT ![k] = [loans[k] EXCEPT !.status = status]]
    BY <1>3 DEF ApproveLoan, CancelLoan, LoanStatus
  <2> DEFINE new == [loans[k] EXCEPT !.status = status]
  <2>2. new \in LoanRecord
    BY <1>1, StatusChanged
  <2>3. loans' = [loans EXCEPT ![k] = new] /\ id # k
    BY <2>1
  <2> HIDE DEF new
  <2>4. loans'[id] = loans[id]
    BY <1>1, <2>2, <2>3, LoansExcept DEF LoanIds
  <2>5. QED BY <2>4
<1>4. CASE \E k \in LoanIds : \E a \in Payments(k) :
             RepayLoan(k, a) \/ \E j \in DOMAIN loans[k].schedule : RepayInstallment(k, j, a)
  <2>1. PICK k \in LoanIds : \E a \in Nat : \E marked :
          SettleOk(k, a) /\ Settle(k, a, marked)
    BY <1>4, Inputs DEF RepayLoan, RepayInstallment
  <2>2. QED BY <2>1, SettleCharges
<1>5. CASE \E k \in LoanIds : ApplyLateFees(k)
  BY <1>5, AccruedCharges
<1>6. CASE \E k \in LoanIds : MarkDefaulted(k)
  BY <1>6, DefaultCharges
<1>7. CASE UNCHANGED loans
  BY <1>7
<1>8. QED
  BY <1>2, <1>3, <1>4, <1>5, <1>6, <1>7
  DEF Next, vars, Deposit, Withdraw, SetPaused, SetPoolPaused, UpdateScore, RegisterVendor,
      ApproveVendor, ActivateVendor, SuspendVendor, ExecuteParameters, Tick

\* No day late is charged twice, however repayments and apply_late_fees
\* interleave, and whether a fee is only added or added and paid at once: what
\* a step charges is the fee of whole days between the old cursor and the new.
THEOREM LateFeesOnce ==
  ASSUME BorrowersApart
  PROVE  Spec => LateDaysChargedOnce
<1>1. Inv /\ [Next]_vars =>
        [ \A id \in LoanIds :
            LET loan  == loans[id]
                until == loans'[id].accrued
                dues  == {loan.schedule[k].due : k \in DOMAIN loan.schedule}
            IN  loan.status = "Active" /\ loans'[id] # loan =>
                  \/ Charged(id) = 0 /\ until = loan.accrued
                  \/ \E from \in dues \cup {loan.accrued}, days \in 1..now :
                       /\ Charged(id) = BpsOf(loan.remaining, LateFeeBpsPerDay * days)
                       /\ until = from + days * Day
                       /\ from >= loan.accrued /\ \E due \in dues : from >= due
                       /\ until <= now /\ now < until + Day ]_vars
  BY StepCharges DEF Charging, DuesOf
<1>2. QED BY <1>1, InvHolds, PTL DEF Spec, LateDaysChargedOnce

-----------------------------------------------------------------------------
(* What the vendors receive                                                *)

\* A vendor that repays, deposits or collects fees too has other reasons for
\* its balance to move.
VendorsApart == Merchants \cap (Borrowers \cup Providers \cup {Treasury, MerchantFund}) = {}

\* The pool paid vendor v some amount, recorded it, and found v approved.
Payout(v) ==
  \E c \in Nat : /\ bal'[v] = bal[v] + c
                 /\ pool'.funded[v] = pool.funded[v] + c
                 /\ c # 0 => vendorStatus[v] = "Approved"

LEMMA NoPayout ==
  ASSUME Inv, NEW v \in Merchants, bal'[v] = bal[v], pool'.funded[v] = pool.funded[v]
  PROVE  Payout(v)
<1>1. bal[v] \in Nat /\ pool.funded[v] \in Nat
  BY InvFacts, SystemAccounts DEF PoolType
<1>2. bal'[v] = bal[v] + 0 /\ pool'.funded[v] = pool.funded[v] + 0 /\ 0 \in Nat
  BY <1>1
<1>3. QED BY <1>2 DEF Payout

\* A loan that becomes active: only its own vendor gets anything.
LEMMA FundedPayout ==
  ASSUME Inv, NEW loan \in LoanRecord, LoanOkay(loan), NEW b \in [Accounts -> Nat],
         FundingOk(b, loan), IsActive(vendorStatus[loan.vendor]),
         \A v \in Merchants : b[v] = bal[v],
         pool' = FundedPool(loan), bal' = PayVendor(b, loan)
  PROVE  \A v \in Merchants : Payout(v)
<1> DEFINE c == Contribution(loan)
<1>1. /\ c \in Nat
      /\ \A v \in Merchants :
           pool'.funded[v] = IF v = loan.vendor THEN pool.funded[v] + c ELSE pool.funded[v]
  BY FundedEffect
<1>2. bal' = Transfer(b, PoolAcct, loan.vendor, c)
  BY DEF PayVendor
<1> HIDE DEF c
<1>3. ASSUME NEW v \in Merchants PROVE Payout(v)
  <2>1. v \in Accounts /\ v # PoolAcct /\ PoolAcct \in Accounts
    BY SystemAccounts
  <2>2. CASE v = loan.vendor
    <3>1. bal'[v] = b[v] + c
      BY <1>1, <1>2, <2>1, <2>2 DEF Transfer
    <3>2. bal'[v] = bal[v] + c /\ pool'.funded[v] = pool.funded[v] + c
      BY <1>1, <2>2, <3>1
    <3>3. vendorStatus[v] = "Approved"
      BY <2>2 DEF IsActive
    <3>4. QED BY <1>1, <3>2, <3>3 DEF Payout
  <2>3. CASE v # loan.vendor
    <3>1. bal'[v] = bal[v]
      BY <1>2, <2>1, <2>3, TransferElsewhere
    <3>2. QED BY <1>1, <2>3, <3>1, NoPayout
  <2>4. QED BY <2>2, <2>3
<1>4. QED BY <1>3

LEMMA SettlePayout ==
  ASSUME Inv, VendorsApart, NEW id \in LoanIds, NEW amount \in Nat, NEW marked,
         SettleOk(id, amount), Settle(id, amount, marked)
  PROVE  \A v \in Merchants : Payout(v)
<1> DEFINE loan == loans[id]
           owed == Accrue(loan, now)
           part == Allocation(owed, amount)
           pp == part.principal
           rest == InterestAndFees(part)
           paid == Transfer(bal, owed.borrower, CreditLineAcct, amount)
           sent == PassOn(owed, amount)
           last == amount = owed.remaining
<1>1. loan \in LoanRecord /\ LoanOkay(loan) /\ now \in Nat /\ bal \in [Accounts -> Nat]
      /\ bal[CreditLineAcct] \in Nat
  BY InvFacts
<1>2. /\ owed.status = "Active" /\ amount <= owed.remaining /\ bal[owed.borrower] >= amount
      /\ bal' = IF last THEN Transfer(sent, CreditLineAcct, owed.borrower, owed.guarantee)
                ELSE sent
      /\ sent = TakeRepayment(paid, pp, rest)
  BY DEF SettleOk, TransferOk, Settle, PassOn
<1>3. owed \in LoanRecord /\ LoanOkay(owed)
  <2>1. owed \in LoanRecord /\ owed.status = loan.status
    BY <1>1, AccrueEffect
  <2>2. QED BY <1>1, <1>2, <2>1, AccrueOkay
<1>4. owed.borrower \in Borrowers
  BY <1>3, LoanNumbers
<1> HIDE DEF owed
<1>5. pp \in Nat /\ rest \in Nat /\ pp + rest = amount
  BY <1>2, <1>3, AllocationParts
<1>6. paid \in [Accounts -> Nat] /\ paid[CreditLineAcct] = bal[CreditLineAcct] + amount
  <2> DEFINE borrower == owed.borrower
  <2>1. borrower \in Borrowers /\ bal[borrower] >= amount
    BY <1>2, <1>4
  <2> HIDE DEF borrower
  <2>2. LET after == Transfer(bal, borrower, CreditLineAcct, amount)
        IN  after \in [Accounts -> Nat] /\ after[CreditLineAcct] = bal[CreditLineAcct] + amount
    BY <1>1, <2>1, PaidIn
  <2>3. QED BY <2>2 DEF borrower
<1>7. pool'.funded = pool.funded
  BY SettleEffect
<1>8. ASSUME NEW v \in Merchants PROVE Payout(v)
  <2>1. /\ v \in Accounts /\ v # PoolAcct /\ v # CreditLineAcct /\ v # owed.borrower
        /\ v # Treasury /\ v # MerchantFund
    BY <1>4, SystemAccounts DEF VendorsApart
  <2>2. paid[v] = bal[v]
    BY <1>1, <2>1, TransferElsewhere
  <2> HIDE DEF part, pp, rest, paid, sent, last
  <2>3. sent \in [Accounts -> Nat] /\ sent[v] = paid[v]
    <3>1. paid[CreditLineAcct] >= pp + rest
      BY <1>1, <1>5, <1>6
    <3>2. v \in Accounts \ {PoolAcct, Treasury, MerchantFund}
      BY <2>1
    <3>3. QED BY <1>2, <1>5, <1>6, <2>1, <3>1, <3>2, SystemAccounts, TakeRepaymentEffect
  <2>4. bal'[v] = sent[v]
    <3>1. CASE last
      BY <1>2, <2>1, <2>3, <3>1, TransferElsewhere
    <3>2. CASE ~last
      BY <1>2, <3>2
    <3>3. QED BY <3>1, <3>2
  <2>5. QED BY <1>7, <2>2, <2>3, <2>4, NoPayout
<1>9. QED BY <1>8

LEMMA StepPayouts ==
  ASSUME Inv, VendorsApart, [Next]_vars
  PROVE  \A v \in Merchants : Payout(v)
<1>1. /\ bal \in [Accounts -> Nat] /\ pool \in PoolType
      /\ SharesAccountedIn(pool) /\ pool.locked <= pool.liquidity
      /\ loans \in Seq(LoanRecord) /\ \A id \in LoanIds : loans[id] \in LoanRecord
  BY InvFacts
<1>2. ASSUME NEW from, NEW to, NEW amount, bal' = Transfer(bal, from, to, amount),
             from \notin Merchants, to \notin Merchants, pool'.funded = pool.funded
      PROVE  \A v \in Merchants : Payout(v)
  <2>1. \A v \in Merchants : bal'[v] = bal[v]
    BY <1>1, <1>2, SystemAccounts, TransferElsewhere
  <2>2. QED BY <1>2, <2>1, NoPayout
<1>3. /\ \A u \in Borrowers : u \notin Merchants
      /\ \A l \in Providers : l \notin Merchants
  BY DEF VendorsApart
<1>4. PoolAcct \notin Merchants /\ CreditLineAcct \notin Merchants
  BY SystemAccounts
<1>5. CASE \E u \in Borrowers, v \in Merchants, r \in Requests : CreateLoan(u, v, r)
  <2>1. PICK u \in Borrowers, v \in Merchants, r \in Requests : CreateLoan(u, v, r)
    BY <1>5
  <2> DEFINE loan == NewLoan(params, score[u], u, v, r.total, r.guarantee, r.schedule, "Active")
             pulled == Transfer(bal, u, CreditLineAcct, loan.guarantee)
  <2>2. /\ LoanOk(loan) /\ TransferOk(bal, u, loan.guarantee) /\ FundingOk(pulled, loan)
        /\ pool' = FundedPool(loan) /\ bal' = PayVendor(pulled, loan)
    BY <2>1 DEF CreateLoan
  <2>3. loan.guarantee = r.guarantee /\ loan.total = r.total /\ r.guarantee \in Nat
    BY CreditLineAssumption DEF NewLoan
  <2>4. /\ loan \in LoanRecord /\ LoanOkay(loan) /\ loan.vendor = v
    <3>1. params \in ParamChoices /\ score[u] \in 0..MaxScore
      BY InvFacts
    <3>2. GuaranteeOk(params, r.total, r.guarantee)
      BY <2>2, <2>3 DEF LoanOk
    <3>3. QED BY <3>1, <3>2, NewLoanEffect
  <2> HIDE DEF loan
  <2>5. pulled \in [Accounts -> Nat]
    <3>1. bal[u] >= loan.guarantee /\ loan.guarantee \in Nat
      BY <2>2, <2>3 DEF TransferOk
    <3>2. QED BY <1>1, <3>1, PaidIn
  <2>6. ASSUME NEW m \in Merchants PROVE pulled[m] = bal[m]
    <3>1. m \in Accounts /\ m # u /\ m # CreditLineAcct
      BY <1>3, <1>4, SystemAccounts
    <3> DEFINE amount == loan.guarantee
    <3> HIDE DEF amount
    <3>2. Transfer(bal, u, CreditLineAcct, amount)[m] = bal[m]
      BY <1>1, <3>1, TransferElsewhere
    <3>3. QED BY <3>2 DEF amount
  <2> HIDE DEF pulled
  <2>7. IsActive(vendorStatus[loan.vendor])
    BY <2>2 DEF LoanOk
  <2>8. QED BY <2>2, <2>4, <2>5, <2>6, <2>7, FundedPayout
<1>6. CASE \E id \in LoanIds : ApproveLoan(id)
  <2>1. PICK id \in LoanIds : ApproveLoan(id)
    BY <1>6
  <2> DEFINE loan == loans[id]
  <2>2. /\ loan \in LoanRecord /\ LoanOkay(loan) /\ FundingOk(bal, loan)
        /\ IsActive(vendorStatus[loan.vendor])
        /\ pool' = FundedPool(loan) /\ bal' = PayVendor(bal, loan)
    BY <2>1, InvFacts DEF ApproveLoan
  <2> HIDE DEF loan
  <2>3. QED BY <1>1, <2>2, FundedPayout
<1>7. CASE \E id \in LoanIds : \E a \in Payments(id) :
             RepayLoan(id, a) \/ \E k \in DOMAIN loans[id].schedule : RepayInstallment(id, k, a)
  BY <1>7, Inputs, SettlePayout DEF RepayLoan, RepayInstallment
<1>8. CASE \E u \in Borrowers, v \in Merchants, r \in Requests : RequestLoan(u, v, r)
  <2>1. PICK u \in Borrowers, v \in Merchants, r \in Requests : RequestLoan(u, v, r)
    BY <1>8
  <2>2. PICK amount : bal' = Transfer(bal, u, CreditLineAcct, amount)
    BY <2>1 DEF RequestLoan
  <2>3. u \notin Merchants /\ pool'.funded = pool.funded
    BY <1>3, <2>1 DEF RequestLoan
  <2>4. QED BY <1>2, <1>4, <2>2, <2>3
<1>9. CASE \E id \in LoanIds : CancelLoan(id)
  <2>1. PICK id \in LoanIds : CancelLoan(id)
    BY <1>9
  <2>2. loans[id].borrower \in Borrowers
    BY <1>1, LoanNumbers
  <2>3. PICK to \in Borrowers : \E amount : bal' = Transfer(bal, CreditLineAcct, to, amount)
    BY <2>1, <2>2 DEF CancelLoan
  <2>4. to \notin Merchants /\ pool'.funded = pool.funded
    BY <1>3, <2>1 DEF CancelLoan
  <2>5. QED BY <1>2, <1>4, <2>3, <2>4
<1>10. CASE \E id \in LoanIds : MarkDefaulted(id)
  <2>1. PICK id \in LoanIds : MarkDefaulted(id)
    BY <1>10
  <2>2. pool'.funded = pool.funded
    BY <2>1, DefaultEffect
  <2>3. QED BY <1>2, <1>4, <2>1, <2>2 DEF MarkDefaulted
<1>11. CASE \E l \in Providers, a \in DepositAmounts : Deposit(l, a)
  <2>1. PICK l \in Providers, a \in DepositAmounts : Deposit(l, a)
    BY <1>11
  <2>2. pool'.funded = pool.funded
    BY <1>1, <2>1, Inputs, DepositEffect DEF Deposit
  <2>3. bal' = Transfer(bal, l, PoolAcct, a) /\ l \notin Merchants
    BY <1>3, <2>1 DEF Deposit
  <2>4. QED BY <1>2, <1>4, <2>2, <2>3
<1>12. CASE \E l \in Providers : Withdraw(l, pool.lp[l])
  <2>1. PICK l \in Providers : Withdraw(l, pool.lp[l])
    BY <1>12
  <2>2. pool' = WithdrawFrom(pool, l, pool.lp[l])
        /\ bal' = Transfer(bal, PoolAcct, l, Worth(pool, pool.lp[l]))
    BY <2>1 DEF Withdraw
  <2>3. pool'.funded = pool.funded
    BY <1>1, <2>2 DEF WithdrawFrom, PoolType
  <2>4. PICK amount : bal' = Transfer(bal, PoolAcct, l, amount)
    BY <2>2
  <2>5. l \notin Merchants
    BY <1>3
  <2>6. QED BY <1>2, <1>4, <2>3, <2>4, <2>5
<1>13. CASE UNCHANGED bal /\ pool'.funded = pool.funded
  BY <1>13, NoPayout
<1>14. QED
  <2>1. (\E p \in PauseChoices : SetPoolPaused(p)) => UNCHANGED bal /\ pool'.funded = pool.funded
    BY <1>1 DEF SetPoolPaused, PoolType
  <2>2. QED
    BY <1>5, <1>6, <1>7, <1>8, <1>9, <1>10, <1>11, <1>12, <1>13, <2>1
    DEF Next, vars, ApplyLateFees, SetPaused, UpdateScore, RegisterVendor,
        ApproveVendor, ActivateVendor, SuspendVendor, ExecuteParameters, Tick

\* The exposure the pool recorded against a vendor is what the funded loans
\* had it pay, and what the vendor's account gained.
THEOREM VendorBooksAgree ==
  ASSUME VendorsApart
  PROVE  Spec => []ExposureIsFundedLoans
<1> DEFINE Gained == \A v \in Merchants : bal[v] - Endowment[v] = pool.funded[v]
<1>1. Init => Gained
  <2> SUFFICES ASSUME Init, NEW v \in Merchants PROVE bal[v] - Endowment[v] = pool.funded[v]
    OBVIOUS
  <2>1. bal = Endowment /\ pool.funded[v] = 0 /\ Endowment[v] \in Nat
    BY CreditLineAssumption, SystemAccounts DEF Init, InitPool
  <2>2. QED BY <2>1
<1>2. Inv /\ Gained /\ [Next]_vars => Gained'
  <2> SUFFICES ASSUME Inv, Gained, [Next]_vars, NEW v \in Merchants
               PROVE  bal'[v] - Endowment[v] = pool'.funded[v]
    OBVIOUS
  <2>1. PICK c \in Nat : bal'[v] = bal[v] + c /\ pool'.funded[v] = pool.funded[v] + c
    BY StepPayouts DEF Payout
  <2>2. bal[v] \in Nat /\ Endowment[v] \in Nat /\ pool.funded[v] \in Nat
    BY InvFacts, CreditLineAssumption, SystemAccounts DEF PoolType
  <2>3. bal[v] - Endowment[v] = pool.funded[v]
    OBVIOUS
  <2>4. QED BY <2>1, <2>2, <2>3
<1>3. Inv /\ Gained => ExposureIsFundedLoans
  <2> SUFFICES ASSUME Inv, Gained, NEW v \in Merchants
               PROVE  LET funded == Sum([id \in LoanIds |->
                             IF loans[id].vendor = v
                                /\ loans[id].status \in {"Active", "Paid", "Defaulted"}
                             THEN Contribution(loans[id]) ELSE 0], LoanIds)
                      IN  pool.funded[v] = funded /\ bal[v] - Endowment[v] = funded
    BY DEF ExposureIsFundedLoans
  <2> DEFINE f == [id \in LoanIds |->
                     IF loans[id].vendor = v
                        /\ loans[id].status \in {"Active", "Paid", "Defaulted"}
                     THEN Contribution(loans[id]) ELSE 0]
  <2>1. pool.funded[v] = Total(PaidOutTo(v), loans)
    BY DEF Inv, FundedOkay
  <2>2. \A id \in LoanIds : loans[id] \in LoanRecord
    BY InvFacts
  <2>3. f = [id \in DOMAIN loans |-> PaidOutTo(v)[loans[id]]]
    BY <2>2 DEF PaidOutTo, LoanIds
  <2>4. bal[v] - Endowment[v] = pool.funded[v]
    OBVIOUS
  <2> HIDE DEF f
  <2>5. Total(PaidOutTo(v), loans) = Sum(f, LoanIds)
    BY <2>3 DEF Total, LoanIds
  <2>6. QED BY <2>1, <2>4, <2>5 DEF f
<1>4. QED BY <1>1, <1>2, <1>3, InvHolds, PTL DEF Spec

\* A vendor's account grows only in a state in which the registry has the
\* vendor approved, whatever happened between a request and its approval.
THEOREM PayoutsNeedApproval ==
  ASSUME VendorsApart
  PROVE  Spec => OnlyApprovedVendorsPaid
<1>1. ASSUME Inv, [Next]_vars
      PROVE  \A v \in Merchants : bal'[v] > bal[v] => vendorStatus[v] = "Approved"
  <2> SUFFICES ASSUME NEW v \in Merchants, bal'[v] > bal[v] PROVE vendorStatus[v] = "Approved"
    OBVIOUS
  <2>1. PICK c \in Nat : bal'[v] = bal[v] + c /\ (c # 0 => vendorStatus[v] = "Approved")
    BY <1>1, StepPayouts DEF Payout
  <2>2. bal[v] \in Nat
    BY <1>1, InvFacts, SystemAccounts
  <2>3. QED BY <2>1, <2>2
<1>2. Inv /\ [Next]_vars =>
        [\A v \in Merchants : bal'[v] > bal[v] => vendorStatus[v] = "Approved"]_vars
  BY <1>1
<1>3. QED BY <1>2, InvHolds, PTL DEF Spec, OnlyApprovedVendorsPaid

-----------------------------------------------------------------------------
(* The credit line implements LoanLedger                                   *)

Entries(ls) == [id \in DOMAIN ls |-> Entry(ls[id])]

LEMMA EntryTyped ==
  ASSUME NEW loan \in LoanRecord
  PROVE  Entry(loan) \in Ledger!Entries
BY LoanNumbers DEF Entry, Ledger!Entries, Ledger!Stage, LoanStatus

LEMMA EntriesOfLoans ==
  ASSUME NEW ls \in Seq(LoanRecord)
  PROVE  /\ Entries(ls) \in Seq(Ledger!Entries)
         /\ Len(Entries(ls)) = Len(ls) /\ DOMAIN Entries(ls) = DOMAIN ls
         /\ \A id \in DOMAIN ls : Entries(ls)[id] = Entry(ls[id])
<1> DEFINE E == Ledger!Entries
           f == Entries(ls)
<1>1. /\ Len(ls) \in Nat /\ DOMAIN ls = 1..Len(ls)
      /\ \A id \in DOMAIN ls : ls[id] \in LoanRecord
  BY LoansFinite
<1>2. DOMAIN f = DOMAIN ls /\ \A id \in DOMAIN ls : f[id] = Entry(ls[id])
  BY DEF Entries
<1>3. f \in [1..Len(ls) -> E]
  BY <1>1, EntryTyped DEF Entries
<1> HIDE DEF E, f
<1>4. f \in Seq(E)
  <2>1. [1..Len(ls) -> E] \in {[1..n -> E] : n \in Nat}
    BY <1>1
  <2>2. f \in UNION {[1..n -> E] : n \in Nat}
    BY <1>3, <2>1
  <2>3. QED BY <2>2, SeqDef, Zenon
<1>5. Len(f) = Len(ls)
  <2>1. Len(f) \in Nat /\ DOMAIN f = 1..Len(f)
    BY <1>4, LenProperties
  <2>2. \A m, n \in Nat : 1..m = 1..n => m = n
    <3> SUFFICES ASSUME NEW m \in Nat, NEW n \in Nat, 1..m = 1..n PROVE m = n
      OBVIOUS
    <3>1. m <= n
      <4>1. m # 0 => m \in 1..n
        OBVIOUS
      <4>2. QED BY <4>1
    <3>2. n <= m
      <4>1. n # 0 => n \in 1..m
        OBVIOUS
      <4>2. QED BY <4>1
    <3>3. QED BY <3>1, <3>2
  <2>3. QED BY <1>1, <1>2, <2>1, <2>2
<1>6. QED BY <1>2, <1>4, <1>5 DEF E, f

LEMMA BookIsEntries == Book = Entries(loans) /\ Book' = Entries(loans')
BY DEF Book, Entries, LoanIds

\* A new loan is a new entry, and the escrow gains its guarantee.
LEMMA BookGrows ==
  ASSUME Inv, Inv', NEW loan \in LoanRecord, LoanOkay(loan),
         loan.status \in {"Pending", "Active"}, loans' = Append(loans, loan)
  PROVE  /\ Len(Book') > Len(Book) /\ Book'[Len(Book')] = Entry(loan)
         /\ Ledger!Enter(Entry(loan))
<1> DEFINE e == Entry(loan)
           after == Append(loans, loan)
<1>1. loans \in Seq(LoanRecord) /\ Len(loans) \in Nat
  BY InvFacts, LoansFinite
<1>2. /\ after \in Seq(LoanRecord) /\ Len(after) = Len(loans) + 1
      /\ after[Len(loans) + 1] = loan /\ \A i \in 1..Len(loans) : after[i] = loans[i]
  BY <1>1, AppendProperties
<1>3. /\ Book \in Seq(Ledger!Entries) /\ Len(Book) = Len(loans)
      /\ \A i \in 1..Len(loans) : Book[i] = Entry(loans[i])
  BY <1>1, BookIsEntries, EntriesOfLoans, LoansFinite
<1> HIDE DEF after
<1>4. /\ Book' \in Seq(Ledger!Entries) /\ Len(Book') = Len(loans) + 1
      /\ \A i \in 1..(Len(loans) + 1) : Book'[i] = Entry(after[i])
  <2>1. Book' = Entries(after)
    BY BookIsEntries DEF after
  <2>2. DOMAIN after = 1..(Len(loans) + 1)
    BY <1>2, LoansFinite
  <2>3. QED BY <1>2, <2>1, <2>2, EntriesOfLoans
<1>5. e \in Ledger!Entries
  BY EntryTyped
<1>6. Book'[Len(Book')] = e /\ Len(Book') > Len(Book)
  BY <1>1, <1>2, <1>3, <1>4
<1> HIDE DEF e
<1>7. Book' = Append(Book, e)
  <2>1. /\ Append(Book, e) \in Seq(Ledger!Entries) /\ Len(Append(Book, e)) = Len(Book) + 1
        /\ Append(Book, e)[Len(Book) + 1] = e
        /\ \A i \in 1..Len(Book) : Append(Book, e)[i] = Book[i]
    BY <1>3, <1>5, AppendProperties
  <2>2. ASSUME NEW i \in 1..Len(Book') PROVE Book'[i] = Append(Book, e)[i]
    <3>1. CASE i = Len(loans) + 1
      BY <1>3, <1>4, <1>6, <2>1, <3>1
    <3>2. CASE i \in 1..Len(loans)
      BY <1>1, <1>2, <1>3, <1>4, <2>1, <3>2
    <3>3. i = Len(loans) + 1 \/ i \in 1..Len(loans)
      <4>1. i \in 1..(Len(loans) + 1)
        BY <1>4
      <4>2. QED BY <1>1, <4>1
    <3>4. QED BY <3>1, <3>2, <3>3
  <2>3. QED BY <1>3, <1>4, <2>1, <2>2, SeqEqual
<1>8. bal'[CreditLineAcct] = bal[CreditLineAcct] + loan.guarantee
  <2>1. Escrowed[loan] = loan.guarantee
    BY WeightValues
  <2>2. Total(Escrowed, loans') = Total(Escrowed, loans) + Escrowed[loan]
    BY <1>1, TotalsAppend
  <2>3. QED BY <2>1, <2>2 DEF Inv, EscrowOkay
<1>9. e.owed > 0 /\ e.guarantee = loan.guarantee
  <2>1. loan.remaining \in Nat /\ loan.remaining # 0
    BY LoanNumbers DEF LoanOkay
  <2>2. QED BY <2>1 DEF e, Entry
<1>10. Ledger!Enter(e)
  BY <1>5, <1>7, <1>8, <1>9 DEF Ledger!Enter
<1>11. QED BY <1>6, <1>10 DEF e

\* A loan that moves moves its entry, and the escrow by its own guarantee.
LEMMA BookMoves ==
  ASSUME Inv, Inv', NEW id \in LoanIds, NEW loan \in LoanRecord,
         loans' = [loans EXCEPT ![id] = loan]
  PROVE  /\ id \in DOMAIN Book /\ id \in DOMAIN Book'
         /\ Book[id] = Entry(loans[id]) /\ Book'[id] = Entry(loan)
         /\ Book' = [Book EXCEPT ![id] = Entry(loan)]
         /\ bal'[CreditLineAcct] = bal[CreditLineAcct] - Escrowed[loans[id]] + Escrowed[loan]
<1>1. loans \in Seq(LoanRecord) /\ id \in DOMAIN loans
  BY InvFacts DEF LoanIds
<1>2. /\ loans' \in Seq(LoanRecord) /\ DOMAIN loans' = DOMAIN loans
      /\ \A k \in DOMAIN loans : loans'[k] = IF k = id THEN loan ELSE loans[k]
  BY <1>1, LoansExcept
<1>3. DOMAIN Book = DOMAIN loans /\ \A k \in DOMAIN loans : Book[k] = Entry(loans[k])
  BY <1>1, BookIsEntries, EntriesOfLoans
<1>4. Book' = [k \in DOMAIN loans |-> Entry(IF k = id THEN loan ELSE loans[k])]
  BY <1>2, BookIsEntries DEF Entries
<1>5. Book = [k \in DOMAIN loans |-> Entry(loans[k])]
  BY BookIsEntries DEF Entries
<1>6. Book' = [Book EXCEPT ![id] = Entry(loan)]
  BY <1>1, <1>4, <1>5
<1>7. Total(Escrowed, loans') = Total(Escrowed, loans) - Escrowed[loans[id]] + Escrowed[loan]
  BY <1>1, TotalsExcept
<1>8. bal'[CreditLineAcct] = bal[CreditLineAcct] - Escrowed[loans[id]] + Escrowed[loan]
  BY <1>7 DEF Inv, EscrowOkay
<1>9. QED BY <1>1, <1>3, <1>4, <1>6, <1>8

\* What each step writes of the three variables of the ledger.
LEMMA CreateLoanLedger ==
  ASSUME Inv, Inv', NEW borrower \in Borrowers, NEW vendor \in Merchants, NEW r \in Requests,
         CreateLoan(borrower, vendor, r)
  PROVE  Ledger!Next
<1> DEFINE loan == NewLoan(params, score[borrower], borrower, vendor,
                           r.total, r.guarantee, r.schedule, "Active")
<1>1. params \in ParamChoices /\ score[borrower] \in 0..MaxScore
  BY InvFacts
<1>2. /\ GuaranteeOk(params, r.total, r.guarantee)
      /\ loans' = Append(loans, loan)
      /\ debt' = [debt EXCEPT ![borrower] = @ + loan.remaining]
  BY DEF CreateLoan, LoanOk, NewLoan
<1>3. /\ loan \in LoanRecord /\ LoanOkay(loan) /\ loan.borrower = borrower
      /\ loan.status = "Active"
  BY <1>1, <1>2, NewLoanEffect
<1> HIDE DEF loan
<1>4. /\ Len(Book') > Len(Book) /\ Book'[Len(Book')] = Entry(loan)
      /\ Ledger!Enter(Entry(loan))
  BY <1>2, <1>3, BookGrows
<1>5. /\ Entry(loan).stage = "Active" /\ Entry(loan).borrower = borrower
      /\ Entry(loan).owed = loan.remaining
  BY <1>3 DEF Entry
<1>6. Ledger!Open(Entry(loan))
  BY <1>2, <1>4, <1>5 DEF Ledger!Open
<1>7. QED BY <1>4, <1>6 DEF Ledger!Next

LEMMA RequestLoanLedger ==
  ASSUME Inv, Inv', NEW borrower \in Borrowers, NEW vendor \in Merchants, NEW r \in Requests,
         RequestLoan(borrower, vendor, r)
  PROVE  Ledger!Next
<1> DEFINE loan == NewLoan(params, score[borrower], borrower, vendor,
                           r.total, r.guarantee, r.schedule, "Pending")
<1>1. params \in ParamChoices /\ score[borrower] \in 0..MaxScore
  BY InvFacts
<1>2. /\ GuaranteeOk(params, r.total, r.guarantee)
      /\ loans' = Append(loans, loan)
      /\ debt' = debt
  BY DEF RequestLoan, LoanOk, NewLoan
<1>3. loan \in LoanRecord /\ LoanOkay(loan) /\ loan.status = "Pending"
  BY <1>1, <1>2, NewLoanEffect
<1> HIDE DEF loan
<1>4. /\ Len(Book') > Len(Book) /\ Book'[Len(Book')] = Entry(loan)
      /\ Ledger!Enter(Entry(loan))
  BY <1>2, <1>3, BookGrows
<1>5. Entry(loan).stage = "Pending"
  BY <1>3 DEF Entry
<1>6. Ledger!Request(Entry(loan))
  BY <1>2, <1>4, <1>5 DEF Ledger!Request
<1>7. QED BY <1>4, <1>6 DEF Ledger!Next

\* A step that only changes the status of a loan.
LEMMA BookStatusMoves ==
  ASSUME Inv, Inv', NEW id \in LoanIds, NEW status \in LoanStatus,
         loans[id].status \in {"Pending", "Active"},
         loans' = [loans EXCEPT ![id].status = status]
  PROVE  LET loan == loans[id]
         IN  /\ id \in DOMAIN Book
             /\ Book[id].stage = loan.status /\ Book[id].borrower = loan.borrower
             /\ Book[id].owed = loan.remaining /\ Book[id].guarantee = loan.guarantee
             /\ Book' = [Book EXCEPT ![id].stage = status]
             /\ bal'[CreditLineAcct] = IF status = "Active" THEN bal[CreditLineAcct]
                                       ELSE IF status = "Pending" THEN bal[CreditLineAcct]
                                       ELSE bal[CreditLineAcct] - loan.guarantee
<1> DEFINE loan == loans[id]
           after == [loan EXCEPT !.status = status]
<1>1. loan \in LoanRecord /\ loan.guarantee \in Nat /\ bal[CreditLineAcct] \in Nat
  BY InvFacts, LoanNumbers
<1>2. /\ after \in LoanRecord /\ after.status = status /\ after.borrower = loan.borrower
      /\ after.guarantee = loan.guarantee /\ after.remaining = loan.remaining
  BY <1>1, StatusChanged
<1>3. loans' = [loans EXCEPT ![id] = after]
  OBVIOUS
<1>4. Entry(after) = [Entry(loan) EXCEPT !.stage = status]
  BY <1>2 DEF Entry
<1> HIDE DEF after
<1>5. /\ id \in DOMAIN Book /\ Book[id] = Entry(loan)
      /\ Book' = [Book EXCEPT ![id] = Entry(after)]
      /\ bal'[CreditLineAcct] = bal[CreditLineAcct] - Escrowed[loan] + Escrowed[after]
  BY <1>2, <1>3, BookMoves
<1>6. Escrowed[loan] = loan.guarantee
  BY <1>1, WeightValues
<1>7. Escrowed[after] = IF status \in {"Pending", "Active"} THEN loan.guarantee ELSE 0
  BY <1>2, WeightValues
<1>8. Book' = [Book EXCEPT ![id].stage = status]
  BY <1>4, <1>5
<1>9. bal'[CreditLineAcct] = IF status = "Active" THEN bal[CreditLineAcct]
                             ELSE IF status = "Pending" THEN bal[CreditLineAcct]
                             ELSE bal[CreditLineAcct] - loan.guarantee
  BY <1>1, <1>5, <1>6, <1>7
<1>10. /\ Book[id].stage = loan.status /\ Book[id].borrower = loan.borrower
       /\ Book[id].owed = loan.remaining /\ Book[id].guarantee = loan.guarantee
  BY <1>5 DEF Entry
<1>11. QED BY <1>5, <1>8, <1>9, <1>10

LEMMA ApproveLoanLedger ==
  ASSUME Inv, Inv', NEW id \in LoanIds, ApproveLoan(id)
  PROVE  Ledger!Next
<1>1. /\ loans[id].status = "Pending" /\ loans' = [loans EXCEPT ![id].status = "Active"]
      /\ debt' = [debt EXCEPT ![loans[id].borrower] = @ + loans[id].remaining]
  BY DEF ApproveLoan
<1>2. "Active" \in LoanStatus
  BY DEF LoanStatus
<1>3. Ledger!Fund(id)
  BY <1>1, <1>2, BookStatusMoves DEF Ledger!Fund
<1>4. id \in DOMAIN Book
  BY <1>1, <1>2, BookStatusMoves
<1>5. QED BY <1>3, <1>4 DEF Ledger!Next

LEMMA CancelLoanLedger ==
  ASSUME Inv, Inv', NEW id \in LoanIds, CancelLoan(id)
  PROVE  Ledger!Next
<1>1. /\ loans[id].status = "Pending" /\ loans' = [loans EXCEPT ![id].status = "Cancelled"]
      /\ debt' = debt
  BY DEF CancelLoan
<1>2. "Cancelled" \in LoanStatus
  BY DEF LoanStatus
<1>3. Ledger!Cancel(id)
  BY <1>1, <1>2, BookStatusMoves DEF Ledger!Cancel
<1>4. id \in DOMAIN Book
  BY <1>1, <1>2, BookStatusMoves
<1>5. QED BY <1>3, <1>4 DEF Ledger!Next

LEMMA MarkDefaultedLedger ==
  ASSUME Inv, Inv', NEW id \in LoanIds, MarkDefaulted(id)
  PROVE  Ledger!Next
<1>1. /\ loans[id].status = "Active" /\ loans' = [loans EXCEPT ![id].status = "Defaulted"]
      /\ debt' = [debt EXCEPT ![loans[id].borrower] = @ - loans[id].remaining]
  BY DEF MarkDefaulted, MarkDefaultedOk
<1>2. "Defaulted" \in LoanStatus
  BY DEF LoanStatus
<1>3. Ledger!Default(id)
  BY <1>1, <1>2, BookStatusMoves DEF Ledger!Default
<1>4. id \in DOMAIN Book
  BY <1>1, <1>2, BookStatusMoves
<1>5. QED BY <1>3, <1>4 DEF Ledger!Next

\* The entry of a loan that was paid off.
LEMMA EntryPaid ==
  ASSUME NEW before, NEW after,
         after.borrower = before.borrower, after.guarantee = before.guarantee,
         after.remaining = 0, after.status = "Paid"
  PROVE  Entry(after) = [Entry(before) EXCEPT !.owed = 0, !.stage = "Paid"]
<1> DEFINE e == Entry(before)
           f == [e EXCEPT !.owed = 0]
           g == [f EXCEPT !.stage = "Paid"]
<1>1. e = [borrower |-> before.borrower, guarantee |-> before.guarantee,
           owed |-> before.remaining, stage |-> before.status]
  BY DEF Entry
<1> HIDE DEF e
<1>2. f = [borrower |-> before.borrower, guarantee |-> before.guarantee,
           owed |-> 0, stage |-> before.status]
  BY <1>1
<1> HIDE DEF f
<1>3. g = [borrower |-> before.borrower, guarantee |-> before.guarantee,
           owed |-> 0, stage |-> "Paid"]
  BY <1>2
<1>4. Entry(after) = g
  BY <1>3 DEF Entry
<1>5. [e EXCEPT !.owed = 0, !.stage = "Paid"] = g
  BY DEF f
<1>6. QED BY <1>4, <1>5 DEF e

LEMMA EntryOwesMore ==
  ASSUME NEW before, NEW after, NEW owed,
         after.borrower = before.borrower, after.guarantee = before.guarantee,
         after.status = before.status, after.remaining = owed
  PROVE  Entry(after) = [Entry(before) EXCEPT !.owed = owed]
BY DEF Entry

\* An active loan that stays active owes something else.
LEMMA BookAdjusts ==
  ASSUME Inv, Inv', NEW id \in LoanIds, NEW loan \in LoanRecord, LoanOkay(loan),
         loans' = [loans EXCEPT ![id] = loan],
         loans[id].status = "Active", loan.status = "Active",
         loan.borrower = loans[id].borrower, loan.guarantee = loans[id].guarantee,
         debt' = [debt EXCEPT ![loan.borrower] = @ + loan.remaining - loans[id].remaining]
  PROVE  Ledger!Next
<1> DEFINE before == loans[id]
           owed   == loan.remaining
<1>1. /\ before \in LoanRecord /\ bal[CreditLineAcct] \in Nat
      /\ before.guarantee \in Nat
  BY InvFacts, LoanNumbers
<1>2. owed \in Nat /\ owed > 0
  BY LoanNumbers DEF LoanOkay
<1>3. Entry(loan) = [Entry(before) EXCEPT !.owed = owed]
  BY EntryOwesMore
<1>4. /\ id \in DOMAIN Book /\ id \in DOMAIN Book'
      /\ Book[id] = Entry(before) /\ Book'[id] = Entry(loan)
      /\ Book' = [Book EXCEPT ![id] = Entry(loan)]
      /\ bal'[CreditLineAcct] = bal[CreditLineAcct] - Escrowed[before] + Escrowed[loan]
  BY BookMoves
<1>5. Escrowed[before] = before.guarantee /\ Escrowed[loan] = before.guarantee
  BY <1>1, WeightValues
<1>6. bal'[CreditLineAcct] = bal[CreditLineAcct]
  BY <1>1, <1>4, <1>5
<1>7. /\ Book[id].stage = "Active" /\ Book[id].borrower = loan.borrower
      /\ Book[id].owed = before.remaining /\ Book'[id].owed = owed
  BY <1>4 DEF Entry
<1>8. Book' = [Book EXCEPT ![id].owed = owed]
  BY <1>3, <1>4
<1>9. Ledger!Adjust(id, Book'[id].owed)
  BY <1>2, <1>6, <1>7, <1>8 DEF Ledger!Adjust
<1>10. QED BY <1>4, <1>9 DEF Ledger!Next

LEMMA ApplyLateFeesLedger ==
  ASSUME Inv, Inv', NEW id \in LoanIds, ApplyLateFees(id)
  PROVE  Ledger!Next
<1> DEFINE loan == loans[id]
           late == Accrue(loan, now)
           fee  == LateFee(loan, now)
<1>1. /\ loan \in LoanRecord /\ LoanOkay(loan) /\ now \in Nat
      /\ debt \in [Borrowers -> Nat]
  BY InvFacts
<1>2. /\ loan.status = "Active" /\ loans' = [loans EXCEPT ![id] = late]
      /\ debt' = [debt EXCEPT ![loan.borrower] = debt[loan.borrower] + fee]
  BY DEF ApplyLateFees
<1>3. /\ late \in LoanRecord /\ LoanOkay(late)
      /\ late.remaining = loan.remaining + fee
      /\ late.guarantee = loan.guarantee /\ late.borrower = loan.borrower
      /\ late.status = "Active" /\ fee \in Nat
  BY <1>1, <1>2, AccrueEffect, AccrueOkay, LateFeeNat
<1>4. loan.borrower \in Borrowers /\ loan.remaining \in Nat /\ debt[loan.borrower] \in Nat
  BY <1>1, LoanNumbers
<1> HIDE DEF late, fee
<1>5. debt[loan.borrower] + fee = debt[loan.borrower] + late.remaining - loan.remaining
  BY <1>3, <1>4
<1>6. debt' = [debt EXCEPT ![late.borrower] = @ + late.remaining - loan.remaining]
  BY <1>2, <1>3, <1>5
<1>7. QED BY <1>2, <1>3, <1>6, BookAdjusts

LEMMA SettleLedger ==
  ASSUME Inv, Inv', NEW id \in LoanIds, NEW amount \in Nat, NEW marked,
         SettleOk(id, amount), Settle(id, amount, marked)
  PROVE  Ledger!Next
<1> DEFINE loan == loans[id]
           owed == Accrue(loan, now)
           s    == Settled(owed, amount, marked)
           fee  == LateFee(loan, now)
           last == amount = owed.remaining
<1>1. /\ loan \in LoanRecord /\ LoanOkay(loan) /\ now \in Nat
      /\ debt \in [Borrowers -> Nat] /\ bal[CreditLineAcct] \in Nat
  BY InvFacts
<1>2. /\ loans' = [loans EXCEPT ![id] = s]
      /\ debt' = [debt EXCEPT ![owed.borrower] = debt[owed.borrower] + fee - amount]
  BY DEF Settle
<1>3. /\ loan.status = "Active" /\ owed.remaining = loan.remaining + fee
      /\ s \in LoanRecord /\ LoanOkay(s) /\ s.remaining = loan.remaining + fee - amount
      /\ s.status = IF last THEN "Paid" ELSE "Active"
      /\ s.guarantee = loan.guarantee /\ s.borrower = loan.borrower
      /\ bal'[CreditLineAcct] = IF last THEN bal[CreditLineAcct] - loan.guarantee
                                ELSE bal[CreditLineAcct]
  BY SettleEffect
<1>4. owed.borrower = loan.borrower /\ fee \in Nat
  BY <1>1, AccrueEffect, LateFeeNat
<1>5. loan.borrower \in Borrowers /\ loan.remaining \in Nat /\ debt[loan.borrower] \in Nat
  BY <1>1, LoanNumbers
<1> HIDE DEF owed, s, fee
<1>6. CASE ~last
  <2>1. s.status = "Active"
    BY <1>3, <1>6
  <2>2. debt[loan.borrower] + fee - amount = debt[loan.borrower] + s.remaining - loan.remaining
    BY <1>3, <1>4, <1>5
  <2>3. debt' = [debt EXCEPT ![s.borrower] = @ + s.remaining - loan.remaining]
    BY <1>2, <1>3, <1>4, <2>2
  <2>4. QED BY <1>2, <1>3, <2>1, <2>3, BookAdjusts
<1>7. CASE last
  <2>1. s.status = "Paid" /\ s.remaining = 0
    BY <1>3, <1>4, <1>5, <1>7
  <2>2. Entry(s) = [Entry(loan) EXCEPT !.owed = 0, !.stage = "Paid"]
    BY <1>3, <2>1, EntryPaid
  <2>3. /\ id \in DOMAIN Book /\ Book[id] = Entry(loan)
        /\ Book' = [Book EXCEPT ![id] = Entry(s)]
    BY <1>2, <1>3, BookMoves
  <2>4. Book' = [Book EXCEPT ![id].owed = 0, ![id].stage = "Paid"]
    BY <2>2, <2>3
  <2>5. /\ Book[id].stage = "Active" /\ Book[id].borrower = loan.borrower
        /\ Book[id].owed = loan.remaining /\ Book[id].guarantee = loan.guarantee
    BY <1>3, <2>3 DEF Entry
  <2>6. debt[loan.borrower] + fee - amount = debt[loan.borrower] - loan.remaining
    BY <1>3, <1>4, <1>5, <1>7
  <2>7. debt' = [debt EXCEPT ![loan.borrower] = @ - loan.remaining]
    BY <1>2, <1>4, <2>6
  <2>8. Ledger!PayOff(id)
    BY <1>3, <1>7, <2>4, <2>5, <2>7 DEF Ledger!PayOff
  <2>9. QED BY <2>3, <2>8 DEF Ledger!Next
<1>8. QED BY <1>6, <1>7

\* Liquidity providers do not touch the escrow.
LEMMA ProvidersLedger ==
  ASSUME Inv, Inv',
         \/ \E l \in Providers, a \in DepositAmounts : Deposit(l, a)
         \/ \E l \in Providers : Withdraw(l, pool.lp[l])
  PROVE  UNCHANGED Ledger!ledgerVars
<1>1. UNCHANGED <<loans, debt>>
  BY DEF Deposit, Withdraw
<1>2. bal[CreditLineAcct] = Total(Escrowed, loans) /\ bal'[CreditLineAcct] = Total(Escrowed, loans')
  BY DEF Inv, EscrowOkay
<1>3. Book' = Book
  BY <1>1, BookIsEntries
<1>4. QED BY <1>1, <1>2, <1>3 DEF Ledger!ledgerVars

LEMMA StepLedger ==
  ASSUME Inv, Inv', [Next]_vars
  PROVE  [Ledger!Next]_(Ledger!ledgerVars)
<1>1. ASSUME NEW u \in Borrowers, NEW v \in Merchants, NEW r \in Requests, CreateLoan(u, v, r)
      PROVE  Ledger!Next
  BY <1>1, CreateLoanLedger
<1>2. ASSUME NEW u \in Borrowers, NEW v \in Merchants, NEW r \in Requests, RequestLoan(u, v, r)
      PROVE  Ledger!Next
  BY <1>2, RequestLoanLedger
<1>3. ASSUME NEW id \in LoanIds, ApproveLoan(id) PROVE Ledger!Next
  BY <1>3, ApproveLoanLedger
<1>4. ASSUME NEW id \in LoanIds, CancelLoan(id) PROVE Ledger!Next
  BY <1>4, CancelLoanLedger
<1>5. ASSUME NEW id \in LoanIds, NEW a \in Payments(id), RepayLoan(id, a)
      PROVE  Ledger!Next
  <2>1. a \in Nat
    BY <1>5, Inputs DEF RepayLoan
  <2>2. QED BY <1>5, <2>1, SettleLedger DEF RepayLoan
<1>6. ASSUME NEW id \in LoanIds, NEW k, NEW a \in Payments(id), RepayInstallment(id, k, a)
      PROVE  Ledger!Next
  <2>1. a \in Nat
    BY <1>6, Inputs DEF RepayInstallment
  <2>2. QED BY <1>6, <2>1, SettleLedger DEF RepayInstallment
<1>7. ASSUME NEW id \in LoanIds, ApplyLateFees(id) PROVE Ledger!Next
  BY <1>7, ApplyLateFeesLedger
<1>8. ASSUME NEW id \in LoanIds, MarkDefaulted(id) PROVE Ledger!Next
  BY <1>8, MarkDefaultedLedger
<1>9. CASE \/ \E l \in Providers, a \in DepositAmounts : Deposit(l, a)
           \/ \E l \in Providers : Withdraw(l, pool.lp[l])
  BY <1>9, ProvidersLedger
<1>10. CASE \/ \E p \in PauseChoices : SetPaused(p)
            \/ \E p \in PauseChoices : SetPoolPaused(p)
            \/ \E u \in Borrowers, s \in ScoreChoices : UpdateScore(u, s)
            \/ \E v \in MovedVendors : RegisterVendor(v)
            \/ \E v \in MovedVendors : ApproveVendor(v)
            \/ \E v \in MovedVendors : ActivateVendor(v)
            \/ \E v \in MovedVendors : SuspendVendor(v)
            \/ \E p \in ParamChoices : ExecuteParameters(p)
            \/ Tick
            \/ UNCHANGED vars
  <2>1. UNCHANGED <<loans, debt, bal>>
    BY <1>10, OthersInv
  <2>2. Book' = Book
    BY <2>1, BookIsEntries
  <2>3. QED BY <2>1, <2>2 DEF Ledger!ledgerVars
<1>11. QED BY <1>1, <1>2, <1>3, <1>4, <1>5, <1>6, <1>7, <1>8, <1>9, <1>10 DEF Next

LEMMA InitLedger == Init => Ledger!Init
<1> SUFFICES ASSUME Init PROVE Ledger!Init
  OBVIOUS
<1>1. loans = <<>> /\ debt = [u \in Borrowers |-> 0] /\ bal[CreditLineAcct] = 0
  BY CreditLineAssumption DEF Init
<1>2. loans \in Seq(LoanRecord) /\ Len(loans) = 0
  BY <1>1, EmptySeq
<1>3. Book \in Seq(Ledger!Entries) /\ Len(Book) = 0
  BY <1>2, EntriesOfLoans, BookIsEntries
<1>4. Book = <<>>
  BY <1>3, EmptySeq
<1>5. QED BY <1>1, <1>4 DEF Ledger!Init

\* The credit line implements LoanLedger: each transaction of any contract
\* moves one loan along its life cycle, together with the escrow and the debt
\* of its borrower, or none of the three.
THEOREM LedgerImplemented == Spec => LedgerKept
<1>1. Init => Ledger!Init
  BY InitLedger
<1>2. Inv /\ Inv' /\ [Next]_vars => [Ledger!Next]_(Ledger!ledgerVars)
  BY StepLedger
<1>3. QED BY <1>1, <1>2, InvHolds, PTL DEF Spec, LedgerKept, Ledger!Spec
=============================================================================
