----------------------------- MODULE CreditLine -----------------------------
(***************************************************************************)
(* The creditline contract together with the contracts its transactions    *)
(* call: the liquidity pool (PoolAccounting), the token, the reputation    *)
(* score, the vendor registry and the protocol parameters.                 *)
(*                                                                         *)
(* A transaction is atomic: an Err or a panic anywhere, a callee included, *)
(* reverts all of it.  So each transaction is one action, its guard the    *)
(* conjunction of every check on its path, and what can interleave is      *)
(* transactions: of borrowers, providers, admins and, for late fees and    *)
(* defaults, of anyone.  The reentrancy lock is FALSE between              *)
(* transactions and is not represented.  The initial state is the deployed *)
(* and wired system.                                                       *)
(***************************************************************************)
EXTENDS PoolAccounting, Loan, Reputation, VendorRegistry

CONSTANTS
  Borrowers,
  Endowment,      \* the token balances before the first transaction
  InitialScores,  \* [Borrowers -> 0..100]
  ParamChoices,   \* parameter records governance may execute; one is initial
  Requests,       \* [total, guarantee, schedule] a borrower may submit
  RepayAmounts,   \* amounts a borrower may pay besides all that is owed
  DepositAmounts, \* amounts a provider may deposit
  ScoreChoices,   \* scores the other updaters may leave a borrower with
  InitialStatus,  \* the registry's status of each vendor
  MovedVendors,   \* vendors whose status the registry's admin may change
  PauseChoices,   \* values the admins may give the pause switches
  MaxLoans,       \* bound on the number of loans
  MaxTime         \* bound on the ledger timestamp

Accounts == Borrowers \cup Providers \cup Merchants
              \cup {PoolAcct, CreditLineAcct, Treasury, MerchantFund}

ASSUME CreditLineAssumption ==
  /\ CreditLineAcct \notin Borrowers \cup Providers \cup Merchants
                             \cup {PoolAcct, Treasury, MerchantFund}
  /\ PoolAcct \notin Borrowers
  /\ Endowment \in [Accounts -> Nat]
  /\ Endowment[PoolAcct] = 0 /\ Endowment[CreditLineAcct] = 0
  /\ InitialScores \in [Borrowers -> 0..MaxScore]
  /\ ScoreChoices \subseteq 0..MaxScore
  /\ ParamChoices \subseteq [minGuarantee : Nat, threshold : Nat, penalty : Nat,
                             largeLoan : Nat, largePenalty : Nat,
                             baseInterest : Nat, grace : Nat]
  /\ \A r \in Requests : r.total \in Nat /\ r.guarantee \in Nat
                           /\ r.schedule \in Seq([due : Nat, paid : BOOLEAN])
  /\ RepayAmounts \cup DepositAmounts \subseteq Nat
  /\ InitialStatus \in [Merchants -> VendorStatus]
  /\ MovedVendors \subseteq Merchants
  /\ PauseChoices \subseteq BOOLEAN
  /\ MaxLoans \in Nat /\ MaxTime \in Nat

VARIABLES
  loans,        \* the loans by id, 1 upwards
  debt,         \* UserActiveDebt(borrower)
  paused,       \* the credit line's pause switch
  params,       \* get_protocol_parameters
  score,        \* the reputation contract's scores
  vendorStatus, \* the status of each vendor in the registry
  pool,         \* the storage of the liquidity pool
  bal,          \* token balances
  now           \* env.ledger(): the timestamp, and the sequence of the ledger

vars == <<loans, debt, paused, params, score, vendorStatus, pool, bal, now>>

LoanIds == DOMAIN loans

Init ==
  /\ loans = <<>>
  /\ debt = [u \in Borrowers |-> 0]
  /\ paused = FALSE
  /\ params \in ParamChoices
  /\ score = InitialScores
  /\ vendorStatus = InitialStatus
  /\ pool = InitPool(TRUE)
  /\ bal = Endowment
  /\ now = 1

-----------------------------------------------------------------------------
(* Opening a loan                                                          *)

\* The checks of build_loan and of the validations before it.
LoanOk(loan) ==
  /\ ~paused
  /\ GuaranteeOk(params, loan.total, loan.guarantee)
  /\ IsActive(vendorStatus[loan.vendor])
  /\ score[loan.borrower] >= params.threshold
  /\ debt[loan.borrower] + loan.remaining <= CreditLimit(score[loan.borrower])

Contribution(loan) == loan.total - loan.guarantee

\* validate_liquidity and fund_loan_from_pool, from balances b.
FundingOk(b, loan) ==
  Contribution(loan) > 0 =>
    FundLoanOk(pool, b, now, loan.vendor, IsActive(vendorStatus[loan.vendor]),
               Contribution(loan))

FundedPool(loan) ==
  IF Contribution(loan) > 0
  THEN FundLoanFrom(pool, now, loan.vendor, Contribution(loan))
  ELSE pool

PayVendor(b, loan) == Transfer(b, PoolAcct, loan.vendor, Contribution(loan))

CreateLoan(borrower, vendor, r) ==
  LET loan   == NewLoan(params, score[borrower], borrower, vendor,
                        r.total, r.guarantee, r.schedule, "Active")
      pulled == Transfer(bal, borrower, CreditLineAcct, loan.guarantee)
  IN  /\ LoanOk(loan)
      /\ TransferOk(bal, borrower, loan.guarantee)
      /\ FundingOk(pulled, loan)
      /\ loans' = Append(loans, loan)
      /\ debt' = [debt EXCEPT ![borrower] = @ + loan.remaining]
      /\ pool' = FundedPool(loan)
      /\ bal' = PayVendor(pulled, loan)
      /\ UNCHANGED <<paused, params, score, vendorStatus, now>>

\* A request escrows the guarantee; the pool is not asked and no debt counts
\* yet.
RequestLoan(borrower, vendor, r) ==
  LET loan == NewLoan(params, score[borrower], borrower, vendor,
                      r.total, r.guarantee, r.schedule, "Pending")
  IN  /\ LoanOk(loan)
      /\ TransferOk(bal, borrower, loan.guarantee)
      /\ loans' = Append(loans, loan)
      /\ bal' = Transfer(bal, borrower, CreditLineAcct, loan.guarantee)
      /\ UNCHANGED <<debt, paused, params, score, vendorStatus, pool, now>>

\* The admin.  Vendor, score and liquidity are checked again, the credit
\* limit is not, and the terms stay those of the request.
ApproveLoan(id) ==
  LET loan == loans[id]
  IN  /\ ~paused
      /\ loan.status = "Pending"
      /\ loan.schedule # <<>>
      /\ \A k \in DOMAIN loan.schedule : loan.schedule[k].due > now
      /\ IsActive(vendorStatus[loan.vendor])
      /\ score[loan.borrower] >= params.threshold
      /\ FundingOk(bal, loan)
      /\ loans' = [loans EXCEPT ![id].status = "Active"]
      /\ debt' = [debt EXCEPT ![loan.borrower] = @ + loan.remaining]
      /\ pool' = FundedPool(loan)
      /\ bal' = PayVendor(bal, loan)
      /\ UNCHANGED <<paused, params, score, vendorStatus, now>>

\* Mutation: the status is not checked, so that a guarantee is refunded twice.
CancelAnyLoan(id) ==
  LET loan == loans[id]
  IN  /\ ~paused
      /\ TransferOk(bal, CreditLineAcct, loan.guarantee)
      /\ loans' = [loans EXCEPT ![id].status = "Cancelled"]
      /\ bal' = Transfer(bal, CreditLineAcct, loan.borrower, loan.guarantee)
      /\ UNCHANGED <<debt, paused, params, score, vendorStatus, pool, now>>

\* The borrower or the admin.
CancelLoan(id) ==
  LET loan == loans[id]
  IN  /\ ~paused
      /\ loan.status = "Pending"
      /\ TransferOk(bal, CreditLineAcct, loan.guarantee)
      /\ loans' = [loans EXCEPT ![id].status = "Cancelled"]
      /\ bal' = Transfer(bal, CreditLineAcct, loan.borrower, loan.guarantee)
      /\ UNCHANGED <<debt, paused, params, score, vendorStatus, pool, now>>

-----------------------------------------------------------------------------
(* Repaying                                                                *)

MarkPaid(schedule, marked) ==
  [k \in DOMAIN schedule |-> [schedule[k] EXCEPT !.paid = @ \/ k \in marked]]

\* The loan after amount, with the installments of marked now paid.
Settled(owed, amount, marked) ==
  LET rest == ApplyWaterfall(owed, amount)
  IN  [rest EXCEPT !.status   = IF rest.remaining = 0 THEN "Paid" ELSE @,
                   !.schedule = MarkPaid(@, marked)]

\* What the pool gets: principal apart from interest and fees.
InterestAndFees(part) == part.late + part.interest + part.fee

\* The balances after the borrower's payment went through the credit line
\* into the pool.
PassOn(owed, amount) ==
  LET part == Allocation(owed, amount)
  IN  TakeRepayment(Transfer(bal, owed.borrower, CreditLineAcct, amount),
                    part.principal, InterestAndFees(part))

\* Mutation: more than what is owed may be paid.
OverpaymentOk(id, amount) ==
  LET owed == Accrue(loans[id], now)
  IN  /\ owed.status = "Active"
      /\ amount > 0
      /\ TransferOk(bal, owed.borrower, amount)

\* Mutation: repayments stop while the credit line is paused.
SettleUnpausedOk(id, amount) ==
  LET owed == Accrue(loans[id], now)
  IN  /\ ~paused
      /\ owed.status = "Active"
      /\ amount > 0
      /\ amount <= owed.remaining
      /\ TransferOk(bal, owed.borrower, amount)

\* All of a repayment but its own guard: late fees first, then the payment;
\* the last one returns the guarantee and must be able to raise the score.
SettleOk(id, amount) ==
  LET owed == Accrue(loans[id], now)
      part == Allocation(owed, amount)
  IN  /\ owed.status = "Active"
      /\ amount > 0
      /\ amount <= owed.remaining
      /\ TransferOk(bal, owed.borrower, amount)
      /\ ReceiveRepaymentOk(Transfer(bal, owed.borrower, CreditLineAcct, amount),
                            part.principal, InterestAndFees(part))
      /\ amount = owed.remaining =>
           /\ TransferOk(PassOn(owed, amount), CreditLineAcct, owed.guarantee)
           /\ RaiseOk(score[owed.borrower], Reward(owed, now))

\* Mutation: the fee is charged and paid but the cursor is not stored.
SettleForgetsCursor(id, amount, marked) ==
  LET owed == Accrue(loans[id], now)
      part == Allocation(owed, amount)
      last == amount = owed.remaining
  IN  /\ loans' = [loans EXCEPT ![id] = [Settled(owed, amount, marked)
                                           EXCEPT !.accrued = loans[id].accrued]]
      /\ debt' = [debt EXCEPT ![owed.borrower] = @ + LateFee(loans[id], now) - amount]
      /\ pool' = ReceiveRepaymentInto(pool, part.principal, InterestAndFees(part))
      /\ bal' = IF last
                THEN Transfer(PassOn(owed, amount),
                              CreditLineAcct, owed.borrower, owed.guarantee)
                ELSE PassOn(owed, amount)
      /\ score' = IF last
                  THEN [score EXCEPT ![owed.borrower] = @ + Reward(owed, now)]
                  ELSE score
      /\ UNCHANGED <<paused, params, vendorStatus, now>>

Settle(id, amount, marked) ==
  LET owed == Accrue(loans[id], now)
      part == Allocation(owed, amount)
      last == amount = owed.remaining
  IN  /\ loans' = [loans EXCEPT ![id] = Settled(owed, amount, marked)]
      /\ debt' = [debt EXCEPT ![owed.borrower] = @ + LateFee(loans[id], now) - amount]
      /\ pool' = ReceiveRepaymentInto(pool, part.principal, InterestAndFees(part))
      /\ bal' = IF last
                THEN Transfer(PassOn(owed, amount),
                              CreditLineAcct, owed.borrower, owed.guarantee)
                ELSE PassOn(owed, amount)
      /\ score' = IF last
                  THEN [score EXCEPT ![owed.borrower] = @ + Reward(owed, now)]
                  ELSE score
      /\ UNCHANGED <<paused, params, vendorStatus, now>>

\* Repayments do not look at the pause switch.
RepayLoan(id, amount) ==
  /\ SettleOk(id, amount)
  /\ Settle(id, amount, {})

\* Any amount marks the installment paid.
RepayInstallment(id, k, amount) ==
  /\ ~loans[id].schedule[k].paid
  /\ SettleOk(id, amount)
  /\ Settle(id, amount, {k})

-----------------------------------------------------------------------------
(* What anyone may trigger                                                 *)

\* Mutation: the fee does not reach the debt counter.
AccrueWithoutDebt(id) ==
  /\ loans[id].status = "Active"
  /\ loans' = [loans EXCEPT ![id] = Accrue(@, now)]
  /\ UNCHANGED <<debt, paused, params, score, vendorStatus, pool, bal, now>>

ApplyLateFees(id) ==
  /\ loans[id].status = "Active"
  /\ loans' = [loans EXCEPT ![id] = Accrue(@, now)]
  /\ debt' = [debt EXCEPT ![loans[id].borrower] = @ + LateFee(loans[id], now)]
  /\ UNCHANGED <<paused, params, score, vendorStatus, pool, bal, now>>

\* The guarantee goes to the pool and the pool absorbs the rest.
MarkDefaultedOk(id) ==
  LET loan == loans[id]
  IN  /\ ~paused
      /\ loan.status = "Active"
      /\ Matured(params, loan, now)
      /\ ReceiveGuaranteeOk(pool, bal, loan.guarantee)
      /\ Shortfall(loan) > 0 =>
           AbsorbLossOk(ReceiveGuaranteeInto(pool, loan.guarantee), Shortfall(loan))
      /\ LowerOk(score[loan.borrower], Penalty(params, loan))

MarkDefaulted(id) ==
  LET loan      == loans[id]
      recovered == ReceiveGuaranteeInto(pool, loan.guarantee)
  IN  /\ MarkDefaultedOk(id)
      /\ loans' = [loans EXCEPT ![id].status = "Defaulted"]
      /\ debt' = [debt EXCEPT ![loan.borrower] = @ - loan.remaining]
      /\ pool' = IF Shortfall(loan) > 0 THEN AbsorbLossFrom(recovered, Shortfall(loan))
                 ELSE recovered
      /\ bal' = Transfer(bal, CreditLineAcct, PoolAcct, loan.guarantee)
      /\ score' = [score EXCEPT ![loan.borrower] = @ - Penalty(params, loan)]
      /\ UNCHANGED <<paused, params, vendorStatus, now>>

-----------------------------------------------------------------------------
(* The other contracts and the admins                                      *)

Deposit(provider, amount) ==
  /\ DepositOk(pool, bal, provider, amount)
  /\ pool' = DepositTo(pool, provider, amount)
  /\ bal' = Transfer(bal, provider, PoolAcct, amount)
  /\ UNCHANGED <<loans, debt, paused, params, score, vendorStatus, now>>

Withdraw(provider, shares) ==
  /\ WithdrawOk(pool, bal, provider, shares)
  /\ pool' = WithdrawFrom(pool, provider, shares)
  /\ bal' = Transfer(bal, PoolAcct, provider, Worth(pool, shares))
  /\ UNCHANGED <<loans, debt, paused, params, score, vendorStatus, now>>

SetPaused(p) ==
  /\ paused' = p
  /\ UNCHANGED <<loans, debt, params, score, vendorStatus, pool, bal, now>>

SetPoolPaused(p) ==
  /\ pool' = [pool EXCEPT !.paused = p]
  /\ UNCHANGED <<loans, debt, paused, params, score, vendorStatus, bal, now>>

\* Another updater (set_score, the boosts of vouching) moves a score.
UpdateScore(borrower, s) ==
  /\ score' = [score EXCEPT ![borrower] = s]
  /\ UNCHANGED <<loans, debt, paused, params, vendorStatus, pool, bal, now>>

\* The registry's admin; a vendor's status changes while its loans run.
RegisterVendor(v) ==
  /\ Registrable(vendorStatus[v])
  /\ vendorStatus' = [vendorStatus EXCEPT ![v] = "Pending"]
  /\ UNCHANGED <<loans, debt, paused, params, score, pool, bal, now>>

ApproveVendor(v) ==
  /\ Approvable(vendorStatus[v])
  /\ vendorStatus' = [vendorStatus EXCEPT ![v] = "Approved"]
  /\ UNCHANGED <<loans, debt, paused, params, score, pool, bal, now>>

\* activate_vendor, or set_vendor_status with TRUE.
ActivateVendor(v) ==
  /\ Movable(vendorStatus[v])
  /\ vendorStatus' = [vendorStatus EXCEPT ![v] = "Approved"]
  /\ UNCHANGED <<loans, debt, paused, params, score, pool, bal, now>>

\* suspend_vendor, deactivate_vendor, or set_vendor_status with FALSE.
SuspendVendor(v) ==
  /\ Movable(vendorStatus[v])
  /\ vendorStatus' = [vendorStatus EXCEPT ![v] = "Suspended"]
  /\ UNCHANGED <<loans, debt, paused, params, score, pool, bal, now>>

\* Governance executes a parameter proposal, in the middle of running loans.
ExecuteParameters(p) ==
  /\ params' = p
  /\ UNCHANGED <<loans, debt, paused, score, vendorStatus, pool, bal, now>>

Tick ==
  /\ now < MaxTime
  /\ now' = now + 1
  /\ UNCHANGED <<loans, debt, paused, params, score, vendorStatus, pool, bal>>

\* What the borrower owes in all, late fees up to now included.
Owed(id) == Accrue(loans[id], now).remaining

\* The amounts a borrower tries to pay: also all that is owed, and late fees
\* but for one token.
Payments(id) == RepayAmounts \cup {Owed(id), Accrue(loans[id], now).late - 1}

Next ==
  \/ \E u \in Borrowers, v \in Merchants, r \in Requests :
       Len(loans) < MaxLoans /\ CreateLoan(u, v, r)
  \/ \E u \in Borrowers, v \in Merchants, r \in Requests :
       Len(loans) < MaxLoans /\ RequestLoan(u, v, r)
  \/ \E id \in LoanIds : ApproveLoan(id)
  \/ \E id \in LoanIds : CancelLoan(id)
  \/ \E id \in LoanIds : \E a \in Payments(id) : RepayLoan(id, a)
  \/ \E id \in LoanIds : \E k \in DOMAIN loans[id].schedule, a \in Payments(id) :
                            RepayInstallment(id, k, a)
  \/ \E id \in LoanIds : ApplyLateFees(id)
  \/ \E id \in LoanIds : MarkDefaulted(id)
  \/ \E l \in Providers, a \in DepositAmounts : Deposit(l, a)
  \/ \E l \in Providers : Withdraw(l, pool.lp[l])
  \/ \E p \in PauseChoices : SetPaused(p)
  \/ \E p \in PauseChoices : SetPoolPaused(p)
  \/ \E u \in Borrowers, s \in ScoreChoices : UpdateScore(u, s)
  \/ \E v \in MovedVendors : RegisterVendor(v)
  \/ \E v \in MovedVendors : ApproveVendor(v)
  \/ \E v \in MovedVendors : ActivateVendor(v)
  \/ \E v \in MovedVendors : SuspendVendor(v)
  \/ \E p \in ParamChoices : ExecuteParameters(p)
  \/ Tick

Spec == Init /\ [][Next]_vars

\* Time passes and somebody (the pool's operator, a provider) closes matured
\* loans: mark_defaulted is permissionless.
FairSpec ==
  /\ Spec
  /\ WF_vars(Tick)
  /\ \A id \in 1..MaxLoans : WF_vars(id \in LoanIds /\ MarkDefaulted(id))

-----------------------------------------------------------------------------
(* Properties of the loans                                                 *)

LoanRecord ==
  [borrower : Borrowers, vendor : Merchants, total : Nat, guarantee : Nat,
   principal : Nat, interest : Nat, fee : Nat, late : Nat, remaining : Nat,
   accrued : Nat, schedule : Seq([due : Nat, paid : BOOLEAN]),
   status : LoanStatus]

\* No bucket, debt, score or balance is ever negative and the storage keeps
\* its shape.
TypeOK ==
  /\ loans \in Seq(LoanRecord)
  /\ debt \in [Borrowers -> Nat]
  /\ paused \in BOOLEAN
  /\ params \in ParamChoices
  /\ score \in [Borrowers -> 0..MaxScore]
  /\ vendorStatus \in [Merchants -> VendorStatus]
  /\ pool \in PoolType
  /\ bal \in [Accounts -> Nat]
  /\ now \in Nat

\* The remaining balance, kept apart from the four buckets, is always their
\* sum, through every mix of accruals, partial payments and installments, and
\* exactly the paid loans have none.
LoansBalanced ==
  \A id \in LoanIds :
    LET loan == loans[id]
    IN  /\ loan.remaining = loan.late + loan.interest + loan.fee + loan.principal
        /\ loan.status = "Paid" <=> loan.remaining = 0

\* The debt counter, adjusted by each transaction separately, is what the
\* borrower's active loans add up to.
DebtIsActiveBalance ==
  \A u \in Borrowers :
    debt[u] = Sum([id \in LoanIds |-> IF loans[id].borrower = u /\ loans[id].status = "Active"
                                      THEN loans[id].remaining ELSE 0], LoanIds)

\* The credit line holds the guarantees of the pending and the active loans
\* and nothing else: none is refunded or forfeited twice, none is left behind.
EscrowExact ==
  bal[CreditLineAcct] =
    Sum([id \in LoanIds |-> IF loans[id].status \in {"Pending", "Active"}
                            THEN loans[id].guarantee ELSE 0], LoanIds)

\* What the pool is still out of pocket for a loan.
Exposure(loan) ==
  IF loan.status = "Active" THEN NonNegative(Shortfall(loan)) ELSE 0

Outstanding == Sum([id \in LoanIds |-> Exposure(loans[id])], LoanIds)

\* The liquidity the pool reports is in its account or out on active loans,
\* whatever mix of repayments, defaults and withdrawals happened.
PoolSolvent == bal[PoolAcct] + Outstanding >= pool.liquidity

\* Until the first default, what the pool calls available is in its account,
\* although full repayments unlock more than their loan had locked.
AvailableIsHeldUntilDefault ==
  (\A id \in LoanIds : loans[id].status # "Defaulted") => Available(pool) <= bal[PoolAcct]

\* Until the first default the pool's account differs from the liquidity it
\* reports by exactly two things: what is out on active loans, and the
\* guarantees of the paid ones, which the pool collected as principal although
\* it had never paid them out, and which no share can redeem.
PoolTokensExact ==
  (\A id \in LoanIds : loans[id].status # "Defaulted") =>
    bal[PoolAcct] = pool.liquidity
      - Sum([id \in LoanIds |-> IF loans[id].status = "Active" THEN Shortfall(loans[id])
                                ELSE 0], LoanIds)
      + Sum([id \in LoanIds |-> IF loans[id].status = "Paid" THEN loans[id].guarantee
                                ELSE 0], LoanIds)

\* The exposure the pool recorded against a vendor is what the credit line's
\* funded loans had it pay, and what the vendor received.
ExposureIsFundedLoans ==
  \A v \in Merchants :
    LET funded == Sum([id \in LoanIds |->
                         IF loans[id].vendor = v /\ loans[id].status \in {"Active", "Paid", "Defaulted"}
                         THEN Contribution(loans[id]) ELSE 0], LoanIds)
    IN  pool.funded[v] = funded /\ bal[v] - Endowment[v] = funded

\* What the borrower of a loan paid on it in a step; a last payment is made
\* before the guarantee comes back.
PaidOn(id) ==
  LET u == loans[id].borrower
  IN  bal[u] - bal'[u] + (IF loans'[id].status = "Paid" THEN loans[id].guarantee ELSE 0)

\* The late fees a step charged for a loan, seen from outside: by how much its
\* balance fell short of falling by what was paid.
Charged(id) == loans'[id].remaining - loans[id].remaining + PaidOn(id)

\* No day late is charged twice, whether apply_late_fees or a repayment that
\* pays the fee at once charges it: a step that touches an active loan either
\* charges nothing and leaves the cursor, or charges some whole days from the
\* cursor, or from a passed due date, up to the new cursor, so that no day before the
\* old cursor, none on time and none that has not passed is among them, and
\* less than one day is left uncharged.
LateDaysChargedOnce ==
  [][ \A id \in LoanIds :
        LET loan  == loans[id]
            until == loans'[id].accrued
            dues  == {loan.schedule[k].due : k \in DOMAIN loan.schedule}
        IN  loan.status = "Active" /\ loans'[id] # loan =>
              \/ Charged(id) = 0 /\ until = loan.accrued
              \/ \E from \in dues \cup {loan.accrued}, days \in 1..now :
                   /\ Charged(id) = BpsOf(loan.remaining, LateFeeBpsPerDay * days)
                   /\ until = from + days * Day
                   /\ from >= loan.accrued /\ \E due \in dues : from >= due
                   /\ until <= now /\ now < until + Day ]_vars

\* The policy of repay_loan: no pause of either contract and no state of the
\* pool keeps a borrower who has the tokens from paying part of a debt.
PartialRepaymentNeverBlocked ==
  \A id \in LoanIds, a \in RepayAmounts :
    /\ loans[id].status = "Active"
    /\ a > 0 /\ a < Owed(id)
    /\ bal[loans[id].borrower] >= a
    => SettleOk(id, a)

\* While neither contract is paused, the borrower's score is the only thing
\* that can keep a matured loan from being defaulted: neither the caps of the
\* pool's two steps nor the locks of other loans ever refuse it.
DefaultBlockedOnlyByScore ==
  \A id \in LoanIds :
    /\ loans[id].status = "Active" /\ Matured(params, loans[id], now)
    /\ ~paused /\ ~pool.paused
    => (MarkDefaultedOk(id) <=> LowerOk(score[loans[id].borrower], Penalty(params, loans[id])))

\* A vendor gets tokens only while the registry has it approved, whatever
\* happened to it between the request of a loan and its approval.
OnlyApprovedVendorsPaid ==
  [][ \A v \in Merchants :
        bal'[v] > bal[v] => vendorStatus[v] = "Approved" ]_vars

\* What LoanLedger knows of a loan, and of all of them.
Entry(loan) == [borrower |-> loan.borrower,  guarantee |-> loan.guarantee,
                owed     |-> loan.remaining, stage     |-> loan.status]

Book == [id \in LoanIds |-> Entry(loans[id])]

\* The credit line keeps the promises of LoanLedger.
Ledger == INSTANCE LoanLedger WITH book <- Book, escrow <- bal[CreditLineAcct]

\* Every transaction moves one loan along its life cycle, and the escrow and
\* the borrower's debt with it, or none of them.
LedgerKept == Ledger!Spec

\* A matured loan does not stay active, if from some point on neither contract
\* is paused and the borrower's score can bear the penalty.
MaturedLoansClose ==
  \A id \in 1..MaxLoans :
    LET Clear == /\ ~paused /\ ~pool.paused
                 /\ id \in LoanIds => score[loans[id].borrower] >= Penalty(params, loans[id])
        Open  == /\ id \in LoanIds
                 /\ loans[id].status = "Active" /\ loans[id].schedule # <<>>
    IN  <>[]Clear => []<>~Open

-----------------------------------------------------------------------------
(* What the documentation says and the code does not do                    *)

\* A borrower who has the tokens can pay a loan off.
FullRepaymentPossible ==
  \A id \in LoanIds :
    loans[id].status = "Active" /\ bal[loans[id].borrower] >= Owed(id) => SettleOk(id, Owed(id))

\* The safety net: every matured loan can be marked defaulted.
MaturedLoanDefaultable ==
  \A id \in LoanIds :
    /\ loans[id].status = "Active" /\ Matured(params, loans[id], now)
    /\ ~paused /\ ~pool.paused
    => MarkDefaultedOk(id)

\* Funding a loan never takes the borrower's debt over the credit limit.
FundingWithinLimit ==
  [][ \A id \in DOMAIN loans' :
        LET u == loans'[id].borrower
        IN  /\ loans'[id].status = "Active"
            /\ id \notin LoanIds \/ loans[id].status = "Pending"
            => debt'[u] <= CreditLimit(score[u]) ]_vars
=============================================================================
