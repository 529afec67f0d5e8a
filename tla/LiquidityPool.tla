--------------------------- MODULE LiquidityPool ----------------------------
(***************************************************************************)
(* The liquidity-pool contract on its own: every provider and every admin  *)
(* call, and a credit line that may call the restricted entry points with  *)
(* any amount, in any order.  What holds here holds whatever the credit    *)
(* line does.  The initial state is the deployed and wired pool            *)
(* (initialize and set_creditline have run).                               *)
(***************************************************************************)
EXTENDS PoolAccounting

CONSTANTS
  Endowment,      \* the token balances before the first deposit
  DepositAmounts, ShareAmounts, LoanAmounts, InterestAmounts, LossAmounts,
  CapChoices,     \* outflow caps (bps) the admin may set
  ExposureChoices,\* exposure ceilings the admin may set
  VendorChecks,   \* a vendor registry may be configured ({FALSE, TRUE}) or not
  PauseChoices,   \* values the admin may give the pause switch
  MaxLedger       \* bound on the ledger sequence

Accounts == Providers \cup Merchants \cup {PoolAcct, CreditLineAcct, Treasury, MerchantFund}

ASSUME PoolInputsAssumption ==
  /\ Endowment \in [Accounts -> Nat]
  /\ Endowment[PoolAcct] = 0
  /\ CapChoices \subseteq 0..Bps
  /\ ExposureChoices \subseteq Nat
  /\ VendorChecks \subseteq BOOLEAN /\ PauseChoices \subseteq BOOLEAN
  /\ DepositAmounts \cup ShareAmounts \cup LoanAmounts \cup InterestAmounts \cup LossAmounts
       \subseteq Nat
  /\ MaxLedger \in Nat

VARIABLES
  pool,    \* the storage of the contract
  bal,     \* token balances
  ledger,  \* env.ledger().sequence()
  paid     \* history: what fund_loan paid out in this ledger under a cap

vars == <<pool, bal, ledger, paid>>

Init ==
  /\ \E checkVendor \in VendorChecks : pool = InitPool(checkVendor)
  /\ bal = Endowment
  /\ ledger = 1
  /\ paid = 0

Deposit(provider, amount) ==
  /\ DepositOk(pool, bal, provider, amount)
  /\ pool' = DepositTo(pool, provider, amount)
  /\ bal' = Transfer(bal, provider, PoolAcct, amount)
  /\ UNCHANGED <<ledger, paid>>

Withdraw(provider, shares) ==
  /\ WithdrawOk(pool, bal, provider, shares)
  /\ pool' = WithdrawFrom(pool, provider, shares)
  /\ bal' = Transfer(bal, PoolAcct, provider, Worth(pool, shares))
  /\ UNCHANGED <<ledger, paid>>

FundLoan(merchant, vendorActive, amount) ==
  /\ FundLoanOk(pool, bal, ledger, merchant, vendorActive, amount)
  /\ pool' = FundLoanFrom(pool, ledger, merchant, amount)
  /\ bal' = Transfer(bal, PoolAcct, merchant, amount)
  /\ paid' = IF pool.outflowCap > 0 THEN paid + amount ELSE paid
  /\ UNCHANGED ledger

ReceiveRepayment(principal, interest) ==
  /\ ReceiveRepaymentOk(bal, principal, interest)
  /\ pool' = ReceiveRepaymentInto(pool, principal, interest)
  /\ bal' = TakeRepayment(bal, principal, interest)
  /\ UNCHANGED <<ledger, paid>>

\* distribute_interest, and its alias accumulate_interest.
DistributeInterest(interest) ==
  /\ DistributeInterestOk(pool, bal, interest)
  /\ pool' = CreditInterest(pool, interest)
  /\ bal' = TakeRepayment(bal, 0, interest)
  /\ UNCHANGED <<ledger, paid>>

ReceiveGuarantee(amount) ==
  /\ ReceiveGuaranteeOk(pool, bal, amount)
  /\ pool' = ReceiveGuaranteeInto(pool, amount)
  /\ bal' = Transfer(bal, CreditLineAcct, PoolAcct, amount)
  /\ UNCHANGED <<ledger, paid>>

AbsorbLoss(shortfall) ==
  /\ AbsorbLossOk(pool, shortfall)
  /\ pool' = AbsorbLossFrom(pool, shortfall)
  /\ UNCHANGED <<bal, ledger, paid>>

\* The admin's setters; bps > 10 000 and negative ceilings are refused.
SetOutflowCap(bps) ==
  /\ pool' = [pool EXCEPT !.outflowCap = bps]
  /\ UNCHANGED <<bal, ledger, paid>>

SetExposureCap(amount) ==
  /\ pool' = [pool EXCEPT !.exposureCap = amount]
  /\ UNCHANGED <<bal, ledger, paid>>

SetVendorRegistry(configured) ==
  /\ pool' = [pool EXCEPT !.checkVendor = configured]
  /\ UNCHANGED <<bal, ledger, paid>>

SetPaused(paused) ==
  /\ pool' = [pool EXCEPT !.paused = paused]
  /\ UNCHANGED <<bal, ledger, paid>>

\* The network closes a ledger: several transactions share one sequence.
CloseLedger ==
  /\ ledger < MaxLedger
  /\ ledger' = ledger + 1
  /\ paid' = 0
  /\ UNCHANGED <<pool, bal>>

Next ==
  \/ \E l \in Providers, a \in DepositAmounts : Deposit(l, a)
  \/ \E l \in Providers : \E s \in ShareAmounts \cup {pool.lp[l]} : Withdraw(l, s)
  \/ \E m \in Merchants, active \in BOOLEAN, a \in LoanAmounts : FundLoan(m, active, a)
  \/ \E p \in LoanAmounts \cup {0}, i \in InterestAmounts \cup {0} : ReceiveRepayment(p, i)
  \/ \E i \in InterestAmounts : DistributeInterest(i)
  \/ \E a \in LoanAmounts : ReceiveGuarantee(a)
  \/ \E s \in LossAmounts : AbsorbLoss(s)
  \/ \E c \in CapChoices : SetOutflowCap(c)
  \/ \E c \in ExposureChoices : SetExposureCap(c)
  \/ \E c \in VendorChecks : SetVendorRegistry(c)
  \/ \E c \in PauseChoices : SetPaused(c)
  \/ CloseLedger

Spec == Init /\ [][Next]_vars

-----------------------------------------------------------------------------
(* Properties                                                              *)

\* Amounts and counters are never negative, on any path of capped or checked
\* subtractions, and the storage keeps its shape.
TypeOK ==
  /\ pool \in PoolType
  /\ bal \in [Accounts -> Nat]
  /\ ledger \in Nat
  /\ paid \in Nat

\* However repayments, guarantees, losses and withdrawals interleave, the pool
\* never locks more than it has: the reductions capped separately at the two
\* counters (receive_repayment, receive_guarantee, absorb_loss) keep their
\* order, so available_liquidity never goes negative.
LockedWithinLiquidity == pool.locked <= pool.liquidity

\* No share is created or lost: the total is the dead shares plus every
\* provider's, across seeding, deposits and burns.
SharesAccounted == SharesAccountedIn(pool)

\* The rolling window is exactly what left under the cap in this ledger: it
\* neither forgets a payout of the ledger nor carries one over from an older.
WindowIsThisLedgers == UsedIn(pool, ledger) = paid

\* All the payouts of one ledger under a cap, taken together, stay within the
\* fraction of the liquidity available when the last of them is made.
CappedOutflow ==
  [][ paid' > paid => paid' * Bps <= Available(pool) * pool.outflowCap ]_vars

\* The exposure recorded against a merchant is what the merchant received,
\* with the ceiling switched on or off, raised or lowered.
ExposureIsPayouts ==
  \A m \in Merchants : pool.funded[m] = bal[m] - Endowment[m]

\* The exact price p.liquidity + Dead per share of one state is at most that
\* of another (compared by cross-multiplication).
PriceAtMost(p, q) == (p.liquidity + Dead) * q.shares <= (q.liquidity + Dead) * p.shares

\* The exact price is below the smallest one the contract can express, so that
\* it reckons with the floor of 1 instead.
PriceFloored(p) == (p.liquidity + Dead) * Precision < p.shares

\* The share price falls in three ways only: shares are issued, a loss is
\* written off and no token moves, or shares are redeemed at the floored price.
\* Any other withdrawal rounds in the pool's favour; one at the floored price
\* may pay more than the shares are worth and lower what the others keep, but
\* never more than one Precision-th of a token per share.
PriceFallsOnlyForCause ==
  [][ \/ PriceAtMost(pool, pool')
      \/ pool'.shares > pool.shares
      \/ pool'.shares = pool.shares /\ pool'.liquidity < pool.liquidity /\ bal' = bal
      \/ /\ PriceFloored(pool)
         /\ pool'.shares < pool.shares
         /\ (pool.liquidity - pool'.liquidity) * Precision <= pool.shares - pool'.shares ]_vars

\* Whatever rounding does to the price, nobody gains by depositing and
\* withdrawing at once: the shares of a deposit never redeem for more than it.
RoundTripNeverProfits ==
  \A l \in Providers, a \in DepositAmounts :
    DepositOk(pool, bal, l, a) =>
      Worth(DepositTo(pool, l, a), SharesIssued(pool, a)) <= a

\* While the pool is paused only repayments reach it: no share moves, nothing
\* is lent out or written off, and no token leaves except as interest fees.
PauseFreezesAllButRepayment ==
  [][ pool.paused /\ pool'.paused =>
        /\ pool'.shares = pool.shares /\ pool'.lp = pool.lp
        /\ pool'.locked <= pool.locked
        /\ pool'.liquidity >= pool.liquidity
        /\ bal'[PoolAcct] >= bal[PoolAcct] ]_vars

-----------------------------------------------------------------------------
(* What a comment says and the code does not do                            *)

\* The pool keeps the rounding remainder of a withdrawal: no shares redeem for
\* more than their part of the liquidity.
WithdrawalsRoundDown ==
  \A l \in Providers : \A s \in ShareAmounts \cup {pool.lp[l]} :
    WithdrawOk(pool, bal, l, s) =>
      Worth(pool, s) * pool.shares <= s * (pool.liquidity + Dead)
=============================================================================
