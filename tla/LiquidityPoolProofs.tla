------------------------ MODULE LiquidityPoolProofs -------------------------
(***************************************************************************)
(* Proofs about LiquidityPool, for every number of providers, every set of *)
(* amounts and every value of the contract's constants.                    *)
(***************************************************************************)
EXTENDS LiquidityPool, PoolAccountingProofs

LEMMA SystemAccounts ==
  /\ PoolAcct \in Accounts /\ CreditLineAcct \in Accounts
  /\ Treasury \in Accounts /\ MerchantFund \in Accounts
  /\ Providers \subseteq Accounts /\ Merchants \subseteq Accounts
  /\ PoolAcct \notin Providers \cup Merchants \cup {CreditLineAcct, Treasury, MerchantFund}
BY PoolAssumption DEF Accounts

-----------------------------------------------------------------------------
(* The inductive invariant                                                 *)

\* TypeOK alone is not inductive: a withdrawal keeps the counters natural only
\* because locked <= liquidity and because a provider's shares are part of
\* the total; the window is this ledger's only because it is never a later
\* one's.
Inv ==
  /\ TypeOK
  /\ LockedWithinLiquidity
  /\ SharesAccounted
  /\ pool.window.seq <= ledger
  /\ WindowIsThisLedgers

LEMMA InitInv == Init => Inv
<1> SUFFICES ASSUME Init PROVE Inv
  OBVIOUS
<1>1. PICK checkVendor \in VendorChecks : pool = InitPool(checkVendor)
  BY DEF Init
<1>2. checkVendor \in BOOLEAN
  BY <1>1, PoolInputsAssumption
<1>3. InitPool(checkVendor) \in PoolType
  BY <1>2 DEF InitPool, PoolType
<1>4. TypeOK
  BY <1>1, <1>3, PoolInputsAssumption DEF Init, TypeOK
<1>5. LockedWithinLiquidity
  BY <1>1 DEF InitPool, LockedWithinLiquidity
<1>6. SharesAccounted
  BY <1>1 DEF InitPool, SharesAccounted, SharesAccountedIn
<1>7. pool.window.seq <= ledger /\ WindowIsThisLedgers
  BY <1>1 DEF Init, InitPool, WindowIsThisLedgers, UsedIn
<1>8. QED BY <1>4, <1>5, <1>6, <1>7 DEF Inv

\* A transaction that leaves the window and the ledger alone preserves Inv as
\* soon as its effects on the storage and on the balances do.
LEMMA SameWindow ==
  ASSUME Inv, pool' \in PoolType, bal' \in [Accounts -> Nat],
         pool'.locked <= pool'.liquidity, SharesAccountedIn(pool'),
         pool'.window = pool.window, UNCHANGED <<ledger, paid>>
  PROVE  Inv'
BY DEF Inv, TypeOK, LockedWithinLiquidity, SharesAccounted, WindowIsThisLedgers, UsedIn

LEMMA DepositInv ==
  ASSUME Inv, NEW provider \in Providers, NEW amount \in Nat, Deposit(provider, amount)
  PROVE  Inv'
<1>1. /\ pool \in PoolType /\ bal \in [Accounts -> Nat]
      /\ SharesAccountedIn(pool) /\ pool.locked <= pool.liquidity
      /\ pool.locked \in Nat /\ pool.liquidity \in Nat
  BY DEF Inv, TypeOK, SharesAccounted, LockedWithinLiquidity, PoolType
<1>2. bal[provider] >= amount /\ UNCHANGED <<ledger, paid>>
  BY DEF Deposit, DepositOk, TransferOk
<1>3. /\ pool' \in PoolType /\ SharesAccountedIn(pool') /\ pool'.window = pool.window
      /\ pool'.locked = pool.locked /\ pool'.liquidity = pool.liquidity + amount
  BY <1>1, DepositEffect DEF Deposit
<1>4. pool'.locked <= pool'.liquidity
  BY <1>1, <1>3
<1>5. bal' \in [Accounts -> Nat]
  BY <1>1, <1>2, SystemAccounts, TransferType DEF Deposit
<1>6. QED BY <1>2, <1>3, <1>4, <1>5, SameWindow

LEMMA WithdrawInv ==
  ASSUME Inv, NEW provider \in Providers, NEW shares \in Nat, Withdraw(provider, shares)
  PROVE  Inv'
<1>1. /\ pool \in PoolType /\ bal \in [Accounts -> Nat]
      /\ SharesAccountedIn(pool) /\ pool.locked <= pool.liquidity
  BY DEF Inv, TypeOK, SharesAccounted, LockedWithinLiquidity
<1>2. /\ shares > 0 /\ pool.lp[provider] >= shares
      /\ Worth(pool, shares) <= Available(pool) /\ bal[PoolAcct] >= Worth(pool, shares)
      /\ UNCHANGED <<ledger, paid>>
  BY DEF Withdraw, WithdrawOk, TransferOk
<1>3. /\ pool' \in PoolType /\ SharesAccountedIn(pool') /\ pool'.window = pool.window
      /\ pool'.locked <= pool'.liquidity
  BY <1>1, <1>2, WithdrawEffect DEF Withdraw
<1>4. bal' \in [Accounts -> Nat]
  BY <1>1, <1>2, SystemAccounts, WorthNat, TransferType DEF Withdraw
<1>5. QED BY <1>2, <1>3, <1>4, SameWindow

LEMMA FundLoanInv ==
  ASSUME Inv, NEW merchant \in Merchants, NEW vendorActive \in BOOLEAN, NEW amount \in Nat,
         FundLoan(merchant, vendorActive, amount)
  PROVE  Inv'
<1>1. /\ pool \in PoolType /\ bal \in [Accounts -> Nat]
      /\ SharesAccountedIn(pool) /\ ledger \in Nat /\ paid \in Nat
      /\ pool.window.seq <= ledger /\ UsedIn(pool, ledger) = paid
  BY DEF Inv, TypeOK, SharesAccounted, WindowIsThisLedgers
<1>2. amount <= Available(pool) /\ bal[PoolAcct] >= amount /\ ledger' = ledger
  BY DEF FundLoan, FundLoanOk, TransferOk
<1>3. /\ pool' \in PoolType /\ SharesAccountedIn(pool')
      /\ pool'.locked <= pool'.liquidity
      /\ pool'.window = IF pool.outflowCap > 0
                        THEN [seq |-> ledger, used |-> UsedIn(pool, ledger) + amount]
                        ELSE pool.window
  BY <1>1, <1>2, FundLoanEffect DEF FundLoan
<1>4. bal' \in [Accounts -> Nat]
  BY <1>1, <1>2, SystemAccounts, TransferType DEF FundLoan
<1>5. paid' \in Nat
  BY <1>1 DEF FundLoan
<1>6. pool'.window.seq <= ledger'
  BY <1>1, <1>2, <1>3
<1>7. UsedIn(pool', ledger') = paid'
  BY <1>1, <1>2, <1>3 DEF UsedIn, FundLoan
<1>8. QED
  BY <1>1, <1>2, <1>3, <1>4, <1>5, <1>6, <1>7
  DEF Inv, TypeOK, LockedWithinLiquidity, SharesAccounted, WindowIsThisLedgers

LEMMA ReceiveRepaymentInv ==
  ASSUME Inv, NEW principal \in Nat, NEW interest \in Nat,
         ReceiveRepayment(principal, interest)
  PROVE  Inv' /\ bal'[PoolAcct] >= bal[PoolAcct]
<1>1. /\ pool \in PoolType /\ bal \in [Accounts -> Nat] /\ bal[PoolAcct] \in Nat
      /\ SharesAccountedIn(pool) /\ pool.locked <= pool.liquidity
      /\ pool.locked \in Nat /\ pool.liquidity \in Nat
  BY SystemAccounts DEF Inv, TypeOK, SharesAccounted, LockedWithinLiquidity, PoolType
<1>2. bal[CreditLineAcct] >= principal + interest /\ UNCHANGED <<ledger, paid>>
  BY DEF ReceiveRepayment, ReceiveRepaymentOk, TransferOk
<1>3. /\ pool' \in PoolType /\ SharesAccountedIn(pool') /\ pool'.window = pool.window
      /\ pool'.locked <= pool.locked /\ pool'.liquidity >= pool.liquidity
  BY <1>1, ReceiveRepaymentEffect DEF ReceiveRepayment
<1>4. pool'.locked <= pool'.liquidity
  BY <1>1, <1>3 DEF PoolType
<1>5. /\ bal' \in [Accounts -> Nat]
      /\ bal'[PoolAcct] = bal[PoolAcct] + principal + LpPart(interest)
  <2>1. {PoolAcct, CreditLineAcct, Treasury, MerchantFund} \subseteq Accounts
    BY SystemAccounts
  <2>2. QED BY <1>1, <1>2, <2>1, TakeRepaymentEffect DEF ReceiveRepayment
<1>6. bal'[PoolAcct] >= bal[PoolAcct]
  BY <1>1, <1>5, InterestParts
<1>7. QED BY <1>2, <1>3, <1>4, <1>5, <1>6, SameWindow

LEMMA DistributeInterestInv ==
  ASSUME Inv, NEW interest \in Nat, DistributeInterest(interest)
  PROVE  Inv'
<1>1. /\ pool \in PoolType /\ bal \in [Accounts -> Nat]
      /\ SharesAccountedIn(pool) /\ pool.locked <= pool.liquidity
  BY DEF Inv, TypeOK, SharesAccounted, LockedWithinLiquidity
<1>2. bal[CreditLineAcct] >= 0 + interest /\ UNCHANGED <<ledger, paid>>
  BY DEF DistributeInterest, DistributeInterestOk, TransferOk
<1>3. /\ pool' \in PoolType /\ SharesAccountedIn(pool') /\ pool'.window = pool.window
      /\ pool'.locked <= pool'.liquidity
  BY <1>1, CreditInterestEffect DEF DistributeInterest
<1>4. bal' \in [Accounts -> Nat]
  <2>1. {PoolAcct, CreditLineAcct, Treasury, MerchantFund} \subseteq Accounts
    BY SystemAccounts
  <2>2. QED BY <1>1, <1>2, <2>1, TakeRepaymentEffect DEF DistributeInterest
<1>5. QED BY <1>2, <1>3, <1>4, SameWindow

LEMMA ReceiveGuaranteeInv ==
  ASSUME Inv, NEW amount \in Nat, ReceiveGuarantee(amount)
  PROVE  Inv'
<1>1. /\ pool \in PoolType /\ bal \in [Accounts -> Nat]
      /\ SharesAccountedIn(pool) /\ pool.locked <= pool.liquidity
  BY DEF Inv, TypeOK, SharesAccounted, LockedWithinLiquidity
<1>2. bal[CreditLineAcct] >= amount /\ UNCHANGED <<ledger, paid>>
  BY DEF ReceiveGuarantee, ReceiveGuaranteeOk, TransferOk
<1>3. /\ pool' \in PoolType /\ SharesAccountedIn(pool') /\ pool'.window = pool.window
      /\ pool'.locked <= pool'.liquidity
  BY <1>1, ReceiveGuaranteeEffect DEF ReceiveGuarantee
<1>4. bal' \in [Accounts -> Nat]
  BY <1>1, <1>2, SystemAccounts, TransferType DEF ReceiveGuarantee
<1>5. QED BY <1>2, <1>3, <1>4, SameWindow

LEMMA AbsorbLossInv ==
  ASSUME Inv, NEW shortfall \in Nat, AbsorbLoss(shortfall)
  PROVE  Inv'
<1>1. /\ pool \in PoolType /\ bal \in [Accounts -> Nat]
      /\ SharesAccountedIn(pool) /\ pool.locked <= pool.liquidity
  BY DEF Inv, TypeOK, SharesAccounted, LockedWithinLiquidity
<1>2. UNCHANGED <<bal, ledger, paid>>
  BY DEF AbsorbLoss
<1>3. /\ pool' \in PoolType /\ SharesAccountedIn(pool') /\ pool'.window = pool.window
      /\ pool'.locked <= pool'.liquidity
  BY <1>1, AbsorbLossEffect DEF AbsorbLoss
<1>4. QED BY <1>1, <1>2, <1>3, SameWindow

\* The admin's setters touch no counter, share or token.
LEMMA SettersInv ==
  ASSUME Inv,
         \/ \E c \in CapChoices : SetOutflowCap(c)
         \/ \E c \in ExposureChoices : SetExposureCap(c)
         \/ \E c \in VendorChecks : SetVendorRegistry(c)
         \/ \E c \in PauseChoices : SetPaused(c)
  PROVE  /\ Inv' /\ bal' = bal /\ paid' = paid
         /\ pool'.shares = pool.shares /\ pool'.lp = pool.lp
         /\ pool'.locked = pool.locked /\ pool'.liquidity = pool.liquidity
<1>1. /\ pool \in PoolType /\ bal \in [Accounts -> Nat]
      /\ SharesAccountedIn(pool) /\ pool.locked <= pool.liquidity
  BY DEF Inv, TypeOK, SharesAccounted, LockedWithinLiquidity
<1>2. UNCHANGED <<bal, ledger, paid>>
  BY DEF SetOutflowCap, SetExposureCap, SetVendorRegistry, SetPaused
<1>3. /\ pool'.shares = pool.shares /\ pool'.lp = pool.lp /\ pool'.window = pool.window
      /\ pool'.locked = pool.locked /\ pool'.liquidity = pool.liquidity
  BY <1>1 DEF SetOutflowCap, SetExposureCap, SetVendorRegistry, SetPaused, PoolType
<1>4. /\ CapChoices \subseteq Nat /\ ExposureChoices \subseteq Nat
      /\ VendorChecks \subseteq BOOLEAN /\ PauseChoices \subseteq BOOLEAN
  <2>1. 0..Bps \subseteq Nat
    BY DEF Bps
  <2>2. CapChoices \subseteq Nat
    BY <2>1, PoolInputsAssumption
  <2>3. QED BY <2>2, PoolInputsAssumption, Zenon
<1>5. pool' \in PoolType
  <2>1. CASE \E c \in CapChoices : SetOutflowCap(c)
    BY <1>1, <1>4, <2>1 DEF SetOutflowCap, PoolType
  <2>2. CASE \E c \in ExposureChoices : SetExposureCap(c)
    BY <1>1, <1>4, <2>2 DEF SetExposureCap, PoolType
  <2>3. CASE \E c \in VendorChecks : SetVendorRegistry(c)
    BY <1>1, <1>4, <2>3 DEF SetVendorRegistry, PoolType
  <2>4. CASE \E c \in PauseChoices : SetPaused(c)
    BY <1>1, <1>4, <2>4 DEF SetPaused, PoolType
  <2>5. QED BY <2>1, <2>2, <2>3, <2>4
<1>6. SharesAccountedIn(pool')
  BY <1>1, <1>3 DEF SharesAccountedIn
<1>7. QED BY <1>1, <1>2, <1>3, <1>5, <1>6, SameWindow

LEMMA CloseLedgerInv ==
  ASSUME Inv, CloseLedger
  PROVE  Inv'
<1>1. ledger \in Nat /\ pool.window.seq <= ledger /\ pool.window.seq \in Nat
  BY DEF Inv, TypeOK, PoolType
<1>2. ledger' = ledger + 1 /\ paid' = 0 /\ pool' = pool /\ bal' = bal
  BY DEF CloseLedger
<1>3. pool'.window.seq <= ledger' /\ pool'.window.seq # ledger'
  BY <1>1, <1>2
<1>4. UsedIn(pool', ledger') = paid'
  BY <1>2, <1>3 DEF UsedIn
<1>5. TypeOK' /\ LockedWithinLiquidity' /\ SharesAccounted'
  BY <1>1, <1>2 DEF Inv, TypeOK, LockedWithinLiquidity, SharesAccounted
<1>6. QED BY <1>3, <1>4, <1>5 DEF Inv, WindowIsThisLedgers

\* The amounts the actions range over are naturals.
LEMMA Inputs ==
  /\ DepositAmounts \subseteq Nat /\ ShareAmounts \subseteq Nat
  /\ LoanAmounts \subseteq Nat /\ InterestAmounts \subseteq Nat /\ LossAmounts \subseteq Nat
BY PoolInputsAssumption

LEMMA NextInv == Inv /\ [Next]_vars => Inv'
<1> SUFFICES ASSUME Inv, [Next]_vars PROVE Inv'
  OBVIOUS
<1> USE Inputs
<1>1. CASE \E l \in Providers, a \in DepositAmounts : Deposit(l, a)
  BY <1>1, DepositInv
<1>2. CASE \E l \in Providers : \E s \in ShareAmounts \cup {pool.lp[l]} : Withdraw(l, s)
  <2>1. \A l \in Providers : pool.lp[l] \in Nat
    BY DEF Inv, TypeOK, PoolType
  <2>2. QED BY <1>2, <2>1, WithdrawInv
<1>3. CASE \E m \in Merchants, active \in BOOLEAN, a \in LoanAmounts : FundLoan(m, active, a)
  BY <1>3, FundLoanInv
<1>4. CASE \E p \in LoanAmounts \cup {0}, i \in InterestAmounts \cup {0} :
             ReceiveRepayment(p, i)
  BY <1>4, ReceiveRepaymentInv
<1>5. CASE \E i \in InterestAmounts : DistributeInterest(i)
  BY <1>5, DistributeInterestInv
<1>6. CASE \E a \in LoanAmounts : ReceiveGuarantee(a)
  BY <1>6, ReceiveGuaranteeInv
<1>7. CASE \E s \in LossAmounts : AbsorbLoss(s)
  BY <1>7, AbsorbLossInv
<1>8. CASE \/ \E c \in CapChoices : SetOutflowCap(c)
           \/ \E c \in ExposureChoices : SetExposureCap(c)
           \/ \E c \in VendorChecks : SetVendorRegistry(c)
           \/ \E c \in PauseChoices : SetPaused(c)
  BY <1>8, SettersInv
<1>9. CASE CloseLedger
  BY <1>9, CloseLedgerInv
<1>10. CASE UNCHANGED vars
  BY <1>10 DEF vars, Inv, TypeOK, LockedWithinLiquidity, SharesAccounted,
               WindowIsThisLedgers
<1>11. QED
  BY <1>1, <1>2, <1>3, <1>4, <1>5, <1>6, <1>7, <1>8, <1>9, <1>10 DEF Next

LEMMA InvHolds == Spec => []Inv
BY InitInv, NextInv, PTL DEF Spec

-----------------------------------------------------------------------------
(* Theorems                                                                *)

\* No counter, share or token balance ever goes negative and the storage keeps
\* its shape, whatever the credit line and the admin do.
THEOREM PoolTypeCorrect == Spec => []TypeOK
<1>1. Inv => TypeOK
  BY DEF Inv
<1>2. QED BY <1>1, InvHolds, PTL

\* The pool never locks more than it has, although receive_repayment,
\* receive_guarantee and absorb_loss cap their reductions separately at the
\* two counters.
THEOREM NeverOverlocked == Spec => []LockedWithinLiquidity
<1>1. Inv => LockedWithinLiquidity
  BY DEF Inv
<1>2. QED BY <1>1, InvHolds, PTL

\* The total number of shares is the dead shares plus every provider's.
THEOREM NoShareLost == Spec => []SharesAccounted
<1>1. Inv => SharesAccounted
  BY DEF Inv
<1>2. QED BY <1>1, InvHolds, PTL

\* The outflow window is exactly what was paid out under a cap in this ledger.
THEOREM WindowExact == Spec => []WindowIsThisLedgers
<1>1. Inv => WindowIsThisLedgers
  BY DEF Inv
<1>2. QED BY <1>1, InvHolds, PTL

\* All the payouts of one ledger under a cap, taken together, stay within the
\* cap at the last of them.
THEOREM OutflowCapped == Spec => CappedOutflow
<1> DEFINE Step == paid' > paid => paid' * Bps <= Available(pool) * pool.outflowCap
<1>1. ASSUME Inv, [Next]_vars PROVE [Step]_vars
  <2> SUFFICES ASSUME Next, paid' > paid
               PROVE  paid' * Bps <= Available(pool) * pool.outflowCap
    BY <1>1
  <2>1. paid \in Nat /\ UsedIn(pool, ledger) = paid
    BY <1>1 DEF Inv, TypeOK, WindowIsThisLedgers
  <2>2. paid' # paid /\ paid' # 0
    BY <2>1
  <2>3. PICK m \in Merchants, active \in BOOLEAN, a \in LoanAmounts : FundLoan(m, active, a)
    BY <2>2 DEF Next, Deposit, Withdraw, ReceiveRepayment, DistributeInterest,
                ReceiveGuarantee, AbsorbLoss, SetOutflowCap, SetExposureCap,
                SetVendorRegistry, SetPaused, CloseLedger
  <2>4. pool.outflowCap > 0 /\ paid' = paid + a
    BY <2>2, <2>3 DEF FundLoan
  <2>5. paid' <= BpsOf(Available(pool), pool.outflowCap)
    BY <2>1, <2>3, <2>4 DEF FundLoan, FundLoanOk
  <2>6. Available(pool) \in Nat /\ pool.outflowCap \in Nat
    BY <1>1 DEF Inv, TypeOK, LockedWithinLiquidity, PoolType, Available
  <2>7. Available(pool) * pool.outflowCap \in Nat
    BY <2>6, ProductNat
  <2>8. /\ BpsOf(Available(pool), pool.outflowCap) \in Nat
        /\ BpsOf(Available(pool), pool.outflowCap) * Bps <= Available(pool) * pool.outflowCap
    BY <2>7, DivNat DEF BpsOf, Bps
  <2>9. paid' \in Nat
    BY <2>1, <2>3, <2>4, Inputs
  <2>10. QED BY <2>5, <2>7, <2>8, <2>9 DEF Bps
<1>2. QED BY <1>1, InvHolds, PTL DEF Spec, CappedOutflow

\* While the pool is paused no share moves, nothing is lent out or written
\* off, and the pool's own tokens do not decrease; repayments still reach it.
THEOREM PauseFreezes == Spec => PauseFreezesAllButRepayment
<1> DEFINE Kept == /\ pool'.shares = pool.shares /\ pool'.lp = pool.lp
                   /\ pool'.locked <= pool.locked
                   /\ pool'.liquidity >= pool.liquidity
                   /\ bal'[PoolAcct] >= bal[PoolAcct]
<1>1. ASSUME Inv, [Next]_vars PROVE [pool.paused /\ pool'.paused => Kept]_vars
  <2> SUFFICES ASSUME Next, pool.paused, pool'.paused PROVE Kept
    BY <1>1
  <2>1. /\ pool \in PoolType /\ SharesAccountedIn(pool) /\ pool.locked <= pool.liquidity
        /\ pool.locked \in Nat /\ pool.liquidity \in Nat /\ bal[PoolAcct] \in Nat
    BY <1>1, SystemAccounts
    DEF Inv, TypeOK, SharesAccounted, LockedWithinLiquidity, PoolType
  <2>2. CASE \E p \in LoanAmounts \cup {0}, i \in InterestAmounts \cup {0} :
               ReceiveRepayment(p, i)
    <3>1. PICK p \in LoanAmounts \cup {0}, i \in InterestAmounts \cup {0} :
            ReceiveRepayment(p, i)
      BY <2>2
    <3>2. p \in Nat /\ i \in Nat
      BY Inputs
    <3>3. bal'[PoolAcct] >= bal[PoolAcct]
      BY <1>1, <3>1, <3>2, ReceiveRepaymentInv
    <3>4. QED
      BY <2>1, <3>1, <3>2, <3>3, ReceiveRepaymentEffect DEF ReceiveRepayment
  <2>3. CASE \/ \E c \in CapChoices : SetOutflowCap(c)
             \/ \E c \in ExposureChoices : SetExposureCap(c)
             \/ \E c \in VendorChecks : SetVendorRegistry(c)
             \/ \E c \in PauseChoices : SetPaused(c)
    BY <1>1, <2>1, <2>3, SettersInv
  <2>4. CASE CloseLedger
    BY <2>1, <2>4 DEF CloseLedger
  <2>5. QED
    BY <2>2, <2>3, <2>4
    DEF Next, Deposit, DepositOk, Withdraw, WithdrawOk, FundLoan, FundLoanOk,
        DistributeInterest, DistributeInterestOk, ReceiveGuarantee, ReceiveGuaranteeOk,
        AbsorbLoss, AbsorbLossOk
<1>2. QED BY <1>1, InvHolds, PTL DEF Spec, PauseFreezesAllButRepayment

-----------------------------------------------------------------------------
(* Rounding                                                                *)

\* The share price as a quotient of the liquidity with the dead shares' part.
LEMMA SharePriceIs ==
  ASSUME NEW p \in PoolType, p.shares # 0
  PROVE  SharePrice(p) = FlooredPrice(p.liquidity + Dead, p.shares, Precision)
BY DEF SharePrice, FlooredPrice

\* In no state, whatever losses, gifts of interest and earlier rounding did to
\* the price, does a deposit that the pool accepts issue shares that redeem for
\* more than was deposited: the shares may be one too many for the exact price,
\* because they are divided by a truncated one, but they lower the next price
\* by as much.
THEOREM RoundTripsDontPay == Spec => []RoundTripNeverProfits
<1>1. Inv => RoundTripNeverProfits
  <2> SUFFICES ASSUME Inv, NEW l \in Providers, NEW a \in DepositAmounts
               PROVE  Worth(DepositTo(pool, l, a), SharesIssued(pool, a)) <= a
    BY DEF RoundTripNeverProfits
  <2> DEFINE p == pool
             s == Seeded(p)
             r == DepositTo(p, l, a)
             n == SharesIssued(p, a)
             x == s.liquidity + Dead
  <2>1. /\ p \in PoolType /\ SharesAccountedIn(p) /\ a \in Nat
        /\ Precision \in Nat \ {0} /\ Dead \in Nat
    BY Inputs, PoolAssumption DEF Inv, TypeOK, SharesAccounted
  <2>2. s \in PoolType /\ s.shares # 0 /\ s.liquidity = p.liquidity
    BY <2>1, SeededType
  <2>3. /\ s.shares \in Nat \ {0} /\ s.liquidity \in Nat /\ x \in Nat
    BY <2>1, <2>2 DEF PoolType
  <2>4. r \in PoolType /\ SharesAccountedIn(r) /\ n \in Nat
    BY <2>1, DepositEffect, SharesIssuedNat
  <2>5. r.shares = s.shares + n /\ r.liquidity = s.liquidity + a
    BY <2>1, <2>2 DEF DepositTo, PoolType
  <2>6. SharePrice(s) \in Nat \ {0} /\ SharePrice(s) = FlooredPrice(x, s.shares, Precision)
    BY <2>2, SharePricePositive, SharePriceIs
  <2>7. n * SharePrice(s) <= a * Precision
    BY <2>1, <2>6, ProductNat, DivNat DEF SharesIssued
  <2> HIDE DEF p, s, r, n, x
  <2>8. n * FlooredPrice(x + a, s.shares + n, Precision) <= a * Precision
    <3>1. n * FlooredPrice(x, s.shares, Precision) <= a * Precision
      BY <2>6, <2>7
    <3> DEFINE t == s.shares
    <3> HIDE DEF t
    <3>2. t \in Nat \ {0} /\ n * FlooredPrice(x, t, Precision) <= a * Precision
      BY <2>3, <3>1 DEF t
    <3>3. n * FlooredPrice(x + a, t + n, Precision) <= a * Precision
      BY <2>1, <2>3, <2>4, <3>2, RoundTripLoses
    <3>4. QED BY <3>3 DEF t
  <2>9. SharePrice(r) = FlooredPrice(x + a, s.shares + n, Precision)
    <3>1. r.shares # 0 /\ r.liquidity + Dead = x + a
      BY <2>1, <2>3, <2>4, <2>5 DEF x
    <3>2. QED BY <2>4, <2>5, <3>1, SharePriceIs
  <2>10. SharePrice(r) \in Nat /\ n * SharePrice(r) \in Nat /\ a * Precision \in Nat
    BY <2>1, <2>4, SharePricePositive, ProductNat
  <2>11. Worth(r, n) \in Nat /\ Worth(r, n) * Precision <= n * SharePrice(r)
    BY <2>1, <2>10, DivNat DEF Worth
  <2>12. Worth(r, n) * Precision <= a * Precision
    <3>1. Worth(r, n) * Precision \in Nat
      BY <2>1, <2>11, ProductNat
    <3>2. QED BY <2>8, <2>9, <2>10, <2>11, <3>1
  <2>13. Worth(r, n) <= a
    BY <2>1, <2>11, <2>12, ProductCancel
  <2>14. QED BY <2>13 DEF p, r, n
<1>2. QED BY <1>1, InvHolds, PTL

\* The price falls neither when liquidity comes in nor when nothing happens.
LEMMA PriceKept ==
  ASSUME NEW p \in PoolType, NEW q \in PoolType, q.shares = p.shares,
         p.liquidity <= q.liquidity
  PROVE  PriceAtMost(p, q)
<1>1. /\ p.shares \in Nat /\ p.liquidity + Dead \in Nat /\ q.liquidity + Dead \in Nat
      /\ p.liquidity + Dead <= q.liquidity + Dead
  BY PoolAssumption DEF PoolType
<1>2. QED BY <1>1, ProductOrder DEF PriceAtMost

\* Above the floor a withdrawal pays out the truncated value of the shares it
\* burns.
LEMMA WithdrawalKeepsPrice ==
  ASSUME NEW p \in PoolType, SharesAccountedIn(p), NEW l \in Providers, NEW k \in Nat,
         k > 0, p.lp[l] >= k, ~PriceFloored(p)
  PROVE  PriceAtMost(p, WithdrawFrom(p, l, k))
<1> DEFINE x == p.liquidity + Dead
           s == p.shares
           q == SharePrice(p)
           w == Worth(p, k)
           r == WithdrawFrom(p, l, k)
<1>1. /\ x \in Nat /\ s \in Nat \ {0} /\ Precision \in Nat \ {0} /\ p.liquidity \in Nat
      /\ Dead \in Nat
  <2>1. p.shares # 0
    BY DEF SharesAccountedIn, PoolType
  <2>2. QED BY <2>1, PoolAssumption DEF PoolType
<1>2. w \in Nat /\ q \in Nat /\ k * q \in Nat /\ x * Precision \in Nat
  BY <1>1, WorthNat, SharePricePositive, ProductNat
<1>3. w * Precision <= k * q
  BY <1>1, <1>2, DivNat DEF Worth
<1>4. q * s <= x * Precision
  <2>1. s <= x * Precision
    BY <1>1, <1>2 DEF PriceFloored
  <2>2. 1 * s <= x * Precision
    BY <1>1, <2>1
  <2>3. 1 <= (x * Precision) \div s
    BY <1>1, <1>2, <2>2, DivLargest
  <2>4. q = (x * Precision) \div s
    BY <1>1, <2>3 DEF SharePrice
  <2>5. QED BY <1>1, <1>2, <2>4, DivNat
<1>5. r.shares = s - k /\ r.liquidity + Dead = x - w
  <2>1. r.shares = s - k /\ r.liquidity = p.liquidity - w
    BY DEF WithdrawFrom, PoolType
  <2>2. QED BY <1>1, <1>2, <2>1
<1> HIDE DEF x, s, q, w, r
<1>6. x * (s - k) <= (x - w) * s
  BY <1>1, <1>2, <1>3, <1>4, RedemptionKeepsPrice
<1>7. QED BY <1>5, <1>6 DEF PriceAtMost, x, s, r

\* At the floored price the payout is the truncated number of shares over
\* Precision, whatever the shares are worth.
LEMMA FlooredWithdrawal ==
  ASSUME NEW p \in PoolType, SharesAccountedIn(p), NEW l \in Providers, NEW k \in Nat,
         k > 0, p.lp[l] >= k, PriceFloored(p)
  PROVE  LET r == WithdrawFrom(p, l, k)
         IN  /\ r.shares < p.shares
             /\ (p.liquidity - r.liquidity) * Precision <= p.shares - r.shares
<1> DEFINE x == (p.liquidity + Dead) * Precision
           s == p.shares
           w == Worth(p, k)
           r == WithdrawFrom(p, l, k)
<1>1. /\ s \in Nat \ {0} /\ Precision \in Nat \ {0} /\ p.liquidity \in Nat /\ x \in Nat
  <2>1. p.shares # 0
    BY DEF SharesAccountedIn, PoolType
  <2>2. p.liquidity + Dead \in Nat /\ Precision \in Nat \ {0} /\ p.liquidity \in Nat /\ s \in Nat
    BY PoolAssumption DEF PoolType
  <2>3. QED BY <2>1, <2>2, ProductNat
<1>2. SharePrice(p) = 1
  <2>1. x < s
    BY DEF PriceFloored
  <2>2. x \div s = 0
    <3> HIDE DEF x, s
    <3>1. QED BY <1>1, <2>1
  <2>3. QED BY <1>1, <2>2 DEF SharePrice
<1>3. w \in Nat /\ w * Precision <= k
  <2>1. w = (k * 1) \div Precision
    BY <1>2 DEF Worth
  <2>2. w = k \div Precision
    BY <2>1
  <2>3. QED BY <1>1, <2>2, DivNat
<1>4. r.shares = s - k /\ r.liquidity = p.liquidity - w
  BY DEF WithdrawFrom, PoolType
<1> HIDE DEF s, w, r
<1>5. r.shares < s /\ p.liquidity - r.liquidity = w /\ s - r.shares = k
  BY <1>1, <1>3, <1>4
<1>6. QED BY <1>3, <1>5 DEF r, s

\* A remaining share loses value by an issue of shares, by a loss, or by a
\* redemption at the floored price, and by the last no more than one
\* Precision-th of a token per share redeemed.
THEOREM PriceFalls == Spec => PriceFallsOnlyForCause
<1> DEFINE Redeemed ==
             /\ PriceFloored(pool)
             /\ pool'.shares < pool.shares
             /\ (pool.liquidity - pool'.liquidity) * Precision <= pool.shares - pool'.shares
           Caused == \/ PriceAtMost(pool, pool')
                     \/ pool'.shares > pool.shares
                     \/ pool'.shares = pool.shares /\ pool'.liquidity < pool.liquidity /\ bal' = bal
                     \/ Redeemed
<1>1. ASSUME Inv, [Next]_vars PROVE [Caused]_vars
  <2> SUFFICES ASSUME Next PROVE Caused
    BY <1>1
  <2>1. /\ pool \in PoolType /\ SharesAccountedIn(pool) /\ pool.locked <= pool.liquidity
        /\ pool.shares \in Nat /\ pool.liquidity \in Nat /\ pool.locked \in Nat
    BY <1>1 DEF Inv, TypeOK, SharesAccounted, LockedWithinLiquidity, PoolType
  <2>2. pool' \in PoolType /\ pool'.shares \in Nat /\ pool'.liquidity \in Nat
    BY <1>1, NextInv DEF Inv, TypeOK, PoolType
  <2>3. ASSUME pool'.shares = pool.shares, pool'.liquidity >= pool.liquidity \/ bal' = bal
        PROVE  Caused
    BY <2>1, <2>2, <2>3, PriceKept
  <2>4. CASE \E l \in Providers, a \in DepositAmounts : Deposit(l, a)
    <3>1. PICK l \in Providers, a \in DepositAmounts : Deposit(l, a)
      BY <2>4
    <3> DEFINE n == SharesIssued(pool, a)
    <3>2. n \in Nat /\ n > 0
      BY <2>1, <3>1, Inputs, SharesIssuedNat DEF Deposit, DepositOk
    <3>3. Seeded(pool) \in PoolType /\ Seeded(pool).shares \in Nat
          /\ Seeded(pool).shares >= pool.shares
      BY <2>1, PoolAssumption DEF Seeded, PoolType
    <3> HIDE DEF n
    <3>4. pool'.shares = Seeded(pool).shares + n
      BY <3>1, <3>3 DEF Deposit, DepositTo, n, PoolType
    <3>5. QED BY <2>1, <3>2, <3>3, <3>4
  <2>5. CASE \E l \in Providers : \E k \in ShareAmounts \cup {pool.lp[l]} : Withdraw(l, k)
    <3>0. PICK l \in Providers : \E k \in ShareAmounts \cup {pool.lp[l]} : Withdraw(l, k)
      BY <2>5
    <3>1. PICK k \in ShareAmounts \cup {pool.lp[l]} : Withdraw(l, k)
      BY <3>0
    <3>2. k \in Nat /\ k > 0 /\ pool.lp[l] >= k /\ pool' = WithdrawFrom(pool, l, k)
      BY <2>1, <3>1, Inputs DEF Withdraw, WithdrawOk, PoolType
    <3>3. CASE PriceFloored(pool)
      BY <2>1, <3>2, <3>3, FlooredWithdrawal
    <3>4. CASE ~PriceFloored(pool)
      BY <2>1, <3>2, <3>4, WithdrawalKeepsPrice
    <3>5. QED BY <3>3, <3>4
  <2>6. CASE \E m \in Merchants, active \in BOOLEAN, a \in LoanAmounts : FundLoan(m, active, a)
    <3>1. pool'.shares = pool.shares /\ pool'.liquidity = pool.liquidity
      BY <2>1, <2>6 DEF FundLoan, FundLoanFrom, PoolType
    <3>2. QED BY <2>1, <2>3, <3>1
  <2>7. CASE \E p \in LoanAmounts \cup {0}, i \in InterestAmounts \cup {0} :
               ReceiveRepayment(p, i)
    <3>1. pool'.shares = pool.shares
      BY <2>1, <2>7 DEF ReceiveRepayment, ReceiveRepaymentInto, CreditInterest, PoolType
    <3>2. pool'.liquidity >= pool.liquidity
      <4>1. PICK p \in LoanAmounts \cup {0}, i \in InterestAmounts \cup {0} :
              ReceiveRepayment(p, i)
        BY <2>7
      <4>2. p \in Nat /\ i \in Nat /\ pool' = ReceiveRepaymentInto(pool, p, i)
        BY <4>1, Inputs DEF ReceiveRepayment
      <4>3. QED BY <2>1, <4>2, ReceiveRepaymentEffect
    <3>3. QED BY <2>3, <3>1, <3>2
  <2>8. CASE \E i \in InterestAmounts : DistributeInterest(i)
    <3>1. PICK i \in InterestAmounts : DistributeInterest(i)
      BY <2>8
    <3>2. LpPart(i) \in Nat
      BY Inputs, InterestParts
    <3>3. pool'.shares = pool.shares /\ pool'.liquidity = pool.liquidity + LpPart(i)
      BY <2>1, <3>1 DEF DistributeInterest, CreditInterest, PoolType
    <3>4. QED BY <2>1, <2>3, <3>2, <3>3
  <2>9. CASE \E a \in LoanAmounts : ReceiveGuarantee(a)
    <3>1. PICK a \in LoanAmounts : ReceiveGuarantee(a)
      BY <2>9
    <3>2. Least(a, pool.locked) \in Nat
      BY <2>1, Inputs DEF Least
    <3>3. pool'.shares = pool.shares /\ pool'.liquidity = pool.liquidity + Least(a, pool.locked)
      BY <2>1, <3>1 DEF ReceiveGuarantee, ReceiveGuaranteeInto, PoolType
    <3>4. QED BY <2>1, <2>3, <3>2, <3>3
  <2>10. CASE \E s \in LossAmounts : AbsorbLoss(s)
    <3>1. pool'.shares = pool.shares /\ bal' = bal
      BY <2>1, <2>10 DEF AbsorbLoss, AbsorbLossFrom, PoolType
    <3>2. QED BY <2>3, <3>1
  <2>11. CASE \/ \E c \in CapChoices : SetOutflowCap(c)
              \/ \E c \in ExposureChoices : SetExposureCap(c)
              \/ \E c \in VendorChecks : SetVendorRegistry(c)
              \/ \E c \in PauseChoices : SetPaused(c)
    <3>1. pool'.shares = pool.shares /\ bal' = bal
      BY <1>1, <2>11, SettersInv
    <3>2. QED BY <2>3, <3>1
  <2>12. CASE CloseLedger
    BY <2>3, <2>12 DEF CloseLedger
  <2>13. QED
    BY <2>4, <2>5, <2>6, <2>7, <2>8, <2>9, <2>10, <2>11, <2>12 DEF Next
<1>2. QED BY <1>1, InvHolds, PTL DEF Spec, PriceFallsOnlyForCause

-----------------------------------------------------------------------------
(* What the vendors receive                                                *)

\* A vendor that deposits, collects fees or is the credit line has other
\* reasons for its balance to move.
VendorsApart == Merchants \cap (Providers \cup {CreditLineAcct, Treasury, MerchantFund}) = {}

\* A transfer between other accounts.
LEMMA TransferPast ==
  ASSUME NEW A, NEW b \in [A -> Nat], NEW from, NEW to, NEW amount,
         NEW x \in A, x # from, x # to
  PROVE  Transfer(b, from, to, amount)[x] = b[x]
BY DEF Transfer

\* What a vendor's account gains in a step is what the step records.
LEMMA StepExposure ==
  ASSUME VendorsApart, Inv, [Next]_vars, NEW v \in Merchants
  PROVE  \E c \in Nat : bal'[v] = bal[v] + c /\ pool'.funded[v] = pool.funded[v] + c
<1>1. /\ pool \in PoolType /\ bal \in [Accounts -> Nat] /\ SharesAccountedIn(pool)
      /\ pool.locked <= pool.liquidity /\ bal[v] \in Nat /\ pool.funded[v] \in Nat
      /\ v \in Accounts /\ PoolAcct \in Accounts
  BY SystemAccounts DEF Inv, TypeOK, SharesAccounted, LockedWithinLiquidity, PoolType
<1>2. /\ v # PoolAcct /\ v # CreditLineAcct /\ v # Treasury /\ v # MerchantFund
      /\ \A l \in Providers : v # l
  BY SystemAccounts DEF VendorsApart
<1>3. ASSUME bal'[v] = bal[v], pool'.funded = pool.funded
      PROVE  \E c \in Nat : bal'[v] = bal[v] + c /\ pool'.funded[v] = pool.funded[v] + c
  <2>1. 0 \in Nat /\ bal'[v] = bal[v] + 0 /\ pool'.funded[v] = pool.funded[v] + 0
    BY <1>1, <1>3
  <2>2. QED BY <2>1
<1>4. ASSUME NEW principal \in Nat, NEW interest \in Nat,
             bal[CreditLineAcct] >= principal + interest
      PROVE  TakeRepayment(bal, principal, interest)[v] = bal[v]
  <2>1. {PoolAcct, CreditLineAcct, Treasury, MerchantFund} \subseteq Accounts
    BY SystemAccounts
  <2>2. v \in Accounts \ {PoolAcct, Treasury, MerchantFund}
    BY <1>1, <1>2
  <2>3. QED BY <1>1, <1>2, <1>4, <2>1, <2>2, TakeRepaymentEffect
<1>5. CASE \E l \in Providers, a \in DepositAmounts : Deposit(l, a)
  <2>1. PICK l \in Providers, a \in DepositAmounts : Deposit(l, a)
    BY <1>5
  <2>2. bal'[v] = bal[v]
    BY <1>1, <1>2, <2>1, TransferPast DEF Deposit
  <2>3. pool'.funded = pool.funded
    BY <1>1, <2>1, Inputs, DepositEffect DEF Deposit
  <2>4. QED BY <1>3, <2>2, <2>3
<1>6. CASE \E l \in Providers : \E s \in ShareAmounts \cup {pool.lp[l]} : Withdraw(l, s)
  <2>1. PICK l \in Providers : \E s \in ShareAmounts \cup {pool.lp[l]} : Withdraw(l, s)
    BY <1>6
  <2>2. PICK s : Withdraw(l, s)
    BY <2>1
  <2>3. bal'[v] = bal[v]
    <3> DEFINE worth == Worth(pool, s)
    <3>1. bal' = Transfer(bal, PoolAcct, l, worth)
      BY <2>2 DEF Withdraw
    <3> HIDE DEF worth
    <3>2. QED BY <1>1, <1>2, <3>1, TransferPast
  <2>4. pool'.funded = pool.funded
    BY <1>1, <2>2 DEF Withdraw, WithdrawFrom, PoolType
  <2>5. QED BY <1>3, <2>3, <2>4
<1>7. CASE \E m \in Merchants, active \in BOOLEAN, a \in LoanAmounts : FundLoan(m, active, a)
  <2>1. PICK m \in Merchants, active \in BOOLEAN, a \in LoanAmounts : FundLoan(m, active, a)
    BY <1>7
  <2>2. a \in Nat /\ ledger \in Nat /\ m \in Accounts
    BY Inputs, SystemAccounts DEF Inv, TypeOK
  <2>3. /\ bal' = Transfer(bal, PoolAcct, m, a)
        /\ pool' = FundLoanFrom(pool, ledger, m, a)
    BY <2>1 DEF FundLoan
  <2>4. pool'.funded[v] = IF v = m THEN pool.funded[v] + a ELSE pool.funded[v]
    BY <1>1, <2>2, <2>3, FundLoanExposure
  <2>5. m # PoolAcct
    BY SystemAccounts
  <2>6. bal'[v] = IF v = m THEN bal[v] + a ELSE bal[v]
    BY <1>1, <1>2, <2>2, <2>3, <2>5, TransferValue
  <2>7. CASE v = m
    BY <2>2, <2>4, <2>6, <2>7
  <2>8. CASE v # m
    <3>1. bal'[v] = bal[v] + 0 /\ pool'.funded[v] = pool.funded[v] + 0 /\ 0 \in Nat
      BY <1>1, <2>4, <2>6, <2>8
    <3>2. QED BY <3>1
  <2>9. QED BY <2>7, <2>8
<1>8. CASE \E p \in LoanAmounts \cup {0}, i \in InterestAmounts \cup {0} :
             ReceiveRepayment(p, i)
  <2>1. PICK p \in LoanAmounts \cup {0}, i \in InterestAmounts \cup {0} :
          ReceiveRepayment(p, i)
    BY <1>8
  <2>2. p \in Nat /\ i \in Nat
    BY Inputs
  <2>3. bal'[v] = bal[v]
    BY <1>4, <2>1, <2>2 DEF ReceiveRepayment, ReceiveRepaymentOk, TransferOk
  <2>4. pool'.funded = pool.funded
    BY <1>1, <2>1, <2>2, ReceiveRepaymentEffect DEF ReceiveRepayment
  <2>5. QED BY <1>3, <2>3, <2>4
<1>9. CASE \E i \in InterestAmounts : DistributeInterest(i)
  <2>1. PICK i \in InterestAmounts : DistributeInterest(i)
    BY <1>9
  <2>2. i \in Nat /\ 0 \in Nat
    BY Inputs
  <2>3. bal[CreditLineAcct] >= 0 + i /\ bal' = TakeRepayment(bal, 0, i)
    BY <2>1, <2>2 DEF DistributeInterest, DistributeInterestOk, TransferOk
  <2>4. bal'[v] = bal[v]
    BY <1>4, <2>2, <2>3
  <2>5. pool'.funded = pool.funded
    BY <1>1, <2>1 DEF DistributeInterest, CreditInterest, PoolType
  <2>6. QED BY <1>3, <2>4, <2>5
<1>10. CASE \E a \in LoanAmounts : ReceiveGuarantee(a)
  <2>1. PICK a \in LoanAmounts : ReceiveGuarantee(a)
    BY <1>10
  <2>2. bal'[v] = bal[v]
    BY <1>1, <1>2, <2>1, TransferPast DEF ReceiveGuarantee
  <2>3. pool'.funded = pool.funded
    BY <1>1, <2>1, Inputs, ReceiveGuaranteeEffect DEF ReceiveGuarantee
  <2>4. QED BY <1>3, <2>2, <2>3
<1>11. CASE \E s \in LossAmounts : AbsorbLoss(s)
  <2>1. PICK s \in LossAmounts : AbsorbLoss(s)
    BY <1>11
  <2>2. bal' = bal /\ pool' = AbsorbLossFrom(pool, s) /\ s \in Nat
    BY <2>1, Inputs DEF AbsorbLoss
  <2>3. pool'.funded = pool.funded
    BY <1>1, <2>2, AbsorbLossEffect
  <2>4. QED BY <1>3, <2>2, <2>3
<1>12. CASE \/ \E c \in CapChoices : SetOutflowCap(c)
            \/ \E c \in ExposureChoices : SetExposureCap(c)
            \/ \E c \in VendorChecks : SetVendorRegistry(c)
            \/ \E c \in PauseChoices : SetPaused(c)
  <2>1. bal' = bal /\ pool'.funded = pool.funded
    BY <1>1, <1>12 DEF SetOutflowCap, SetExposureCap, SetVendorRegistry, SetPaused, PoolType
  <2>2. QED BY <1>3, <2>1
<1>13. CASE CloseLedger \/ UNCHANGED vars
  BY <1>3, <1>13 DEF CloseLedger, vars
<1>14. QED
  BY <1>5, <1>6, <1>7, <1>8, <1>9, <1>10, <1>11, <1>12, <1>13 DEF Next

\* With the ceiling switched on or off, raised or lowered, the exposure that
\* fund_loan records against a vendor is what the vendor's account gained.
THEOREM ExposureExact ==
  ASSUME VendorsApart
  PROVE  Spec => []ExposureIsPayouts
<1>1. Init => ExposureIsPayouts
  BY SystemAccounts, PoolInputsAssumption DEF Init, InitPool, ExposureIsPayouts
<1>2. Inv /\ ExposureIsPayouts /\ [Next]_vars => ExposureIsPayouts'
  <2> SUFFICES ASSUME Inv, ExposureIsPayouts, [Next]_vars, NEW v \in Merchants
               PROVE  pool'.funded[v] = bal'[v] - Endowment[v]
    BY DEF ExposureIsPayouts
  <2>1. PICK c \in Nat : bal'[v] = bal[v] + c /\ pool'.funded[v] = pool.funded[v] + c
    BY StepExposure
  <2>2. bal[v] \in Nat /\ Endowment[v] \in Nat /\ pool.funded[v] \in Nat
    BY SystemAccounts, PoolInputsAssumption DEF Inv, TypeOK, PoolType
  <2>3. pool.funded[v] = bal[v] - Endowment[v]
    BY DEF ExposureIsPayouts
  <2>4. QED BY <2>1, <2>2, <2>3
<1>3. QED BY <1>1, <1>2, InvHolds, PTL DEF Spec
=============================================================================
