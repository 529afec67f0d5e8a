-------------------------- MODULE PoolAccounting ----------------------------
(***************************************************************************)
(* The entry points of the liquidity-pool contract as operators over its   *)
(* storage.  A transaction of the credit line may call the pool more than  *)
(* once (mark_defaulted calls receive_guarantee and then absorb_loss), so  *)
(* each entry point is a guard, XxxOk, and an effect on the storage record *)
(* that the transactions of LiquidityPool and of CreditLine compose.  The  *)
(* token transfers of an entry point act on the balances b.                *)
(*                                                                         *)
(* The storage record p:                                                   *)
(*   shares, liquidity, locked   TotalShares, TotalLiquidity, Locked...    *)
(*   lp                          LpShares(provider)                        *)
(*   paused                      the pause switch                          *)
(*   outflowCap, window          per-ledger outflow cap (bps) and the      *)
(*                               (ledger sequence, used) pair              *)
(*   exposureCap, funded         per-merchant ceiling and what the         *)
(*                               merchant has received so far              *)
(*   checkVendor                 a vendor registry is configured           *)
(*                                                                         *)
(* An Err or a panic reverts every write of the transaction, the           *)
(* reentrancy lock included, and the host refuses re-entry: the lock is    *)
(* FALSE in every state between transactions and is not represented.       *)
(***************************************************************************)
EXTENDS Token, SafeMath, Sums, FiniteSets

CONSTANTS
  Providers,      \* addresses that deposit
  Merchants,      \* addresses that loans are paid out to
  PoolAcct,       \* the token account of the liquidity-pool contract
  CreditLineAcct, \* the token account of the creditline contract
  Treasury,       \* the protocol treasury
  MerchantFund,   \* the merchant incentive fund
  Precision,      \* SHARE_PRICE_PRECISION
  Dead,           \* DEAD_SHARES_AMOUNT
  MinAmount       \* MIN_AMOUNT

ASSUME PoolAssumption ==
  /\ Precision \in Nat \ {0}
  /\ Dead \in Nat \ {0}
  /\ MinAmount \in Nat \ {0}
  /\ IsFiniteSet(Providers)
  /\ PoolAcct \notin Providers \cup Merchants \cup {CreditLineAcct, Treasury, MerchantFund}

LpFeeBps       == 8500
ProtocolFeeBps == 1000

Available(p) == p.liquidity - p.locked

\* Dead shares are backed by as much virtual liquidity, which is not stored.
SharePrice(p) ==
  IF p.shares = 0 THEN Precision
  ELSE LET price == ((p.liquidity + Dead) * Precision) \div p.shares
       IN  IF price = 0 THEN 1 ELSE price

\* Mutation: the value of shares is rounded up.
WorthRoundedUp(p, shares) == (shares * SharePrice(p) + Precision - 1) \div Precision

\* What a number of shares is worth at the current price.
Worth(p, shares) == (shares * SharePrice(p)) \div Precision

-----------------------------------------------------------------------------
(* Liquidity providers                                                     *)

\* The first deposit mints the dead shares before the price is read.
Seeded(p) == IF p.shares = 0 THEN [p EXCEPT !.shares = Dead] ELSE p

\* Mutation: the shares of a deposit are rounded up.
SharesRoundedUp(p, amount) ==
  (amount * Precision + SharePrice(Seeded(p)) - 1) \div SharePrice(Seeded(p))

SharesIssued(p, amount) == (amount * Precision) \div SharePrice(Seeded(p))

DepositOk(p, b, provider, amount) ==
  /\ ~p.paused
  /\ amount >= MinAmount
  /\ SharesIssued(p, amount) > 0
  /\ TransferOk(b, provider, amount)

\* Mutation: the first deposit reads the dead shares but does not store them.
DepositUnseeded(p, provider, amount) ==
  [p EXCEPT !.lp[provider] = @ + SharesIssued(p, amount),
            !.shares       = @ + SharesIssued(p, amount),
            !.liquidity    = @ + amount]

DepositTo(p, provider, amount) ==
  LET issued == SharesIssued(p, amount)
  IN  [Seeded(p) EXCEPT !.lp[provider] = @ + issued,
                        !.shares       = @ + issued,
                        !.liquidity    = @ + amount]

\* Mutation: a withdrawal is checked against all liquidity, the locked included.
WithdrawLockedOk(p, b, provider, shares) ==
  /\ ~p.paused
  /\ shares > 0
  /\ p.lp[provider] >= shares
  /\ Worth(p, shares) <= p.liquidity
  /\ TransferOk(b, PoolAcct, Worth(p, shares))

WithdrawOk(p, b, provider, shares) ==
  /\ ~p.paused
  /\ shares > 0
  /\ p.lp[provider] >= shares
  /\ Worth(p, shares) <= Available(p)
  /\ TransferOk(b, PoolAcct, Worth(p, shares))

WithdrawFrom(p, provider, shares) ==
  [p EXCEPT !.lp[provider] = @ - shares,
            !.shares       = @ - shares,
            !.liquidity    = @ - Worth(p, shares)]

-----------------------------------------------------------------------------
(* Credit line                                                             *)

\* Mutation: the window does not roll with the ledger sequence.
UsedInAnyLedger(p, seq) == p.window.used

\* What already left in the ledger seq: the window rolls with the sequence.
UsedIn(p, seq) == IF p.window.seq = seq THEN p.window.used ELSE 0

\* Mutation: the outflow cap looks at each payout on its own.
FundEachWithinCap(p, b, seq, merchant, vendorActive, amount) ==
  /\ ~p.paused
  /\ amount > 0
  /\ p.checkVendor => vendorActive
  /\ amount <= Available(p)
  /\ p.outflowCap > 0 => amount <= BpsOf(Available(p), p.outflowCap)
  /\ p.exposureCap > 0 => p.funded[merchant] + amount <= p.exposureCap
  /\ TransferOk(b, PoolAcct, amount)

FundLoanOk(p, b, seq, merchant, vendorActive, amount) ==
  /\ ~p.paused
  /\ amount > 0
  /\ p.checkVendor => vendorActive
  /\ amount <= Available(p)
  /\ p.outflowCap > 0 =>
       UsedIn(p, seq) + amount <= BpsOf(Available(p), p.outflowCap)
  /\ p.exposureCap > 0 => p.funded[merchant] + amount <= p.exposureCap
  /\ TransferOk(b, PoolAcct, amount)

\* Mutation: exposure is recorded only while the ceiling is switched on.
FundUnrecorded(p, seq, merchant, amount) ==
  [p EXCEPT !.window = IF p.outflowCap > 0
                         THEN [seq |-> seq, used |-> UsedIn(p, seq) + amount]
                         ELSE @,
            !.funded[merchant] = IF p.exposureCap > 0 THEN @ + amount ELSE @,
            !.locked = @ + amount]

FundLoanFrom(p, seq, merchant, amount) ==
  [p EXCEPT !.window = IF p.outflowCap > 0
                         THEN [seq |-> seq, used |-> UsedIn(p, seq) + amount]
                         ELSE @,
            !.funded[merchant] = @ + amount,
            !.locked = @ + amount]

\* distribute_interest_internal: 85 % stays, 10 % to the treasury, the rest
\* to the merchant fund.
LpPart(interest)       == BpsOf(interest, LpFeeBps)
ProtocolPart(interest) == BpsOf(interest, ProtocolFeeBps)
MerchantPart(interest) == interest - LpPart(interest) - ProtocolPart(interest)

\* Mutation: the fees paid out are counted as liquidity too.
CreditAllInterest(p, interest) == [p EXCEPT !.liquidity = @ + interest]

CreditInterest(p, interest) == [p EXCEPT !.liquidity = @ + LpPart(interest)]

PayFees(b, interest) ==
  Transfer(Transfer(b, PoolAcct, Treasury, ProtocolPart(interest)),
           PoolAcct, MerchantFund, MerchantPart(interest))

\* Repayments are accepted while the pool is paused.
ReceiveRepaymentOk(b, principal, interest) ==
  /\ principal >= 0
  /\ interest >= 0
  /\ principal + interest > 0
  /\ TransferOk(b, CreditLineAcct, principal + interest)

\* Mutation: interest and fees unlock liquidity as well.
UnlockAll(p, principal, interest) ==
  CreditInterest([p EXCEPT !.locked = NonNegative(@ - principal - interest)], interest)

ReceiveRepaymentInto(p, principal, interest) ==
  CreditInterest([p EXCEPT !.locked = NonNegative(@ - principal)], interest)

TakeRepayment(b, principal, interest) ==
  PayFees(Transfer(b, CreditLineAcct, PoolAcct, principal + interest), interest)

DistributeInterestOk(p, b, interest) ==
  /\ ~p.paused
  /\ interest > 0
  /\ TransferOk(b, CreditLineAcct, interest)

\* Mutation: a guarantee must fit into what is locked.
GuaranteeFitsLock(p, b, amount) ==
  /\ ~p.paused
  /\ amount > 0
  /\ amount <= p.locked
  /\ TransferOk(b, CreditLineAcct, amount)

ReceiveGuaranteeOk(p, b, amount) ==
  /\ ~p.paused
  /\ amount > 0
  /\ TransferOk(b, CreditLineAcct, amount)

ReceiveGuaranteeInto(p, amount) ==
  LET recovered == Least(amount, p.locked)
  IN  [p EXCEPT !.locked = @ - recovered, !.liquidity = @ + recovered]

\* Mutation: losses are written off while the pool is paused.
AbsorbWhilePausedOk(p, shortfall) == shortfall > 0

AbsorbLossOk(p, shortfall) == ~p.paused /\ shortfall > 0

\* Mutation: the loss is not capped at the liquidity.
AbsorbUncapped(p, shortfall) ==
  [p EXCEPT !.locked    = @ - Least(shortfall, p.locked),
            !.liquidity = @ - shortfall]

\* Mutation: the loss is unlocked but not taken off the liquidity.
AbsorbUnlockOnly(p, shortfall) == [p EXCEPT !.locked = @ - Least(shortfall, p.locked)]

AbsorbLossFrom(p, shortfall) ==
  [p EXCEPT !.locked    = @ - Least(shortfall, p.locked),
            !.liquidity = @ - Least(shortfall, p.liquidity)]

-----------------------------------------------------------------------------
(* The storage                                                             *)

InitPool(checkVendor) ==
  [shares      |-> 0, liquidity |-> 0, locked |-> 0,
   lp          |-> [l \in Providers |-> 0],
   paused      |-> FALSE,
   outflowCap  |-> 0, window |-> [seq |-> 0, used |-> 0],
   exposureCap |-> 0, funded |-> [m \in Merchants |-> 0],
   checkVendor |-> checkVendor]

PoolType ==
  [shares : Nat, liquidity : Nat, locked : Nat,
   lp : [Providers -> Nat],
   paused : BOOLEAN,
   outflowCap : Nat, window : [seq : Nat, used : Nat],
   exposureCap : Nat, funded : [Merchants -> Nat],
   checkVendor : BOOLEAN]

\* Every share is the dead shares' or some provider's.
SharesAccountedIn(p) ==
  IF p.shares = 0
  THEN \A l \in Providers : p.lp[l] = 0
  ELSE p.shares = Dead + Sum(p.lp, Providers)
=============================================================================
