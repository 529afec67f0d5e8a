------------------------ MODULE PoolAccountingProofs ------------------------
(***************************************************************************)
(* What each entry point of the liquidity pool does to its storage and to  *)
(* the token balances, as lemmas about the operators of PoolAccounting.    *)
(* LiquidityPoolProofs and CreditLineProofs cite them: the first lets a    *)
(* credit line call with any amount, in the second the calls are those of  *)
(* its transactions.  The accounts are any set A.                          *)
(***************************************************************************)
EXTENDS PoolAccounting, SumTheorems

-----------------------------------------------------------------------------
(* Arithmetic                                                              *)

LEMMA DivNat ==
  ASSUME NEW a \in Nat, NEW b \in Nat \ {0}
  PROVE  a \div b \in Nat /\ (a \div b) * b <= a
OBVIOUS

LEMMA ProductNat ==
  ASSUME NEW a \in Nat, NEW b \in Nat
  PROVE  a * b \in Nat
OBVIOUS

LEMMA ProductGrows ==
  ASSUME NEW a \in Nat \ {0}, NEW b \in Nat
  PROVE  a * b \in Nat /\ a * b >= b
OBVIOUS

LEMMA ProductOrder ==
  ASSUME NEW a \in Nat, NEW b \in Nat, NEW c \in Nat, a <= b
  PROVE  a * c <= b * c
<1>1. b = a + (b - a) /\ b - a \in Nat
  OBVIOUS
<1>2. \A d \in Nat : (a + d) * c = a * c + d * c /\ d * c \in Nat /\ a * c \in Nat
  OBVIOUS
<1>3. b * c = a * c + (b - a) * c /\ (b - a) * c \in Nat /\ a * c \in Nat
  BY <1>1, <1>2
<1>4. QED BY <1>3

LEMMA ProductCancel ==
  ASSUME NEW a \in Nat, NEW b \in Nat, NEW c \in Nat \ {0}, a * c <= b * c
  PROVE  a <= b
<1>1. SUFFICES ASSUME b + 1 <= a PROVE FALSE
  OBVIOUS
<1>2. (b + 1) * c <= a * c
  BY <1>1, ProductOrder
<1>3. (b + 1) * c = b * c + c /\ b * c \in Nat /\ a * c \in Nat
  OBVIOUS
<1>4. QED BY <1>2, <1>3

\* A rounded quotient is the largest number that fits.
LEMMA DivLargest ==
  ASSUME NEW a \in Nat, NEW b \in Nat \ {0}, NEW q \in Nat, q * b <= a
  PROVE  q <= a \div b
<1>1. a \div b \in Nat /\ a < ((a \div b) + 1) * b
  OBVIOUS
<1>2. SUFFICES ASSUME (a \div b) + 1 <= q PROVE FALSE
  BY <1>1
<1>3. ((a \div b) + 1) * b <= q * b
  BY <1>1, <1>2, ProductOrder
<1>4. QED BY <1>1, <1>3


-----------------------------------------------------------------------------
(* Prices rounded down                                                     *)

\* The smaller quotient, compared by cross-multiplication, is the smaller one
\* when both are rounded down.
LEMMA FloorOrder ==
  ASSUME NEW x \in Nat, NEW s \in Nat \ {0}, NEW y \in Nat, NEW t \in Nat \ {0},
         NEW scale \in Nat, y * s <= x * t
  PROVE  (y * scale) \div t <= (x * scale) \div s
<1>1. PICK q : q = (y * scale) \div t
  OBVIOUS
<1>2. y * scale \in Nat /\ x * scale \in Nat /\ y * s \in Nat /\ x * t \in Nat
  BY ProductNat
<1>3. q \in Nat /\ q * t <= y * scale
  BY <1>1, <1>2, DivNat
<1>4. q * t \in Nat /\ q * s \in Nat
  BY <1>3, ProductNat
<1>5. (q * t) * s <= (y * scale) * s
  BY <1>2, <1>3, <1>4, ProductOrder
<1>6. (y * s) * scale <= (x * t) * scale
  BY <1>2, ProductOrder
<1>7. (q * t) * s = (q * s) * t /\ (y * scale) * s = (y * s) * scale
      /\ (x * t) * scale = (x * scale) * t
  BY <1>3
<1>8. (q * s) * t <= (x * scale) * t
  <2>1. (q * s) * t \in Nat /\ (y * s) * scale \in Nat /\ (x * scale) * t \in Nat
    BY <1>2, <1>4, ProductNat
  <2>2. QED BY <1>5, <1>6, <1>7, <2>1
<1>9. q * s <= x * scale
  BY <1>2, <1>4, <1>8, ProductCancel
<1>10. QED BY <1>1, <1>2, <1>3, <1>9, DivLargest

\* A price is a quotient rounded down, and 1 where that is 0.
FlooredPrice(x, s, scale) ==
  IF (x * scale) \div s = 0 THEN 1 ELSE (x * scale) \div s

LEMMA FlooredPriceOrder ==
  ASSUME NEW x \in Nat, NEW s \in Nat \ {0}, NEW y \in Nat, NEW t \in Nat \ {0},
         NEW scale \in Nat, y * s <= x * t
  PROVE  FlooredPrice(y, t, scale) <= FlooredPrice(x, s, scale)
<1>1. x * scale \in Nat /\ y * scale \in Nat
  BY ProductNat
<1>2. (x * scale) \div s \in Nat /\ (y * scale) \div t \in Nat
  BY <1>1, DivNat
<1>3. (y * scale) \div t <= (x * scale) \div s
  BY FloorOrder
<1>4. QED BY <1>2, <1>3 DEF FlooredPrice

\* Shares bought at a floored price are worth at most what was paid, at the
\* floored price after the purchase.
LEMMA RoundTripLoses ==
  ASSUME NEW x \in Nat, NEW s \in Nat \ {0}, NEW a \in Nat, NEW scale \in Nat \ {0},
         NEW n \in Nat, n * FlooredPrice(x, s, scale) <= a * scale
  PROVE  n * FlooredPrice(x + a, s + n, scale) <= a * scale
<1>1. PICK q : q = FlooredPrice(x, s, scale)
  OBVIOUS
<1>2. PICK r : r = FlooredPrice(x + a, s + n, scale)
  OBVIOUS
<1>3. PICK y : y = x + a
  OBVIOUS
<1>4. PICK t : t = s + n
  OBVIOUS
<1>5. /\ y \in Nat /\ t \in Nat \ {0} /\ y * scale \in Nat /\ x * scale \in Nat
      /\ a * scale \in Nat /\ x * n \in Nat /\ x * s \in Nat /\ a * s \in Nat
  BY <1>3, <1>4
<1>6. q \in Nat \ {0}
  <2>1. (x * scale) \div s \in Nat
    BY <1>5, DivNat
  <2>2. QED BY <1>1, <2>1 DEF FlooredPrice
<1>7. n * q \in Nat /\ n * q <= a * scale
  BY <1>1, <1>6
<1>8. r \in Nat
  <2>1. (y * scale) \div t \in Nat
    BY <1>5, DivNat
  <2>2. QED BY <1>2, <1>3, <1>4, <2>1 DEF FlooredPrice
<1>9. n * r \in Nat
  BY <1>8
<1>10. CASE r <= q
  <2>1. r * n <= q * n
    BY <1>6, <1>8, <1>10, ProductOrder
  <2>2. n * r = r * n /\ n * q = q * n
    BY <1>6, <1>8
  <2>3. QED BY <1>2, <1>5, <1>7, <1>9, <2>1, <2>2
<1>11. CASE ~(r <= q)
  <2>1. r = (y * scale) \div t
    <3>1. r # 1
      BY <1>6, <1>8, <1>11
    <3>2. QED BY <1>2, <1>3, <1>4, <3>1 DEF FlooredPrice
  <2>2. r * t <= y * scale
    BY <1>5, <2>1, DivNat
  <2>3. ~(y * s <= x * t)
    <3>1. SUFFICES ASSUME y * s <= x * t PROVE r <= q
      BY <1>11
    <3>2. FlooredPrice(y, t, scale) <= FlooredPrice(x, s, scale)
      BY <1>5, <3>1, FlooredPriceOrder
    <3>3. QED BY <1>1, <1>2, <1>3, <1>4, <3>2
  <2>4. n * x <= a * s
    <3>1. y * s = x * s + a * s /\ x * t = x * s + n * x /\ n * x \in Nat
      BY <1>3, <1>4
    <3>2. QED BY <1>5, <2>3, <3>1
  <2>5. n * y <= a * t
    <3>1. n * y = n * x + n * a /\ a * t = a * s + n * a /\ n * a \in Nat /\ n * x \in Nat
      BY <1>3, <1>4
    <3>2. QED BY <1>5, <2>4, <3>1
  <2>6. r * t \in Nat /\ n * y \in Nat /\ a * t \in Nat
    BY <1>5, <1>8
  <2>7. (r * t) * n <= (y * scale) * n /\ (n * y) * scale <= (a * t) * scale
    BY <1>5, <2>2, <2>5, <2>6, ProductOrder
  <2>8. /\ (r * t) * n = (n * r) * t /\ (y * scale) * n = (n * y) * scale
        /\ (a * t) * scale = (a * scale) * t
    BY <1>5, <1>8
  <2>9. (n * r) * t <= (a * scale) * t
    <3>1. (n * r) * t \in Nat /\ (n * y) * scale \in Nat /\ (a * scale) * t \in Nat
      BY <1>5, <1>9, <2>6, ProductNat
    <3>2. QED BY <2>7, <2>8, <3>1
  <2>10. n * r <= a * scale
    BY <1>5, <1>9, <2>9, ProductCancel
  <2>11. QED BY <1>2, <2>10
<1>12. QED BY <1>10, <1>11

\* Shares redeemed at a price rounded down leave the others worth as much.
LEMMA RedemptionKeepsPrice ==
  ASSUME NEW x \in Nat, NEW s \in Nat \ {0}, NEW k \in Nat, NEW scale \in Nat \ {0},
         NEW q \in Nat, q * s <= x * scale, NEW w \in Nat, w * scale <= k * q
  PROVE  x * (s - k) <= (x - w) * s
<1>1. /\ w * scale \in Nat /\ k * q \in Nat /\ q * s \in Nat /\ x * scale \in Nat
      /\ w * s \in Nat /\ k * x \in Nat /\ x * s \in Nat
  BY ProductNat
<1>2. (w * scale) * s <= (k * q) * s /\ (q * s) * k <= (x * scale) * k
  BY <1>1, ProductOrder
<1>3. /\ (w * scale) * s = (w * s) * scale /\ (k * q) * s = (q * s) * k
      /\ (x * scale) * k = (k * x) * scale
  OBVIOUS
<1>4. (w * s) * scale <= (k * x) * scale
  <2>1. (w * s) * scale \in Nat /\ (q * s) * k \in Nat /\ (k * x) * scale \in Nat
    BY <1>1, ProductNat
  <2>2. QED BY <1>2, <1>3, <2>1
<1>5. w * s <= k * x
  BY <1>1, <1>4, ProductCancel
<1>6. x * (s - k) = x * s - k * x /\ (x - w) * s = x * s - w * s
  OBVIOUS
<1>7. QED BY <1>1, <1>5, <1>6

-----------------------------------------------------------------------------
(* Shares, prices and interest                                             *)

\* The three parts of an interest payment are naturals that add up to it.
LEMMA InterestParts ==
  ASSUME NEW interest \in Nat
  PROVE  /\ LpPart(interest) \in Nat
         /\ ProtocolPart(interest) \in Nat
         /\ MerchantPart(interest) \in Nat
         /\ LpPart(interest) + ProtocolPart(interest) + MerchantPart(interest) = interest
BY DEF LpPart, ProtocolPart, MerchantPart, BpsOf, Bps, LpFeeBps, ProtocolFeeBps

\* The price is at least 1, so that no division is by zero.
LEMMA SharePricePositive ==
  ASSUME NEW p \in PoolType
  PROVE  SharePrice(p) \in Nat \ {0}
<1>1. p.shares \in Nat /\ p.liquidity \in Nat /\ Dead \in Nat /\ Precision \in Nat \ {0}
  BY PoolAssumption DEF PoolType
<1>2. (p.liquidity + Dead) * Precision \in Nat
  BY <1>1, ProductNat
<1>3. p.shares # 0 => ((p.liquidity + Dead) * Precision) \div p.shares \in Nat
  BY <1>1, <1>2, DivNat
<1>4. QED BY <1>1, <1>3 DEF SharePrice

LEMMA WorthNat ==
  ASSUME NEW p \in PoolType, NEW shares \in Nat
  PROVE  Worth(p, shares) \in Nat
<1>1. SharePrice(p) \in Nat
  BY SharePricePositive
<1>2. shares * SharePrice(p) \in Nat
  BY <1>1, ProductNat
<1>3. QED BY <1>2, DivNat, PoolAssumption DEF Worth

LEMMA SharesIssuedNat ==
  ASSUME NEW p \in PoolType, NEW amount \in Nat
  PROVE  SharesIssued(p, amount) \in Nat
<1>1. Seeded(p) \in PoolType
  BY PoolAssumption DEF Seeded, PoolType
<1>2. SharePrice(Seeded(p)) \in Nat \ {0}
  BY <1>1, SharePricePositive
<1>3. amount * Precision \in Nat
  BY ProductNat, PoolAssumption
<1>4. QED BY <1>2, <1>3, DivNat DEF SharesIssued

-----------------------------------------------------------------------------
(* The token, over any set A of accounts                                   *)

LEMMA TransferType ==
  ASSUME NEW A, NEW b \in [A -> Nat], NEW from \in A, NEW to \in A,
         NEW amount \in Nat, b[from] >= amount
  PROVE  Transfer(b, from, to, amount) \in [A -> Nat]
BY DEF Transfer

LEMMA TransferValue ==
  ASSUME NEW A, NEW b \in [A -> Nat], NEW from \in A, NEW to \in A, from # to,
         NEW amount \in Nat
  PROVE  \A x \in A : Transfer(b, from, to, amount)[x]
           = IF x = from THEN b[x] - amount ELSE IF x = to THEN b[x] + amount ELSE b[x]
BY DEF Transfer

\* A payment from the credit line covers the fees the pool passes on: the pool
\* keeps the principal and its part of the interest, and only the two funds'
\* accounts move besides.
LEMMA TakeRepaymentEffect ==
  ASSUME NEW A, NEW b \in [A -> Nat], NEW principal \in Nat, NEW interest \in Nat,
         {PoolAcct, CreditLineAcct, Treasury, MerchantFund} \subseteq A,
         b[CreditLineAcct] >= principal + interest
  PROVE  /\ TakeRepayment(b, principal, interest) \in [A -> Nat]
         /\ TakeRepayment(b, principal, interest)[PoolAcct]
              = b[PoolAcct] + principal + LpPart(interest)
         /\ \A x \in A \ {PoolAcct, Treasury, MerchantFund} :
              TakeRepayment(b, principal, interest)[x]
                = IF x = CreditLineAcct THEN b[x] - (principal + interest) ELSE b[x]
<1> DEFINE paid == principal + interest
           toTreasury == ProtocolPart(interest)
           toFund == MerchantPart(interest)
           b1 == Transfer(b, CreditLineAcct, PoolAcct, paid)
           b2 == Transfer(b1, PoolAcct, Treasury, toTreasury)
           b3 == Transfer(b2, PoolAcct, MerchantFund, toFund)
<1>1. /\ PoolAcct # CreditLineAcct /\ PoolAcct # Treasury /\ PoolAcct # MerchantFund
      /\ PoolAcct \in A /\ CreditLineAcct \in A /\ Treasury \in A /\ MerchantFund \in A
      /\ b[PoolAcct] \in Nat
  BY PoolAssumption
<1>2. /\ toTreasury \in Nat /\ toFund \in Nat /\ LpPart(interest) \in Nat
      /\ LpPart(interest) + toTreasury + toFund = interest
  BY InterestParts
<1>3. paid \in Nat /\ paid = principal + interest
  OBVIOUS
<1> HIDE DEF paid, toTreasury, toFund
<1>4. b1 \in [A -> Nat]
  BY <1>1, <1>3, TransferType
<1>5. \A x \in A : b1[x] = IF x = CreditLineAcct THEN b[x] - paid
                           ELSE IF x = PoolAcct THEN b[x] + paid ELSE b[x]
  BY <1>1, <1>3 DEF Transfer
<1> HIDE DEF b1
<1>6. b1[PoolAcct] = b[PoolAcct] + paid /\ b1[PoolAcct] >= toTreasury
  BY <1>1, <1>2, <1>3, <1>5
<1>7. b2 \in [A -> Nat]
  BY <1>1, <1>2, <1>4, <1>6, TransferType
<1>8. \A x \in A : b2[x] = IF x = PoolAcct THEN b1[x] - toTreasury
                           ELSE IF x = Treasury THEN b1[x] + toTreasury ELSE b1[x]
  BY <1>1, <1>2, <1>4 DEF Transfer
<1> HIDE DEF b2
<1>9. b2[PoolAcct] = b[PoolAcct] + paid - toTreasury /\ b2[PoolAcct] >= toFund
  BY <1>1, <1>2, <1>3, <1>6, <1>8
<1>10. b3 \in [A -> Nat]
  BY <1>1, <1>2, <1>7, <1>9, TransferType
<1>11. \A x \in A : b3[x] = IF x = PoolAcct THEN b2[x] - toFund
                            ELSE IF x = MerchantFund THEN b2[x] + toFund ELSE b2[x]
  BY <1>1, <1>2, <1>7 DEF Transfer
<1>12. TakeRepayment(b, principal, interest) = b3
  BY DEF TakeRepayment, PayFees, b1, b2, paid, toTreasury, toFund
<1> HIDE DEF b3
<1>13. b3[PoolAcct] = b[PoolAcct] + principal + LpPart(interest)
  BY <1>1, <1>2, <1>3, <1>9, <1>11
<1>14. ASSUME NEW x \in A \ {PoolAcct, Treasury, MerchantFund}
       PROVE  b3[x] = IF x = CreditLineAcct THEN b[x] - (principal + interest) ELSE b[x]
  BY <1>3, <1>5, <1>8, <1>11
<1>15. QED BY <1>10, <1>12, <1>13, <1>14

-----------------------------------------------------------------------------
(* The effects of the entry points                                         *)

LEMMA SeededType ==
  ASSUME NEW p \in PoolType, SharesAccountedIn(p)
  PROVE  /\ Seeded(p) \in PoolType
         /\ Seeded(p).shares = Dead + Sum(Seeded(p).lp, Providers)
         /\ Seeded(p).shares # 0
         /\ Seeded(p).lp = p.lp /\ Seeded(p).locked = p.locked
         /\ Seeded(p).liquidity = p.liquidity /\ Seeded(p).window = p.window
         /\ Seeded(p).funded = p.funded
<1>1. Seeded(p) \in PoolType /\ Dead \in Nat \ {0} /\ IsFiniteSet(Providers)
  BY PoolAssumption DEF Seeded, PoolType
<1>2. /\ Seeded(p).lp = p.lp /\ Seeded(p).locked = p.locked
      /\ Seeded(p).liquidity = p.liquidity /\ Seeded(p).window = p.window
      /\ Seeded(p).funded = p.funded
  BY DEF Seeded, PoolType
<1>3. CASE p.shares = 0
  <2>1. Sum(p.lp, Providers) = 0
    BY <1>1, <1>3, SumZero DEF SharesAccountedIn
  <2>2. Seeded(p).shares = Dead
    BY <1>3 DEF Seeded, PoolType
  <2>3. QED BY <1>1, <1>2, <2>1, <2>2
<1>4. CASE p.shares # 0
  BY <1>1, <1>2, <1>4 DEF Seeded, SharesAccountedIn
<1>5. QED BY <1>3, <1>4

LEMMA DepositEffect ==
  ASSUME NEW p \in PoolType, NEW provider \in Providers, NEW amount \in Nat,
         SharesAccountedIn(p)
  PROVE  /\ DepositTo(p, provider, amount) \in PoolType
         /\ DepositTo(p, provider, amount).locked = p.locked
         /\ DepositTo(p, provider, amount).liquidity = p.liquidity + amount
         /\ DepositTo(p, provider, amount).window = p.window
         /\ DepositTo(p, provider, amount).funded = p.funded
         /\ SharesAccountedIn(DepositTo(p, provider, amount))
<1> DEFINE q == Seeded(p)
           issued == SharesIssued(p, amount)
           r == DepositTo(p, provider, amount)
<1>1. issued \in Nat
  BY SharesIssuedNat
<1>2. /\ q \in PoolType /\ q.shares = Dead + Sum(q.lp, Providers) /\ q.shares # 0
      /\ q.lp = p.lp /\ q.locked = p.locked
      /\ q.liquidity = p.liquidity /\ q.window = p.window /\ q.funded = p.funded
  BY SeededType
<1>3. r = [q EXCEPT !.lp[provider] = @ + issued,
                    !.shares       = @ + issued,
                    !.liquidity    = @ + amount]
  BY DEF DepositTo
<1> HIDE DEF q, issued, r
<1>4. /\ r \in PoolType
      /\ r.locked = q.locked /\ r.liquidity = q.liquidity + amount /\ r.window = q.window
      /\ r.funded = q.funded /\ r.shares = q.shares + issued
      /\ r.lp = [q.lp EXCEPT ![provider] = @ + issued]
  <2>1. /\ q.shares + issued \in Nat /\ q.liquidity + amount \in Nat
        /\ q.lp[provider] + issued \in Nat
    BY <1>1, <1>2 DEF PoolType
  <2>2. [q.lp EXCEPT ![provider] = @ + issued] \in [Providers -> Nat]
    BY <1>2, <2>1 DEF PoolType
  <2>3. QED BY <1>2, <1>3, <2>1, <2>2 DEF PoolType
<1>5. Sum(r.lp, Providers) = Sum(q.lp, Providers) + issued
  <2>1. q.lp \in [Providers -> Int] /\ q.lp[provider] \in Nat
    BY <1>2 DEF PoolType
  <2>2. IsFiniteSet(Providers)
    BY PoolAssumption
  <2>3. q.lp[provider] + issued \in Int
    BY <1>1, <2>1
  <2>4. Sum(r.lp, Providers)
          = Sum(q.lp, Providers) + (q.lp[provider] + issued) - q.lp[provider]
    BY <1>4, <2>1, <2>2, <2>3, SumExcept
  <2>5. Sum(q.lp, Providers) \in Int
    BY <2>1, <2>2, SumInt
  <2>6. QED BY <1>1, <2>1, <2>4, <2>5
<1>6. r.shares # 0 /\ r.shares = Dead + Sum(r.lp, Providers)
  <2>1. Sum(q.lp, Providers) \in Int
    BY <1>2, PoolAssumption, SumInt DEF PoolType
  <2>2. q.shares \in Nat /\ Dead \in Nat
    BY <1>2, PoolAssumption DEF PoolType
  <2>3. QED BY <1>1, <1>2, <1>4, <1>5, <2>1, <2>2
<1>7. SharesAccountedIn(r)
  BY <1>6 DEF SharesAccountedIn
<1>8. QED BY <1>2, <1>4, <1>7 DEF r

\* A provider never has more shares than there are besides the dead ones.
LEMMA SharesCoverProvider ==
  ASSUME NEW p \in PoolType, NEW provider \in Providers, SharesAccountedIn(p),
         p.lp[provider] # 0
  PROVE  p.shares >= Dead + p.lp[provider] /\ p.shares = Dead + Sum(p.lp, Providers)
<1>1. p.shares = Dead + Sum(p.lp, Providers)
  BY DEF SharesAccountedIn
<1>2. \A l \in Providers : p.lp[l] \in Nat
  BY DEF PoolType
<1>3. Sum(p.lp, Providers) >= p.lp[provider] /\ Sum(p.lp, Providers) \in Nat
  BY <1>2, PoolAssumption, SumAtLeast, SumNat
<1>4. QED BY <1>1, <1>2, <1>3, PoolAssumption

LEMMA WithdrawEffect ==
  ASSUME NEW p \in PoolType, NEW provider \in Providers, NEW shares \in Nat,
         SharesAccountedIn(p), p.locked <= p.liquidity,
         shares > 0, p.lp[provider] >= shares, Worth(p, shares) <= Available(p)
  PROVE  /\ WithdrawFrom(p, provider, shares) \in PoolType
         /\ WithdrawFrom(p, provider, shares).locked = p.locked
         /\ WithdrawFrom(p, provider, shares).liquidity = p.liquidity - Worth(p, shares)
         /\ WithdrawFrom(p, provider, shares).locked
              <= WithdrawFrom(p, provider, shares).liquidity
         /\ WithdrawFrom(p, provider, shares).funded = p.funded
         /\ WithdrawFrom(p, provider, shares).window = p.window
         /\ SharesAccountedIn(WithdrawFrom(p, provider, shares))
<1> DEFINE worth == Worth(p, shares)
           r == WithdrawFrom(p, provider, shares)
<1>1. /\ p.shares \in Nat /\ p.liquidity \in Nat /\ p.locked \in Nat
      /\ p.lp \in [Providers -> Nat] /\ p.lp[provider] \in Nat
      /\ Dead \in Nat \ {0} /\ IsFiniteSet(Providers)
  BY PoolAssumption DEF PoolType
<1>2. worth \in Nat
  BY WorthNat
<1>3. worth <= p.liquidity - p.locked
  BY DEF Available
<1>4. r = [p EXCEPT !.lp[provider] = @ - shares,
                    !.shares       = @ - shares,
                    !.liquidity    = @ - worth]
  BY DEF WithdrawFrom
<1>5. p.shares >= Dead + p.lp[provider] /\ p.shares = Dead + Sum(p.lp, Providers)
  BY <1>1, SharesCoverProvider
<1> HIDE DEF worth, r
<1>6. /\ p.shares - shares \in Nat \ {0} /\ p.liquidity - worth \in Nat
      /\ p.lp[provider] - shares \in Nat
  BY <1>1, <1>2, <1>3, <1>5
<1>7. /\ r \in PoolType
      /\ r.locked = p.locked /\ r.liquidity = p.liquidity - worth /\ r.window = p.window
      /\ r.funded = p.funded
      /\ r.shares = p.shares - shares
      /\ r.lp = [p.lp EXCEPT ![provider] = @ - shares]
  BY <1>1, <1>4, <1>6 DEF PoolType
<1>8. Sum(r.lp, Providers) = Sum(p.lp, Providers) - shares
  <2>1. p.lp \in [Providers -> Int] /\ p.lp[provider] - shares \in Int
    BY <1>1
  <2>2. Sum(r.lp, Providers)
          = Sum(p.lp, Providers) + (p.lp[provider] - shares) - p.lp[provider]
    BY <1>1, <1>7, <2>1, SumExcept
  <2>3. Sum(p.lp, Providers) \in Int
    BY <1>1, <2>1, SumInt
  <2>4. QED BY <1>1, <2>2, <2>3
<1>9. r.shares # 0 /\ r.shares = Dead + Sum(r.lp, Providers)
  <2>1. Sum(p.lp, Providers) \in Int
    BY <1>1, SumInt
  <2>2. QED BY <1>1, <1>5, <1>6, <1>7, <1>8, <2>1
<1>10. SharesAccountedIn(r)
  BY <1>9 DEF SharesAccountedIn
<1>11. r.locked <= r.liquidity
  BY <1>1, <1>2, <1>3, <1>7
<1>12. QED BY <1>7, <1>10, <1>11 DEF r, worth

LEMMA FundLoanEffect ==
  ASSUME NEW p \in PoolType, NEW seq \in Nat, NEW merchant \in Merchants, NEW amount \in Nat,
         SharesAccountedIn(p), amount <= Available(p)
  PROVE  /\ FundLoanFrom(p, seq, merchant, amount) \in PoolType
         /\ FundLoanFrom(p, seq, merchant, amount).locked = p.locked + amount
         /\ FundLoanFrom(p, seq, merchant, amount).liquidity = p.liquidity
         /\ FundLoanFrom(p, seq, merchant, amount).locked
              <= FundLoanFrom(p, seq, merchant, amount).liquidity
         /\ FundLoanFrom(p, seq, merchant, amount).window
              = IF p.outflowCap > 0
                THEN [seq |-> seq, used |-> UsedIn(p, seq) + amount]
                ELSE p.window
         /\ SharesAccountedIn(FundLoanFrom(p, seq, merchant, amount))
<1> DEFINE r == FundLoanFrom(p, seq, merchant, amount)
           window == IF p.outflowCap > 0
                     THEN [seq |-> seq, used |-> UsedIn(p, seq) + amount]
                     ELSE p.window
<1>1. /\ p.locked \in Nat /\ p.liquidity \in Nat /\ p.funded \in [Merchants -> Nat]
      /\ p.window \in [seq : Nat, used : Nat]
  BY DEF PoolType
<1>2. window \in [seq : Nat, used : Nat]
  BY <1>1 DEF UsedIn
<1>3. r = [p EXCEPT !.window = window,
                    !.funded[merchant] = @ + amount,
                    !.locked = @ + amount]
  BY DEF FundLoanFrom, PoolType
<1>4. [p.funded EXCEPT ![merchant] = @ + amount] \in [Merchants -> Nat]
  BY <1>1
<1> HIDE DEF r, window
<1>5. /\ r \in PoolType /\ r.window = window /\ r.locked = p.locked + amount
      /\ r.liquidity = p.liquidity /\ r.shares = p.shares /\ r.lp = p.lp
  <2>1. p.locked + amount \in Nat
    BY <1>1
  <2>2. /\ r.window = window /\ r.locked = p.locked + amount
        /\ r.liquidity = p.liquidity /\ r.shares = p.shares /\ r.lp = p.lp
    BY <1>3 DEF PoolType
  <2>3. r \in PoolType
    BY <1>2, <1>3, <1>4, <2>1 DEF PoolType
  <2>4. QED BY <2>2, <2>3
<1>6. r.locked <= r.liquidity
  BY <1>1, <1>5 DEF Available
<1>7. SharesAccountedIn(r)
  BY <1>5 DEF SharesAccountedIn
<1>8. QED BY <1>5, <1>6, <1>7 DEF r, window

\* A payout counts against its merchant alone.
LEMMA FundLoanExposure ==
  ASSUME NEW p \in PoolType, NEW seq \in Nat, NEW merchant \in Merchants, NEW amount \in Nat
  PROVE  \A m \in Merchants : FundLoanFrom(p, seq, merchant, amount).funded[m]
           = IF m = merchant THEN p.funded[m] + amount ELSE p.funded[m]
BY DEF FundLoanFrom, PoolType

\* Crediting interest and unlocking principal keep the order of the counters.
LEMMA ReceiveRepaymentEffect ==
  ASSUME NEW p \in PoolType, NEW principal \in Nat, NEW interest \in Nat,
         SharesAccountedIn(p), p.locked <= p.liquidity
  PROVE  /\ ReceiveRepaymentInto(p, principal, interest) \in PoolType
         /\ ReceiveRepaymentInto(p, principal, interest).locked
              = NonNegative(p.locked - principal)
         /\ ReceiveRepaymentInto(p, principal, interest).liquidity
              = p.liquidity + LpPart(interest)
         /\ ReceiveRepaymentInto(p, principal, interest).locked <= p.locked
         /\ ReceiveRepaymentInto(p, principal, interest).liquidity >= p.liquidity
         /\ ReceiveRepaymentInto(p, principal, interest).funded = p.funded
         /\ ReceiveRepaymentInto(p, principal, interest).window = p.window
         /\ ReceiveRepaymentInto(p, principal, interest).shares = p.shares
         /\ ReceiveRepaymentInto(p, principal, interest).lp = p.lp
         /\ SharesAccountedIn(ReceiveRepaymentInto(p, principal, interest))
<1> DEFINE r == ReceiveRepaymentInto(p, principal, interest)
           unlocked == NonNegative(p.locked - principal)
           credit == LpPart(interest)
<1>1. p.locked \in Nat /\ p.liquidity \in Nat
  BY DEF PoolType
<1>2. unlocked \in Nat /\ unlocked <= p.locked
  BY <1>1 DEF NonNegative, Greatest
<1>3. credit \in Nat
  BY InterestParts
<1>4. r = [p EXCEPT !.locked = unlocked, !.liquidity = @ + credit]
  BY DEF ReceiveRepaymentInto, CreditInterest, PoolType
<1> HIDE DEF r, unlocked, credit
<1>5. /\ r \in PoolType /\ r.locked = unlocked /\ r.liquidity = p.liquidity + credit
      /\ r.window = p.window /\ r.shares = p.shares /\ r.lp = p.lp /\ r.funded = p.funded
  <2>1. p.liquidity + credit \in Nat
    BY <1>1, <1>3
  <2>2. QED BY <1>2, <1>4, <2>1 DEF PoolType
<1>6. r.locked <= p.locked /\ r.liquidity >= p.liquidity
  BY <1>1, <1>2, <1>3, <1>5
<1>7. SharesAccountedIn(r)
  BY <1>5 DEF SharesAccountedIn
<1>8. QED BY <1>5, <1>6, <1>7 DEF r, unlocked, credit

LEMMA CreditInterestEffect ==
  ASSUME NEW p \in PoolType, NEW interest \in Nat, SharesAccountedIn(p), p.locked <= p.liquidity
  PROVE  /\ CreditInterest(p, interest) \in PoolType
         /\ CreditInterest(p, interest).locked <= CreditInterest(p, interest).liquidity
         /\ CreditInterest(p, interest).window = p.window
         /\ SharesAccountedIn(CreditInterest(p, interest))
<1> DEFINE r == CreditInterest(p, interest)
           credit == LpPart(interest)
<1>1. p.locked \in Nat /\ p.liquidity \in Nat
  BY DEF PoolType
<1>2. credit \in Nat
  BY InterestParts
<1>3. r = [p EXCEPT !.liquidity = @ + credit]
  BY DEF CreditInterest
<1> HIDE DEF r, credit
<1>4. /\ r \in PoolType /\ r.locked = p.locked /\ r.liquidity = p.liquidity + credit
      /\ r.window = p.window /\ r.shares = p.shares /\ r.lp = p.lp
  BY <1>1, <1>2, <1>3 DEF PoolType
<1>5. r.locked <= r.liquidity
  BY <1>1, <1>2, <1>4
<1>6. SharesAccountedIn(r)
  BY <1>4 DEF SharesAccountedIn
<1>7. QED BY <1>4, <1>5, <1>6 DEF r

LEMMA ReceiveGuaranteeEffect ==
  ASSUME NEW p \in PoolType, NEW amount \in Nat, SharesAccountedIn(p), p.locked <= p.liquidity
  PROVE  /\ ReceiveGuaranteeInto(p, amount) \in PoolType
         /\ ReceiveGuaranteeInto(p, amount).locked = p.locked - Least(amount, p.locked)
         /\ ReceiveGuaranteeInto(p, amount).liquidity = p.liquidity + Least(amount, p.locked)
         /\ ReceiveGuaranteeInto(p, amount).paused = p.paused
         /\ ReceiveGuaranteeInto(p, amount).funded = p.funded
         /\ ReceiveGuaranteeInto(p, amount).locked <= ReceiveGuaranteeInto(p, amount).liquidity
         /\ ReceiveGuaranteeInto(p, amount).window = p.window
         /\ SharesAccountedIn(ReceiveGuaranteeInto(p, amount))
<1> DEFINE r == ReceiveGuaranteeInto(p, amount)
           recovered == Least(amount, p.locked)
<1>1. p.locked \in Nat /\ p.liquidity \in Nat
  BY DEF PoolType
<1>2. recovered \in Nat /\ recovered <= p.locked
  BY <1>1 DEF Least
<1>3. r = [p EXCEPT !.locked = @ - recovered, !.liquidity = @ + recovered]
  BY DEF ReceiveGuaranteeInto
<1> HIDE DEF r, recovered
<1>4. p.locked - recovered \in Nat /\ p.liquidity + recovered \in Nat
  BY <1>1, <1>2
<1>5. /\ r \in PoolType /\ r.locked = p.locked - recovered
      /\ r.liquidity = p.liquidity + recovered
      /\ r.window = p.window /\ r.shares = p.shares /\ r.lp = p.lp
      /\ r.paused = p.paused /\ r.funded = p.funded
  BY <1>3, <1>4 DEF PoolType
<1>6. r.locked <= r.liquidity
  BY <1>1, <1>2, <1>5
<1>7. SharesAccountedIn(r)
  BY <1>5 DEF SharesAccountedIn
<1>8. QED BY <1>5, <1>6, <1>7 DEF r, recovered

\* A loss is taken off both counters, each capped at itself: the smaller one
\* stays the smaller one.
LEMMA AbsorbLossEffect ==
  ASSUME NEW p \in PoolType, NEW shortfall \in Nat, SharesAccountedIn(p),
         p.locked <= p.liquidity
  PROVE  /\ AbsorbLossFrom(p, shortfall) \in PoolType
         /\ AbsorbLossFrom(p, shortfall).liquidity = p.liquidity - Least(shortfall, p.liquidity)
         /\ AbsorbLossFrom(p, shortfall).funded = p.funded
         /\ AbsorbLossFrom(p, shortfall).locked <= AbsorbLossFrom(p, shortfall).liquidity
         /\ AbsorbLossFrom(p, shortfall).window = p.window
         /\ SharesAccountedIn(AbsorbLossFrom(p, shortfall))
<1> DEFINE r == AbsorbLossFrom(p, shortfall)
           unlocked == Least(shortfall, p.locked)
           lost == Least(shortfall, p.liquidity)
<1>1. p.locked \in Nat /\ p.liquidity \in Nat
  BY DEF PoolType
<1>2. /\ p.locked - unlocked \in Nat /\ p.liquidity - lost \in Nat
      /\ p.locked - unlocked <= p.liquidity - lost
  BY <1>1 DEF Least
<1>3. r = [p EXCEPT !.locked = @ - unlocked, !.liquidity = @ - lost]
  BY DEF AbsorbLossFrom
<1> HIDE DEF r, unlocked, lost
<1>4. /\ r \in PoolType /\ r.locked = p.locked - unlocked /\ r.liquidity = p.liquidity - lost
      /\ r.window = p.window /\ r.shares = p.shares /\ r.lp = p.lp /\ r.funded = p.funded
  BY <1>2, <1>3 DEF PoolType
<1>5. SharesAccountedIn(r)
  BY <1>4 DEF SharesAccountedIn
<1>6. QED BY <1>2, <1>4, <1>5 DEF r, lost
=============================================================================
