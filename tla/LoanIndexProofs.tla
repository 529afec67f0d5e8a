---------------------------- MODULE LoanIndexProofs ---------------------------
(***************************************************************************)
(* Proofs about LoanIndex, for every page size, every set of borrowers,    *)
(* every storage an earlier version may have left and any number of loans. *)
(***************************************************************************)
EXTENDS LoanIndex, SequenceTheorems, NaturalsInduction, WellFoundedInduction, TLAPS

-----------------------------------------------------------------------------
(* The loans of a borrower in a history of owners                          *)

\* A nonempty set of naturals has a least element.
LEMMA LeastOf ==
  ASSUME NEW S \in SUBSET Nat, S # {}
  PROVE  \E d \in S : \A e \in S : d <= e
<1>1. PICK d \in S : \A e \in S : <<e, d>> \notin OpToRel(<, Nat)
  BY NatLessThanWellFounded, WFMin
<1>2. ASSUME NEW e \in S PROVE d <= e
  <2>1. d \in Nat /\ e \in Nat /\ ~(e < d)
    BY <1>1 DEF OpToRel
  <2>2. QED BY <2>1
<1>3. QED BY <1>2

\* The recursion of MadeIn, up to the n-th loan: what one loan adds to list.
Also(list, owners, b, n) == IF owners[n] = b THEN Append(list, n) ELSE list

IsMade(g, owners, b, n) ==
  g = [k \in 0..n |-> IF k = 0 THEN <<>> ELSE Also(g[k - 1], owners, b, k)]

\* Such a function yields sequences of ids.
LEMMA MadeTyped ==
  ASSUME NEW owners, NEW b, NEW n \in Nat, NEW g, IsMade(g, owners, b, n)
  PROVE  \A k \in 0..n : g[k] \in Seq(Nat)
<1> DEFINE Bad == {k \in 0..n : g[k] \notin Seq(Nat)}
<1>1. SUFFICES ASSUME Bad # {} PROVE FALSE
  OBVIOUS
<1>2. PICK d \in Bad : \A e \in Bad : d <= e
  <2>1. Bad \in SUBSET Nat
    OBVIOUS
  <2>2. QED BY <1>1, <2>1, LeastOf
<1>3. CASE d = 0
  <2>1. g[0] = <<>>
    BY DEF IsMade
  <2>2. QED BY <1>2, <1>3, <2>1, EmptySeq
<1>4. CASE d # 0
  <2>1. d \in Nat /\ d - 1 \in 0..n /\ d - 1 < d
    BY <1>2, <1>4
  <2>2. g[d - 1] \in Seq(Nat)
    BY <1>2, <2>1
  <2>3. g[d] = Also(g[d - 1], owners, b, d)
    BY <1>2, <1>4 DEF IsMade
  <2>4. Append(g[d - 1], d) \in Seq(Nat)
    BY <2>1, <2>2, AppendProperties
  <2>5. QED BY <1>2, <2>2, <2>3, <2>4 DEF Also
<1>5. QED BY <1>3, <1>4

\* Two such functions agree as far as both and the owners they follow do.
LEMMA MadeUnique ==
  ASSUME NEW owners, NEW others, NEW b, NEW n \in Nat, NEW m \in Nat, n <= m,
         \A k \in 1..n : owners[k] = others[k],
         NEW g, IsMade(g, owners, b, n), NEW h, IsMade(h, others, b, m)
  PROVE  \A k \in 0..n : g[k] = h[k]
<1> DEFINE Bad == {k \in 0..n : g[k] # h[k]}
<1>1. SUFFICES ASSUME Bad # {} PROVE FALSE
  OBVIOUS
<1>2. PICK d \in Bad : \A e \in Bad : d <= e
  <2>1. Bad \in SUBSET Nat
    OBVIOUS
  <2>2. QED BY <1>1, <2>1, LeastOf
<1>3. CASE d = 0
  <2>1. g[0] = <<>> /\ h[0] = <<>>
    BY DEF IsMade
  <2>2. QED BY <1>2, <1>3, <2>1
<1>4. CASE d # 0
  <2>1. d \in Nat /\ d - 1 \in 0..n /\ d - 1 < d /\ d \in 1..n /\ d \in 0..n /\ d \in 0..m
    BY <1>2, <1>4
  <2>2. g[d - 1] = h[d - 1]
    BY <1>2, <2>1
  <2>3. g[d] = Also(g[d - 1], owners, b, d)
    BY <1>4, <2>1 DEF IsMade
  <2>4. h[d] = Also(h[d - 1], others, b, d)
    BY <1>4, <2>1 DEF IsMade
  <2>5. owners[d] = others[d]
    BY <2>1
  <2>6. QED BY <1>2, <2>2, <2>3, <2>4, <2>5 DEF Also
<1>5. QED BY <1>3, <1>4

LEMMA MadeExists ==
  ASSUME NEW owners, NEW b, NEW n \in Nat
  PROVE  \E g : IsMade(g, owners, b, n)
<1> DEFINE Bad == {k \in 0..n : ~ \E g : IsMade(g, owners, b, k)}
<1>1. SUFFICES ASSUME Bad # {} PROVE FALSE
  OBVIOUS
<1>2. PICK d \in Bad : \A e \in Bad : d <= e
  <2>1. Bad \in SUBSET Nat
    OBVIOUS
  <2>2. QED BY <1>1, <2>1, LeastOf
<1>3. CASE d = 0
  <2> DEFINE g == [k \in 0..0 |-> <<>>]
  <2>1. g = [k \in 0..0 |-> IF k = 0 THEN <<>> ELSE Also(g[k - 1], owners, b, k)]
    OBVIOUS
  <2>2. IsMade(g, owners, b, 0)
    BY <2>1 DEF IsMade
  <2>3. QED BY <1>2, <1>3, <2>2
<1>4. CASE d # 0
  <2>1. d \in Nat /\ d - 1 \in 0..n /\ d - 1 < d /\ d - 1 \in Nat
    BY <1>2, <1>4
  <2>2. PICK g : IsMade(g, owners, b, d - 1)
    BY <1>2, <2>1
  <2> DEFINE h == [k \in 0..d |-> IF k = d THEN Also(g[d - 1], owners, b, d) ELSE g[k]]
  <2>3. ASSUME NEW k \in 0..d
        PROVE  h[k] = IF k = 0 THEN <<>> ELSE Also(h[k - 1], owners, b, k)
    <3>1. CASE k = d
      BY <1>4, <2>1, <3>1
    <3>2. CASE k # d
      <4>1. k \in 0..(d - 1) /\ h[k] = g[k]
        BY <2>1, <3>2
      <4>2. g[k] = IF k = 0 THEN <<>> ELSE Also(g[k - 1], owners, b, k)
        BY <2>2, <4>1 DEF IsMade
      <4>3. k # 0 => h[k - 1] = g[k - 1]
        BY <2>1, <4>1
      <4>4. QED BY <4>1, <4>2, <4>3
    <3>3. QED BY <3>1, <3>2
  <2>4. h = [k \in 0..d |-> IF k = 0 THEN <<>> ELSE Also(h[k - 1], owners, b, k)]
    BY <2>3
  <2>5. IsMade(h, owners, b, d)
    BY <2>4 DEF IsMade
  <2>6. QED BY <1>2, <2>5
<1>5. QED BY <1>3, <1>4

LEMMA MadeInIs ==
  ASSUME NEW owners, NEW b, Len(owners) \in Nat
  PROVE  \E g : IsMade(g, owners, b, Len(owners)) /\ MadeIn(owners, b) = g[Len(owners)]
<1> DEFINE g == CHOOSE g : IsMade(g, owners, b, Len(owners))
<1>1. IsMade(g, owners, b, Len(owners))
  BY MadeExists
<1>2. MadeIn(owners, b) = g[Len(owners)]
  BY DEF MadeIn, IsMade, Also
<1>3. QED BY <1>1, <1>2

\* What a borrower has made, and what one more loan adds to it.
LEMMA MadeInStep ==
  ASSUME NEW owners \in Seq(Borrowers), NEW u \in Borrowers, NEW b
  PROVE  /\ MadeIn(owners, b) \in Seq(Nat)
         /\ MadeIn(Append(owners, u), b) =
              IF u = b THEN Append(MadeIn(owners, b), Len(owners) + 1) ELSE MadeIn(owners, b)
<1> DEFINE n == Len(owners)
           more == Append(owners, u)
<1>1. n \in Nat /\ more \in Seq(Borrowers) /\ Len(more) = n + 1
      /\ more[n + 1] = u /\ \A k \in 1..n : more[k] = owners[k]
  BY AppendProperties, LenProperties
<1> HIDE DEF more, n
<1>2. PICK g : IsMade(g, owners, b, n) /\ MadeIn(owners, b) = g[n]
  BY <1>1, MadeInIs DEF n
<1>3. PICK h : IsMade(h, more, b, n + 1) /\ MadeIn(more, b) = h[n + 1]
  BY <1>1, MadeInIs
<1>4. g[n] \in Seq(Nat)
  <2>1. n \in Nat /\ IsMade(g, owners, b, n)
    BY <1>1, <1>2
  <2>2. \A k \in 0..n : g[k] \in Seq(Nat)
    BY <2>1, MadeTyped
  <2>3. QED BY <1>1, <2>2
<1>5. g[n] = h[n]
  <2>1. n \in Nat /\ n + 1 \in Nat /\ n <= n + 1 /\ \A k \in 1..n : owners[k] = more[k]
    BY <1>1
  <2>2. IsMade(g, owners, b, n) /\ IsMade(h, more, b, n + 1)
    BY <1>2, <1>3
  <2> DEFINE m == n + 1
  <2> HIDE DEF m
  <2>3. m \in Nat /\ n <= m /\ IsMade(h, more, b, m)
    BY <2>1, <2>2 DEF m
  <2>4. \A k \in 0..n : g[k] = h[k]
    BY <2>1, <2>2, <2>3, MadeUnique
  <2>5. QED BY <1>1, <2>4
<1>6. h[n + 1] = Also(h[n], more, b, n + 1)
  <2>1. n + 1 \in 0..(n + 1) /\ n + 1 # 0 /\ (n + 1) - 1 = n
    BY <1>1
  <2>2. h[n + 1] = Also(h[(n + 1) - 1], more, b, n + 1)
    BY <1>3, <2>1 DEF IsMade
  <2>3. QED BY <2>1, <2>2
<1>7. QED BY <1>1, <1>2, <1>3, <1>4, <1>5, <1>6 DEF Also, more, n

-----------------------------------------------------------------------------
(* Pages                                                                   *)

\* The place of the first loan a page is for; the next PageSize - 1 follow.
First(n) == n * PageSize

LEMMA FirstGrows ==
  ASSUME NEW n \in Nat
  PROVE  First(n) \in Nat /\ \A m \in Nat : n < m => First(n) + PageSize <= First(m)
<1>1. PageSize \in Nat \ {0}
  BY LoanIndexAssumption
<1>2. First(n) \in Nat
  BY <1>1 DEF First
<1>3. ASSUME NEW m \in Nat, n < m PROVE First(n) + PageSize <= First(m)
  <2>1. m - (n + 1) \in Nat
    BY <1>3
  <2>2. \A d, p \in Nat : d * p \in Nat /\ (n + 1 + d) * p = n * p + p + d * p
    OBVIOUS
  <2>3. m = n + 1 + (m - (n + 1))
    BY <1>3
  <2>4. m * PageSize = n * PageSize + PageSize + (m - (n + 1)) * PageSize
        /\ (m - (n + 1)) * PageSize \in Nat
    BY <1>1, <2>1, <2>2, <2>3
  <2>5. QED BY <1>1, <1>2, <2>4 DEF First
<1>4. QED BY <1>2, <1>3

\* A place is on its page and on no other.
LEMMA PageFacts ==
  ASSUME NEW i \in Nat
  PROVE  /\ PageOf(i) \in Nat /\ First(PageOf(i)) \in Nat
         /\ First(PageOf(i)) <= i /\ i < First(PageOf(i)) + PageSize
         /\ i % PageSize \in Nat /\ i % PageSize = i - First(PageOf(i))
<1>1. PageSize \in Nat \ {0}
  BY LoanIndexAssumption
<1>2. PageOf(i) \in Nat
  BY <1>1 DEF PageOf
<1>3. i = PageSize * (i \div PageSize) + (i % PageSize) /\ i % PageSize \in 0..(PageSize - 1)
  BY <1>1
<1>4. PageSize * (i \div PageSize) = First(PageOf(i))
  BY <1>1, <1>2 DEF First, PageOf
<1>5. First(PageOf(i)) \in Nat
  BY <1>2, FirstGrows
<1>6. QED BY <1>1, <1>2, <1>3, <1>4, <1>5

LEMMA OnOnePage ==
  ASSUME NEW i \in Nat, NEW n \in Nat, First(n) <= i, i < First(n) + PageSize
  PROVE  PageOf(i) = n
<1> DEFINE m == PageOf(i)
<1>1. /\ m \in Nat /\ First(m) \in Nat /\ First(m) <= i /\ i < First(m) + PageSize
      /\ First(n) \in Nat /\ PageSize \in Nat
  BY PageFacts, FirstGrows, LoanIndexAssumption
<1> HIDE DEF m
<1>2. ~(n < m) /\ ~(m < n)
  BY <1>1, FirstGrows
<1>3. QED BY <1>1, <1>2 DEF m

-----------------------------------------------------------------------------
(* The inductive invariant                                                 *)

\* The places a page of b holds: those the page is for, but neither those of
\* legacy entries nor those of loans still to come.
PageStart(b, n) == Greatest(Len(legacy[b]), First(n))
PageEnd(b, n)   == Least(count[b], First(n) + PageSize)

\* What is on page n, in terms of what b made.
PageExact(b, n) ==
  /\ pages[b][n] \in Seq(Nat)
  /\ Len(pages[b][n]) = PageEnd(b, n) - PageStart(b, n)
  /\ \A j \in 1..Len(pages[b][n]) : pages[b][n][j] = MadeBy(b)[PageStart(b, n) + j]

\* The count is right, the legacy entries are the first loans made, and there
\* are exactly the pages that have something to hold, which hold just that.
\* The contents of a page are exact even where it overlaps legacy entries: the
\* read of such a page is wrong only because it looks in the wrong place.
BorrowerOk(b) ==
  /\ MadeBy(b) \in Seq(Nat) /\ count[b] = Len(MadeBy(b))
  /\ legacy[b] \in Seq(Nat) /\ Len(legacy[b]) <= count[b]
  /\ \A i \in 1..Len(legacy[b]) : legacy[b][i] = MadeBy(b)[i]
  /\ \A n \in DOMAIN pages[b] : n \in Nat /\ PageExact(b, n)
  /\ \A n \in Nat : n \in DOMAIN pages[b] <=> PageStart(b, n) < PageEnd(b, n)

IndexInv ==
  /\ owner \in Seq(Borrowers)
  /\ DOMAIN pages = Borrowers /\ DOMAIN count = Borrowers
  /\ \A b \in Borrowers : BorrowerOk(b)

LEMMA BorrowerFacts ==
  ASSUME NEW b, BorrowerOk(b)
  PROVE  /\ count[b] \in Nat /\ Len(legacy[b]) \in Nat /\ Len(legacy[b]) <= count[b]
         /\ MadeBy(b) \in Seq(Nat) /\ Len(MadeBy(b)) = count[b]
         /\ \A n \in Nat : PageStart(b, n) \in Nat /\ PageEnd(b, n) \in Nat
                             /\ First(n) \in Nat /\ PageSize \in Nat \ {0}
<1>1. /\ count[b] \in Nat /\ Len(legacy[b]) \in Nat /\ Len(legacy[b]) <= count[b]
      /\ MadeBy(b) \in Seq(Nat) /\ Len(MadeBy(b)) = count[b]
  BY LenProperties DEF BorrowerOk
<1>2. ASSUME NEW n \in Nat
      PROVE  PageStart(b, n) \in Nat /\ PageEnd(b, n) \in Nat /\ First(n) \in Nat
               /\ PageSize \in Nat \ {0}
  <2>1. First(n) \in Nat /\ PageSize \in Nat \ {0}
    BY FirstGrows, LoanIndexAssumption
  <2>2. QED BY <1>1, <2>1 DEF PageStart, PageEnd, Least, Greatest
<1>3. QED BY <1>1, <1>2

LEMMA InitIndex == IndexInit => IndexInv
<1> SUFFICES ASSUME IndexInit PROVE IndexInv
  OBVIOUS
<1>1. /\ owner \in Seq(Borrowers) /\ legacy = [b \in Borrowers |-> MadeIn(owner, b)]
      /\ count = [b \in Borrowers |-> Len(MadeIn(owner, b))]
      /\ pages = [b \in Borrowers |-> <<>>]
  BY LoanIndexAssumption DEF IndexInit
<1>2. ASSUME NEW b \in Borrowers PROVE BorrowerOk(b)
  <2>1. /\ legacy[b] = MadeBy(b) /\ count[b] = Len(MadeBy(b)) /\ pages[b] = <<>>
        /\ MadeBy(b) \in Seq(Nat)
    BY <1>1, MadeInStep DEF MadeBy
  <2>2. DOMAIN pages[b] = {}
    BY <2>1, EmptySeq
  <2>3. Len(MadeBy(b)) \in Nat
    BY <2>1, LenProperties
  <2>4. ASSUME NEW n \in Nat PROVE ~(PageStart(b, n) < PageEnd(b, n))
    <3>1. First(n) \in Nat /\ PageSize \in Nat
      BY FirstGrows, LoanIndexAssumption
    <3>2. QED BY <2>1, <2>3, <3>1 DEF PageStart, PageEnd, Least, Greatest
  <2>5. QED BY <2>1, <2>2, <2>3, <2>4 DEF BorrowerOk
<1>3. QED BY <1>1, <1>2 DEF IndexInv

-----------------------------------------------------------------------------
(* Its preservation                                                        *)

\* The page the next loan goes to, as it is before.
LastPage(b) == IF PageOf(count[b]) \in DOMAIN pages[b] THEN pages[b][PageOf(count[b])] ELSE <<>>

\* It ends where the next loan goes, is not full and is exact.
LEMMA LastPageExact ==
  ASSUME NEW b, BorrowerOk(b)
  PROVE  LET n == PageOf(count[b])
         IN  /\ LastPage(b) \in Seq(Nat) /\ PageStart(b, n) <= count[b]
             /\ Len(LastPage(b)) = count[b] - PageStart(b, n)
             /\ \A j \in 1..Len(LastPage(b)) : LastPage(b)[j] = MadeBy(b)[PageStart(b, n) + j]
<1> DEFINE n == PageOf(count[b])
<1>1. /\ count[b] \in Nat /\ Len(legacy[b]) \in Nat /\ Len(legacy[b]) <= count[b]
      /\ n \in Nat /\ First(n) \in Nat /\ First(n) <= count[b]
      /\ count[b] < First(n) + PageSize /\ PageSize \in Nat
      /\ PageStart(b, n) \in Nat
  BY BorrowerFacts, PageFacts, LoanIndexAssumption
<1>2. (n \in DOMAIN pages[b]) <=> PageStart(b, n) < PageEnd(b, n)
  BY <1>1 DEF BorrowerOk
<1>3. (n \in DOMAIN pages[b]) => PageExact(b, n)
  BY DEF BorrowerOk
<1> HIDE DEF n
<1>4. PageEnd(b, n) = count[b] /\ PageStart(b, n) <= count[b]
  BY <1>1 DEF PageEnd, PageStart, Least, Greatest
<1>5. CASE n \in DOMAIN pages[b]
  <2>1. LastPage(b) = pages[b][n]
    BY <1>5 DEF LastPage, n
  <2>2. QED BY <1>3, <1>4, <1>5, <2>1 DEF PageExact, n
<1>6. CASE n \notin DOMAIN pages[b]
  <2>1. LastPage(b) = <<>>
    BY <1>6 DEF LastPage, n
  <2>2. PageStart(b, n) = count[b]
    BY <1>1, <1>2, <1>4, <1>6
  <2>3. Len(<<>>) = 0 /\ <<>> \in Seq(Nat)
    BY EmptySeq
  <2>4. QED BY <1>1, <2>1, <2>2, <2>3 DEF n
<1>7. QED BY <1>5, <1>6

\* A loan more, of borrower b.
LEMMA AppendedOk ==
  ASSUME IndexInv, NEW b \in Borrowers, owner' = Append(owner, b), legacy' = legacy,
         AppendTo(b, Len(owner) + 1)
  PROVE  BorrowerOk(b)' /\ DOMAIN pages' = Borrowers /\ DOMAIN count' = Borrowers
<1>0. PICK n : n = PageOf(count[b])
  OBVIOUS
<1> DEFINE id == Len(owner) + 1
           c == count[b]
           page == LastPage(b)
           made == MadeBy(b)
           more == MadeBy(b)'
           s == PageStart(b, n)
<1>1. BorrowerOk(b) /\ owner \in Seq(Borrowers) /\ id \in Nat
  BY LenProperties DEF IndexInv
<1>2. /\ c \in Nat /\ Len(legacy[b]) \in Nat /\ Len(legacy[b]) <= c
      /\ made \in Seq(Nat) /\ Len(made) = c
  BY <1>1, BorrowerFacts
<1>3. /\ n \in Nat /\ First(n) \in Nat /\ First(n) <= c /\ c < First(n) + PageSize
      /\ PageSize \in Nat /\ s \in Nat
  BY <1>0, <1>1, <1>2, BorrowerFacts, PageFacts, LoanIndexAssumption
<1>4. /\ page \in Seq(Nat) /\ s <= c /\ Len(page) = c - s
      /\ \A j \in 1..Len(page) : page[j] = made[s + j]
  BY <1>0, <1>1, LastPageExact
<1>5. /\ pages' = [pages EXCEPT ![b] = [p \in DOMAIN pages[b] \cup {n} |->
                                          IF p = n THEN Append(page, id) ELSE pages[b][p]]]
      /\ count' = [count EXCEPT ![b] = c + 1]
  BY <1>0 DEF AppendTo, LastPage
<1>6. more = Append(made, id)
  BY <1>1, MadeInStep DEF MadeBy
<1>7. /\ count'[b] = c + 1 /\ DOMAIN pages' = Borrowers /\ DOMAIN count' = Borrowers
      /\ DOMAIN pages'[b] = DOMAIN pages[b] \cup {n} /\ pages'[b][n] = Append(page, id)
      /\ \A p \in DOMAIN pages[b] : p # n => pages'[b][p] = pages[b][p]
  BY <1>5 DEF IndexInv
<1> DEFINE start(p) == PageStart(b, p)
           end(p)   == PageEnd(b, p)
           end2(p)  == PageEnd(b, p)'
<1>8. \A p \in Nat : PageStart(b, p)' = start(p)
  BY DEF PageStart, First
<1>9. /\ end2(n) = c + 1
      /\ \A p \in Nat : p # n /\ start(p) < end(p) => end2(p) = end(p)
      /\ \A p \in Nat : p # n => ((start(p) < end(p)) <=> (start(p) < end2(p)))
  <2>1. ASSUME NEW p \in Nat, p # n
        PROVE  /\ start(p) < end(p) => end2(p) = end(p)
               /\ ((start(p) < end(p)) <=> (start(p) < end2(p)))
    <3>1. /\ First(p) \in Nat /\ start(p) \in Nat /\ First(p) <= start(p)
          /\ Len(legacy[b]) <= start(p)
      <4>1. First(p) \in Nat
        BY FirstGrows
      <4>2. QED BY <1>2, <4>1 DEF PageStart, Greatest
    <3>2. end(p) = Least(c, First(p) + PageSize) /\ end2(p) = Least(c + 1, First(p) + PageSize)
      BY <1>7 DEF PageEnd, First
    <3>3. First(p) + PageSize <= c \/ c < First(p)
      <4>1. CASE p < n
        <5>1. First(p) + PageSize <= First(n)
          BY <1>3, <4>1, FirstGrows
        <5>2. QED BY <1>2, <1>3, <3>1, <5>1
      <4>2. CASE n < p
        <5>1. First(n) + PageSize <= First(p)
          BY <1>3, <4>2, FirstGrows
        <5>2. QED BY <1>2, <1>3, <3>1, <5>1
      <4>3. QED BY <1>3, <2>1, <4>1, <4>2
    <3> HIDE DEF start, end, end2, c
    <3>4. QED BY <1>2, <1>3, <3>1, <3>2, <3>3 DEF Least
  <2>2. end2(n) = Least(c + 1, First(n) + PageSize)
    BY <1>7 DEF PageEnd, First
  <2>3. end2(n) = c + 1
    BY <1>2, <1>3, <2>2 DEF Least
  <2>4. QED BY <2>1, <2>3
<1> HIDE DEF id, c, page, made, more, s, start, end, end2
<1>10. /\ more \in Seq(Nat) /\ Len(more) = c + 1 /\ more[c + 1] = id
       /\ \A i \in 1..c : more[i] = made[i]
  BY <1>1, <1>2, <1>6, AppendProperties
<1>11. ASSUME NEW p \in DOMAIN pages'[b] PROVE p \in Nat /\ PageExact(b, p)'
  <2>1. CASE p = n
    <3>1. /\ Append(page, id) \in Seq(Nat) /\ Len(Append(page, id)) = (c - s) + 1
          /\ Append(page, id)[(c - s) + 1] = id
          /\ \A j \in 1..(c - s) : Append(page, id)[j] = page[j]
      BY <1>1, <1>4, AppendProperties
    <3>2. PageStart(b, n)' = s /\ PageEnd(b, n)' = c + 1
      BY <1>3, <1>8, <1>9 DEF s, start, end2
    <3>3. (c - s) + 1 = (c + 1) - s
      BY <1>2, <1>3
    <3>4. ASSUME NEW j \in 1..((c - s) + 1) PROVE Append(page, id)[j] = more[s + j]
      <4>1. CASE j = (c - s) + 1
        <5>1. s + j = c + 1
          BY <1>2, <1>3, <4>1
        <5>2. QED BY <1>10, <3>1, <4>1, <5>1
      <4>2. CASE j \in 1..(c - s)
        <5>1. s + j \in 1..c
          BY <1>2, <1>3, <4>2
        <5>2. Append(page, id)[j] = page[j] /\ page[j] = made[s + j]
          BY <1>4, <3>1, <4>2
        <5>3. QED BY <1>10, <5>1, <5>2
      <4>3. j = (c - s) + 1 \/ j \in 1..(c - s)
        BY <1>2, <1>3, <1>4
      <4>4. QED BY <4>1, <4>2, <4>3
    <3>5. /\ pages'[b][n] \in Seq(Nat)
          /\ Len(pages'[b][n]) = PageEnd(b, n)' - PageStart(b, n)'
          /\ \A j \in 1..Len(pages'[b][n]) : pages'[b][n][j] = more[PageStart(b, n)' + j]
      BY <1>7, <3>1, <3>2, <3>3, <3>4
    <3>6. PageExact(b, n)'
      BY <3>5 DEF PageExact, more
    <3>7. QED BY <1>3, <2>1, <3>6
  <2>2. CASE p # n
    <3>1. p \in DOMAIN pages[b] /\ p \in Nat /\ PageExact(b, p) /\ pages'[b][p] = pages[b][p]
      BY <1>1, <1>7, <2>2 DEF BorrowerOk
    <3>2. start(p) < end(p)
      BY <1>1, <3>1 DEF BorrowerOk, start, end
    <3>3. PageStart(b, p)' = start(p) /\ PageEnd(b, p)' = end(p)
      BY <1>8, <1>9, <2>2, <3>1, <3>2 DEF end2
    <3>4. /\ start(p) \in Nat /\ end(p) \in Nat /\ end(p) <= c
      <4>1. start(p) \in Nat /\ end(p) \in Nat
        BY <1>1, <3>1, BorrowerFacts DEF start, end
      <4>2. First(p) \in Nat
        BY <3>1, FirstGrows
      <4>3. QED BY <1>2, <1>3, <4>1, <4>2 DEF end, PageEnd, Least, c
    <3>5. /\ pages[b][p] \in Seq(Nat) /\ Len(pages[b][p]) = end(p) - start(p)
          /\ \A j \in 1..Len(pages[b][p]) : pages[b][p][j] = made[start(p) + j]
      BY <3>1 DEF PageExact, start, end, made
    <3>6. ASSUME NEW j \in 1..(end(p) - start(p)) PROVE made[start(p) + j] = more[start(p) + j]
      <4>1. start(p) + j \in 1..c
        BY <1>2, <3>4
      <4>2. QED BY <1>10, <4>1
    <3>7. /\ pages'[b][p] \in Seq(Nat)
          /\ Len(pages'[b][p]) = PageEnd(b, p)' - PageStart(b, p)'
          /\ \A j \in 1..Len(pages'[b][p]) : pages'[b][p][j] = more[PageStart(b, p)' + j]
      BY <3>1, <3>3, <3>5, <3>6
    <3>8. PageExact(b, p)'
      BY <3>7 DEF PageExact, more
    <3>9. QED BY <3>1, <3>8
  <2>3. QED BY <2>1, <2>2
<1>12. ASSUME NEW p \in Nat
       PROVE  (p \in DOMAIN pages'[b]) <=> PageStart(b, p)' < PageEnd(b, p)'
  <2>1. CASE p = n
    <3>1. PageStart(b, n)' = s /\ PageEnd(b, n)' = c + 1
      BY <1>3, <1>8, <1>9 DEF s, start, end2
    <3>2. s < c + 1
      BY <1>2, <1>3, <1>4
    <3>3. QED BY <1>7, <2>1, <3>1, <3>2
  <2>2. CASE p # n
    <3>1. (p \in DOMAIN pages[b]) <=> start(p) < end(p)
      BY <1>1 DEF BorrowerOk, start, end
    <3>2. PageStart(b, p)' = start(p) /\ PageEnd(b, p)' = end2(p)
      BY <1>8 DEF end2
    <3>3. QED BY <1>7, <1>9, <2>2, <3>1, <3>2
  <2>3. QED BY <2>1, <2>2
<1>13. /\ legacy'[b] \in Seq(Nat) /\ Len(legacy'[b]) <= c + 1
       /\ \A i \in 1..Len(legacy'[b]) : legacy'[b][i] = more[i]
  <2>1. legacy[b] \in Seq(Nat) /\ \A i \in 1..Len(legacy[b]) : legacy[b][i] = made[i]
    BY <1>1 DEF BorrowerOk, made
  <2>2. \A i \in 1..Len(legacy[b]) : i \in 1..c
    BY <1>2
  <2>3. QED BY <1>2, <1>10, <2>1, <2>2
<1>14. BorrowerOk(b)'
  BY <1>7, <1>10, <1>11, <1>12, <1>13 DEF BorrowerOk, more
<1>15. QED BY <1>7, <1>14

\* A borrower whose loans, entries, count and pages stay.
LEMMA KeptOk ==
  ASSUME NEW b, BorrowerOk(b), MadeBy(b)' = MadeBy(b), legacy'[b] = legacy[b],
         count'[b] = count[b], pages'[b] = pages[b]
  PROVE  BorrowerOk(b)'
<1>1. \A p : PageStart(b, p)' = PageStart(b, p) /\ PageEnd(b, p)' = PageEnd(b, p)
  BY DEF PageStart, PageEnd, First
<1>2. \A p : PageExact(b, p)' <=> PageExact(b, p)
  BY <1>1 DEF PageExact
<1>3. QED BY <1>1, <1>2 DEF BorrowerOk

LEMMA StepIndex == IndexInv /\ [IndexNext]_indexVars => IndexInv'
<1> SUFFICES ASSUME IndexInv, [IndexNext]_indexVars PROVE IndexInv'
  OBVIOUS
<1>1. owner \in Seq(Borrowers) /\ Len(owner) \in Nat /\ DOMAIN owner = 1..Len(owner)
  BY LenProperties DEF IndexInv
<1>2. CASE UNCHANGED indexVars
  <2>1. ASSUME NEW k \in Borrowers PROVE BorrowerOk(k)'
    <3>1. BorrowerOk(k)
      BY DEF IndexInv
    <3>2. MadeBy(k)' = MadeBy(k) /\ legacy'[k] = legacy[k] /\ count'[k] = count[k]
          /\ pages'[k] = pages[k]
      BY <1>2 DEF indexVars, MadeBy
    <3>3. QED BY <3>1, <3>2, KeptOk
  <2>2. QED BY <1>2, <2>1 DEF IndexInv, indexVars
<1>3. ASSUME NEW b \in Borrowers, NewLoan(b) PROVE IndexInv'
  <2>1. owner' = Append(owner, b) /\ AppendTo(b, Len(owner) + 1) /\ legacy' = legacy
    <3>1. Len(owner) + 1 \notin DOMAIN owner
      BY <1>1
    <3>2. QED BY <1>3, <3>1 DEF NewLoan, WriteLoan, Counter
  <2>2. BorrowerOk(b)' /\ DOMAIN pages' = Borrowers /\ DOMAIN count' = Borrowers
    BY <2>1, AppendedOk
  <2>3. owner' \in Seq(Borrowers)
    BY <1>1, <2>1, AppendProperties
  <2>4. ASSUME NEW k \in Borrowers, k # b PROVE BorrowerOk(k)'
    <3>1. BorrowerOk(k)
      BY DEF IndexInv
    <3>2. MadeBy(k)' = MadeBy(k)
      BY <1>1, <2>1, <2>4, MadeInStep DEF MadeBy
    <3>3. legacy'[k] = legacy[k] /\ count'[k] = count[k] /\ pages'[k] = pages[k]
      BY <2>1, <2>4 DEF AppendTo, IndexInv
    <3>4. QED BY <3>1, <3>2, <3>3, KeptOk
  <2>5. QED BY <2>2, <2>3, <2>4 DEF IndexInv
<1>4. ASSUME NEW id \in DOMAIN owner, UpdateLoan(id) PROVE UNCHANGED indexVars
  BY <1>4 DEF UpdateLoan, WriteLoan, indexVars
<1>5. QED BY <1>2, <1>3, <1>4 DEF IndexNext

LEMMA IndexInvHolds == IndexSpec => []IndexInv
<1>1. QED BY InitIndex, StepIndex, PTL DEF IndexSpec

-----------------------------------------------------------------------------
(* The theorems                                                            *)

\* However the legacy entries end within a page, and however many loans are
\* made, append_user_loan_index never puts more than PAGE_SIZE ids on a page,
\* nor makes one that is empty.
THEOREM PagesWithin == IndexSpec => []PagesWithinCapacity
<1>1. IndexInv => PagesWithinCapacity
  <2> SUFFICES ASSUME IndexInv, NEW b \in Borrowers, NEW n \in DOMAIN pages[b]
               PROVE  Len(pages[b][n]) \in 1..PageSize
    BY DEF PagesWithinCapacity
  <2>1. BorrowerOk(b)
    BY DEF IndexInv
  <2>2. /\ n \in Nat /\ Len(pages[b][n]) = PageEnd(b, n) - PageStart(b, n)
        /\ PageStart(b, n) < PageEnd(b, n)
    BY <2>1 DEF BorrowerOk, PageExact
  <2>3. /\ PageStart(b, n) \in Nat /\ PageEnd(b, n) \in Nat /\ First(n) \in Nat
        /\ PageSize \in Nat /\ count[b] \in Nat /\ Len(legacy[b]) \in Nat
    BY <2>1, <2>2, BorrowerFacts
  <2>4. First(n) <= PageStart(b, n) /\ PageEnd(b, n) <= First(n) + PageSize
    BY <2>3 DEF PageStart, PageEnd, Least, Greatest
  <2>5. QED BY <2>2, <2>3, <2>4
<1>2. QED BY <1>1, IndexInvHolds, PTL

-----------------------------------------------------------------------------
(* Reading                                                                 *)

\* Unless a page overlaps legacy entries, every page begins at its first place.
LEMMA PageFromFirst ==
  ASSUME NEW b, BorrowerOk(b), ~PageOverlapsLegacy(b), NEW n \in DOMAIN pages[b]
  PROVE  n \in Nat /\ PageExact(b, n) /\ PageStart(b, n) = First(n)
<1>1. n \in Nat /\ PageExact(b, n) /\ PageStart(b, n) < PageEnd(b, n)
  BY DEF BorrowerOk
<1>2. /\ First(n) \in Nat /\ PageSize \in Nat /\ count[b] \in Nat
      /\ Len(legacy[b]) \in Nat /\ Len(legacy[b]) <= count[b]
  BY <1>1, BorrowerFacts
<1>3. ~(First(n) < Len(legacy[b]))
  <2> SUFFICES ASSUME First(n) < Len(legacy[b]) PROVE FALSE
    OBVIOUS
  <2>1. PageStart(b, n) = Len(legacy[b])
    BY <1>2 DEF PageStart, Greatest
  <2>2. Len(legacy[b]) < count[b] /\ Len(legacy[b]) < First(n) + PageSize
    BY <1>1, <1>2, <2>1 DEF PageEnd, Least
  <2>3. Len(legacy[b]) % PageSize = 0
    BY <1>2, <2>2 DEF PageOverlapsLegacy
  <2>4. PageOf(Len(legacy[b])) = n
    BY <1>1, <1>2, <2>2, OnOnePage
  <2>5. Len(legacy[b]) % PageSize = Len(legacy[b]) - First(n)
    BY <1>2, <2>4, PageFacts
  <2>6. Len(legacy[b]) - First(n) = 0
    BY <2>3, <2>5
  <2>7. QED BY <1>2, <2>6
<1>4. QED BY <1>1, <1>2, <1>3 DEF PageStart, Greatest

\* Every loan is then found where a read looks for it.
LEMMA EntryExact ==
  ASSUME NEW b, BorrowerOk(b), ~PageOverlapsLegacy(b), NEW i \in Nat, i < count[b]
  PROVE  Found(b, i) /\ Entry(b, i) = MadeBy(b)[i + 1]
<1>0. PICK n : n = PageOf(i)
  OBVIOUS
<1>1. /\ n \in Nat /\ First(n) \in Nat /\ PageSize \in Nat /\ First(n) <= i
      /\ i < First(n) + PageSize /\ i % PageSize = i - First(n)
  BY <1>0, PageFacts, LoanIndexAssumption
<1>2. count[b] \in Nat /\ Len(legacy[b]) \in Nat
  BY BorrowerFacts
<1>3. PageEnd(b, n) \in Nat /\ i < PageEnd(b, n)
  BY <1>1, <1>2 DEF PageEnd, Least
<1>4. CASE n \in DOMAIN pages[b]
  <2>1. PageExact(b, n) /\ PageStart(b, n) = First(n)
    BY <1>4, PageFromFirst
  <2>2. /\ Len(pages[b][n]) = PageEnd(b, n) - First(n)
        /\ \A j \in 1..Len(pages[b][n]) : pages[b][n][j] = MadeBy(b)[First(n) + j]
    BY <2>1 DEF PageExact
  <2>3. /\ i - First(n) < Len(pages[b][n])
        /\ (i - First(n)) + 1 \in 1..Len(pages[b][n])
        /\ First(n) + ((i - First(n)) + 1) = i + 1
    <3>1. Len(pages[b][n]) = PageEnd(b, n) - First(n)
      BY <2>2
    <3>2. \A first, end, len \in Int :
            first <= i /\ i < end /\ len = end - first =>
              /\ len \in Int /\ i - first < len /\ (i - first) + 1 \in 1..len
              /\ first + ((i - first) + 1) = i + 1
      OBVIOUS
    <3>3. QED BY <1>1, <1>3, <3>1, <3>2
  <2>4. pages[b][n][(i - First(n)) + 1] = MadeBy(b)[i + 1]
    BY <2>2, <2>3
  <2>5. Found(b, i)
    BY <1>0, <1>1, <1>4, <2>3 DEF Found
  <2>6. Entry(b, i) = pages[b][n][(i - First(n)) + 1]
    BY <1>0, <1>1, <1>4 DEF Entry
  <2>7. QED BY <2>4, <2>5, <2>6
<1>5. CASE n \notin DOMAIN pages[b]
  <2>1. ~(PageStart(b, n) < PageEnd(b, n))
    BY <1>1, <1>5 DEF BorrowerOk
  <2>2. i < Len(legacy[b])
    BY <1>1, <1>2, <1>3, <2>1 DEF PageStart, Greatest
  <2>3. i + 1 \in 1..Len(legacy[b])
    BY <1>2, <2>2
  <2>4. legacy[b][i + 1] = MadeBy(b)[i + 1]
    BY <2>3 DEF BorrowerOk
  <2>5. QED BY <1>0, <1>5, <2>2, <2>4 DEF Found, Entry
<1>6. QED BY <1>4, <1>5

LEMMA ReadsAreExact ==
  ASSUME NEW b, BorrowerOk(b), ~PageOverlapsLegacy(b)
  PROVE  ReadsExact(b)
<1>1. /\ count[b] \in Nat /\ MadeBy(b) \in Seq(Nat) /\ Len(MadeBy(b)) = count[b]
      /\ \A i \in 1..Len(MadeBy(b)) : MadeBy(b)[i] \in Nat
  BY BorrowerFacts, ElementOfSeq
<1>2. ASSUME NEW start \in 0..count[b], NEW limit \in 0..(count[b] + 1)
      PROVE  /\ ReadReturns(b, start, limit)
             /\ Read(b, start, limit) =
                  SubSeq(MadeBy(b), start + 1, Least(start + limit, Len(MadeBy(b))))
  <2>0. PICK to : to = Least(start + limit, count[b])
    OBVIOUS
  <2>1. start \in Nat /\ limit \in Nat /\ to \in Nat /\ start <= to /\ to <= count[b]
    BY <1>1, <2>0 DEF Least
  <2>2. ReadLength(b, start, limit) = to - start
    BY <2>0, <2>1 DEF ReadLength, NonNegative, Greatest
  <2>3. ASSUME NEW k \in 1..(to - start)
        PROVE  /\ Found(b, start + k - 1)
               /\ Entry(b, start + k - 1) = MadeBy(b)[(start + 1) + k - 1]
    <3>0. PICK i : i = start + k - 1
      OBVIOUS
    <3>1. i \in Nat /\ i < count[b] /\ i + 1 = (start + 1) + k - 1
      BY <1>1, <2>1, <3>0
    <3>2. Found(b, i) /\ Entry(b, i) = MadeBy(b)[i + 1]
      BY <3>1, EntryExact
    <3>3. QED BY <3>0, <3>1, <3>2
  <2>4. ReadReturns(b, start, limit)
    BY <2>2, <2>3 DEF ReadReturns
  <2>5. PICK slice : slice = SubSeq(MadeBy(b), start + 1, to)
    OBVIOUS
  <2>6. slice \in Seq(Nat) /\ Len(slice) = to - start
        /\ \A k \in 1..(to - start) : slice[k] = MadeBy(b)[(start + 1) + k - 1]
    <3>1. /\ start + 1 \in Int /\ to \in Int /\ to - (start + 1) + 1 = to - start
          /\ (IF start + 1 <= to THEN to - (start + 1) + 1 ELSE 0) = to - start
      BY <2>1
    <3>2. \A i \in (start + 1)..to : MadeBy(b)[i] \in Nat
      BY <1>1, <2>1
    <3> DEFINE from == start + 1
    <3> HIDE DEF from
    <3>3. from \in Int /\ to \in Int /\ \A i \in from..to : MadeBy(b)[i] \in Nat
      BY <3>1, <3>2 DEF from
    <3>4. /\ SubSeq(MadeBy(b), from, to) \in Seq(Nat)
          /\ Len(SubSeq(MadeBy(b), from, to)) = IF from <= to THEN to - from + 1 ELSE 0
          /\ \A i \in 1..(to - from + 1) : SubSeq(MadeBy(b), from, to)[i] = MadeBy(b)[from + i - 1]
      BY <3>3, SubSeqProperties
    <3>5. QED BY <2>5, <3>1, <3>4 DEF from
  <2>7. slice = [k \in 1..(to - start) |-> slice[k]]
    BY <2>6, LenProperties
  <2>8. Read(b, start, limit) = [k \in 1..(to - start) |-> Entry(b, start + k - 1)]
    BY <2>2 DEF Read
  <2>9. Read(b, start, limit) = slice
    BY <2>3, <2>6, <2>7, <2>8
  <2>10. QED BY <1>1, <2>0, <2>4, <2>5, <2>9
<1>3. QED BY <1>1, <1>2 DEF ReadsExact

\* Where a page does overlap legacy entries, the read of its last place asks
\* for an entry behind its end.
LEMMA OverlapBlocks ==
  ASSUME NEW b, BorrowerOk(b), PageOverlapsLegacy(b)
  PROVE  ~ReadsExact(b)
<1>0. PICK old : old = Len(legacy[b])
  OBVIOUS
<1>1. /\ count[b] \in Nat /\ old \in Nat /\ old < count[b] /\ old % PageSize # 0
  BY <1>0, BorrowerFacts DEF PageOverlapsLegacy
<1>2. PICK n : n = PageOf(old)
  OBVIOUS
<1>3. /\ n \in Nat /\ First(n) \in Nat /\ PageSize \in Nat /\ First(n) < old
      /\ old < First(n) + PageSize
  BY <1>1, <1>2, PageFacts, LoanIndexAssumption
<1>4. PICK i : i = Least(count[b], First(n) + PageSize) - 1
  OBVIOUS
<1>5. /\ i \in Nat /\ old <= i /\ i < count[b] /\ First(n) <= i /\ i < First(n) + PageSize
      /\ PageEnd(b, n) = i + 1
  BY <1>1, <1>3, <1>4 DEF Least, PageEnd
<1>6. PageOf(i) = n /\ i % PageSize = i - First(n)
  <2>1. PageOf(i) = n
    BY <1>3, <1>5, OnOnePage
  <2>2. QED BY <1>5, <2>1, PageFacts
<1>7. PageStart(b, n) = old
  BY <1>0, <1>1, <1>3 DEF PageStart, Greatest
<1>8. n \in DOMAIN pages[b] /\ Len(pages[b][n]) = (i + 1) - old
  <2>1. PageStart(b, n) < PageEnd(b, n)
    BY <1>1, <1>5, <1>7
  <2>2. n \in DOMAIN pages[b]
    BY <1>3, <2>1 DEF BorrowerOk
  <2>3. QED BY <1>5, <1>7, <2>2 DEF BorrowerOk, PageExact
<1>9. ~Found(b, i)
  <2>1. ~(i - First(n) < (i + 1) - old)
    BY <1>1, <1>3, <1>5
  <2>2. QED BY <1>6, <1>8, <2>1 DEF Found
<1>10. ReadLength(b, i, 1) = 1
  BY <1>1, <1>5 DEF ReadLength, NonNegative, Least, Greatest
<1>11. ~ReadReturns(b, i, 1)
  <2>1. 1 \in 1..ReadLength(b, i, 1) /\ i + 1 - 1 = i
    BY <1>5, <1>10
  <2>2. QED BY <1>9, <2>1 DEF ReadReturns
<1>12. i \in 0..count[b] /\ 1 \in 0..(count[b] + 1)
  BY <1>1, <1>5
<1>13. QED BY <1>11, <1>12 DEF ReadsExact

\* get_user_loan_ids_paginated returns, at every offset and with every limit,
\* that slice of what the borrower made, for exactly those borrowers who did
\* not append to a page that legacy entries fill in part; for the others some
\* read never returns.
THEOREM ReadsExactOrOverlap == IndexSpec => []ReadsExactUnlessOverlap
<1>1. IndexInv => ReadsExactUnlessOverlap
  <2> SUFFICES ASSUME IndexInv, NEW b \in Borrowers
               PROVE  ReadsExact(b) <=> ~PageOverlapsLegacy(b)
    BY DEF ReadsExactUnlessOverlap
  <2>1. BorrowerOk(b)
    BY DEF IndexInv
  <2>2. QED BY <2>1, ReadsAreExact, OverlapBlocks
<1>2. QED BY <1>1, IndexInvHolds, PTL
=============================================================================
