----------------------------- MODULE SumTheorems -----------------------------
(***************************************************************************)
(* What the accounting proofs need of Sum.  The library defines a fold     *)
(* with CHOOSE: the sum over S takes one element out at a time, in an      *)
(* order nobody knows.  The lemmas unfold that definition, show that it    *)
(* determines the sum and that the order does not matter (SumRemove), and  *)
(* derive how a sum reacts to an update.  Each induction is a proof by     *)
(* contradiction on a minimal subset for which the claim fails.            *)
(***************************************************************************)
EXTENDS Sums, FiniteSets, FiniteSetTheorems, TLAPS

Pick(T) == CHOOSE x \in T : TRUE

IsSumFn(g, f, S) ==
  g = [T \in SUBSET S |-> IF T = {} THEN 0 ELSE f[Pick(T)] + g[T \ {Pick(T)}]]

LEMMA SumUnfold == 
  ASSUME NEW f, NEW S
  PROVE Sum(f, S) = (CHOOSE g : IsSumFn(g, f, S))[S]
BY DEF Sum, FoldFunctionOnSet, MapThenFoldSet, IsSumFn, Pick

LEMMA MinimalSubset ==
  ASSUME NEW S, IsFiniteSet(S), NEW B \in SUBSET (SUBSET S), B # {}
  PROVE  \E T \in B : \A U \in SUBSET T : U # T => U \notin B
<1>1. B \subseteq FiniteSubsetsOf(S)
  BY FS_FiniteSubsetsOfFinite
<1>2. IsWellFoundedOn(StrictSubsetOrdering(S), FiniteSubsetsOf(S))
  BY FS_StrictSubsetOrderingWellFounded
<1>3. PICK T \in B : \A U \in B : ~(<<U, T>> \in StrictSubsetOrdering(S))
  BY <1>1, <1>2, WFMin, Zenon
<1>4. ASSUME NEW U \in SUBSET T, U # T, U \in B PROVE FALSE
  <2>1. <<U, T>> \in StrictSubsetOrdering(S)
    BY <1>4 DEF StrictSubsetOrdering
  <2>2. QED BY <2>1, <1>3, <1>4
<1>5. QED BY <1>3, <1>4

LEMMA SumFnUnique ==
  ASSUME NEW f, NEW S, NEW A, NEW g, NEW h, IsFiniteSet(S), S \subseteq A,
         IsSumFn(g, f, S), IsSumFn(h, f, A)
  PROVE  \A T \in SUBSET S : g[T] = h[T]
<1> DEFINE B == {T \in SUBSET S : g[T] # h[T]}
<1>1. SUFFICES ASSUME B # {} PROVE FALSE
  OBVIOUS
<1>2. PICK T \in B : \A U \in SUBSET T : U # T => U \notin B
  <2>1. B \in SUBSET (SUBSET S)
    OBVIOUS
  <2> HIDE DEF B
  <2>2. QED BY <2>1, <1>1, MinimalSubset
<1>3. T \in SUBSET S /\ T \in SUBSET A /\ T \ {Pick(T)} \in SUBSET S /\ T \ {Pick(T)} \in SUBSET A
  OBVIOUS
<1>a. \A V \in SUBSET S : g[V] = IF V = {} THEN 0 ELSE f[Pick(V)] + g[V \ {Pick(V)}]
  BY DEF IsSumFn
<1>b. \A V \in SUBSET A : h[V] = IF V = {} THEN 0 ELSE f[Pick(V)] + h[V \ {Pick(V)}]
  BY DEF IsSumFn
<1>4. T # {}
  BY <1>3, <1>a, <1>b
<1>5. Pick(T) \in T
  BY <1>4 DEF Pick
<1>6. g[T \ {Pick(T)}] = h[T \ {Pick(T)}]
  BY <1>2, <1>3, <1>5
<1>7. QED BY <1>6, <1>4, <1>3, <1>a, <1>b

LEMMA SumFnExists ==
  ASSUME NEW f, NEW S, IsFiniteSet(S)
  PROVE  \E g : IsSumFn(g, f, S)
<1> DEFINE B == {T \in SUBSET S : ~ \E g : IsSumFn(g, f, T)}
<1>1. SUFFICES ASSUME B # {} PROVE FALSE
  OBVIOUS
<1>2. PICK T \in B : \A U \in SUBSET T : U # T => U \notin B
  <2>1. B \in SUBSET (SUBSET S)
    OBVIOUS
  <2> HIDE DEF B
  <2>2. QED BY <2>1, <1>1, MinimalSubset
<1> DEFINE G(V) == (CHOOSE g : IsSumFn(g, f, V))
<1>3. ASSUME NEW V \in SUBSET T, V # T PROVE IsSumFn(G(V), f, V)
  BY <1>3, <1>2
<1> DEFINE W(V) == IF V = {} THEN 0 ELSE f[Pick(V)] + G(V \ {Pick(V)})[V \ {Pick(V)}]
<1> DEFINE h == [V \in SUBSET T |-> W(V)]
<1>4. ASSUME NEW V \in SUBSET T, V # T PROVE W(V) = G(V)[V]
  <2>1. IsSumFn(G(V), f, V)
    BY <1>3, <1>4
  <2>a. \A X \in SUBSET V : G(V)[X] = IF X = {} THEN 0 ELSE f[Pick(X)] + G(V)[X \ {Pick(X)}]
    BY <2>1 DEF IsSumFn
  <2>2. CASE V = {}
    BY <2>2, <2>a
  <2>3. CASE V # {}
    <3>1. Pick(V) \in V
      BY <2>3 DEF Pick
    <3> DEFINE Y == V \ {Pick(V)}
    <3>2. Y \in SUBSET T /\ Y # T /\ Y \subseteq V /\ IsFiniteSet(Y)
      BY <3>1, FS_Subset
    <3>3. IsSumFn(G(Y), f, Y)
      BY <3>2, <1>3
    <3>4. \A X \in SUBSET Y : G(Y)[X] = G(V)[X]
      <4> HIDE DEF Y, G
      <4> QED BY <3>2, <3>3, <2>1, SumFnUnique
    <3>5. G(Y)[Y] = G(V)[Y]
      BY <3>4
    <3>6. G(V)[V] = f[Pick(V)] + G(V)[Y]
      BY <2>a, <2>3
    <3> QED BY <3>5, <3>6, <2>3
  <2> QED BY <2>2, <2>3
<1>5. ASSUME NEW V \in SUBSET T, V # {} PROVE G(V \ {Pick(V)})[V \ {Pick(V)}] = h[V \ {Pick(V)}]
  <2>1. Pick(V) \in V
    BY <1>5 DEF Pick
  <2>2. V \ {Pick(V)} \in SUBSET T /\ V \ {Pick(V)} # T
    BY <2>1
  <2>3. W(V \ {Pick(V)}) = G(V \ {Pick(V)})[V \ {Pick(V)}]
    <3> HIDE DEF W, G
    <3> QED BY <2>2, <1>4
  <2> HIDE DEF W, G
  <2>4. QED BY <2>3, <2>2
<1>6. \A V \in SUBSET T : h[V] = IF V = {} THEN 0 ELSE f[Pick(V)] + h[V \ {Pick(V)}]
  <2> SUFFICES ASSUME NEW V \in SUBSET T PROVE h[V] = IF V = {} THEN 0 ELSE f[Pick(V)] + h[V \ {Pick(V)}]
    OBVIOUS
  <2>1. h[V] = W(V)
    OBVIOUS
  <2>2. CASE V = {}
    BY <2>1, <2>2
  <2>3. CASE V # {}
    <3>1. G(V \ {Pick(V)})[V \ {Pick(V)}] = h[V \ {Pick(V)}]
      BY <1>5, <2>3
    <3>2. W(V) = f[Pick(V)] + G(V \ {Pick(V)})[V \ {Pick(V)}]
      BY <2>3
    <3> HIDE DEF h, W, G
    <3> QED BY <3>1, <3>2, <2>1, <2>3
  <2> QED BY <2>2, <2>3
<1>7. IsSumFn(h, f, T)
  <2>1. h = [V \in SUBSET T |-> h[V]]
    OBVIOUS
  <2> HIDE DEF h
  <2> QED BY <2>1, <1>6, Zenon DEF IsSumFn
<1>8. QED BY <1>7, <1>2

(***************************************************************************)
(* The equations of a sum.                                                 *)
(***************************************************************************)

\* Unfolding the fold once: some element and the sum of the others.
LEMMA SumStep ==
  ASSUME NEW f, NEW S, IsFiniteSet(S)
  PROVE  Sum(f, S) = IF S = {} THEN 0 ELSE f[Pick(S)] + Sum(f, S \ {Pick(S)})
<1> DEFINE g == CHOOSE g : IsSumFn(g, f, S)
           R == S \ {Pick(S)}
           h == CHOOSE h : IsSumFn(h, f, R)
<1>1. IsSumFn(g, f, S)
  BY SumFnExists
<1>2. IsFiniteSet(R) /\ R \subseteq S
  BY FS_Subset
<1>3. IsSumFn(h, f, R)
  <2> HIDE DEF R
  <2> QED BY <1>2, SumFnExists
<1>4. Sum(f, S) = g[S] /\ Sum(f, R) = h[R]
  <2> HIDE DEF R
  <2> QED BY SumUnfold
<1>5. h[R] = g[R]
  <2> HIDE DEF g, h, R
  <2>1. \A T \in SUBSET R : h[T] = g[T]
    BY <1>1, <1>2, <1>3, SumFnUnique
  <2> QED BY <2>1
<1>6. g[S] = IF S = {} THEN 0 ELSE f[Pick(S)] + g[R]
  <2> HIDE DEF g
  <2> QED BY <1>1 DEF IsSumFn
<1> HIDE DEF g, h, R
<1>7. Sum(f, S) = IF S = {} THEN 0 ELSE f[Pick(S)] + Sum(f, R)
  BY <1>4, <1>5, <1>6
<1>8. QED BY <1>7 DEF R

LEMMA SumEmpty ==
  ASSUME NEW f
  PROVE  Sum(f, {}) = 0
BY SumStep, FS_EmptySet

\* A sum of integers is an integer.
LEMMA SumInt ==
  ASSUME NEW f, NEW S, IsFiniteSet(S), \A x \in S : f[x] \in Int
  PROVE  Sum(f, S) \in Int
<1> DEFINE B == {T \in SUBSET S : Sum(f, T) \notin Int}
<1>1. SUFFICES ASSUME B # {} PROVE FALSE
  OBVIOUS
<1>2. PICK T \in B : \A U \in SUBSET T : U # T => U \notin B
  <2>1. B \in SUBSET (SUBSET S)
    OBVIOUS
  <2> HIDE DEF B
  <2>2. QED BY <2>1, <1>1, MinimalSubset
<1>3. IsFiniteSet(T)
  BY FS_Subset
<1>4. T # {}
  BY SumEmpty
<1>5. Pick(T) \in T
  BY <1>4 DEF Pick
<1>6. Sum(f, T \ {Pick(T)}) \in Int
  BY <1>2, <1>5
<1>7. f[Pick(T)] \in Int
  BY <1>5
<1>8. QED BY <1>3, <1>4, <1>6, <1>7, SumStep

\* The order does not matter: any element can be taken out first.
LEMMA SumRemove ==
  ASSUME NEW f, NEW S, IsFiniteSet(S), \A x \in S : f[x] \in Int
  PROVE  \A x \in S : Sum(f, S) = f[x] + Sum(f, S \ {x})
<1> DEFINE Fails(T) == \E x \in T : Sum(f, T) # f[x] + Sum(f, T \ {x})
           B == {T \in SUBSET S : Fails(T)}
<1>1. SUFFICES ASSUME B # {} PROVE FALSE
  OBVIOUS
<1>2. PICK T \in B : \A U \in SUBSET T : U # T => U \notin B
  <2>1. B \in SUBSET (SUBSET S)
    OBVIOUS
  <2> HIDE DEF B
  <2>2. QED BY <2>1, <1>1, MinimalSubset
<1>3. PICK x \in T : Sum(f, T) # f[x] + Sum(f, T \ {x})
  OBVIOUS
<1> DEFINE p == Pick(T)
<1>4. p \in T
  BY <1>3 DEF Pick
<1>5. ASSUME NEW y \in T, NEW z \in T, y # z
      PROVE  Sum(f, T \ {y}) = f[z] + Sum(f, (T \ {y}) \ {z})
  <2>1. ~Fails(T \ {y})
    <3>1. T \ {y} \in SUBSET T /\ T \ {y} # T
      OBVIOUS
    <3>2. T \ {y} \notin B
      <4> HIDE DEF B
      <4> QED BY <3>1, <1>2
    <3> HIDE DEF Fails
    <3> QED BY <3>2
  <2>2. z \in T \ {y}
    BY <1>5
  <2>3. QED BY <2>1, <2>2
<1>6. IsFiniteSet(T) /\ Sum(f, T) = f[p] + Sum(f, T \ {p})
  <2>1. IsFiniteSet(T)
    BY FS_Subset
  <2>2. QED BY <2>1, <1>4, SumStep
<1>7. p # x
  BY <1>3, <1>6
<1> HIDE DEF p
<1>8. /\ Sum(f, T \ {p}) = f[x] + Sum(f, (T \ {p}) \ {x})
      /\ Sum(f, T \ {x}) = f[p] + Sum(f, (T \ {x}) \ {p})
  BY <1>4, <1>5, <1>7
<1>9. (T \ {p}) \ {x} = (T \ {x}) \ {p}
  OBVIOUS
<1> DEFINE R == Sum(f, (T \ {p}) \ {x})
<1>10. R \in Int
  <2> DEFINE V == (T \ {p}) \ {x}
  <2>1. IsFiniteSet(V) /\ \A y \in V : f[y] \in Int
    BY <1>6, FS_Subset
  <2> HIDE DEF V
  <2>2. Sum(f, V) \in Int
    BY <2>1, SumInt
  <2>3. QED BY <2>2 DEF V
<1>11. /\ Sum(f, T) = f[p] + (f[x] + R)
       /\ Sum(f, T \ {x}) = f[p] + R
  BY <1>6, <1>8, <1>9
<1>12. f[p] \in Int /\ f[x] \in Int
  BY <1>4
<1> HIDE DEF R
<1>13. QED BY <1>3, <1>10, <1>11, <1>12

\* A sum only reads the function on the set.
LEMMA SumEqual ==
  ASSUME NEW f, NEW g, NEW S, IsFiniteSet(S), \A x \in S : f[x] = g[x]
  PROVE  Sum(f, S) = Sum(g, S)
<1> DEFINE B == {T \in SUBSET S : Sum(f, T) # Sum(g, T)}
<1>1. SUFFICES ASSUME B # {} PROVE FALSE
  OBVIOUS
<1>2. PICK T \in B : \A U \in SUBSET T : U # T => U \notin B
  <2>1. B \in SUBSET (SUBSET S)
    OBVIOUS
  <2> HIDE DEF B
  <2>2. QED BY <2>1, <1>1, MinimalSubset
<1>3. IsFiniteSet(T)
  BY FS_Subset
<1>4. T # {}
  BY SumEmpty
<1>5. Pick(T) \in T
  BY <1>4 DEF Pick
<1>6. Sum(f, T \ {Pick(T)}) = Sum(g, T \ {Pick(T)})
  BY <1>2, <1>5
<1>7. f[Pick(T)] = g[Pick(T)]
  BY <1>5
<1>8. QED BY <1>3, <1>4, <1>6, <1>7, SumStep

\* Changing the value of one element changes the sum by the difference.
LEMMA SumExcept ==
  ASSUME NEW S, IsFiniteSet(S), NEW f \in [S -> Int], NEW x \in S, NEW v \in Int
  PROVE  Sum([f EXCEPT ![x] = v], S) = Sum(f, S) + v - f[x]
<1> DEFINE g == [f EXCEPT ![x] = v]
           R == S \ {x}
<1>1. IsFiniteSet(R)
  BY FS_Subset
<1>2. Sum(f, R) = Sum(g, R)
  <2>1. \A y \in R : f[y] = g[y]
    OBVIOUS
  <2> HIDE DEF g, R
  <2>2. QED BY <1>1, <2>1, SumEqual
<1>3. Sum(f, R) \in Int
  <2>1. \A y \in R : f[y] \in Int
    OBVIOUS
  <2> HIDE DEF R
  <2>2. QED BY <1>1, <2>1, SumInt
<1>4. g \in [S -> Int] /\ g[x] = v
  OBVIOUS
<1> HIDE DEF g
<1>5. Sum(f, S) = f[x] + Sum(f, R) /\ Sum(g, S) = v + Sum(g, R)
  BY <1>4, SumRemove
<1> HIDE DEF R
<1>6. QED BY <1>2, <1>3, <1>5 DEF g

\* The same for functions that are not written as an update: when f and g agree
\* but for x, their sums differ by what they differ there.
LEMMA SumChange ==
  ASSUME NEW f, NEW g, NEW S, IsFiniteSet(S), NEW x \in S,
         \A y \in S : f[y] \in Int /\ g[y] \in Int,
         \A y \in S \ {x} : f[y] = g[y]
  PROVE  Sum(g, S) = Sum(f, S) - f[x] + g[x]
<1> DEFINE R == S \ {x}
<1>1. IsFiniteSet(R) /\ \A y \in R : f[y] \in Int /\ f[y] = g[y]
  BY FS_Subset
<1>2. Sum(f, S) = f[x] + Sum(f, R) /\ Sum(g, S) = g[x] + Sum(g, R)
  BY SumRemove
<1> HIDE DEF R
<1>3. Sum(f, R) = Sum(g, R)
  BY <1>1, SumEqual
<1>4. Sum(f, R) \in Int
  BY <1>1, SumInt
<1>5. f[x] \in Int /\ g[x] \in Int
  OBVIOUS
<1>6. QED BY <1>2, <1>3, <1>4, <1>5

\* A new element adds its value.
LEMMA SumGrow ==
  ASSUME NEW f, NEW g, NEW S, IsFiniteSet(S), NEW x, x \notin S,
         \A y \in S : f[y] \in Int /\ f[y] = g[y], g[x] \in Int
  PROVE  Sum(g, S \cup {x}) = Sum(f, S) + g[x]
<1> DEFINE T == S \cup {x}
<1>1. IsFiniteSet(T) /\ x \in T /\ T \ {x} = S /\ \A y \in T : g[y] \in Int
  BY FS_AddElement
<1> HIDE DEF T
<1>2. Sum(g, T) = g[x] + Sum(g, S)
  BY <1>1, SumRemove
<1>3. Sum(f, S) = Sum(g, S)
  BY SumEqual
<1>4. Sum(f, S) \in Int
  BY SumInt
<1>5. Sum(g, T) = Sum(f, S) + g[x]
  BY <1>2, <1>3, <1>4
<1>6. QED BY <1>5 DEF T

\* A sum of naturals is a natural at least as large as each of them.
LEMMA SumNat ==
  ASSUME NEW f, NEW S, IsFiniteSet(S), \A x \in S : f[x] \in Nat
  PROVE  Sum(f, S) \in Nat
<1> DEFINE B == {T \in SUBSET S : Sum(f, T) \notin Nat}
<1>1. SUFFICES ASSUME B # {} PROVE FALSE
  OBVIOUS
<1>2. PICK T \in B : \A U \in SUBSET T : U # T => U \notin B
  <2>1. B \in SUBSET (SUBSET S)
    OBVIOUS
  <2> HIDE DEF B
  <2>2. QED BY <2>1, <1>1, MinimalSubset
<1>3. IsFiniteSet(T)
  BY FS_Subset
<1>4. T # {}
  BY SumEmpty
<1>5. Pick(T) \in T
  BY <1>4 DEF Pick
<1>6. Sum(f, T \ {Pick(T)}) \in Nat
  BY <1>2, <1>5
<1>7. f[Pick(T)] \in Nat
  BY <1>5
<1>8. QED BY <1>3, <1>4, <1>6, <1>7, SumStep

LEMMA SumAtLeast ==
  ASSUME NEW f, NEW S, IsFiniteSet(S), \A x \in S : f[x] \in Nat, NEW x \in S
  PROVE  Sum(f, S) >= f[x]
<1> DEFINE R == S \ {x}
<1>1. IsFiniteSet(R) /\ \A y \in R : f[y] \in Nat
  BY FS_Subset
<1>2. Sum(f, S) = f[x] + Sum(f, R)
  BY SumRemove
<1> HIDE DEF R
<1>3. Sum(f, R) \in Nat
  BY <1>1, SumNat
<1>4. QED BY <1>2, <1>3

LEMMA SumZero ==
  ASSUME NEW f, NEW S, IsFiniteSet(S), \A x \in S : f[x] = 0
  PROVE  Sum(f, S) = 0
<1> DEFINE B == {T \in SUBSET S : Sum(f, T) # 0}
<1>1. SUFFICES ASSUME B # {} PROVE FALSE
  OBVIOUS
<1>2. PICK T \in B : \A U \in SUBSET T : U # T => U \notin B
  <2>1. B \in SUBSET (SUBSET S)
    OBVIOUS
  <2> HIDE DEF B
  <2>2. QED BY <2>1, <1>1, MinimalSubset
<1>3. IsFiniteSet(T)
  BY FS_Subset
<1>4. T # {}
  BY SumEmpty
<1>5. Pick(T) \in T
  BY <1>4 DEF Pick
<1>6. Sum(f, T \ {Pick(T)}) = 0
  BY <1>2, <1>5
<1>7. QED BY <1>3, <1>4, <1>5, <1>6, SumStep
=============================================================================
