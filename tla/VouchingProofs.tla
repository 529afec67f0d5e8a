---------------------------- MODULE VouchingProofs ----------------------------
(***************************************************************************)
(* Proofs about Vouching, for every finite set of mentors, every set of    *)
(* learners, every boost, duration and initial score, and all amounts by   *)
(* which other updaters may move a score.                                  *)
(***************************************************************************)
EXTENDS Vouching, SumTheorems

VouchRecord == [boost : Nat, active : BOOLEAN, age : 0..(VouchDuration + 1)]

\* What a vouch counts for.
Counted(v) == IF v.active THEN v.boost ELSE 0

\* What each mentor's vouch for l counts for.
Given(vs, l) == [m \in Mentors |-> Counted(vs[m][l])]

-----------------------------------------------------------------------------
(* The inductive invariant                                                 *)

\* The boost of an active vouch is not zero, because initialize refuses zero.
VouchesPositive ==
  \A m \in Mentors, l \in Learners : vouch[m][l].active => vouch[m][l].boost # 0

\* The aggregate is the sum of the active vouches, there is a baseline exactly
\* while it is not zero, and a score nothing lowered stands above the baseline
\* by at least the aggregate: this is what is left to take back, in any order.
LearnerOk(l) ==
  /\ total[l] = Sum(Given(vouch, l), Mentors)
  /\ baseline[l] = NoBaseline <=> total[l] = 0
  /\ total[l] # 0 /\ ~punished[l] => score[l] >= baseline[l] + total[l]

VouchInv ==
  /\ TypeOK
  /\ VouchesPositive
  /\ \A l \in Learners : LearnerOk(l)

LEMMA VouchingTypes ==
  ASSUME TypeOK, NEW m \in Mentors, NEW l \in Learners
  PROVE  /\ vouch[m][l] \in VouchRecord
         /\ vouch[m][l].boost \in Nat /\ vouch[m][l].active \in BOOLEAN
         /\ vouch[m][l].age \in 0..(VouchDuration + 1)
         /\ Counted(vouch[m][l]) \in Nat
<1>1. vouch[m][l] \in VouchRecord
  BY DEF TypeOK, VouchRecord
<1>2. QED BY <1>1 DEF VouchRecord, Counted

LEMMA LearnerTypes ==
  ASSUME TypeOK, NEW l \in Learners
  PROVE  /\ score[l] \in 0..MaxScore /\ score[l] \in Nat /\ total[l] \in Nat
         /\ baseline[l] \in Nat \cup {NoBaseline} /\ punished[l] \in BOOLEAN
         /\ boost \in Nat \ {0}
BY VouchingAssumption DEF TypeOK, MaxScore

\* The aggregate covers each active vouch, and is zero only if there is none.
LEMMA TotalCovers ==
  ASSUME VouchInv, NEW l \in Learners
  PROVE  /\ \A m \in Mentors : total[l] >= Counted(vouch[m][l])
         /\ total[l] = 0 <=> \A m \in Mentors : ~vouch[m][l].active
<1> DEFINE g == Given(vouch, l)
<1>1. /\ IsFiniteSet(Mentors) /\ total[l] = Sum(g, Mentors) /\ total[l] \in Nat
      /\ \A m \in Mentors : g[m] = Counted(vouch[m][l]) /\ g[m] \in Nat
  BY VouchingAssumption, VouchingTypes, LearnerTypes DEF VouchInv, LearnerOk, Given
<1> HIDE DEF g
<1>2. \A m \in Mentors : total[l] >= g[m]
  BY <1>1, SumAtLeast
<1>3. ASSUME \A m \in Mentors : ~vouch[m][l].active PROVE total[l] = 0
  <2>1. \A m \in Mentors : g[m] = 0
    BY <1>1, <1>3 DEF Counted
  <2>2. QED BY <1>1, <2>1, SumZero
<1>4. ASSUME total[l] = 0, NEW m \in Mentors PROVE ~vouch[m][l].active
  <2>1. g[m] = 0
    BY <1>1, <1>2, <1>4
  <2>2. vouch[m][l].active => g[m] # 0
    BY <1>1 DEF VouchInv, VouchesPositive, Counted
  <2>3. QED BY <2>1, <2>2
<1>5. QED BY <1>1, <1>2, <1>3, <1>4

LEMMA InitVouching == Init => VouchInv
<1> SUFFICES ASSUME Init PROVE VouchInv
  OBVIOUS
<1>1. /\ score = InitialScores /\ updater = FALSE /\ boost \in BoostChoices /\ verified = {}
      /\ vouch = [m \in Mentors |-> [l \in Learners |-> NoVouch]]
      /\ total = [l \in Learners |-> 0] /\ baseline = [l \in Learners |-> NoBaseline]
      /\ punished = [l \in Learners |-> FALSE]
  BY DEF Init
<1>2. NoVouch \in VouchRecord
  BY VouchingAssumption DEF NoVouch, VouchRecord
<1>3. TypeOK
  BY <1>1, <1>2, VouchingAssumption DEF TypeOK, VouchRecord
<1>4. \A m \in Mentors, l \in Learners : vouch[m][l] = NoVouch
  BY <1>1
<1>5. VouchesPositive
  BY <1>4 DEF VouchesPositive, NoVouch
<1>6. ASSUME NEW l \in Learners PROVE LearnerOk(l)
  <2>1. \A m \in Mentors : Given(vouch, l)[m] = 0
    BY <1>4 DEF Given, Counted, NoVouch
  <2>2. Sum(Given(vouch, l), Mentors) = 0
    BY <2>1, SumZero, VouchingAssumption
  <2>3. QED BY <1>1, <2>2 DEF LearnerOk
<1>7. QED BY <1>3, <1>5, <1>6 DEF VouchInv

-----------------------------------------------------------------------------
(* Its preservation                                                        *)

\* A vouch for l is written: the sum of l moves by what the vouch counts for,
\* and those of the other learners do not.
LEMMA VouchWritten ==
  ASSUME VouchInv, NEW m \in Mentors, NEW l \in Learners, NEW v \in VouchRecord,
         v.active => v.boost # 0, vouch' = [vouch EXCEPT ![m][l] = v]
  PROVE  /\ vouch' \in [Mentors -> [Learners -> VouchRecord]] /\ VouchesPositive'
         /\ Sum(Given(vouch', l), Mentors) = total[l] - Counted(vouch[m][l]) + Counted(v)
         /\ \A k \in Learners \ {l} : Sum(Given(vouch', k), Mentors) = total[k]
<1>1. vouch \in [Mentors -> [Learners -> VouchRecord]]
  BY DEF VouchInv, TypeOK, VouchRecord
<1>2. \A n \in Mentors, k \in Learners :
        vouch'[n][k] = IF n = m /\ k = l THEN v ELSE vouch[n][k]
  BY <1>1
<1>3. vouch' \in [Mentors -> [Learners -> VouchRecord]]
  BY <1>1
<1>4. VouchesPositive'
  BY <1>2 DEF VouchInv, VouchesPositive
<1>5. Sum(Given(vouch', l), Mentors) = total[l] - Counted(vouch[m][l]) + Counted(v)
  <2> DEFINE f == Given(vouch, l)
             g == Given(vouch', l)
  <2>1. /\ \A n \in Mentors : f[n] = Counted(vouch[n][l]) /\ f[n] \in Nat
        /\ total[l] = Sum(f, Mentors)
    BY VouchingTypes DEF Given, VouchInv, LearnerOk
  <2>2. Counted(v) \in Nat
    BY DEF Counted, VouchRecord
  <2>3. \A n \in Mentors : g[n] = Counted(vouch'[n][l])
    BY DEF Given
  <2>4. g[m] = Counted(v) /\ \A n \in Mentors \ {m} : g[n] = f[n]
    <3> HIDE DEF f, g
    <3>1. vouch'[m][l] = v
      BY <1>2
    <3>2. \A n \in Mentors \ {m} : vouch'[n][l] = vouch[n][l]
      BY <1>2
    <3>3. QED BY <2>1, <2>3, <3>1, <3>2
  <2> HIDE DEF f, g
  <2>5. \A n \in Mentors : f[n] \in Int /\ g[n] \in Int
    BY <2>1, <2>2, <2>4
  <2>6. Sum(g, Mentors) = Sum(f, Mentors) - f[m] + g[m]
    BY <2>4, <2>5, SumChange, VouchingAssumption
  <2>7. QED BY <2>1, <2>4, <2>6 DEF f, g
<1>6. ASSUME NEW k \in Learners \ {l} PROVE Sum(Given(vouch', k), Mentors) = total[k]
  <2>1. Given(vouch', k) = Given(vouch, k)
    BY <1>2 DEF Given
  <2>2. QED BY <2>1 DEF VouchInv, LearnerOk
<1>7. QED BY <1>3, <1>4, <1>5, <1>6

\* The entries of a learner a step does not write keep what is said of them.
LEMMA LearnerKept ==
  ASSUME VouchInv, NEW k \in Learners,
         Sum(Given(vouch', k), Mentors) = total[k],
         total'[k] = total[k], baseline'[k] = baseline[k], score'[k] >= score[k],
         punished'[k] = punished[k], score'[k] \in Nat
  PROVE  LearnerOk(k)'
<1>1. LearnerOk(k) /\ score[k] \in Nat /\ total[k] \in Nat
      /\ baseline[k] \in Nat \cup {NoBaseline}
  BY LearnerTypes DEF VouchInv
<1>2. total[k] # 0 => baseline[k] \in Nat
  BY <1>1 DEF LearnerOk
<1>3. total[k] # 0 /\ ~punished[k] => score'[k] >= baseline[k] + total[k]
  BY <1>1, <1>2 DEF LearnerOk
<1>4. QED BY <1>1, <1>3 DEF LearnerOk

LEMMA VouchStep ==
  ASSUME VouchInv, NEW m \in Mentors, NEW l \in Learners, Vouch(m, l)
  PROVE  VouchInv'
<1> DEFINE v == [boost |-> boost, active |-> TRUE, age |-> 0]
<1>1. /\ ~vouch[m][l].active /\ RaiseOk(score[l], boost)
      /\ baseline' = [baseline EXCEPT ![l] = BaselineWithVouch(l)]
      /\ vouch' = [vouch EXCEPT ![m][l] = v]
      /\ score' = [score EXCEPT ![l] = score[l] + boost]
      /\ total' = [total EXCEPT ![l] = total[l] + boost]
      /\ punished' = [punished EXCEPT ![l] = punished[l] /\ total[l] # 0]
      /\ UNCHANGED <<updater, boost, verified>>
  BY DEF Vouch
<1>2. /\ score[l] \in Nat /\ total[l] \in Nat /\ boost \in Nat \ {0}
      /\ baseline[l] \in Nat \cup {NoBaseline} /\ punished[l] \in BOOLEAN
      /\ LearnerOk(l) /\ TypeOK
  BY LearnerTypes DEF VouchInv
<1>3. v \in VouchRecord /\ v.active /\ Counted(v) = boost /\ v.boost # 0
  BY <1>2, VouchingAssumption DEF VouchRecord, Counted
<1>4. Counted(vouch[m][l]) = 0
  BY <1>1 DEF Counted
<1> HIDE DEF v
<1>5. /\ vouch' \in [Mentors -> [Learners -> VouchRecord]] /\ VouchesPositive'
      /\ Sum(Given(vouch', l), Mentors) = total[l] + boost
      /\ \A k \in Learners \ {l} : Sum(Given(vouch', k), Mentors) = total[k]
  <2>1. vouch' = [vouch EXCEPT ![m][l] = v]
    BY <1>1
  <2>2. /\ vouch' \in [Mentors -> [Learners -> VouchRecord]] /\ VouchesPositive'
        /\ Sum(Given(vouch', l), Mentors) = total[l] - Counted(vouch[m][l]) + Counted(v)
        /\ \A k \in Learners \ {l} : Sum(Given(vouch', k), Mentors) = total[k]
    BY <1>3, <2>1, VouchWritten
  <2>3. total[l] - 0 + boost = total[l] + boost
    BY <1>2
  <2>4. QED BY <1>3, <1>4, <2>2, <2>3
<1>6. score[l] + boost \in 0..MaxScore /\ total[l] + boost \in Nat \ {0}
  BY <1>1, <1>2 DEF RaiseOk, MaxScore
<1>7. BaselineWithVouch(l) \in Nat
  BY <1>2 DEF BaselineWithVouch, LearnerOk
<1>8. TypeOK'
  <2>1. score' \in [Learners -> 0..MaxScore] /\ total' \in [Learners -> Nat]
    BY <1>1, <1>2, <1>6 DEF TypeOK
  <2>2. baseline' \in [Learners -> Nat \cup {NoBaseline}] /\ punished' \in [Learners -> BOOLEAN]
    BY <1>1, <1>2, <1>7 DEF TypeOK
  <2>3. QED BY <1>1, <1>2, <1>5, <2>1, <2>2 DEF TypeOK, VouchRecord
<1>9. LearnerOk(l)'
  <2>1. /\ total'[l] = total[l] + boost /\ score'[l] = score[l] + boost
        /\ baseline'[l] = BaselineWithVouch(l)
        /\ punished'[l] <=> punished[l] /\ total[l] # 0
    BY <1>1, <1>2 DEF TypeOK
  <2>2. baseline'[l] # NoBaseline /\ total'[l] # 0
    BY <1>6, <1>7, <2>1, VouchingAssumption
  <2>3. ~punished'[l] => score'[l] >= baseline'[l] + total'[l]
    <3>1. CASE total[l] = 0
      BY <1>2, <2>1, <3>1 DEF BaselineWithVouch
    <3>2. CASE total[l] # 0
      <4>1. baseline'[l] = baseline[l] /\ baseline[l] \in Nat
        BY <1>2, <2>1, <3>2 DEF BaselineWithVouch, LearnerOk
      <4>2. ~punished[l] => score[l] >= baseline[l] + total[l]
        BY <1>2, <3>2 DEF LearnerOk
      <4>3. score[l] >= baseline[l] + total[l]
              => score[l] + boost >= baseline[l] + (total[l] + boost)
        BY <1>2, <4>1
      <4>4. QED BY <2>1, <3>2, <4>1, <4>2, <4>3
    <3>3. QED BY <3>1, <3>2
  <2>4. QED BY <1>5, <2>1, <2>2, <2>3 DEF LearnerOk
<1>10. ASSUME NEW k \in Learners \ {l} PROVE LearnerOk(k)'
  <2>1. /\ total'[k] = total[k] /\ baseline'[k] = baseline[k] /\ score'[k] = score[k]
        /\ punished'[k] = punished[k]
    BY <1>1, <1>2 DEF TypeOK
  <2>2. score[k] \in Nat
    BY <1>2, LearnerTypes
  <2>3. QED BY <1>5, <2>1, <2>2, LearnerKept
<1>11. QED BY <1>5, <1>8, <1>9, <1>10 DEF VouchInv

\* How much is taken back: never more than there is, never more than the boost,
\* and exactly the boost if nothing lowered the score.
LEMMA RemovableBounds ==
  ASSUME VouchInv, NEW m \in Mentors, NEW l \in Learners, vouch[m][l].active
  PROVE  /\ Removable(m, l) \in Nat /\ Removable(m, l) <= vouch[m][l].boost
         /\ Removable(m, l) <= score[l]
         /\ vouch[m][l].boost <= total[l] /\ vouch[m][l].boost \in Nat \ {0}
         /\ baseline[l] \in Nat
         /\ ~punished[l] => Removable(m, l) = vouch[m][l].boost
<1> DEFINE b == vouch[m][l].boost
<1>1. /\ score[l] \in Nat /\ total[l] \in Nat /\ baseline[l] \in Nat \cup {NoBaseline}
      /\ LearnerOk(l) /\ b \in Nat /\ b # 0 /\ total[l] >= b
  BY LearnerTypes, VouchingTypes, TotalCovers DEF VouchInv, VouchesPositive, Counted
<1> HIDE DEF b
<1>2. baseline[l] \in Nat /\ baseline[l] # NoBaseline
  BY <1>1 DEF LearnerOk
<1>3. Removable(m, l) = Least(NonNegative(score[l] - baseline[l]), b)
  BY <1>2 DEF Removable, b
<1>4. ~punished[l] => score[l] >= baseline[l] + total[l]
  BY <1>1 DEF LearnerOk
<1>5. \A s, f, t, n \in Nat :
        /\ Least(NonNegative(s - f), n) \in Nat /\ Least(NonNegative(s - f), n) <= n
        /\ Least(NonNegative(s - f), n) <= s
        /\ t >= n /\ s >= f + t => Least(NonNegative(s - f), n) = n
  BY DEF Least, NonNegative, Greatest
<1>6. /\ Removable(m, l) \in Nat /\ Removable(m, l) <= b /\ Removable(m, l) <= score[l]
      /\ ~punished[l] => Removable(m, l) = b
  BY <1>1, <1>2, <1>3, <1>4, <1>5
<1>7. QED BY <1>1, <1>2, <1>6 DEF b

\* Revocations and expiries take back a vouch in the same way.
LEMMA TakeBackEffect ==
  ASSUME VouchInv, NEW m \in Mentors, NEW l \in Learners, vouch[m][l].active, TakeBack(m, l)
  PROVE  LET b == vouch[m][l].boost
             r == Removable(m, l)
         IN  /\ vouch' = [vouch EXCEPT ![m][l] = [vouch[m][l] EXCEPT !.active = FALSE]]
             /\ total' = [total EXCEPT ![l] = total[l] - b]
             /\ score' = [score EXCEPT ![l] = score[l] - r]
             /\ baseline' = [baseline EXCEPT ![l] =
                               IF total[l] - b = 0 THEN NoBaseline ELSE baseline[l]]
             /\ total[l] - b \in Nat /\ score[l] - r \in 0..MaxScore
<1> DEFINE b == vouch[m][l].boost
           r == Removable(m, l)
<1>1. /\ score[l] \in 0..MaxScore /\ score[l] \in Nat /\ total[l] \in Nat
      /\ r \in Nat /\ r <= score[l] /\ b \in Nat /\ b <= total[l]
      /\ total \in [Learners -> Nat]
  BY LearnerTypes, RemovableBounds DEF VouchInv, TypeOK
<1>2. /\ vouch' = [vouch EXCEPT ![m][l].active = FALSE]
      /\ total' = [total EXCEPT ![l] = NonNegative(total[l] - b)]
      /\ score' = [score EXCEPT ![l] = score[l] - r]
      /\ baseline' = [baseline EXCEPT ![l] = IF total'[l] = 0 THEN NoBaseline ELSE baseline[l]]
  BY DEF TakeBack
<1> HIDE DEF b, r
<1>3. total[l] - b \in Nat /\ NonNegative(total[l] - b) = total[l] - b
  BY <1>1 DEF NonNegative, Greatest
<1>4. score[l] - r \in 0..MaxScore
  BY <1>1 DEF MaxScore
<1>5. total' = [total EXCEPT ![l] = total[l] - b] /\ total'[l] = total[l] - b
  BY <1>1, <1>2, <1>3
<1>6. vouch' = [vouch EXCEPT ![m][l] = [vouch[m][l] EXCEPT !.active = FALSE]]
  BY <1>2
<1>7. QED BY <1>2, <1>3, <1>4, <1>5, <1>6 DEF b, r

LEMMA TakeBackInv ==
  ASSUME VouchInv, NEW m \in Mentors, NEW l \in Learners, vouch[m][l].active, TakeBack(m, l),
         UNCHANGED <<updater, boost, verified, punished>>
  PROVE  VouchInv'
<1> DEFINE b == vouch[m][l].boost
           r == Removable(m, l)
           v == [vouch[m][l] EXCEPT !.active = FALSE]
<1>1. /\ vouch' = [vouch EXCEPT ![m][l] = v]
      /\ total' = [total EXCEPT ![l] = total[l] - b]
      /\ score' = [score EXCEPT ![l] = score[l] - r]
      /\ baseline' = [baseline EXCEPT ![l] =
                        IF total[l] - b = 0 THEN NoBaseline ELSE baseline[l]]
      /\ total[l] - b \in Nat /\ score[l] - r \in 0..MaxScore
  BY TakeBackEffect
<1>2. /\ score[l] \in Nat /\ total[l] \in Nat /\ baseline[l] \in Nat
      /\ LearnerOk(l) /\ TypeOK /\ b \in Nat \ {0} /\ b <= total[l] /\ r \in Nat
      /\ ~punished[l] => r = b
  BY LearnerTypes, RemovableBounds DEF VouchInv
<1>3. vouch[m][l] \in VouchRecord /\ Counted(vouch[m][l]) = b
  BY VouchingTypes DEF VouchInv, Counted
<1>4. v \in VouchRecord /\ ~v.active /\ Counted(v) = 0
  BY <1>3 DEF VouchRecord, Counted
<1> HIDE DEF v, b, r
<1>5. /\ vouch' \in [Mentors -> [Learners -> VouchRecord]] /\ VouchesPositive'
      /\ Sum(Given(vouch', l), Mentors) = total[l] - Counted(vouch[m][l]) + Counted(v)
      /\ \A k \in Learners \ {l} : Sum(Given(vouch', k), Mentors) = total[k]
  BY <1>1, <1>4, VouchWritten
<1>6. Sum(Given(vouch', l), Mentors) = total[l] - b
  <2>1. total[l] - b + 0 = total[l] - b
    BY <1>2
  <2>2. QED BY <1>3, <1>4, <1>5, <2>1
<1>7. TypeOK'
  <2>1. score' \in [Learners -> 0..MaxScore] /\ total' \in [Learners -> Nat]
    BY <1>1, <1>2 DEF TypeOK
  <2>2. baseline' \in [Learners -> Nat \cup {NoBaseline}]
    BY <1>1, <1>2 DEF TypeOK
  <2>3. QED BY <1>2, <1>5, <2>1, <2>2 DEF TypeOK, VouchRecord
<1>8. LearnerOk(l)'
  <2>1. /\ total'[l] = total[l] - b /\ score'[l] = score[l] - r
        /\ baseline'[l] = IF total[l] - b = 0 THEN NoBaseline ELSE baseline[l]
        /\ punished'[l] = punished[l]
    BY <1>1, <1>2 DEF TypeOK
  <2>2. baseline'[l] = NoBaseline <=> total'[l] = 0
    BY <1>2, <2>1, VouchingAssumption
  <2>3. total'[l] # 0 /\ ~punished[l] => score'[l] >= baseline'[l] + total'[l]
    <3>1. total[l] # 0
      BY <1>2
    <3>2. ~punished[l] => score[l] >= baseline[l] + total[l]
      BY <1>2, <3>1 DEF LearnerOk
    <3>3. score[l] >= baseline[l] + total[l] => score[l] - b >= baseline[l] + (total[l] - b)
      BY <1>2
    <3>4. QED BY <1>2, <2>1, <3>2, <3>3
  <2>4. QED BY <1>6, <2>1, <2>2, <2>3 DEF LearnerOk
<1>9. ASSUME NEW k \in Learners \ {l} PROVE LearnerOk(k)'
  <2>1. /\ total'[k] = total[k] /\ baseline'[k] = baseline[k] /\ score'[k] = score[k]
        /\ punished'[k] = punished[k]
    BY <1>1, <1>2 DEF TypeOK
  <2>2. score[k] \in Nat
    BY <1>2, LearnerTypes
  <2>3. QED BY <1>5, <2>1, <2>2, LearnerKept
<1>10. QED BY <1>5, <1>7, <1>8, <1>9 DEF VouchInv

\* The same sums, when no vouch starts or ends.
LEMMA SumsKept ==
  ASSUME VouchInv, \A m \in Mentors, l \in Learners : Counted(vouch'[m][l]) = Counted(vouch[m][l])
  PROVE  \A l \in Learners : Sum(Given(vouch', l), Mentors) = total[l]
<1> SUFFICES ASSUME NEW l \in Learners PROVE Sum(Given(vouch', l), Mentors) = total[l]
  OBVIOUS
<1>1. Given(vouch', l) = Given(vouch, l)
  BY DEF Given
<1>2. QED BY <1>1 DEF VouchInv, LearnerOk

LEMMA IncreaseScoreInv ==
  ASSUME VouchInv, NEW l \in Learners, NEW a \in Rewards, IncreaseScore(l, a)
  PROVE  VouchInv'
<1>1. /\ RaiseOk(score[l], a) /\ score' = [score EXCEPT ![l] = score[l] + a]
      /\ UNCHANGED <<updater, boost, verified, vouch, total, baseline, punished>>
  BY DEF IncreaseScore
<1>2. a \in Nat /\ score[l] \in 0..MaxScore /\ score \in [Learners -> 0..MaxScore]
  BY VouchingAssumption DEF VouchInv, TypeOK
<1>3. score[l] + a \in 0..MaxScore /\ score[l] + a >= score[l]
  BY <1>1, <1>2 DEF RaiseOk, MaxScore
<1>4. TypeOK'
  BY <1>1, <1>2, <1>3 DEF VouchInv, TypeOK
<1>5. \A k \in Learners : score'[k] >= score[k] /\ score'[k] \in Nat
  BY <1>1, <1>2, <1>3 DEF MaxScore
<1>6. \A k \in Learners : Sum(Given(vouch', k), Mentors) = total[k]
  BY <1>1, SumsKept
<1>7. \A k \in Learners : LearnerOk(k)'
  BY <1>1, <1>5, <1>6, LearnerKept
<1>8. QED BY <1>1, <1>4, <1>7 DEF VouchInv, VouchesPositive

LEMMA DecreaseScoreInv ==
  ASSUME VouchInv, NEW l \in Learners, NEW a \in Penalties, DecreaseScore(l, a)
  PROVE  VouchInv'
<1>1. /\ LowerOk(score[l], a) /\ score' = [score EXCEPT ![l] = score[l] - a]
      /\ punished' = [punished EXCEPT ![l] = TRUE]
      /\ UNCHANGED <<updater, boost, verified, vouch, total, baseline>>
  BY DEF DecreaseScore
<1>2. /\ a \in Nat /\ score[l] \in 0..MaxScore /\ score \in [Learners -> 0..MaxScore]
      /\ punished \in [Learners -> BOOLEAN]
  BY VouchingAssumption DEF VouchInv, TypeOK
<1>3. score[l] - a \in 0..MaxScore
  BY <1>1, <1>2 DEF LowerOk, MaxScore
<1>4. TypeOK'
  BY <1>1, <1>2, <1>3 DEF VouchInv, TypeOK
<1>5. LearnerOk(l)'
  <2>1. punished'[l] /\ LearnerOk(l)
    BY <1>1, <1>2 DEF VouchInv
  <2>2. QED BY <1>1, <2>1 DEF LearnerOk
<1>6. ASSUME NEW k \in Learners \ {l} PROVE LearnerOk(k)'
  <2>1. score'[k] = score[k] /\ punished'[k] = punished[k] /\ LearnerOk(k)
    BY <1>1, <1>2 DEF VouchInv
  <2>2. QED BY <1>1, <2>1 DEF LearnerOk
<1>7. QED BY <1>1, <1>4, <1>5, <1>6 DEF VouchInv, VouchesPositive

\* The passing of time ages the active vouches.
LEMMA TickInv ==
  ASSUME VouchInv, Tick
  PROVE  VouchInv'
<1> DEFINE aged(w) == [w EXCEPT !.age = IF w.active THEN Least(w.age + 1, VouchDuration + 1)
                                        ELSE w.age]
<1>1. /\ vouch' = [m \in Mentors |-> [l \in Learners |-> aged(vouch[m][l])]]
      /\ UNCHANGED <<score, updater, boost, verified, total, baseline, punished>>
  BY DEF Tick
<1>2. ASSUME NEW w \in VouchRecord
      PROVE  aged(w) \in VouchRecord /\ aged(w).active = w.active /\ aged(w).boost = w.boost
  <2>1. w.age \in 0..(VouchDuration + 1) /\ VouchDuration \in Nat
    BY <1>2, VouchingAssumption DEF VouchRecord
  <2>2. (IF w.active THEN Least(w.age + 1, VouchDuration + 1) ELSE w.age)
          \in 0..(VouchDuration + 1)
    BY <2>1 DEF Least
  <2>3. QED BY <2>2 DEF VouchRecord
<1>3. \A m \in Mentors, l \in Learners : vouch[m][l] \in VouchRecord
  BY VouchingTypes DEF VouchInv
<1> HIDE DEF aged
<1>4. vouch' \in [Mentors -> [Learners -> VouchRecord]]
  BY <1>1, <1>2, <1>3
<1>5. \A m \in Mentors, l \in Learners :
        vouch'[m][l].active = vouch[m][l].active /\ vouch'[m][l].boost = vouch[m][l].boost
  BY <1>1, <1>2, <1>3
<1>6. \A k \in Learners : Sum(Given(vouch', k), Mentors) = total[k]
  BY <1>5, SumsKept DEF Counted
<1>7. TypeOK' /\ VouchesPositive'
  BY <1>1, <1>4, <1>5 DEF VouchInv, TypeOK, VouchRecord, VouchesPositive
<1>8. \A k \in Learners : LearnerOk(k)'
  BY <1>1, <1>6 DEF VouchInv, LearnerOk
<1>9. QED BY <1>7, <1>8 DEF VouchInv

LEMMA StepVouching == VouchInv /\ [Next]_vars => VouchInv'
<1> SUFFICES ASSUME VouchInv, [Next]_vars PROVE VouchInv'
  OBVIOUS
<1>1. ASSUME NEW m \in Mentors, NEW l \in Learners, Vouch(m, l) PROVE VouchInv'
  BY <1>1, VouchStep
<1>2. ASSUME NEW m \in Mentors, NEW l \in Learners, RevokeVouch(m, l) PROVE VouchInv'
  BY <1>2, TakeBackInv DEF RevokeVouch
<1>3. ASSUME NEW m \in Mentors, NEW l \in Learners, ExpireVouch(m, l) PROVE VouchInv'
  BY <1>3, TakeBackInv DEF ExpireVouch
<1>4. ASSUME UNCHANGED <<score, boost, vouch, total, baseline, punished>>,
             updater' \in BOOLEAN, verified' \subseteq Mentors
      PROVE  VouchInv'
  BY <1>4 DEF VouchInv, TypeOK, VouchesPositive, LearnerOk
<1>5. ASSUME NEW m \in Mentors, NEW v \in BOOLEAN, SetMentor(m, v) PROVE VouchInv'
  BY <1>4, <1>5 DEF SetMentor, VouchInv, TypeOK
<1>6. ASSUME NEW allowed \in BOOLEAN, SetUpdater(allowed) PROVE VouchInv'
  BY <1>4, <1>6 DEF SetUpdater, VouchInv, TypeOK
<1>7. ASSUME NEW l \in Learners, NEW a \in Rewards, IncreaseScore(l, a) PROVE VouchInv'
  BY <1>7, IncreaseScoreInv
<1>8. ASSUME NEW l \in Learners, NEW a \in Penalties, DecreaseScore(l, a) PROVE VouchInv'
  BY <1>8, DecreaseScoreInv
<1>9. CASE Tick
  BY <1>9, TickInv
<1>10. CASE UNCHANGED vars
  BY <1>4, <1>10 DEF vars, VouchInv, TypeOK
<1>11. QED BY <1>1, <1>2, <1>3, <1>5, <1>6, <1>7, <1>8, <1>9, <1>10 DEF Next

LEMMA VouchInvHolds == Spec => []VouchInv
BY InitVouching, StepVouching, PTL DEF Spec

-----------------------------------------------------------------------------
(* The theorems                                                            *)

\* Scores stay within 0..100 through every mix of boosts, their removal and
\* other updates, and the entries keep their shape.
THEOREM VouchTypes == Spec => []TypeOK
<1>1. VouchInv => TypeOK
  BY DEF VouchInv
<1>2. QED BY <1>1, VouchInvHolds, PTL

\* However vouches overlap and end, the aggregate boost is what the active ones
\* add up to and the baseline is there exactly while one is active.
THEOREM BoostsAdd == Spec => []BoostsAccounted
<1>1. VouchInv => BoostsAccounted
  <2> SUFFICES ASSUME VouchInv, NEW l \in Learners
               PROVE  /\ total[l] = Sum([m \in Mentors |-> IF vouch[m][l].active
                                                           THEN vouch[m][l].boost ELSE 0], Mentors)
                      /\ baseline[l] = NoBaseline <=> \A m \in Mentors : ~vouch[m][l].active
    BY DEF BoostsAccounted
  <2>1. LearnerOk(l)
    BY DEF VouchInv
  <2>2. baseline[l] = NoBaseline <=> \A m \in Mentors : ~vouch[m][l].active
    BY <2>1, TotalCovers DEF LearnerOk
  <2>3. QED BY <2>1, <2>2 DEF LearnerOk, Given, Counted
<1>2. QED BY <1>1, VouchInvHolds, PTL

\* The reputation contract never refuses the removal of a boost to an updater,
\* however low penalties pushed the score: no vouch is stuck.
THEOREM RemovalsAccepted == Spec => []RemovalNeverRefused
<1>1. VouchInv => RemovalNeverRefused
  <2> SUFFICES ASSUME VouchInv, NEW m \in Mentors, NEW l \in Learners, vouch[m][l].active, updater
               PROVE  RemovalOk(m, l)
    BY DEF RemovalNeverRefused
  <2>1. Removable(m, l) \in Nat /\ Removable(m, l) <= score[l] /\ score[l] \in Nat
    BY RemovableBounds, LearnerTypes DEF VouchInv
  <2>2. QED BY <2>1 DEF RemovalOk, LowerOk
<1>2. QED BY <1>1, VouchInvHolds, PTL

\* Ending a vouch takes at most its boost off the score, and exactly that from
\* a learner whose score nothing lowered, in whatever order vouches end.
THEOREM BoostsReturned == Spec => BoostTakenBack
<1> DEFINE Exact(l) == total'[l] < total[l] =>
                         /\ score[l] - score'[l] \in 0..(total[l] - total'[l])
                         /\ ~punished[l] => score[l] - score'[l] = total[l] - total'[l]
<1>1. ASSUME VouchInv, NEW l \in Learners, total'[l] = total[l] PROVE Exact(l)
  <2>1. total[l] \in Nat
    BY <1>1, LearnerTypes DEF VouchInv
  <2>2. QED BY <1>1, <2>1
<1>2. ASSUME VouchInv, NEW m \in Mentors, NEW l \in Learners, vouch[m][l].active, TakeBack(m, l),
             NEW k \in Learners
      PROVE  Exact(k)
  <2> DEFINE b == vouch[m][l].boost
             r == Removable(m, l)
  <2>1. /\ total' = [total EXCEPT ![l] = total[l] - b]
        /\ score' = [score EXCEPT ![l] = score[l] - r]
    BY <1>2, TakeBackEffect
  <2>2. /\ score[l] \in Nat /\ total[l] \in Nat /\ b \in Nat /\ r \in Nat /\ r <= b
        /\ ~punished[l] => r = b
    BY <1>2, RemovableBounds, LearnerTypes DEF VouchInv
  <2> HIDE DEF b, r
  <2>3. CASE k = l
    <3>1. total'[l] = total[l] - b /\ score'[l] = score[l] - r
      BY <1>2, <2>1 DEF VouchInv, TypeOK
    <3>2. total[l] - total'[l] = b /\ score[l] - score'[l] = r
      BY <2>2, <3>1
    <3>3. r \in 0..b
      BY <2>2
    <3>4. QED BY <2>2, <2>3, <3>2, <3>3
  <2>4. CASE k # l
    <3>1. total'[k] = total[k]
      BY <1>2, <2>1, <2>4 DEF VouchInv, TypeOK
    <3>2. QED BY <1>1, <1>2, <3>1
  <2>5. QED BY <2>3, <2>4
<1>3. ASSUME VouchInv, NEW m \in Mentors, NEW l \in Learners, Vouch(m, l), NEW k \in Learners
      PROVE  Exact(k)
  <2>1. total' = [total EXCEPT ![l] = total[l] + boost] /\ total \in [Learners -> Nat]
        /\ boost \in Nat /\ total[k] \in Nat /\ total[l] \in Nat
    BY <1>3, LearnerTypes DEF Vouch, VouchInv, TypeOK
  <2>2. total'[k] = total[k] + boost \/ total'[k] = total[k]
    BY <2>1
  <2>3. ~(total'[k] < total[k])
    BY <2>1, <2>2
  <2>4. QED BY <2>3
<1>4. ASSUME VouchInv, [Next]_vars, NEW l \in Learners PROVE Exact(l)
  <2>1. CASE \E m \in Mentors, k \in Learners : Vouch(m, k)
    BY <1>3, <1>4, <2>1
  <2>2. CASE \E m \in Mentors, k \in Learners : RevokeVouch(m, k)
    BY <1>2, <1>4, <2>2 DEF RevokeVouch
  <2>3. CASE \E m \in Mentors, k \in Learners : ExpireVouch(m, k)
    BY <1>2, <1>4, <2>3 DEF ExpireVouch
  <2>4. CASE total' = total
    BY <1>1, <1>4, <2>4
  <2>5. QED BY <1>4, <2>1, <2>2, <2>3, <2>4 DEF Next, SetMentor, SetUpdater, IncreaseScore,
                                                DecreaseScore, Tick, vars
<1>5. VouchInv /\ [Next]_vars => [\A l \in Learners : Exact(l)]_vars
  BY <1>4
<1>6. QED BY <1>5, VouchInvHolds, PTL DEF Spec, BoostTakenBack
=============================================================================
