------------------------------ MODULE Vouching ------------------------------
(***************************************************************************)
(* The vouching contract on top of the reputation scores.  A vouch raises  *)
(* the learner's score and is taken back when its mentor revokes it or     *)
(* anybody expires it; in between, other updaters (the credit line's       *)
(* rewards and penalties, administrators) move the same score.  The        *)
(* removal is clamped at the score the learner had before its first active *)
(* vouch.  Time is the age of each vouch, which is all the contract        *)
(* compares.  The index of a learner's mentors never shrinks and is read   *)
(* by get_vouches only; it is left out.                                    *)
(***************************************************************************)
EXTENDS Reputation, SafeMath, Sums, FiniteSets

CONSTANTS
  Mentors, Learners,
  VouchDuration,  \* VOUCH_DURATION
  BoostChoices,   \* values vouch_boost may be initialised with
  InitialScores,  \* scores before the first vouch
  Rewards,        \* amounts other updaters may add
  Penalties,      \* amounts other updaters may subtract
  NoBaseline      \* the learner has no baseline entry

ASSUME VouchingAssumption ==
  /\ IsFiniteSet(Mentors)
  /\ VouchDuration \in Nat
  /\ BoostChoices \subseteq Nat \ {0}   \* initialize refuses 0
  /\ InitialScores \in [Learners -> 0..MaxScore]
  /\ Rewards \cup Penalties \subseteq Nat
  /\ NoBaseline \notin Nat

VARIABLES
  score,    \* the reputation contract's scores
  updater,  \* the vouching contract is an authorized updater
  boost,    \* VouchBoost
  verified, \* the verified mentors
  vouch,    \* Vouch(mentor, learner): its boost, whether it is active, its age
  total,    \* LearnerTotalBoost(learner)
  baseline, \* LearnerBaseline(learner)
  punished  \* history: the score was lowered or overwritten since the first
            \* active vouch

vars == <<score, updater, boost, verified, vouch, total, baseline, punished>>

NoVouch == [boost |-> 0, active |-> FALSE, age |-> 0]

Init ==
  /\ score = InitialScores
  /\ updater = FALSE
  /\ boost \in BoostChoices
  /\ verified = {}
  /\ vouch = [m \in Mentors |-> [l \in Learners |-> NoVouch]]
  /\ total = [l \in Learners |-> 0]
  /\ baseline = [l \in Learners |-> NoBaseline]
  /\ punished = [l \in Learners |-> FALSE]

\* Mutation: every vouch captures the baseline, not only the first.
RecaptureBaseline(l) == score[l]

\* The floor while a vouch given now is active.
BaselineWithVouch(l) == IF total[l] = 0 THEN score[l] ELSE baseline[l]

Vouch(m, l) ==
  /\ m \in verified
  /\ ~vouch[m][l].active
  /\ updater /\ RaiseOk(score[l], boost)
  /\ baseline' = [baseline EXCEPT ![l] = BaselineWithVouch(l)]
  /\ vouch' = [vouch EXCEPT ![m][l] = [boost |-> boost, active |-> TRUE, age |-> 0]]
  /\ score' = [score EXCEPT ![l] = @ + boost]
  /\ total' = [total EXCEPT ![l] = @ + boost]
  /\ punished' = [punished EXCEPT ![l] = @ /\ total[l] # 0]
  /\ UNCHANGED <<updater, boost, verified>>

\* Mutation: the boost is taken back whatever penalties left of it.
RemovableUnclamped(m, l) == vouch[m][l].boost

\* What ending the vouch takes off the score.
Removable(m, l) ==
  Least(NonNegative(score[l] - (IF baseline[l] = NoBaseline THEN score[l] ELSE baseline[l])),
        vouch[m][l].boost)

\* remove_boost is called unless there is nothing to remove.
RemovalOk(m, l) ==
  Removable(m, l) > 0 => updater /\ LowerOk(score[l], Removable(m, l))

\* Mutation: the baseline is cleared although other vouches are active.
TakeBackAndClear(m, l) ==
  /\ score' = [score EXCEPT ![l] = @ - Removable(m, l)]
  /\ total' = [total EXCEPT ![l] = NonNegative(@ - vouch[m][l].boost)]
  /\ baseline' = [baseline EXCEPT ![l] = NoBaseline]
  /\ vouch' = [vouch EXCEPT ![m][l].active = FALSE]

TakeBack(m, l) ==
  /\ score' = [score EXCEPT ![l] = @ - Removable(m, l)]
  /\ total' = [total EXCEPT ![l] = NonNegative(@ - vouch[m][l].boost)]
  /\ baseline' = [baseline EXCEPT ![l] = IF total'[l] = 0 THEN NoBaseline ELSE @]
  /\ vouch' = [vouch EXCEPT ![m][l].active = FALSE]

\* The mentor, verified still or not.
RevokeVouch(m, l) ==
  /\ vouch[m][l].active
  /\ RemovalOk(m, l)
  /\ TakeBack(m, l)
  /\ UNCHANGED <<updater, boost, verified, punished>>

\* Mutation: only a verified mentor's vouch expires.
ExpireVerifiedOnly(m, l) ==
  /\ m \in verified
  /\ vouch[m][l].active
  /\ vouch[m][l].age > VouchDuration
  /\ RemovalOk(m, l)
  /\ TakeBack(m, l)
  /\ UNCHANGED <<updater, boost, verified, punished>>

\* Anybody.  On an inactive vouch the call returns and changes nothing.
ExpireVouch(m, l) ==
  /\ vouch[m][l].active
  /\ vouch[m][l].age > VouchDuration
  /\ RemovalOk(m, l)
  /\ TakeBack(m, l)
  /\ UNCHANGED <<updater, boost, verified, punished>>

SetMentor(m, v) ==
  /\ verified' = IF v THEN verified \cup {m} ELSE verified \ {m}
  /\ UNCHANGED <<score, updater, boost, vouch, total, baseline, punished>>

\* The reputation's admin authorizes or removes the vouching contract.
SetUpdater(allowed) ==
  /\ updater' = allowed
  /\ UNCHANGED <<score, boost, verified, vouch, total, baseline, punished>>

\* Other updaters: the credit line and whom the admin authorized.  Their
\* set_score, add_boost and remove_boost move the score the same ways.
IncreaseScore(l, amount) ==
  /\ RaiseOk(score[l], amount)
  /\ score' = [score EXCEPT ![l] = @ + amount]
  /\ UNCHANGED <<updater, boost, verified, vouch, total, baseline, punished>>

DecreaseScore(l, amount) ==
  /\ LowerOk(score[l], amount)
  /\ score' = [score EXCEPT ![l] = @ - amount]
  /\ punished' = [punished EXCEPT ![l] = TRUE]
  /\ UNCHANGED <<updater, boost, verified, vouch, total, baseline>>

\* Ages stop one past the duration.
Tick ==
  /\ vouch' = [m \in Mentors |-> [l \in Learners |->
                 [vouch[m][l] EXCEPT !.age =
                    IF vouch[m][l].active THEN Least(@ + 1, VouchDuration + 1) ELSE @]]]
  /\ UNCHANGED <<score, updater, boost, verified, total, baseline, punished>>

Next ==
  \/ \E m \in Mentors, l \in Learners : Vouch(m, l)
  \/ \E m \in Mentors, l \in Learners : RevokeVouch(m, l)
  \/ \E m \in Mentors, l \in Learners : ExpireVouch(m, l)
  \/ \E m \in Mentors, v \in BOOLEAN : SetMentor(m, v)
  \/ \E allowed \in BOOLEAN : SetUpdater(allowed)
  \/ \E l \in Learners, a \in Rewards : IncreaseScore(l, a)
  \/ \E l \in Learners, a \in Penalties : DecreaseScore(l, a)
  \/ Tick

Spec == Init /\ [][Next]_vars

\* Time passes, and somebody expires what may be expired: expire_vouch needs
\* no authorization.
FairSpec ==
  /\ Spec
  /\ WF_vars(Tick)
  /\ \A m \in Mentors, l \in Learners : WF_vars(ExpireVouch(m, l))

-----------------------------------------------------------------------------
(* Properties                                                              *)

\* Scores stay within 0..100 and the entries keep their shape.
TypeOK ==
  /\ score \in [Learners -> 0..MaxScore]
  /\ updater \in BOOLEAN
  /\ boost \in BoostChoices
  /\ verified \subseteq Mentors
  /\ vouch \in [Mentors -> [Learners ->
                  [boost : Nat, active : BOOLEAN, age : 0..(VouchDuration + 1)]]]
  /\ total \in [Learners -> Nat]
  /\ baseline \in [Learners -> Nat \cup {NoBaseline}]
  /\ punished \in [Learners -> BOOLEAN]

\* The aggregate boost is what the active vouches add up to, and a learner has
\* a baseline exactly while one is active: none is counted twice, forgotten
\* or left behind, however vouches overlap and end.
BoostsAccounted ==
  \A l \in Learners :
    /\ total[l] = Sum([m \in Mentors |-> IF vouch[m][l].active THEN vouch[m][l].boost ELSE 0],
                      Mentors)
    /\ baseline[l] = NoBaseline <=> \A m \in Mentors : ~vouch[m][l].active

\* Ending a vouch costs a learner at most the boost of the vouch, and exactly
\* that if nothing lowered the score meanwhile, whatever the learner earned
\* and in whatever order overlapping vouches end.
BoostTakenBack ==
  [][ \A l \in Learners :
        total'[l] < total[l] =>
          /\ score[l] - score'[l] \in 0..(total[l] - total'[l])
          /\ ~punished[l] => score[l] - score'[l] = total[l] - total'[l] ]_vars

\* However low penalties pushed the score, the reputation contract accepts the
\* removal of a boost: no vouch is stuck.
RemovalNeverRefused ==
  \A m \in Mentors, l \in Learners :
    vouch[m][l].active /\ updater => RemovalOk(m, l)

\* No vouch stays active for ever, if the vouching contract remains an updater.
VouchesEnd ==
  <>[]updater =>
    \A m \in Mentors, l \in Learners : []<>~vouch[m][l].active
=============================================================================
