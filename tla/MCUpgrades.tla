----------------------------- MODULE MCUpgrades -----------------------------
(***************************************************************************)
(* Upgrades on a small instance: one timelocked contract that can read the *)
(* governed delay and one that cannot, two codes, and a committee that     *)
(* changes the delay while announcements are waiting.                      *)
(***************************************************************************)
EXTENDS Upgrades, MCGovernance, TLC

Pair   == [signers |-> <<s1, s2>>, threshold |-> 2]
Longer == [Initial EXCEPT !.upgradeDelay = 2]

DelayCommittee == {Pair}
DelayActions   == {Update(Initial), Update(NoDelay)}
DelayParams    == {Longer}

\* Codes are interchangeable.
CodeSymmetry == Permutations(Hashes)
=============================================================================
