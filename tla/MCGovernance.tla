---------------------------- MODULE MCGovernance ----------------------------
(***************************************************************************)
(* Governance on a small instance: committees of three with a threshold of *)
(* two or three, choices that validation refuses (a signer twice, a        *)
(* guarantee of 0 percent), and parameters with and without an upgrade     *)
(* delay.                                                                  *)
(***************************************************************************)
EXTENDS Governance

CONSTANTS s1, s2, s3, s4

TwoOfThree   == [signers |-> <<s1, s2, s3>>, threshold |-> 2]
ThreeOfThree == [signers |-> <<s1, s2, s3>>, threshold |-> 3]
WithS4       == [signers |-> <<s1, s3, s4>>, threshold |-> 2]
Twice        == [signers |-> <<s1, s1, s3>>, threshold |-> 2]

Initial == [minGuarantee |-> 20, largeLoan |-> 5000, upgradeDelay |-> 1, lateFee |-> 500]
NoDelay == [Initial EXCEPT !.upgradeDelay = 0]
Invalid == [Initial EXCEPT !.minGuarantee = 0]

Update(p)   == [kind |-> "UpdateParameters", params |-> p]
Replace(c)  == [kind |-> "UpdateSigners", config |-> c]
ToAdmin(a)  == [kind |-> "SetAdmin", admin |-> a]
LateFees(b) == [kind |-> "SetLateFeeBps", bps |-> b]
UpgradeSelf == [kind |-> "Upgrade"]

MCInitialParams == {Initial}

\* The committee changes once or twice; every kind of action is proposed.
GovCommittees == {TwoOfThree, Twice}
GovActions    == {Update(NoDelay), Update(Invalid), Replace(ThreeOfThree), Replace(WithS4),
                  ToAdmin(s2), LateFees(0), UpgradeSelf}
=============================================================================
