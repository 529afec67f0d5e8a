--------------------------- MODULE GovernanceProofs ---------------------------
(***************************************************************************)
(* Proofs about Governance, for every set of addresses, every choice of    *)
(* committees and actions that may be proposed, and any number of          *)
(* proposals.                                                              *)
(***************************************************************************)
EXTENDS Governance, FunctionTheorems, FiniteSetTheorems, SequenceTheorems, TLAPS

-----------------------------------------------------------------------------
(* Counting the elements of a sequence                                     *)

LEMMA RangeFacts ==
  ASSUME NEW S, NEW s \in Seq(S)
  PROVE  /\ Len(s) \in Nat /\ DOMAIN s = 1..Len(s) /\ s \in [1..Len(s) -> S]
         /\ Range(s) \subseteq S
         /\ \A i \in 1..Len(s) : s[i] \in Range(s)
         /\ \A x \in Range(s) : \E i \in 1..Len(s) : x = s[i]
<1>1. Len(s) \in Nat /\ DOMAIN s = 1..Len(s) /\ s \in [1..Len(s) -> S]
  BY LenProperties
<1>2. QED BY <1>1 DEF Range

\* A sequence without repetitions has as many different elements as entries.
LEMMA InjectiveCount ==
  ASSUME NEW S, NEW s \in Seq(S), IsInjective(s)
  PROVE  IsFiniteSet(Range(s)) /\ Cardinality(Range(s)) = Len(s)
<1>1. Len(s) \in Nat /\ DOMAIN s = 1..Len(s) /\ s \in [1..Len(s) -> S]
  BY RangeFacts
<1>2. s \in Injection(1..Len(s), S)
  BY <1>1, Fun_IsInj DEF IsInjective
<1>3. s \in Bijection(1..Len(s), Range(s))
  BY <1>2, Fun_InjMeansBijImage
<1>4. ExistsBijection(1..Len(s), Range(s))
  BY <1>3, Fun_ExistsBij
<1>5. IsFiniteSet(1..Len(s)) /\ Cardinality(1..Len(s)) = Len(s)
  BY <1>1, FS_Interval
<1>6. QED BY <1>4, <1>5, FS_Bijection

\* A sequence without repetitions and an element it does not hold.
LEMMA InjectiveAppend ==
  ASSUME NEW S, NEW s \in Seq(S), IsInjective(s), NEW x \in S, x \notin Range(s)
  PROVE  /\ Append(s, x) \in Seq(S) /\ IsInjective(Append(s, x))
         /\ Range(Append(s, x)) \subseteq Range(s) \cup {x}
<1> DEFINE t == Append(s, x)
<1>1. /\ Len(s) \in Nat /\ DOMAIN s = 1..Len(s)
      /\ \A i \in 1..Len(s) : s[i] \in Range(s)
  BY RangeFacts
<1>2. /\ t \in Seq(S) /\ Len(t) = Len(s) + 1 /\ t[Len(s) + 1] = x
      /\ \A i \in 1..Len(s) : t[i] = s[i]
  BY AppendProperties
<1>3. DOMAIN t = 1..(Len(s) + 1)
  BY <1>2, RangeFacts
<1> HIDE DEF t
<1>4. \A i \in 1..(Len(s) + 1) : i \in 1..Len(s) \/ i = Len(s) + 1
  BY <1>1
<1>5. ASSUME NEW i \in DOMAIN t, NEW j \in DOMAIN t, t[i] = t[j]
      PROVE  i = j
  <2>1. CASE i \in 1..Len(s) /\ j \in 1..Len(s)
    BY <1>1, <1>2, <1>5, <2>1 DEF IsInjective
  <2>2. CASE i \in 1..Len(s) /\ j = Len(s) + 1
    BY <1>1, <1>2, <1>5, <2>2
  <2>3. CASE i = Len(s) + 1 /\ j \in 1..Len(s)
    BY <1>1, <1>2, <1>5, <2>3
  <2>4. QED BY <1>3, <1>4, <2>1, <2>2, <2>3
<1>6. IsInjective(t)
  BY <1>5 DEF IsInjective
<1>7. Range(t) \subseteq Range(s) \cup {x}
  BY <1>1, <1>2, <1>3, <1>4 DEF Range
<1>8. QED BY <1>2, <1>6, <1>7 DEF t

LEMMA SingleSeq ==
  ASSUME NEW S, NEW x \in S
  PROVE  /\ <<x>> \in Seq(S) /\ IsInjective(<<x>>) /\ Range(<<x>>) = {x}
BY DEF IsInjective, Range

-----------------------------------------------------------------------------
(* The inductive invariant                                                 *)

\* A committee in office passed the validation, and so will the one that waits
\* for the admin's confirmation.
CommitteesOk ==
  /\ multisig # None => ConfigOk(multisig)
  /\ pendingMultisig # None => ConfigOk(pendingMultisig)

\* Nobody approved twice, and all who did were members when it was proposed.
ApprovalsOk ==
  \A i \in DOMAIN proposals :
    /\ IsInjective(proposals[i].approvals)
    /\ Range(proposals[i].approvals) \subseteq proposals[i].snapshot

\* Proposals presuppose a committee.
ProposalsNeedCommittee == multisig = None => Len(proposals) = 0

\* SignerProposalsCurrent survives a change of committee because the sweep
\* voids the changes that are left; it survives the installation of the first
\* committee because nothing has been proposed by then.  Quorums are attainable
\* because a committee holds different signers, and a quorum of approvals is
\* one of people because no one approves twice.
GovInv ==
  /\ GovTypeOK
  /\ CommitteesOk
  /\ ApprovalsOk
  /\ ProposalsNeedCommittee
  /\ SignerProposalsCurrent

LEMMA ConfigFields ==
  ASSUME NEW c \in Config
  PROVE  c.signers \in Seq(Addresses) /\ c.threshold \in Nat /\ c # None
BY GovernanceAssumption DEF Config

LEMMA ActionFields ==
  ASSUME NEW a \in Actions
  PROVE  /\ a.kind = "UpdateParameters" => a.params \in Params
         /\ a.kind = "SetAdmin" => a.admin \in Addresses
         /\ a.kind = "UpdateSigners" => a.config \in Config
         /\ a.kind = "SetLateFeeBps" => a.bps \in Nat
<1>1. a \in Action
  BY GovernanceAssumption
<1>2. QED BY <1>1 DEF Action

LEMMA ProposalFields ==
  ASSUME GovInv, NEW i \in DOMAIN proposals
  PROVE  /\ proposals[i] \in Proposal
         /\ proposals[i].action \in Actions /\ proposals[i].approvals \in Seq(Addresses)
         /\ proposals[i].snapshot \subseteq Addresses /\ proposals[i].expires \in Nat
         /\ proposals[i].executed \in BOOLEAN /\ proposals[i].invalidated \in BOOLEAN
<1>1. proposals \in Seq(Proposal) /\ i \in 1..Len(proposals)
  BY RangeFacts DEF GovInv, GovTypeOK
<1>2. proposals[i] \in Proposal
  BY <1>1, ElementOfSeq
<1>3. QED BY <1>2 DEF Proposal

LEMMA ProposalsDomain ==
  ASSUME GovInv
  PROVE  proposals \in Seq(Proposal) /\ Len(proposals) \in Nat
         /\ DOMAIN proposals = 1..Len(proposals)
BY RangeFacts DEF GovInv, GovTypeOK

LEMMA InitGov == GovInit => GovInv
<1> SUFFICES ASSUME GovInit PROVE GovInv
  OBVIOUS
<1>1. GovTypeOK
  BY GovernanceAssumption, EmptySeq DEF GovInit, GovTypeOK, ParamsOk
<1>2. Len(proposals) = 0 /\ DOMAIN proposals = {}
  BY EmptySeq DEF GovInit
<1>3. QED BY <1>1, <1>2 DEF GovInit, GovInv, CommitteesOk, ApprovalsOk, ProposalsNeedCommittee,
                            SignerProposalsCurrent

-----------------------------------------------------------------------------
(* Its preservation                                                        *)

\* What is said of the proposals, when only they move.
ProposalOk(p) ==
  /\ p \in Proposal
  /\ IsInjective(p.approvals) /\ Range(p.approvals) \subseteq p.snapshot
  /\ Pending(p) /\ p.action.kind = "UpdateSigners" => p.snapshot = Seats(multisig)

LEMMA ProposalsOk ==
  ASSUME GovInv, NEW i \in DOMAIN proposals
  PROVE  ProposalOk(proposals[i])
BY ProposalFields DEF GovInv, ApprovalsOk, SignerProposalsCurrent, ProposalOk

\* A step that writes one proposal, or adds one, and leaves the committee.
LEMMA ProposalMoves ==
  ASSUME GovInv, multisig # None, UNCHANGED <<multisig, pendingMultisig>>,
         admin' \in Addresses, version' \in Nat \ {0}, now' \in Nat,
         govParams' \in Params, govParams'.minGuarantee \in 1..100, govParams'.largeLoan > 0,
         NEW p, ProposalOk(p),
         \/ proposals' = Append(proposals, p)
         \/ \E i \in DOMAIN proposals : proposals' = [proposals EXCEPT ![i] = p]
  PROVE  GovInv'
<1>1. /\ proposals \in Seq(Proposal) /\ Len(proposals) \in Nat
      /\ DOMAIN proposals = 1..Len(proposals) /\ p \in Proposal
  BY ProposalsDomain DEF ProposalOk
<1>2. proposals' \in Seq(Proposal) /\ \A j \in DOMAIN proposals' : ProposalOk(proposals'[j])
  <2>1. CASE proposals' = Append(proposals, p)
    <3>1. /\ proposals' \in Seq(Proposal) /\ Len(proposals') = Len(proposals) + 1
          /\ proposals'[Len(proposals) + 1] = p
          /\ \A j \in 1..Len(proposals) : proposals'[j] = proposals[j]
      BY <1>1, <2>1, AppendProperties
    <3>2. DOMAIN proposals' = 1..(Len(proposals) + 1)
      BY <3>1, RangeFacts
    <3>3. \A j \in 1..(Len(proposals) + 1) : j \in 1..Len(proposals) \/ j = Len(proposals) + 1
      BY <1>1
    <3>4. \A j \in 1..Len(proposals) : ProposalOk(proposals[j])
      BY <1>1, ProposalsOk
    <3>5. QED BY <3>1, <3>2, <3>3, <3>4
  <2>2. CASE \E i \in DOMAIN proposals : proposals' = [proposals EXCEPT ![i] = p]
    <3>1. PICK i \in DOMAIN proposals : proposals' = [proposals EXCEPT ![i] = p]
      BY <2>2
    <3>2. /\ proposals' \in Seq(Proposal) /\ DOMAIN proposals' = DOMAIN proposals
          /\ \A j \in DOMAIN proposals : proposals'[j] = IF j = i THEN p ELSE proposals[j]
      BY <1>1, <3>1, ExceptSeq
    <3>3. QED BY <3>2, ProposalsOk
  <2>3. QED BY <2>1, <2>2
<1>3. \A j \in DOMAIN proposals' :
        /\ IsInjective(proposals'[j].approvals)
        /\ Range(proposals'[j].approvals) \subseteq proposals'[j].snapshot
  BY <1>2 DEF ProposalOk
<1>4. \A j \in DOMAIN proposals' :
        Pending(proposals'[j]) /\ proposals'[j].action.kind = "UpdateSigners"
          => proposals'[j].snapshot = Seats(multisig)
  BY <1>2 DEF ProposalOk
<1>5. GovTypeOK'
  BY <1>2 DEF GovInv, GovTypeOK
<1>6. CommitteesOk' /\ ProposalsNeedCommittee'
  BY DEF GovInv, CommitteesOk, ProposalsNeedCommittee
<1>7. ApprovalsOk' /\ SignerProposalsCurrent'
  BY <1>3, <1>4 DEF ApprovalsOk, SignerProposalsCurrent
<1>8. QED BY <1>5, <1>6, <1>7 DEF GovInv

LEMMA ConfigureMultisigInv ==
  ASSUME GovInv, NEW c \in Committees, ConfigureMultisig(c)
  PROVE  GovInv'
<1>1. c \in Config /\ ConfigOk(c)
  BY GovernanceAssumption DEF ConfigureMultisig
<1>2. /\ pendingMultisig' = c
      /\ UNCHANGED <<admin, govParams, version, multisig, proposals, now>>
  BY DEF ConfigureMultisig
<1>3. GovTypeOK'
  BY <1>1, <1>2 DEF GovInv, GovTypeOK
<1>4. CommitteesOk'
  BY <1>1, <1>2 DEF GovInv, CommitteesOk
<1>5. ApprovalsOk' /\ ProposalsNeedCommittee' /\ SignerProposalsCurrent'
  BY <1>2 DEF GovInv, ApprovalsOk, ProposalsNeedCommittee, SignerProposalsCurrent
<1>6. QED BY <1>3, <1>4, <1>5 DEF GovInv

\* No proposal was made before the first committee took office.
LEMMA ConfirmMultisigInv ==
  ASSUME GovInv, ConfirmMultisig
  PROVE  GovInv'
<1>1. /\ multisig = None /\ pendingMultisig # None
      /\ multisig' = pendingMultisig /\ pendingMultisig' = None
      /\ UNCHANGED <<admin, govParams, version, proposals, now>>
  BY DEF ConfirmMultisig
<1>2. DOMAIN proposals' = {}
  <2>1. Len(proposals) = 0
    BY <1>1 DEF GovInv, ProposalsNeedCommittee
  <2>2. QED BY <1>1, <2>1, ProposalsDomain
<1>3. GovTypeOK'
  BY <1>1 DEF GovInv, GovTypeOK
<1>4. CommitteesOk' /\ ProposalsNeedCommittee'
  BY <1>1 DEF GovInv, CommitteesOk, ProposalsNeedCommittee
<1>5. ApprovalsOk' /\ SignerProposalsCurrent'
  BY <1>2 DEF ApprovalsOk, SignerProposalsCurrent
<1>6. QED BY <1>3, <1>4, <1>5 DEF GovInv

LEMMA ProposeInv ==
  ASSUME GovInv, NEW signer \in Addresses, NEW action \in Actions, Propose(signer, action)
  PROVE  GovInv'
<1> DEFINE p == [action      |-> action,
                 approvals   |-> <<signer>>,
                 snapshot    |-> Seats(multisig),
                 expires     |-> now + ProposalTTL,
                 executed    |-> FALSE,
                 invalidated |-> FALSE]
<1>1. /\ multisig # None /\ signer \in Seats(multisig)
      /\ proposals' = Append(proposals, p)
      /\ UNCHANGED <<admin, govParams, version, multisig, pendingMultisig, now>>
  BY DEF Propose
<1>2. multisig \in Config /\ now + ProposalTTL \in Nat
  BY <1>1, GovernanceAssumption DEF GovInv, GovTypeOK
<1>3. Seats(multisig) \subseteq Addresses
  BY <1>2, ConfigFields, RangeFacts DEF Seats
<1>4. <<signer>> \in Seq(Addresses) /\ IsInjective(<<signer>>) /\ Range(<<signer>>) = {signer}
  BY SingleSeq
<1>5. p \in Proposal
  BY <1>2, <1>3, <1>4 DEF Proposal
<1>6. ProposalOk(p)
  BY <1>1, <1>4, <1>5 DEF ProposalOk
<1> HIDE DEF p
<1>7. QED BY <1>1, <1>6, ProposalMoves DEF GovInv, GovTypeOK

LEMMA ApproveInv ==
  ASSUME GovInv, NEW signer \in Addresses, NEW i \in DOMAIN proposals, Approve(signer, i)
  PROVE  GovInv'
<1> DEFINE before == proposals[i]
           p      == [before EXCEPT !.approvals = Append(before.approvals, signer)]
<1>1. /\ multisig # None /\ signer \notin Range(before.approvals)
      /\ signer \in before.snapshot
      /\ proposals' = [proposals EXCEPT ![i] = p]
      /\ UNCHANGED <<admin, govParams, version, multisig, pendingMultisig, now>>
  BY DEF Approve
<1>2. ProposalOk(before) /\ before \in Proposal /\ before.approvals \in Seq(Addresses)
  BY ProposalsOk, ProposalFields
<1> HIDE DEF before
<1>3. /\ Append(before.approvals, signer) \in Seq(Addresses)
      /\ IsInjective(Append(before.approvals, signer))
      /\ Range(Append(before.approvals, signer)) \subseteq Range(before.approvals) \cup {signer}
  BY <1>1, <1>2, InjectiveAppend DEF ProposalOk
<1>4. p \in Proposal
  BY <1>2, <1>3 DEF Proposal
<1>5. /\ p.approvals = Append(before.approvals, signer) /\ p.snapshot = before.snapshot
      /\ p.action = before.action /\ p.executed = before.executed
      /\ p.invalidated = before.invalidated
  BY <1>2 DEF Proposal
<1> HIDE DEF p
<1>6. ProposalOk(p)
  BY <1>1, <1>2, <1>3, <1>4, <1>5 DEF ProposalOk, Pending
<1>7. QED BY <1>1, <1>6, ProposalMoves DEF GovInv, GovTypeOK

\* A proposal that has been executed.
LEMMA ExecutedOk ==
  ASSUME GovInv, NEW i \in DOMAIN proposals
  PROVE  LET p == [proposals[i] EXCEPT !.executed = TRUE]
         IN  /\ Executed(i) = [proposals EXCEPT ![i] = p]
             /\ p \in Proposal /\ p.executed /\ p.approvals = proposals[i].approvals
             /\ p.snapshot = proposals[i].snapshot /\ p.action = proposals[i].action
             /\ ProposalOk(p)
<1> DEFINE before == proposals[i]
           p      == [before EXCEPT !.executed = TRUE]
<1>1. Executed(i) = [proposals EXCEPT ![i] = p]
  BY DEF Executed
<1>2. ProposalOk(before) /\ before \in Proposal
  BY ProposalsOk, ProposalFields
<1> HIDE DEF before
<1>3. /\ p \in Proposal /\ p.executed /\ p.approvals = before.approvals
      /\ p.snapshot = before.snapshot /\ p.action = before.action
  BY <1>2 DEF Proposal
<1> HIDE DEF p
<1>4. ProposalOk(p)
  BY <1>2, <1>3 DEF ProposalOk, Pending
<1>5. QED BY <1>1, <1>3, <1>4 DEF before, p

\* An executed proposal that leaves the committee in office.
LEMMA ExecutedInv ==
  ASSUME GovInv, NEW i \in DOMAIN proposals, ExecuteOk(i), proposals' = Executed(i),
         UNCHANGED <<multisig, pendingMultisig, now>>,
         admin' \in Addresses, version' \in Nat \ {0},
         govParams' \in Params, govParams'.minGuarantee \in 1..100, govParams'.largeLoan > 0
  PROVE  GovInv'
<1> DEFINE p == [proposals[i] EXCEPT !.executed = TRUE]
<1>1. ProposalOk(p) /\ proposals' = [proposals EXCEPT ![i] = p]
  BY ExecutedOk
<1>2. multisig # None /\ now' \in Nat
  BY DEF ExecuteOk, GovInv, GovTypeOK
<1> HIDE DEF p
<1>3. QED BY <1>1, <1>2, ProposalMoves

LEMMA ExecuteUpdateParametersInv ==
  ASSUME GovInv, NEW i \in DOMAIN proposals, ExecuteUpdateParameters(i)
  PROVE  GovInv'
<1>1. /\ proposals[i].action.kind = "UpdateParameters" /\ ExecuteOk(i)
      /\ govParams' = proposals[i].action.params /\ proposals' = Executed(i)
      /\ UNCHANGED <<admin, version, multisig, pendingMultisig, now>>
  BY DEF ExecuteUpdateParameters
<1>2. govParams' \in Params
  BY <1>1, ProposalFields, ActionFields
<1>3. ParamsOk(govParams')
  BY <1>1 DEF ExecuteOk, ActionOk
<1>4. QED BY <1>1, <1>2, <1>3, ExecutedInv DEF ParamsOk, GovInv, GovTypeOK

LEMMA ExecuteSetAdminInv ==
  ASSUME GovInv, NEW i \in DOMAIN proposals, ExecuteSetAdmin(i)
  PROVE  GovInv'
<1>1. /\ proposals[i].action.kind = "SetAdmin" /\ ExecuteOk(i)
      /\ admin' = proposals[i].action.admin /\ proposals' = Executed(i)
      /\ UNCHANGED <<govParams, version, multisig, pendingMultisig, now>>
  BY DEF ExecuteSetAdmin
<1>2. admin' \in Addresses
  BY <1>1, ProposalFields, ActionFields
<1>3. QED BY <1>1, <1>2, ExecutedInv DEF GovInv, GovTypeOK

LEMMA ExecuteUpgradeProposalInv ==
  ASSUME GovInv, NEW i \in DOMAIN proposals, ExecuteUpgradeProposal(i)
  PROVE  GovInv'
<1>1. /\ ExecuteOk(i) /\ version' = version + 1 /\ proposals' = Executed(i)
      /\ UNCHANGED <<admin, govParams, multisig, pendingMultisig, now>>
  BY DEF ExecuteUpgradeProposal
<1>2. version' \in Nat \ {0}
  BY <1>1 DEF GovInv, GovTypeOK
<1>3. QED BY <1>1, <1>2, ExecutedInv DEF GovInv, GovTypeOK

\* The late fee is the one parameter validation does not look at.
LEMMA ExecuteSetLateFeeBpsInv ==
  ASSUME GovInv, NEW i \in DOMAIN proposals, ExecuteSetLateFeeBps(i)
  PROVE  GovInv'
<1>1. /\ proposals[i].action.kind = "SetLateFeeBps" /\ ExecuteOk(i)
      /\ govParams' = [govParams EXCEPT !.lateFee = proposals[i].action.bps]
      /\ proposals' = Executed(i)
      /\ UNCHANGED <<admin, version, multisig, pendingMultisig, now>>
  BY DEF ExecuteSetLateFeeBps
<1>2. proposals[i].action.bps \in Nat
  BY <1>1, ProposalFields, ActionFields
<1>3. /\ govParams' \in Params /\ govParams'.minGuarantee = govParams.minGuarantee
      /\ govParams'.largeLoan = govParams.largeLoan
  BY <1>1, <1>2 DEF GovInv, GovTypeOK, Params
<1>4. QED BY <1>1, <1>3, ExecutedInv DEF GovInv, GovTypeOK

\* The old committee's open changes of signers are void under the new one: the
\* one that was executed, and by the sweep all others.
LEMMA ExecuteUpdateSignersInv ==
  ASSUME GovInv, NEW i \in DOMAIN proposals, ExecuteUpdateSigners(i)
  PROVE  GovInv'
<1> DEFINE c == proposals[i].action.config
           done == [proposals[i] EXCEPT !.executed = TRUE]
           Stale(j) == j # i /\ Pending(proposals[j])
                         /\ proposals[j].action.kind = "UpdateSigners"
           after(j) == IF Stale(j) THEN [proposals[j] EXCEPT !.invalidated = TRUE]
                       ELSE Executed(i)[j]
<1>1. /\ proposals[i].action.kind = "UpdateSigners" /\ ExecuteOk(i)
      /\ multisig' = c /\ proposals' = [j \in DOMAIN proposals |-> after(j)]
      /\ UNCHANGED <<admin, govParams, version, pendingMultisig, now>>
  BY DEF ExecuteUpdateSigners, SweepSignerProposals
<1>2. c \in Config /\ ConfigOk(c)
  BY <1>1, ProposalFields, ActionFields DEF ExecuteOk, ActionOk
<1>3. /\ proposals \in Seq(Proposal) /\ Len(proposals) \in Nat
      /\ DOMAIN proposals = 1..Len(proposals)
  BY ProposalsDomain
<1>4. ASSUME NEW j \in DOMAIN proposals
      PROVE  /\ after(j) \in Proposal /\ IsInjective(after(j).approvals)
             /\ Range(after(j).approvals) \subseteq after(j).snapshot
             /\ ~(Pending(after(j)) /\ after(j).action.kind = "UpdateSigners")
  <2>1. ProposalOk(proposals[j]) /\ proposals[j] \in Proposal
    BY ProposalsOk, ProposalFields
  <2>2. CASE Stale(j)
    <3> DEFINE before == proposals[j]
               void   == [before EXCEPT !.invalidated = TRUE]
    <3>1. before \in Proposal /\ ProposalOk(before)
      BY <2>1
    <3>2. after(j) = void
      BY <2>2
    <3> HIDE DEF before, after
    <3>3. /\ void \in Proposal /\ void.approvals = before.approvals
          /\ void.snapshot = before.snapshot /\ void.invalidated
      BY <3>1 DEF Proposal
    <3>4. QED BY <3>1, <3>2, <3>3 DEF ProposalOk, Pending
  <2>3. CASE j = i
    <3>1. after(j) = done
      BY <1>3, <2>3, ExecutedOk
    <3>2. done \in Proposal /\ done.executed /\ ProposalOk(done)
      BY ExecutedOk
    <3> HIDE DEF done, after
    <3>3. QED BY <3>1, <3>2 DEF ProposalOk, Pending
  <2>4. CASE j # i /\ ~Stale(j)
    <3>1. after(j) = proposals[j]
      BY <1>3, <2>4, ExecutedOk
    <3>2. ~(Pending(proposals[j]) /\ proposals[j].action.kind = "UpdateSigners")
      BY <2>4
    <3> HIDE DEF after
    <3>3. QED BY <2>1, <3>1, <3>2 DEF ProposalOk
  <2>5. QED BY <2>2, <2>3, <2>4
<1> HIDE DEF after
<1>5. /\ DOMAIN proposals' = DOMAIN proposals
      /\ \A j \in DOMAIN proposals : proposals'[j] = after(j)
  BY <1>1
<1>6. proposals' \in Seq(Proposal)
  <2>1. proposals' \in [1..Len(proposals) -> Proposal]
    BY <1>1, <1>3, <1>4
  <2>2. proposals' \in UNION {[1..n -> Proposal] : n \in Nat}
    BY <1>3, <2>1
  <2>3. QED BY <2>2, SeqDef, Zenon
<1>7. multisig' # None
  BY <1>1, <1>2, ConfigFields
<1>8. GovTypeOK'
  BY <1>1, <1>2, <1>6 DEF GovInv, GovTypeOK
<1>9. CommitteesOk' /\ ProposalsNeedCommittee'
  BY <1>1, <1>2, <1>7 DEF GovInv, CommitteesOk, ProposalsNeedCommittee
<1>10. ApprovalsOk' /\ SignerProposalsCurrent'
  BY <1>4, <1>5 DEF ApprovalsOk, SignerProposalsCurrent
<1>11. QED BY <1>8, <1>9, <1>10 DEF GovInv

LEMMA GovTickInv ==
  ASSUME GovInv, now' \in Nat,
         UNCHANGED <<admin, govParams, version, multisig, pendingMultisig, proposals>>
  PROVE  GovInv'
BY DEF GovInv, GovTypeOK, CommitteesOk, ApprovalsOk, ProposalsNeedCommittee,
       SignerProposalsCurrent

LEMMA StepGov == GovInv /\ [GovNext]_govVars => GovInv'
<1> SUFFICES ASSUME GovInv, [GovNext]_govVars PROVE GovInv'
  OBVIOUS
<1>1. now \in Nat
  BY DEF GovInv, GovTypeOK
<1>2. CASE GovTick
  BY <1>1, <1>2, GovTickInv DEF GovTick
<1>3. CASE UNCHANGED govVars
  BY <1>1, <1>3, GovTickInv DEF govVars
<1>4. ASSUME NEW c \in Committees, ConfigureMultisig(c) PROVE GovInv'
  BY <1>4, ConfigureMultisigInv
<1>5. CASE ConfirmMultisig
  BY <1>5, ConfirmMultisigInv
<1>6. ASSUME NEW s \in Addresses, NEW a \in Actions, Propose(s, a) PROVE GovInv'
  BY <1>6, ProposeInv
<1>7. ASSUME NEW s \in Addresses, NEW i \in DOMAIN proposals, Approve(s, i) PROVE GovInv'
  BY <1>7, ApproveInv
<1>8. ASSUME NEW i \in DOMAIN proposals,
             \/ ExecuteUpdateParameters(i) \/ ExecuteSetAdmin(i) \/ ExecuteUpgradeProposal(i)
             \/ ExecuteUpdateSigners(i) \/ ExecuteSetLateFeeBps(i)
      PROVE  GovInv'
  BY <1>8, ExecuteUpdateParametersInv, ExecuteSetAdminInv, ExecuteUpgradeProposalInv,
     ExecuteUpdateSignersInv, ExecuteSetLateFeeBpsInv
<1>9. QED BY <1>2, <1>3, <1>4, <1>5, <1>6, <1>7, <1>8 DEF GovNext, GovStep

LEMMA GovInvHolds == GovSpec => []GovInv
BY InitGov, StepGov, PTL DEF GovSpec

-----------------------------------------------------------------------------
(* The theorems                                                            *)

\* The storage of the parameters contract keeps its shape, and the parameters
\* in force are valid whichever proposals were executed in which order.
THEOREM GovTypes == GovSpec => []GovTypeOK
<1>1. GovInv => GovTypeOK
  BY DEF GovInv
<1>2. QED BY <1>1, GovInvHolds, PTL

\* No open change of signers outlives the committee it was meant to change.
THEOREM SignerProposals == GovSpec => []SignerProposalsCurrent
<1>1. GovInv => SignerProposalsCurrent
  BY DEF GovInv
<1>2. QED BY <1>1, GovInvHolds, PTL

\* Whatever committee an executed change of signers installs, it has enough
\* different signers for every quorum, and no signer is a quorum alone.
THEOREM QuorumsAttainable == GovSpec => []QuorumAttainable
<1>1. GovInv => QuorumAttainable
  <2> SUFFICES ASSUME GovInv, multisig # None, NEW a \in Actions
               PROVE  RequiredQuorum(multisig, a) \in 2..Cardinality(Seats(multisig))
    BY DEF QuorumAttainable
  <2>1. /\ multisig \in Config /\ ConfigOk(multisig)
        /\ multisig.signers \in Seq(Addresses) /\ multisig.threshold \in Nat
    BY ConfigFields DEF GovInv, GovTypeOK, CommitteesOk
  <2>2. Cardinality(Seats(multisig)) = Len(multisig.signers) /\ Len(multisig.signers) \in Nat
    BY <2>1, InjectiveCount, RangeFacts DEF ConfigOk, Seats
  <2>3. multisig.threshold >= 2 /\ multisig.threshold <= Len(multisig.signers)
    BY <2>1 DEF ConfigOk
  <2>4. QED BY <2>1, <2>2, <2>3 DEF RequiredQuorum, Least
<1>2. QED BY <1>1, GovInvHolds, PTL

\* What ExecuteOk counts is different people: the approvals of an executable
\* proposal are those of as many signers, members then and now.
LEMMA ExecutableHasQuorum ==
  ASSUME GovInv, NEW i \in DOMAIN proposals, ExecuteOk(i)
  PROVE  HasQuorum(i)
<1> DEFINE p == proposals[i]
<1>1. p.approvals \in Seq(Addresses) /\ IsInjective(p.approvals)
  BY ProposalFields DEF GovInv, ApprovalsOk
<1>2. Cardinality(Range(p.approvals)) = Len(p.approvals)
  BY <1>1, InjectiveCount
<1>3. Range(p.approvals) \cap p.snapshot \cap Seats(multisig) = Range(p.approvals)
  BY DEF ExecuteOk, ApproversEligible
<1>4. Len(p.approvals) >= RequiredQuorum(multisig, p.action)
  BY DEF ExecuteOk
<1>5. QED BY <1>2, <1>3, <1>4 DEF HasQuorum

\* Once there is a committee, neither the admin, the parameters, the code nor
\* the committee changes but by executing an unexpired proposal that a quorum
\* of different signers approved.
THEOREM CommitteeGoverns == GovSpec => CommitteeRules
<1> DEFINE Ruled == multisig # None /\ <<admin, govParams, version, multisig>>'
                                         # <<admin, govParams, version, multisig>>
                    => \E i \in DOMAIN proposals :
                         /\ Open(proposals[i]) /\ proposals'[i].executed
                         /\ HasQuorum(i)
<1>1. ASSUME GovInv, [GovNext]_govVars PROVE [Ruled]_govVars
  <2> SUFFICES ASSUME multisig # None, <<admin, govParams, version, multisig>>'
                                         # <<admin, govParams, version, multisig>>
               PROVE  \E i \in DOMAIN proposals :
                        /\ Open(proposals[i]) /\ proposals'[i].executed
                        /\ HasQuorum(i)
    OBVIOUS
  <2>1. PICK i \in DOMAIN proposals :
               \/ ExecuteUpdateParameters(i) \/ ExecuteSetAdmin(i) \/ ExecuteUpgradeProposal(i)
               \/ ExecuteUpdateSigners(i) \/ ExecuteSetLateFeeBps(i)
    BY <1>1 DEF GovNext, GovStep, GovTick, ConfigureMultisig, ConfirmMultisig, Propose, Approve,
                govVars
  <2>2. ExecuteOk(i) /\ (proposals' = Executed(i) \/ proposals' = SweepSignerProposals(i))
    BY <2>1 DEF ExecuteUpdateParameters, ExecuteSetAdmin, ExecuteUpgradeProposal,
                ExecuteUpdateSigners, ExecuteSetLateFeeBps
  <2>3. Executed(i)[i].executed
    BY <1>1, ExecutedOk
  <2>4. SweepSignerProposals(i)[i] = Executed(i)[i]
    BY DEF SweepSignerProposals
  <2>5. HasQuorum(i) /\ Open(proposals[i])
    BY <1>1, <2>2, ExecutableHasQuorum DEF ExecuteOk
  <2>6. QED BY <2>2, <2>3, <2>4, <2>5
<1>2. GovInv /\ [GovNext]_govVars => [Ruled]_govVars
  BY <1>1
<1>3. QED BY <1>2, GovInvHolds, PTL DEF GovSpec, CommitteeRules
=============================================================================
