----------------------------- MODULE Governance -----------------------------
(***************************************************************************)
(* The parameters contract: the protocol parameters, and the committee     *)
(* whose approved proposals change them.  An admin installs the committee  *)
(* once, in two steps; after that a signer proposes, signers approve, and  *)
(* anyone executes a proposal that has its quorum.                         *)
(*                                                                         *)
(* Of the parameters the module keeps what the contract validates or       *)
(* rewrites and the upgrade delay other contracts read.  Events, proposer  *)
(* and creation time of a proposal are left out; the reentrancy lock is    *)
(* FALSE between transactions.  A proposal's id is its place in proposals, *)
(* from 1 (the contract counts from 0).                                    *)
(***************************************************************************)
EXTENDS SafeMath, Sequences, FiniteSets, Functions

CONSTANTS
  Addresses,     \* who may sign, or be named as admin
  InitialAdmin,
  None,          \* no committee
  Committees,    \* [signers : Seq(Addresses), threshold]: what may be proposed
  Actions,       \* the proposals that may be made
  InitialParams, \* what initialize may be called with
  ProposalTTL,   \* PROPOSAL_TTL_SECONDS
  MaxProposals,  \* bound on the number of proposals
  MaxTime        \* bound on the ledger timestamp

Params == [minGuarantee : Int, largeLoan : Int, upgradeDelay : Nat, lateFee : Nat]

Config == [signers : Seq(Addresses), threshold : Nat]

\* ProposalAction
Action ==
  [kind : {"UpdateParameters"}, params : Params]
    \cup [kind : {"SetAdmin"}, admin : Addresses]
    \cup [kind : {"Upgrade"}]
    \cup [kind : {"UpdateSigners"}, config : Config]
    \cup [kind : {"SetLateFeeBps"}, bps : Nat]

ASSUME GovernanceAssumption ==
  /\ IsFiniteSet(Addresses)
  /\ InitialAdmin \in Addresses
  /\ None \notin Config
  /\ Committees \subseteq Config
  /\ Actions \subseteq Action
  /\ InitialParams \subseteq Params
  /\ ProposalTTL \in Nat /\ MaxProposals \in Nat /\ MaxTime \in Nat

VARIABLES
  admin,
  govParams,  \* get_parameters
  version,    \* bumped by an executed Upgrade
  multisig,   \* the committee, or None
  pendingMultisig,
  proposals,
  now         \* env.ledger().timestamp()

govVars == <<admin, govParams, version, multisig, pendingMultisig, proposals, now>>

\* Mutation: a guarantee of 0 percent passes.
ParamsOkAtZero(p) == p.minGuarantee \in 0..100 /\ p.largeLoan > 0

\* validate_parameters
ParamsOk(p) == p.minGuarantee \in 1..100 /\ p.largeLoan > 0

\* validate_multisig_config
ConfigOk(c) ==
  /\ c.threshold >= 2
  /\ c.threshold <= Len(c.signers)
  /\ IsInjective(c.signers)

Seats(c) == Range(c.signers)

GovInit ==
  /\ admin = InitialAdmin
  /\ govParams \in {p \in InitialParams : ParamsOk(p)}
  /\ version = 1
  /\ multisig = None
  /\ pendingMultisig = None
  /\ proposals = <<>>
  /\ now = 0

-----------------------------------------------------------------------------
(* The committee is installed, by the admin                                *)

ConfigureMultisig(config) ==
  /\ multisig = None
  /\ pendingMultisig = None
  /\ ConfigOk(config)
  /\ pendingMultisig' = config
  /\ UNCHANGED <<admin, govParams, version, multisig, proposals, now>>

ConfirmMultisig ==
  /\ multisig = None
  /\ pendingMultisig # None
  /\ multisig' = pendingMultisig
  /\ pendingMultisig' = None
  /\ UNCHANGED <<admin, govParams, version, proposals, now>>

-----------------------------------------------------------------------------
(* Proposals                                                               *)

\* What propose validates of the action itself.
ActionOk(action) ==
  /\ action.kind = "UpdateParameters" => ParamsOk(action.params)
  /\ action.kind = "UpdateSigners" => ConfigOk(action.config)

Propose(signer, action) ==
  /\ multisig # None
  /\ signer \in Seats(multisig)
  /\ ActionOk(action)
  /\ proposals' = Append(proposals,
                         [action      |-> action,
                          approvals   |-> <<signer>>,
                          snapshot    |-> Seats(multisig),
                          expires     |-> now + ProposalTTL,
                          executed    |-> FALSE,
                          invalidated |-> FALSE])
  /\ UNCHANGED <<admin, govParams, version, multisig, pendingMultisig, now>>

\* Neither executed nor voided.
Pending(proposal) == ~proposal.executed /\ ~proposal.invalidated

\* It may still collect approvals and be executed.
Open(proposal) == Pending(proposal) /\ now <= proposal.expires

\* Mutation: a signer may approve again.
ApproveRepeatedly(signer, i) ==
  /\ multisig # None
  /\ signer \in Seats(multisig)
  /\ Open(proposals[i])
  /\ Len(proposals[i].approvals) < Cardinality(Addresses)
  /\ signer \in proposals[i].snapshot
  /\ proposals' = [proposals EXCEPT ![i].approvals = Append(@, signer)]
  /\ UNCHANGED <<admin, govParams, version, multisig, pendingMultisig, now>>

Approve(signer, i) ==
  /\ multisig # None
  /\ signer \in Seats(multisig)
  /\ Open(proposals[i])
  /\ signer \notin Range(proposals[i].approvals)
  /\ signer \in proposals[i].snapshot
  /\ proposals' = [proposals EXCEPT ![i].approvals = Append(@, signer)]
  /\ UNCHANGED <<admin, govParams, version, multisig, pendingMultisig, now>>

\* Mutation: the elevated quorum is not capped at the number of signers.
UncappedQuorum(config, action) ==
  IF action.kind = "UpdateSigners" THEN config.threshold + 1 ELSE config.threshold

\* A change of signers needs one approval more than anything else, at most all.
RequiredQuorum(config, action) ==
  IF action.kind = "UpdateSigners"
  THEN Least(config.threshold + 1, Len(config.signers))
  ELSE config.threshold

\* One approver who is no longer eligible blocks the proposal.
ApproversEligible(proposal) ==
  Range(proposal.approvals) \subseteq proposal.snapshot \cap Seats(multisig)

ExecuteOk(i) ==
  /\ multisig # None
  /\ Open(proposals[i])
  /\ ApproversEligible(proposals[i])
  /\ Len(proposals[i].approvals) >= RequiredQuorum(multisig, proposals[i].action)
  /\ ActionOk(proposals[i].action)

Executed(i) == [proposals EXCEPT ![i].executed = TRUE]

\* Mutation: open changes of signers survive the change of signers.
KeepSignerProposals(i) == Executed(i)

\* The other open changes of signers are void once one has been executed.
SweepSignerProposals(i) ==
  [j \in DOMAIN proposals |->
     IF j # i /\ Pending(proposals[j]) /\ proposals[j].action.kind = "UpdateSigners"
     THEN [proposals[j] EXCEPT !.invalidated = TRUE]
     ELSE Executed(i)[j]]

ExecuteUpdateParameters(i) ==
  /\ proposals[i].action.kind = "UpdateParameters"
  /\ ExecuteOk(i)
  /\ govParams' = proposals[i].action.params
  /\ proposals' = Executed(i)
  /\ UNCHANGED <<admin, version, multisig, pendingMultisig, now>>

ExecuteSetAdmin(i) ==
  /\ proposals[i].action.kind = "SetAdmin"
  /\ ExecuteOk(i)
  /\ admin' = proposals[i].action.admin
  /\ proposals' = Executed(i)
  /\ UNCHANGED <<govParams, version, multisig, pendingMultisig, now>>

\* The parameters contract upgrades itself on the spot, without a timelock.
ExecuteUpgradeProposal(i) ==
  /\ proposals[i].action.kind = "Upgrade"
  /\ ExecuteOk(i)
  /\ version' = version + 1
  /\ proposals' = Executed(i)
  /\ UNCHANGED <<admin, govParams, multisig, pendingMultisig, now>>

ExecuteUpdateSigners(i) ==
  /\ proposals[i].action.kind = "UpdateSigners"
  /\ ExecuteOk(i)
  /\ multisig' = proposals[i].action.config
  /\ proposals' = SweepSignerProposals(i)
  /\ UNCHANGED <<admin, govParams, version, pendingMultisig, now>>

\* The new rate is not validated; the other parameters stay.
ExecuteSetLateFeeBps(i) ==
  /\ proposals[i].action.kind = "SetLateFeeBps"
  /\ ExecuteOk(i)
  /\ govParams' = [govParams EXCEPT !.lateFee = proposals[i].action.bps]
  /\ proposals' = Executed(i)
  /\ UNCHANGED <<admin, version, multisig, pendingMultisig, now>>

GovTick ==
  /\ now < MaxTime
  /\ now' = now + 1
  /\ UNCHANGED <<admin, govParams, version, multisig, pendingMultisig, proposals>>

\* Everything but the passing of time.
GovStep ==
  \/ \E c \in Committees : ConfigureMultisig(c)
  \/ ConfirmMultisig
  \/ \E s \in Addresses, a \in Actions : Len(proposals) < MaxProposals /\ Propose(s, a)
  \/ \E s \in Addresses, i \in DOMAIN proposals : Approve(s, i)
  \/ \E i \in DOMAIN proposals : ExecuteUpdateParameters(i)
  \/ \E i \in DOMAIN proposals : ExecuteSetAdmin(i)
  \/ \E i \in DOMAIN proposals : ExecuteUpgradeProposal(i)
  \/ \E i \in DOMAIN proposals : ExecuteUpdateSigners(i)
  \/ \E i \in DOMAIN proposals : ExecuteSetLateFeeBps(i)

GovNext == GovStep \/ GovTick

GovSpec == GovInit /\ [][GovNext]_govVars

-----------------------------------------------------------------------------
(* Properties                                                              *)

Proposal ==
  [action : Actions, approvals : Seq(Addresses), snapshot : SUBSET Addresses,
   expires : Nat, executed : BOOLEAN, invalidated : BOOLEAN]

\* The storage keeps its shape; the parameters in force are valid whichever
\* mix of full updates and unvalidated late fee updates was executed.
GovTypeOK ==
  /\ admin \in Addresses
  /\ govParams \in Params /\ govParams.minGuarantee \in 1..100 /\ govParams.largeLoan > 0
  /\ version \in Nat \ {0}
  /\ multisig \in Config \cup {None}
  /\ pendingMultisig \in Config \cup {None}
  /\ proposals \in Seq(Proposal)
  /\ now \in Nat

\* Enough different signers, members when proposal i was made and now, have
\* approved it.
HasQuorum(i) ==
  Cardinality(Range(proposals[i].approvals) \cap proposals[i].snapshot \cap Seats(multisig))
    >= RequiredQuorum(multisig, proposals[i].action)

\* Once there is a committee, nothing under its control changes but by the
\* execution of an unexpired proposal that a quorum of different signers
\* approved; no key of an admin or of a single signer is enough.
CommitteeRules ==
  [][ multisig # None /\ <<admin, govParams, version, multisig>>'
                           # <<admin, govParams, version, multisig>>
      => \E i \in DOMAIN proposals :
           /\ Open(proposals[i]) /\ proposals'[i].executed
           /\ HasQuorum(i) ]_govVars

\* An open change of signers was proposed under the committee in office: none
\* outlives the committee it was meant to change.
SignerProposalsCurrent ==
  \A i \in DOMAIN proposals :
    Pending(proposals[i]) /\ proposals[i].action.kind = "UpdateSigners"
      => proposals[i].snapshot = Seats(multisig)

\* The committee can always act: for every action the signers it has are
\* enough different people for the quorum, and one alone never is.  No
\* executed change of signers locks the protocol.
QuorumAttainable ==
  multisig # None =>
    \A a \in Actions : RequiredQuorum(multisig, a) \in 2..Cardinality(Seats(multisig))

=============================================================================
