SPECIFICATION GovSpec
CONSTANTS
  s1 = s1
  s2 = s2
  s3 = s3
  s4 = s4
  Addresses = {s1, s2, s3, s4}
  InitialAdmin = s1
  None = None
  Committees <- GovCommittees
  Actions <- GovActions
  InitialParams <- MCInitialParams
  ProposalTTL = 1
  MaxProposals = 2
  MaxTime = 2
INVARIANTS
  GovTypeOK
  SignerProposalsCurrent
  QuorumAttainable
PROPERTIES
  CommitteeRules
CHECK_DEADLOCK FALSE
