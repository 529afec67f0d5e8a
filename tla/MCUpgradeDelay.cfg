SPECIFICATION UpgradesSpec
CONSTANTS
  s1 = s1
  s2 = s2
  s3 = s3
  s4 = s4
  Addresses = {s1, s2}
  InitialAdmin = s1
  None = None
  Committees <- DelayCommittee
  Actions <- DelayActions
  InitialParams <- DelayParams
  ProposalTTL = 3
  MaxProposals = 1
  MaxTime = 3
  Timelocked = {"creditline", "pool"}
  Hashes = {h1, h2}
  DefaultDelay = 1
  MaxUpgrades = 2
INVARIANT GovernedDelay
SYMMETRY CodeSymmetry
CHECK_DEADLOCK FALSE
