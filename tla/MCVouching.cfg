SPECIFICATION FairSpec
CONSTANTS
  Mentors = {m1, m2}
  Learners = {l1}
  VouchDuration = 1
  BoostChoices = {10, 25}
  InitialScore = 20
  InitialScores <- MCInitialScores
  Rewards = {15}
  Penalties = {20}
  NoBaseline = NoBaseline
INVARIANTS
  TypeOK
  BoostsAccounted
  RemovalNeverRefused
PROPERTIES
  BoostTakenBack
  VouchesEnd
