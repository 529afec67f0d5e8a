SPECIFICATION FairSpec
CONSTANTS
  Borrowers = {u1}
  Providers = {l1}
  Merchants = {v1}
  PoolAcct = poolAcct
  CreditLineAcct = creditLineAcct
  Treasury = treasury
  MerchantFund = merchantFund
  Precision = 10000
  Dead = 1000
  MinAmount = 1000
  Day = 2
  Endowment <- MCEndowment
  BorrowerFunds = 500
  ProviderFunds = 1000
  InitialScores <- MCScores
  InitialScore = 60
  InitialStatus <- MCVendors
  InitialVendor = "Unregistered"
  ParamChoices <- BothParams
  Requests <- EveryRequest
  RepayAmounts = {180}
  DepositAmounts = {1000}
  ScoreChoices = {10}
  MovedVendors = {v1}
  PauseChoices = {FALSE, TRUE}
  MaxLoans = 1
  MaxTime = 6
INVARIANTS
  PartialRepaymentNeverBlocked
  DefaultBlockedOnlyByScore
PROPERTIES
  MaturedLoansClose
  OnlyApprovedVendorsPaid
  LateDaysChargedOnce
CHECK_DEADLOCK FALSE
