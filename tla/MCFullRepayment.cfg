SPECIFICATION Spec
CONSTANTS
  Borrowers = {u1}
  Providers = {l1}
  Merchants = {v1}
  PoolAcct = poolAcct
  CreditLineAcct = creditLineAcct
  Treasury = treasury
  MerchantFund = merchantFund
  Precision = 10000
  Dead = 1000
  MinAmount = 1000
  Day = 2
  Endowment <- MCEndowment
  BorrowerFunds = 500
  ProviderFunds = 1000
  InitialScores <- MCScores
  InitialScore = 80
  InitialStatus <- MCVendors
  InitialVendor = "Approved"
  ParamChoices <- DefaultOnly
  Requests <- OneRequest
  RepayAmounts = {150}
  DepositAmounts = {1000}
  ScoreChoices = {}
  MovedVendors = {}
  PauseChoices = {}
  MaxLoans = 2
  MaxTime = 4
INVARIANT FullRepaymentPossible
CHECK_DEADLOCK FALSE
