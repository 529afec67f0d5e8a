SPECIFICATION Spec
CONSTANTS
  Borrowers = {u1, u2}
  Providers = {l1}
  Merchants = {v1}
  PoolAcct = poolAcct
  CreditLineAcct = creditLineAcct
  Treasury = treasury
  MerchantFund = merchantFund
  Precision = 10000
  Dead = 1000
  MinAmount = 1000
  Day = 1
  Endowment <- MCEndowment
  BorrowerFunds = 500
  ProviderFunds = 1000
  InitialScores <- MCScores
  InitialScore = 60
  InitialStatus <- MCVendors
  InitialVendor = "Approved"
  ParamChoices <- DefaultOnly
  Requests <- LongRequest
  RepayAmounts = {150}
  DepositAmounts = {1000}
  ScoreChoices = {}
  MovedVendors = {}
  PauseChoices = {}
  MaxLoans = 2
  MaxTime = 4
INVARIANTS
  TypeOK
  LoansBalanced
  DebtIsActiveBalance
  EscrowExact
  PoolSolvent
  AvailableIsHeldUntilDefault
  ExposureIsFundedLoans
  PoolTokensExact
PROPERTIES
  LateDaysChargedOnce
  LedgerKept
SYMMETRY Symmetry
CHECK_DEADLOCK FALSE
