SPECIFICATION Spec
CONSTANTS
  Providers = {l1, l2}
  Merchants = {m1, m2}
  PoolAcct = poolAcct
  CreditLineAcct = creditLineAcct
  Treasury = treasury
  MerchantFund = merchantFund
  Precision = 4
  Dead = 1
  MinAmount = 3
  ProviderFunds = 5
  CreditLineFunds = 4
  MaxShares = 18
  Endowment <- MCEndowment
  DepositAmounts = {2, 3, 5}
  ShareAmounts = {1}
  LoanAmounts = {2}
  InterestAmounts = {3}
  LossAmounts = {3}
  CapChoices = {0, 5000}
  ExposureChoices = {0, 3}
  VendorChecks = {FALSE, TRUE}
  PauseChoices = {FALSE, TRUE}
  MaxLedger = 2
INVARIANTS
  TypeOK
  LockedWithinLiquidity
  SharesAccounted
  RoundTripNeverProfits
  WindowIsThisLedgers
  ExposureIsPayouts
PROPERTIES
  CappedOutflow
  PriceFallsOnlyForCause
  PauseFreezesAllButRepayment
CONSTRAINT Scope
SYMMETRY Symmetry
