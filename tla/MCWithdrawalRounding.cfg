SPECIFICATION Spec
CONSTANTS
  Providers = {l1, l2}
  Merchants = {m1}
  PoolAcct = poolAcct
  CreditLineAcct = creditLineAcct
  Treasury = treasury
  MerchantFund = merchantFund
  Precision = 4
  Dead = 1
  MinAmount = 3
  ProviderFunds = 5
  CreditLineFunds = 4
  MaxShares = 40
  Endowment <- MCEndowment
  DepositAmounts = {2, 3, 5}
  ShareAmounts = {1}
  LoanAmounts = {2}
  InterestAmounts = {3}
  LossAmounts = {3}
  CapChoices = {0}
  ExposureChoices = {0}
  VendorChecks = {FALSE}
  PauseChoices = {FALSE}
  MaxLedger = 1
INVARIANT WithdrawalsRoundDown
CONSTRAINT FewShares
SYMMETRY Symmetry
