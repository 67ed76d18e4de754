CONSTANTS
  Users = {alice}
  Admin = admin
  Manager = admin
  MaxU64 = 12
  Configs <- Fees
  PRECISION = 60
  BPS_DENOMINATOR = 10
  MaxPerformanceFee = 5
  MaxManagementFee = 1
  SecondsPerYear = 1
  MAX_STRATEGIES = 1
  InitialAssets = 6
  DepositAmounts = {6}
  WithdrawAmounts = {4}
  MoveAmounts = {}
  ReportedValues = {}
  BurnAmounts = {2}
  GiftAmounts = {}
  ActiveSettings = {FALSE}
  MaxTime = 1
  REBALANCE_THRESHOLD_BPS = 3
  YieldDivisor = 2
  MAX_SAFE_INTEGER = 9
  MaxLate = 1
SPECIFICATION BotSpec
INVARIANTS LpSupplyCoversMint TotalWithinBooks
CHECK_DEADLOCK FALSE
