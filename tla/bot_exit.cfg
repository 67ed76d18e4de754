CONSTANTS
  Users = {}
  Admin = admin
  Manager = admin
  MaxU64 = 4
  Configs <- NoFees
  PRECISION = 1
  BPS_DENOMINATOR = 10
  MaxPerformanceFee = 5
  MaxManagementFee = 5
  SecondsPerYear = 1
  MAX_STRATEGIES = 2
  InitialAssets = 2
  DepositAmounts = {2}
  WithdrawAmounts = {2}
  MoveAmounts = {}
  ReportedValues = {}
  BurnAmounts = {}
  GiftAmounts = {}
  ActiveSettings = {TRUE}
  MaxTime = 0
  REBALANCE_THRESHOLD_BPS = 3
  YieldDivisor = 100
  MAX_SAFE_INTEGER = 4
  MaxLate = 1
SPECIFICATION ExitSpec
PROPERTY HoldersGetOut
CHECK_DEADLOCK FALSE
