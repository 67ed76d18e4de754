CONSTANTS
  Users = {alice}
  Admin = admin
  Manager = manager
  MaxU64 = 24
  Configs <- AllFeesOnly
  PRECISION = 60
  BPS_DENOMINATOR = 10
  MaxPerformanceFee = 5
  MaxManagementFee = 1
  SecondsPerYear = 2
  MAX_STRATEGIES = 1
  InitialAssets = 10
  DepositAmounts = {10}
  WithdrawAmounts = {6}
  MoveAmounts = {}
  ReportedValues = {0, 8}
  BurnAmounts = {6}
  GiftAmounts = {}
  ActiveSettings = {TRUE, FALSE}
  MaxTime = 2
SPECIFICATION Spec
INVARIANTS TypeOK LpSupplyCoversMint
PROPERTIES HoldersKeepPrice GainChargedOnce
CHECK_DEADLOCK FALSE
