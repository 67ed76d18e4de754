CONSTANTS
  Users = {}
  Admin = admin
  Manager = manager
  MaxU64 = 24
  Configs <- WithExitFee
  PRECISION = 60
  BPS_DENOMINATOR = 10
  MaxPerformanceFee = 5
  MaxManagementFee = 1
  SecondsPerYear = 2
  MAX_STRATEGIES = 2
  InitialAssets = 10
  DepositAmounts = {10}
  WithdrawAmounts = {6}
  MoveAmounts = {4}
  ReportedValues = {0, 9}
  BurnAmounts = {6}
  GiftAmounts = {4}
  ActiveSettings = {TRUE, FALSE}
  MaxTime = 0
SPECIFICATION Spec
INVARIANTS TotalWithinBooks
PROPERTIES BooksFollowTokens ExcessIsExitFees
CHECK_DEADLOCK FALSE
