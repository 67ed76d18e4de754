CONSTANTS
  Users = {alice, bob}
  OtherPoolAccounts = {other}
  NoUser = none
  MaxU64 = 100000000
  InitialT = 240
  DepositAmounts = {240}
  LoanAmounts = {0, 8000}
  SendAmounts = {200}
SPECIFICATION Spec
SYMMETRY WalletSymmetry
INVARIANTS TypeOK Backed ExitOpen
PROPERTIES SharePoolSpec LoanSettles
CHECK_DEADLOCK FALSE
