CONSTANTS
  Mints = {usd, eur}
  Wallets = {alice, bob}
  Issuer = issuer
  Officers = {issuer, officer}
  Terminals = {t1}
  Expiries <- Never
  TokenAmounts = {2}
  MaxU64 = 2
  MaxTime = 0
SYMMETRY MintSymmetry
SPECIFICATION Spec
INVARIANTS VerifiedAreCounted
CHECK_DEADLOCK FALSE
