CONSTANTS
  Mints = {usd}
  Wallets = {alice, bob}
  Issuer = issuer
  Officers = {issuer, officer}
  Terminals = {t1, t2}
  Expiries <- NeverOrSoon
  TokenAmounts = {2}
  MaxU64 = 2
  MaxTime = 1
SYMMETRY Symmetry
SPECIFICATION Spec
INVARIANTS TypeOK KycBeforeTokens
PROPERTIES RevokedStaysOut
CHECK_DEADLOCK FALSE
