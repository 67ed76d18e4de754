CONSTANTS
  Mints = {usd}
  Wallets = {alice, bob}
  Issuer = issuer
  Officers = {issuer, officer}
  Terminals = {t1}
  Expiries <- NeverOrSoon
  TokenAmounts = {2}
  MaxU64 = 2
  MaxTime = 1
SPECIFICATION Spec
PROPERTY HookedOnEveryTransfer
CHECK_DEADLOCK FALSE
