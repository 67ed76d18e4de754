------------------------------- MODULE Vault --------------------------------
(***************************************************************************)
(* The institutional vault, src/programs/vault.  Holders deposit an asset   *)
(* and receive LP tokens; the manager moves the vault's bookkeeping between *)
(* idle and strategies and reports what the strategies are worth; the admin *)
(* harvests fees as newly minted LP tokens.                                 *)
(*                                                                          *)
(* Each instruction is one action: a Solana transaction is atomic and locks *)
(* the accounts it writes, and every instruction here writes the vault or   *)
(* a strategy of it.  A failed require!, a failed token call or a panic     *)
(* (checked arithmetic, division by zero) reverts the transaction, so each  *)
(* of them is a conjunct of the action.  The transfer hook of the asset     *)
(* (kyc_hook) is taken to allow every transfer.                             *)
(*                                                                          *)
(* Left out because no instruction reads them: names, protocol, bumps,      *)
(* strategy.allocated and strategy.last_update_ts.                          *)
(***************************************************************************)
EXTENDS SplToken, FiniteSetsExt

CONSTANTS
  Users, Admin, Manager,   \* wallets
  Configs,                 \* the VaultConfig values that are submitted
  PRECISION,               \* fixed-point unit of the high water mark
  BPS_DENOMINATOR,         \* what a fee is a fraction of
  MaxPerformanceFee,       \* 5000 in the code
  MaxManagementFee,        \* 1000 in the code
  SecondsPerYear,          \* 31_536_000 in the code
  MAX_STRATEGIES,
  InitialAssets,           \* what each holder has of the asset at the start
  DepositAmounts,          \* bounds: the arguments the instructions are called
  WithdrawAmounts,         \* with, and how far the clock runs
  MoveAmounts,
  ReportedValues,
  BurnAmounts,
  GiftAmounts,
  ActiveSettings,
  MaxTime

\* The accounts of the vault are distinct from those of the wallets.
VaultAssetAccount   == "vault_asset_account"
VaultAssetAuthority == "vault_asset_auth"
LpMintAuthority     == "lp_mint_auth"

Holders       == Users \union {Admin}
AssetAccounts == Holders \union {VaultAssetAccount}
StrategyIds   == 0 .. MAX_STRATEGIES - 1

\* The fields of the accounts that some instruction reads.
VaultAccount ==
  [total_assets : Amount, idle_assets : Amount, lp_supply : Amount,
   high_water_mark : Nat, last_fee_harvest_ts : 0 .. MaxTime,
   locked_profit : Amount, locked_profit_ts : 0 .. MaxTime,
   num_strategies : 0 .. MAX_STRATEGIES, accumulated_fees : Amount,
   is_active : BOOLEAN]

StrategyAccount == [position_value : Amount, is_active : BOOLEAN]

VaultConfig ==
  [max_cap : Amount,
   performance_fee_bps : Nat, management_fee_bps : Nat,
   deposit_fee_bps : Nat, withdrawal_fee_bps : Nat,
   locked_profit_degradation : Nat, withdrawal_wait_period : Nat]

ASSUME VaultAssumption ==
  /\ IsFiniteSet(Holders)
  /\ VaultAssetAccount \notin Holders
  /\ Configs \subseteq VaultConfig
  /\ {PRECISION, BPS_DENOMINATOR, SecondsPerYear, MAX_STRATEGIES} \subseteq Nat \ {0}
  /\ {MaxPerformanceFee, MaxManagementFee, MaxTime} \subseteq Nat
  /\ InitialAssets \in Amount
  /\ InitialAssets * Cardinality(Holders) \in Amount
  /\ DepositAmounts \union WithdrawAmounts \union MoveAmounts
       \union ReportedValues \union BurnAmounts \union GiftAmounts \subseteq Amount
  /\ ActiveSettings \subseteq BOOLEAN

VARIABLES
  vault,        \* the counters of the Vault account
  config,       \* the settings of the Vault account
  strategies,   \* the Strategy accounts; those below num_strategies exist
  asset,        \* the ledger of the asset mint
  lp,           \* the ledger of the LP mint
  now           \* Clock::unix_timestamp

vars == <<vault, config, strategies, asset, lp, now>>

\* The accounts that initialize_vault is given: an asset account of the vault's
\* authority, here an empty one, and an LP mint with no supply.
InitializeVaultAccounts ==
  /\ asset = [supply |-> InitialAssets * Cardinality(Holders),
              bal |-> [a \in AssetAccounts |->
                         IF a \in Holders THEN InitialAssets ELSE 0]]
  /\ lp = [supply |-> 0, bal |-> [h \in Holders |-> 0]]

\* initialize_vault accepts a configuration within the two fee limits and opens the
\* vault at a share price of one.
Init ==
  /\ InitializeVaultAccounts
  /\ now = 0
  /\ config \in {c \in Configs : /\ c.performance_fee_bps <= MaxPerformanceFee
                                 /\ c.management_fee_bps <= MaxManagementFee}
  /\ vault = [total_assets |-> 0, idle_assets |-> 0, lp_supply |-> 0,
              high_water_mark |-> PRECISION, last_fee_harvest_ts |-> now,
              locked_profit |-> 0, locked_profit_ts |-> now,
              num_strategies |-> 0, accumulated_fees |-> 0, is_active |-> TRUE]
  /\ strategies = [i \in StrategyIds |-> [position_value |-> 0, is_active |-> FALSE]]

-----------------------------------------------------------------------------
(* Arithmetic *)

AsU64(n) == n % (MaxU64 + 1)

\* The same without saturation.
WrongPlainSub(a, b) == a - b

SaturatingSub(a, b) == IF b > a THEN 0 ELSE a - b

BpsOf(n, bps) == AsU64((n * bps) \div BPS_DENOMINATOR)

\* The part of locked_profit that is still locked: it falls linearly to zero over
\* locked_profit_degradation seconds from the last profit that was reported.
RemainingLocked ==
  LET duration == config.locked_profit_degradation
      elapsed  == now - vault.locked_profit_ts
  IN  IF vault.locked_profit = 0 \/ elapsed >= duration
      THEN 0
      ELSE AsU64((vault.locked_profit * (duration - elapsed)) \div duration)

EffectiveTotalAssets == SaturatingSub(vault.total_assets, RemainingLocked)

-----------------------------------------------------------------------------
(* Holders *)

\* LP tokens for a deposit, before the deposit fee.  With LP outstanding and no
\* effective assets the division panics; CanPrice says that it does not.
CanPrice == vault.lp_supply > 0 => EffectiveTotalAssets > 0

LpToMint(amount) ==
  IF vault.lp_supply = 0
  THEN amount
  ELSE AsU64((amount * vault.lp_supply) \div EffectiveTotalAssets)

\* The vault takes deposits, and the signer has an asset account and an LP account.
DepositAccounts(user) ==
  /\ vault.is_active
  /\ user \in DOMAIN asset.bal
  /\ user \in DOMAIN lp.bal

Deposit(user, amount) ==
  LET lp_to_mint   == LpToMint(amount)
      fee_lp       == BpsOf(lp_to_mint, config.deposit_fee_bps)
      lp_after_fee == lp_to_mint - fee_lp
  IN  /\ DepositAccounts(user)
      /\ amount > 0
      /\ vault.total_assets + amount <= config.max_cap
      /\ CanPrice
      /\ lp_to_mint > 0
      /\ fee_lp <= lp_to_mint
      /\ CanTransfer(asset, user, VaultAssetAccount, amount, user, {user})
      /\ CanMint(lp, user, lp_after_fee, LpMintAuthority, {user, LpMintAuthority})
      /\ vault.idle_assets + amount <= MaxU64
      /\ vault.lp_supply + lp_after_fee <= MaxU64
      /\ vault.accumulated_fees + fee_lp <= MaxU64
      /\ asset' = Transfer(asset, user, VaultAssetAccount, amount)
      /\ lp' = MintTo(lp, user, lp_after_fee)
      /\ vault' = [vault EXCEPT !.total_assets = @ + amount,
                                !.idle_assets = @ + amount,
                                !.lp_supply = @ + lp_after_fee,
                                !.accumulated_fees = @ + fee_lp]
      /\ UNCHANGED <<config, strategies, now>>

\* As if the profit still locked were paid out.
WrongAssetsToReturn(lp_amount) ==
  AsU64((lp_amount * vault.total_assets) \div vault.lp_supply)

AssetsToReturn(lp_amount) ==
  AsU64((lp_amount * EffectiveTotalAssets) \div vault.lp_supply)

\* As if total_assets were not updated, or the fee left idle_assets too.
WrongTotalKept(assets_to_return, assets_after_fee, lp_amount) ==
  [vault EXCEPT !.idle_assets = @ - assets_after_fee,
                !.lp_supply = @ - lp_amount]
WrongFeeLeavesIdle(assets_to_return, assets_after_fee, lp_amount) ==
  [vault EXCEPT !.total_assets = @ - assets_to_return,
                !.idle_assets = @ - assets_to_return,
                !.lp_supply = @ - lp_amount]

\* The fee stays in idle_assets but leaves total_assets.
AfterWithdrawal(assets_to_return, assets_after_fee, lp_amount) ==
  [vault EXCEPT !.total_assets = @ - assets_to_return,
                !.idle_assets = @ - assets_after_fee,
                !.lp_supply = @ - lp_amount]

\* The same accounts; a vault that is not active pays out all the same.
InstantWithdrawAccounts(user) ==
  /\ user \in DOMAIN asset.bal
  /\ user \in DOMAIN lp.bal

InstantWithdraw(user, lp_amount) ==
  LET assets_to_return == AssetsToReturn(lp_amount)
      fee              == BpsOf(assets_to_return, config.withdrawal_fee_bps)
      assets_after_fee == assets_to_return - fee
  IN  /\ InstantWithdrawAccounts(user)
      /\ config.withdrawal_wait_period = 0
      /\ lp_amount > 0
      /\ vault.lp_supply > 0
      /\ fee <= assets_to_return
      /\ assets_after_fee <= vault.idle_assets
      /\ CanBurn(lp, user, lp_amount, user, {user})
      /\ CanTransfer(asset, VaultAssetAccount, user, assets_after_fee,
                     VaultAssetAuthority, {user, VaultAssetAuthority})
      /\ assets_to_return <= vault.total_assets
      /\ lp_amount <= vault.lp_supply
      /\ lp' = Burn(lp, user, lp_amount)
      /\ asset' = Transfer(asset, VaultAssetAccount, user, assets_after_fee)
      /\ vault' = AfterWithdrawal(assets_to_return, assets_after_fee, lp_amount)
      /\ UNCHANGED <<config, strategies, now>>

\* The LP mint is a plain SPL mint: a holder may burn LP without the vault.
BurnLp(user, amount) ==
  /\ amount > 0
  /\ CanBurn(lp, user, amount, user, {user})
  /\ lp' = Burn(lp, user, amount)
  /\ UNCHANGED <<vault, config, strategies, asset, now>>

\* The vault's asset account is a token account like any other: a wallet may send it
\* the asset without the vault, whose books then do not hear of it.
DonateAsset(user, amount) ==
  /\ CanTransfer(asset, user, VaultAssetAccount, amount, user, {user})
  /\ asset' = Transfer(asset, user, VaultAssetAccount, amount)
  /\ UNCHANGED <<vault, config, strategies, lp, now>>

-----------------------------------------------------------------------------
(* The manager.  Allocating and deallocating moves no tokens: the vault only  *)
(* keeps books of where its assets are said to be.                            *)

Exists(i) == i < vault.num_strategies

\* A strategy of this vault, and an active one.
AllocateAccounts(i) == Exists(i) /\ strategies[i].is_active

Allocate(signer, i, amount) ==
  /\ signer = Manager
  /\ AllocateAccounts(i)
  /\ amount > 0
  /\ amount <= vault.idle_assets
  /\ strategies[i].position_value + amount <= MaxU64
  /\ vault' = [vault EXCEPT !.idle_assets = @ - amount]
  /\ strategies' = [strategies EXCEPT ![i].position_value = @ + amount]
  /\ UNCHANGED <<config, asset, lp, now>>

\* Uses the accounts of allocate, so the strategy must be active here too.
Deallocate(signer, i, amount) ==
  /\ signer = Manager
  /\ AllocateAccounts(i)
  /\ amount > 0
  /\ amount <= strategies[i].position_value
  /\ vault.idle_assets + amount <= MaxU64
  /\ strategies' = [strategies EXCEPT ![i].position_value = @ - amount]
  /\ vault' = [vault EXCEPT !.idle_assets = @ + amount]
  /\ UNCHANGED <<config, asset, lp, now>>

\* As if a profit were locked without being added to the total.
WrongProfitOnlyLocked(profit) ==
  [vault EXCEPT !.locked_profit = @ + profit, !.locked_profit_ts = now]

AfterProfit(profit) ==
  [vault EXCEPT !.total_assets = @ + profit,
                !.locked_profit = @ + profit,
                !.locked_profit_ts = now]

AfterLoss(loss) ==
  [vault EXCEPT !.total_assets = SaturatingSub(@, loss)]

\* A strategy of this vault, active or not.
ReportYieldAccounts(i) == Exists(i)

\* A report replaces the position by the value given.  A profit is added to
\* total_assets and locked, and the lock of everything locked so far starts
\* again; a loss is taken from total_assets as far as it goes.
ReportYield(signer, i, new_position_value) ==
  LET old_value == strategies[i].position_value
      profit    == new_position_value - old_value
      loss      == old_value - new_position_value
  IN  /\ signer = Manager
      /\ ReportYieldAccounts(i)
      /\ strategies' = [strategies EXCEPT ![i].position_value = new_position_value]
      /\ \/ /\ new_position_value > old_value
            /\ vault.total_assets + profit <= MaxU64
            /\ vault.locked_profit + profit <= MaxU64
            /\ vault' = AfterProfit(profit)
         \/ /\ new_position_value < old_value
            /\ vault' = AfterLoss(loss)
         \/ /\ new_position_value = old_value
            /\ UNCHANGED vault
      /\ UNCHANGED <<config, asset, lp, now>>

-----------------------------------------------------------------------------
(* The admin *)

ManagementFee ==
  LET annual_fee == (EffectiveTotalAssets * config.management_fee_bps)
                      \div BPS_DENOMINATOR
      elapsed    == now - vault.last_fee_harvest_ts
  IN  AsU64((annual_fee * elapsed) \div SecondsPerYear)

\* Assets per LP token, in units of 1 / PRECISION.
CurrentRatio ==
  IF vault.lp_supply > 0
  THEN (EffectiveTotalAssets * PRECISION) \div vault.lp_supply
  ELSE PRECISION

PerformanceFee ==
  IF CurrentRatio > vault.high_water_mark
  THEN LET excess       == CurrentRatio - vault.high_water_mark
           profit_value == (excess * vault.lp_supply) \div PRECISION
       IN  BpsOf(profit_value, config.performance_fee_bps)
  ELSE 0

TotalFeeAssets == ManagementFee + PerformanceFee

FeeLp ==
  IF vault.lp_supply > 0 /\ EffectiveTotalAssets > 0
  THEN AsU64((TotalFeeAssets * vault.lp_supply) \div EffectiveTotalAssets)
  ELSE TotalFeeAssets

\* As if the fee LP were not counted, or the high water mark stayed.
WrongFeeLpNotCounted(fee_assets, fee_lp) ==
  [vault EXCEPT !.last_fee_harvest_ts = now,
                !.accumulated_fees = @ + fee_assets,
                !.high_water_mark = IF CurrentRatio > @ THEN CurrentRatio ELSE @]
WrongMarkNotRaised(fee_assets, fee_lp) ==
  [vault EXCEPT !.lp_supply = @ + fee_lp,
                !.last_fee_harvest_ts = now,
                !.accumulated_fees = @ + fee_assets]

AfterHarvest(fee_assets, fee_lp) ==
  [vault EXCEPT !.lp_supply = @ + fee_lp,
                !.last_fee_harvest_ts = now,
                !.accumulated_fees = @ + fee_assets,
                !.high_water_mark = IF CurrentRatio > @ THEN CurrentRatio ELSE @]

\* The signer has an LP account, which the fee is minted to.
HarvestFeesAccounts(signer) == signer \in DOMAIN lp.bal

\* A harvest with nothing to take returns early: neither the timestamp nor the
\* high water mark moves.
HarvestFees(signer) ==
  /\ HarvestFeesAccounts(signer)
  /\ signer = Admin
  /\ TotalFeeAssets <= MaxU64
  /\ TotalFeeAssets > 0
  /\ CanMint(lp, Admin, FeeLp, LpMintAuthority, {Admin, LpMintAuthority})
  /\ vault.lp_supply + FeeLp <= MaxU64
  /\ vault.accumulated_fees + TotalFeeAssets <= MaxU64
  /\ lp' = MintTo(lp, Admin, FeeLp)
  /\ vault' = AfterHarvest(TotalFeeAssets, FeeLp)
  /\ UNCHANGED <<config, strategies, asset, now>>

AddStrategy(signer) ==
  /\ signer = Admin
  /\ vault.num_strategies < MAX_STRATEGIES
  /\ strategies' = [strategies EXCEPT ![vault.num_strategies] =
                      [position_value |-> 0, is_active |-> TRUE]]
  /\ vault' = [vault EXCEPT !.num_strategies = @ + 1]
  /\ UNCHANGED <<config, asset, lp, now>>

RemoveStrategyAccounts(signer, i) == signer = Admin /\ Exists(i)

\* There is no instruction that activates a strategy again.
RemoveStrategy(signer, i) ==
  /\ RemoveStrategyAccounts(signer, i)
  /\ strategies[i].position_value = 0
  /\ strategies' = [strategies EXCEPT ![i].is_active = FALSE]
  /\ UNCHANGED <<vault, config, asset, lp, now>>

\* Only the performance fee is checked here.
UpdateConfig(signer, new_config) ==
  /\ signer = Admin
  /\ new_config.performance_fee_bps <= MaxPerformanceFee
  /\ config' = new_config
  /\ UNCHANGED <<vault, strategies, asset, lp, now>>

SetActive(signer, is_active) ==
  /\ signer = Admin
  /\ vault' = [vault EXCEPT !.is_active = is_active]
  /\ UNCHANGED <<config, strategies, asset, lp, now>>

\* The clock; MaxTime is a bound of the model.
Tick ==
  /\ now < MaxTime
  /\ now' = now + 1
  /\ UNCHANGED <<vault, config, strategies, asset, lp>>

HolderStep ==
  \E user \in Holders :
    \/ \E amount \in DepositAmounts : Deposit(user, amount)
    \/ \E amount \in WithdrawAmounts : InstantWithdraw(user, amount)
    \/ \E amount \in BurnAmounts : BurnLp(user, amount)
    \/ \E amount \in GiftAmounts : DonateAsset(user, amount)

ManagerStep ==
  \E signer \in Holders \union {Manager}, i \in StrategyIds :
    \/ \E amount \in MoveAmounts :
         \/ Allocate(signer, i, amount)
         \/ Deallocate(signer, i, amount)
    \/ \E value \in ReportedValues : ReportYield(signer, i, value)

AdminStep ==
  \E signer \in Holders \union {Manager} :
    \/ HarvestFees(signer)
    \/ AddStrategy(signer)
    \/ \E i \in StrategyIds : RemoveStrategy(signer, i)
    \/ \E new_config \in Configs : UpdateConfig(signer, new_config)
    \/ \E is_active \in ActiveSettings : SetActive(signer, is_active)

Next == HolderStep \/ ManagerStep \/ AdminStep \/ Tick

Spec == Init /\ [][Next]_vars

-----------------------------------------------------------------------------
(* Properties *)

\* Type invariant: every counter is a u64, the clock is not behind a timestamp of
\* the vault, and a strategy that was not added holds nothing
\* (vault/src/lib.rs:842-916).
TypeOK ==
  /\ vault \in VaultAccount
  /\ vault.last_fee_harvest_ts <= now
  /\ vault.locked_profit_ts <= now
  /\ config \in Configs
  /\ strategies \in [StrategyIds -> StrategyAccount]
  /\ \A i \in StrategyIds : ~ Exists(i) => strategies[i].position_value = 0
  /\ asset \in Ledgers(AssetAccounts)
  /\ lp \in Ledgers(Holders)
  /\ now \in 0 .. MaxTime

\* What the strategies are said to be worth, and with the idle assets, the books.
Positions == Total([i \in StrategyIds |-> strategies[i].position_value], StrategyIds)
Books == vault.idle_assets + Positions

\* The vault never claims more than its idle assets and strategies add up to:
\* withdrawals, losses and reports keep total_assets within the books, so the
\* saturating subtraction of report_yield never hides a shortfall
\* (vault/src/lib.rs:235-237 and 371-376).
TotalWithinBooks == vault.total_assets <= Books

\* The books exceed the total by exit fees and nothing else: the excess grows only in
\* a withdrawal, by its fee, and shrinks only in a report of a loss that total_assets
\* could not bear (vault/src/lib.rs:233-238, 361-375).
Excess == Books - vault.total_assets
ExcessIsExitFees ==
  [][\/ Excess' = Excess
     \/ \E user \in Holders, lp_amount \in WithdrawAmounts :
          /\ InstantWithdraw(user, lp_amount)
          /\ Excess' - Excess = BpsOf(AssetsToReturn(lp_amount), config.withdrawal_fee_bps)
     \/ /\ \E i \in StrategyIds, v \in ReportedValues : ReportYield(Manager, i, v)
        /\ Excess' < Excess
        /\ vault'.total_assets = 0
    ]_vars

\* The vault's own count of LP tokens covers the LP mint, so the burn of a
\* withdrawal never underflows lp_supply and nobody redeems more than the whole
\* (vault/src/lib.rs:157, 237, 461; the mint is burnt from outside too).
LpSupplyCoversMint == lp.supply <= vault.lp_supply

\* What the books claim beyond the tokens in the vault's account is the sum of what
\* was reported, less the gifts: a deposit, a withdrawal and its fee, an allocation, a
\* harvest move books and tokens alike, a report moves the books by its profit or loss,
\* and a gift the tokens by its amount
\* (vault/src/lib.rs:154-158, 234-238, 299-303, 329-331, 355-376).
Gap == Books - asset.bal[VaultAssetAccount]
BooksFollowTokens ==
  [][\/ Gap' = Gap
     \/ \E i \in StrategyIds, v \in ReportedValues :
          /\ ReportYield(Manager, i, v)
          /\ Gap' = Gap + (v - strategies[i].position_value)
     \/ \E user \in Holders, amount \in GiftAmounts :
          /\ DonateAsset(user, amount)
          /\ Gap' = Gap - amount
    ]_vars

\* A deposit or a withdrawal never lowers the effective assets per LP token of
\* the holders who stay, at the moment it runs: rounding and both fees go to
\* those who stay (vault/src/lib.rs:94-122 and 177-201).
HoldersKeepPrice ==
  [][\A user \in Holders :
       /\ \/ \E amount \in DepositAmounts : Deposit(user, amount)
          \/ \E amount \in WithdrawAmounts : InstantWithdraw(user, amount)
       /\ vault.lp_supply > 0
       => EffectiveTotalAssets' * vault.lp_supply
            >= EffectiveTotalAssets * vault.lp_supply'
    ]_vars

\* A gain is charged once: while there are LP tokens, right after a harvest there
\* is nothing left to harvest.  (With none outstanding the share price of the
\* vault is taken as one, whatever it holds, and a second harvest may follow.)
\* (vault/src/lib.rs:390-493).
GainChargedOnce ==
  [][HarvestFees(Admin) /\ vault.lp_supply > 0 => TotalFeeAssets' = 0]_vars
=============================================================================
