---------------------------- MODULE VaultProofs -----------------------------
(***************************************************************************)
(* Theorems about Vault for all constants: types, the LP count of the vault *)
(* against the LP mint, the price that depositors and those who leave are   *)
(* given, and that a gain is charged once.                                  *)
(***************************************************************************)
EXTENDS Vault, SplTokenProofs

LEMMA Names ==
  /\ VaultAssetAccount \in AssetAccounts
  /\ Holders \subseteq AssetAccounts
  /\ VaultAssetAccount \notin Holders
  /\ Admin \in Holders
  /\ Configs \subseteq VaultConfig
  /\ DepositAmounts \subseteq Amount /\ WithdrawAmounts \subseteq Amount
  /\ MoveAmounts \subseteq Amount /\ ReportedValues \subseteq Amount
  /\ BurnAmounts \subseteq Amount /\ GiftAmounts \subseteq Amount
  /\ ActiveSettings \subseteq BOOLEAN
BY VaultAssumption DEF AssetAccounts, Holders

LEMMA Numbers ==
  /\ Amount \subseteq Nat
  /\ PRECISION \in Nat \ {0} /\ BPS_DENOMINATOR \in Nat \ {0}
  /\ SecondsPerYear \in Nat \ {0} /\ MAX_STRATEGIES \in Nat \ {0}
  /\ MaxTime \in Nat /\ MaxU64 \in Nat
BY VaultAssumption, MaxU64Assumption DEF Amount

-----------------------------------------------------------------------------
(* The values the instructions compute *)

\* The fields of the vault in a state of the right type.
LEMMA Fields ==
  ASSUME TypeOK
  PROVE  /\ vault.total_assets \in Nat /\ vault.idle_assets \in Nat
         /\ vault.lp_supply \in Nat /\ vault.locked_profit \in Nat
         /\ vault.high_water_mark \in Nat /\ vault.accumulated_fees \in Nat
         /\ now - vault.last_fee_harvest_ts \in Nat
         /\ now - vault.locked_profit_ts \in Nat
         /\ config \in VaultConfig
         /\ lp.supply \in Nat
<1>1. vault \in VaultAccount
  BY DEF TypeOK
<1>2. /\ vault.total_assets \in Amount /\ vault.idle_assets \in Amount
      /\ vault.lp_supply \in Amount /\ vault.locked_profit \in Amount
      /\ vault.high_water_mark \in Nat /\ vault.accumulated_fees \in Amount
      /\ vault.last_fee_harvest_ts \in 0 .. MaxTime
      /\ vault.locked_profit_ts \in 0 .. MaxTime
  BY <1>1 DEF VaultAccount
<1>3. /\ now \in 0 .. MaxTime
      /\ vault.last_fee_harvest_ts <= now
      /\ vault.locked_profit_ts <= now
      /\ config \in VaultConfig
  BY Names DEF TypeOK
<1>4. /\ now - vault.last_fee_harvest_ts \in Nat
      /\ now - vault.locked_profit_ts \in Nat
  BY <1>2, <1>3, Numbers
<1>5. lp.supply \in Amount
  BY DEF TypeOK, Ledgers
<1> QED BY <1>2, <1>3, <1>4, <1>5, Numbers

\* A fee is a u64, whatever it is taken from.
LEMMA FeeType ==
  ASSUME NEW n \in Nat, NEW bps \in Nat
  PROVE  BpsOf(n, bps) \in Amount
<1>1. n * bps \in Nat
  OBVIOUS
<1>2. (n * bps) \div BPS_DENOMINATOR \in Nat
  BY <1>1, Numbers, DivFloor
<1> QED BY <1>2, CastFits DEF BpsOf, AsU64

\* What is still locked is a u64: after the duration it is zero, and before it the
\* time that is left is positive.
LEMMA LockedType ==
  ASSUME TypeOK
  PROVE  RemainingLocked \in Amount
<1> DEFINE duration == config.locked_profit_degradation
           elapsed  == now - vault.locked_profit_ts
           l        == vault.locked_profit
<1>1. duration \in Nat /\ elapsed \in Nat /\ l \in Nat
  BY Fields DEF VaultConfig
<1>2. CASE l = 0 \/ elapsed >= duration
  BY <1>2, MaxU64Assumption DEF RemainingLocked, Amount
<1>3. CASE ~ (l = 0 \/ elapsed >= duration)
  <2>1. duration \in Nat \ {0} /\ duration - elapsed \in Nat
    BY <1>1, <1>3
  <2>2. l * (duration - elapsed) \in Nat
    BY <1>1, <2>1
  <2>3. (l * (duration - elapsed)) \div duration \in Nat
    BY <2>1, <2>2, DivFloor
  <2>4. RemainingLocked = AsU64((l * (duration - elapsed)) \div duration)
    BY <1>3 DEF RemainingLocked
  <2> QED BY <2>3, <2>4, CastFits DEF AsU64
<1> QED BY <1>2, <1>3

LEMMA EffectiveType ==
  ASSUME TypeOK
  PROVE  /\ EffectiveTotalAssets \in Nat
         /\ EffectiveTotalAssets =
              IF RemainingLocked > vault.total_assets THEN 0
              ELSE vault.total_assets - RemainingLocked
<1>1. vault.total_assets \in Nat /\ RemainingLocked \in Nat
  BY LockedType, Fields, Numbers
<1>2. EffectiveTotalAssets = IF RemainingLocked > vault.total_assets THEN 0
                             ELSE vault.total_assets - RemainingLocked
  BY DEF EffectiveTotalAssets, SaturatingSub
<1>3. EffectiveTotalAssets \in Nat
  BY <1>1, <1>2
<1> QED BY <1>2, <1>3

\* The LP tokens of a deposit are a u64, and while there are LP tokens they are
\* worth no more than what was paid.
LEMMA MintedShares ==
  ASSUME TypeOK, NEW amount \in Amount, CanPrice
  PROVE  /\ LpToMint(amount) \in Amount
         /\ vault.lp_supply > 0 =>
              LpToMint(amount) * EffectiveTotalAssets <= amount * vault.lp_supply
<1> DEFINE e == EffectiveTotalAssets
           s == vault.lp_supply
           q == (amount * s) \div e
<1>1. amount \in Nat /\ e \in Nat /\ s \in Nat
  BY Fields, EffectiveType, Numbers
<1>2. CASE s = 0
  BY <1>1, <1>2 DEF LpToMint
<1>3. CASE s > 0
  <2>1. e \in Nat \ {0}
    BY <1>1, <1>3 DEF CanPrice
  <2>2. amount * s \in Nat
    BY <1>1
  <2>3. q \in Nat /\ q * e <= amount * s
    BY <2>1, <2>2, DivFloor
  <2>4. LpToMint(amount) = q % (MaxU64 + 1)
    BY <1>1, <1>3 DEF LpToMint, AsU64
  <2>5. q % (MaxU64 + 1) \in Nat /\ q % (MaxU64 + 1) <= q
    BY <2>3, Numbers
  <2>6. (q % (MaxU64 + 1)) * e <= q * e
    BY <2>1, <2>5, <2>3
  <2>7. q % (MaxU64 + 1) \in Amount
    BY <2>3, CastFits
  <2> QED BY <2>1, <2>2, <2>3, <2>4, <2>5, <2>6, <2>7
<1> QED BY <1>1, <1>2, <1>3

\* What a withdrawal redeems is a u64 and no more than its part of the vault.
LEMMA RedeemedAssets ==
  ASSUME TypeOK, NEW lp_amount \in Amount, vault.lp_supply > 0
  PROVE  /\ AssetsToReturn(lp_amount) \in Amount
         /\ AssetsToReturn(lp_amount) * vault.lp_supply
              <= lp_amount * EffectiveTotalAssets
<1> DEFINE e == EffectiveTotalAssets
           s == vault.lp_supply
           q == (lp_amount * e) \div s
<1>1. lp_amount \in Nat /\ e \in Nat /\ s \in Nat \ {0}
  BY Fields, EffectiveType, Numbers
<1>2. lp_amount * e \in Nat
  BY <1>1
<1>3. q \in Nat /\ q * s <= lp_amount * e
  BY <1>1, <1>2, DivFloor
<1>4. q % (MaxU64 + 1) \in Nat /\ q % (MaxU64 + 1) <= q
  BY <1>3, Numbers
<1>5. (q % (MaxU64 + 1)) * s <= q * s
  BY <1>1, <1>3, <1>4
<1>6. q % (MaxU64 + 1) \in Amount
  BY <1>3, CastFits
<1> QED BY <1>1, <1>2, <1>3, <1>4, <1>5, <1>6 DEF AssetsToReturn, AsU64

-----------------------------------------------------------------------------
(* The inductive invariant: the types hold by themselves, the LP count needs *)
(* them.                                                                     *)

IInv == TypeOK /\ LpSupplyCoversMint

LEMMA InitIInv == Init => IInv
<1> SUFFICES ASSUME Init PROVE IInv
  OBVIOUS
<1>1. vault \in VaultAccount
  BY Numbers, MaxU64Assumption DEF Init, VaultAccount, Amount
<1>2. /\ config \in Configs
      /\ now = 0 /\ now \in 0 .. MaxTime
      /\ vault.last_fee_harvest_ts <= now /\ vault.locked_profit_ts <= now
  BY Numbers DEF Init
<1>3. /\ strategies \in [StrategyIds -> StrategyAccount]
      /\ \A i \in StrategyIds : strategies[i].position_value = 0
  BY MaxU64Assumption DEF Init, StrategyAccount, Amount
<1>4. asset \in Ledgers(AssetAccounts)
  BY VaultAssumption, MaxU64Assumption DEF Init, InitializeVaultAccounts, Ledgers, Amount
<1>5. lp \in Ledgers(Holders) /\ lp.supply = 0 /\ vault.lp_supply = 0
  BY MaxU64Assumption DEF Init, InitializeVaultAccounts, Ledgers, Amount
<1> QED BY <1>1, <1>2, <1>3, <1>4, <1>5 DEF IInv, TypeOK, LpSupplyCoversMint

\* A deposit raises both LP counts by the same number, which CanMint bounds.
LEMMA DepositIInv ==
  ASSUME IInv, NEW user \in Holders, NEW amount \in Amount, Deposit(user, amount)
  PROVE  IInv'
<1> DEFINE minted == LpToMint(amount)
           fee    == BpsOf(minted, config.deposit_fee_bps)
           net    == minted - fee
<1>1. /\ vault.total_assets + amount <= config.max_cap
      /\ CanPrice /\ fee <= minted
      /\ CanTransfer(asset, user, VaultAssetAccount, amount, user, {user})
      /\ CanMint(lp, user, net, LpMintAuthority, {user, LpMintAuthority})
      /\ vault.idle_assets + amount <= MaxU64
      /\ vault.lp_supply + net <= MaxU64
      /\ vault.accumulated_fees + fee <= MaxU64
      /\ asset' = Transfer(asset, user, VaultAssetAccount, amount)
      /\ lp' = MintTo(lp, user, net)
      /\ vault' = [vault EXCEPT !.total_assets = @ + amount,
                                !.idle_assets = @ + amount,
                                !.lp_supply = @ + net,
                                !.accumulated_fees = @ + fee]
      /\ UNCHANGED <<config, strategies, now>>
  BY DEF Deposit
<1>2. /\ TypeOK /\ amount \in Nat /\ minted \in Nat /\ config \in VaultConfig
  BY <1>1, Fields, MintedShares, Numbers DEF IInv
<1>3. config.deposit_fee_bps \in Nat
  BY <1>2 DEF VaultConfig
<1>4. fee \in Amount
  BY <1>2, <1>3, FeeType
<1> HIDE DEF fee, minted
<1>5. fee \in Nat /\ net \in Nat
  BY <1>1, <1>2, <1>4, Numbers
<1> HIDE DEF net
<1>6. asset' \in Ledgers(AssetAccounts)
  BY <1>1, <1>2, Names, TransferLedger DEF TypeOK
<1>7. lp' \in Ledgers(Holders)
  BY <1>1, <1>2, <1>5, MintToLedger DEF TypeOK
<1>8. lp'.supply = lp.supply + net
  BY <1>1 DEF MintTo
<1>9. /\ vault.total_assets + amount \in Amount
      /\ vault.idle_assets + amount \in Amount
      /\ vault.lp_supply + net \in Amount
      /\ vault.accumulated_fees + fee \in Amount
  BY <1>1, <1>2, <1>5, Fields, MaxU64Assumption DEF VaultConfig, Amount
<1>10. vault' \in VaultAccount
  BY <1>1, <1>2, <1>9 DEF TypeOK, VaultAccount
<1>11. /\ vault'.last_fee_harvest_ts = vault.last_fee_harvest_ts
      /\ vault'.locked_profit_ts = vault.locked_profit_ts
      /\ vault'.num_strategies = vault.num_strategies
      /\ vault'.lp_supply = vault.lp_supply + net
  BY <1>1, <1>2 DEF TypeOK, VaultAccount
<1>12. TypeOK'
  BY <1>1, <1>2, <1>6, <1>7, <1>10, <1>11 DEF TypeOK, Exists
<1> QED BY <1>2, <1>5, <1>8, <1>11, <1>12, Fields DEF IInv, LpSupplyCoversMint

LEMMA WithdrawIInv ==
  ASSUME IInv, NEW user \in Holders, NEW lp_amount \in Amount,
         InstantWithdraw(user, lp_amount)
  PROVE  IInv'
<1> DEFINE back == AssetsToReturn(lp_amount)
           fee  == BpsOf(back, config.withdrawal_fee_bps)
           net  == back - fee
<1>1. /\ vault.lp_supply > 0 /\ fee <= back /\ net <= vault.idle_assets
      /\ CanBurn(lp, user, lp_amount, user, {user})
      /\ CanTransfer(asset, VaultAssetAccount, user, net,
                     VaultAssetAuthority, {user, VaultAssetAuthority})
      /\ back <= vault.total_assets
      /\ lp_amount <= vault.lp_supply
      /\ lp' = Burn(lp, user, lp_amount)
      /\ asset' = Transfer(asset, VaultAssetAccount, user, net)
      /\ vault' = [vault EXCEPT !.total_assets = @ - back,
                                !.idle_assets = @ - net,
                                !.lp_supply = @ - lp_amount]
      /\ UNCHANGED <<config, strategies, now>>
  BY DEF InstantWithdraw, AfterWithdrawal
<1>2. TypeOK /\ lp_amount \in Nat /\ back \in Amount /\ config \in VaultConfig
  BY <1>1, Fields, RedeemedAssets, Numbers DEF IInv
<1>3. config.withdrawal_fee_bps \in Nat /\ back \in Nat
  BY <1>2, Numbers DEF VaultConfig
<1>4. fee \in Amount
  BY <1>3, FeeType
<1> HIDE DEF back, fee
<1>5. net \in Nat
  BY <1>1, <1>3, <1>4, Numbers
<1> HIDE DEF net
<1>6. asset' \in Ledgers(AssetAccounts)
  BY <1>1, <1>2, <1>5, Names, TransferLedger DEF TypeOK
<1>7. lp' \in Ledgers(Holders)
  BY <1>1, <1>2, BurnLedger DEF TypeOK
<1>8. lp'.supply = lp.supply - lp_amount
  BY <1>1 DEF Burn
<1>9. /\ vault.total_assets - back \in Amount
      /\ vault.idle_assets - net \in Amount
      /\ vault.lp_supply - lp_amount \in Amount
  <2>1. /\ vault.total_assets \in Amount /\ vault.idle_assets \in Amount
        /\ vault.lp_supply \in Amount
    BY <1>2 DEF TypeOK, VaultAccount
  <2> QED BY <1>1, <1>2, <1>3, <1>5, <2>1, MaxU64Assumption DEF Amount
<1>10. vault' \in VaultAccount
  BY <1>1, <1>2, <1>9 DEF TypeOK, VaultAccount
<1>11. /\ vault'.last_fee_harvest_ts = vault.last_fee_harvest_ts
       /\ vault'.locked_profit_ts = vault.locked_profit_ts
       /\ vault'.num_strategies = vault.num_strategies
       /\ vault'.lp_supply = vault.lp_supply - lp_amount
  BY <1>1, <1>2 DEF TypeOK, VaultAccount
<1>12. TypeOK'
  BY <1>1, <1>2, <1>6, <1>7, <1>10, <1>11 DEF TypeOK, Exists
<1> QED BY <1>2, <1>8, <1>11, <1>12, Fields DEF IInv, LpSupplyCoversMint

LEMMA BurnIInv ==
  ASSUME IInv, NEW user \in Holders, NEW amount \in Amount, BurnLp(user, amount)
  PROVE  IInv'
<1>1. /\ CanBurn(lp, user, amount, user, {user})
      /\ lp' = Burn(lp, user, amount)
      /\ UNCHANGED <<vault, config, strategies, asset, now>>
  BY DEF BurnLp
<1>2. amount \in Nat /\ TypeOK
  BY Numbers DEF IInv
<1>3. lp' \in Ledgers(Holders)
  BY <1>1, <1>2, BurnLedger DEF TypeOK
<1>4. lp'.supply = lp.supply - amount
  BY <1>1 DEF Burn
<1>5. TypeOK'
  BY <1>1, <1>2, <1>3 DEF TypeOK, Exists
<1> QED BY <1>1, <1>2, <1>4, <1>5, Fields DEF IInv, LpSupplyCoversMint

LEMMA DonateIInv ==
  ASSUME IInv, NEW user \in Holders, NEW amount \in Amount, DonateAsset(user, amount)
  PROVE  IInv'
<1>1. /\ CanTransfer(asset, user, VaultAssetAccount, amount, user, {user})
      /\ asset' = Transfer(asset, user, VaultAssetAccount, amount)
      /\ UNCHANGED <<vault, config, strategies, lp, now>>
  BY DEF DonateAsset
<1>2. amount \in Nat /\ TypeOK
  BY Numbers DEF IInv
<1>3. asset' \in Ledgers(AssetAccounts)
  BY <1>1, <1>2, Names, TransferLedger DEF TypeOK
<1>4. TypeOK'
  BY <1>1, <1>2, <1>3 DEF TypeOK, Exists
<1> QED BY <1>1, <1>4 DEF IInv, LpSupplyCoversMint

LEMMA AllocateIInv ==
  ASSUME IInv, NEW signer, NEW i \in StrategyIds, NEW amount \in Amount,
         Allocate(signer, i, amount) \/ Deallocate(signer, i, amount)
  PROVE  IInv'
<1>1. /\ Exists(i)
      /\ UNCHANGED <<config, asset, lp, now>>
  BY DEF Allocate, Deallocate, AllocateAccounts
<1>2. PICK idle, position :
        /\ idle \in Amount /\ position \in Amount
        /\ vault' = [vault EXCEPT !.idle_assets = idle]
        /\ strategies' = [strategies EXCEPT ![i].position_value = position]
  <2>1. /\ vault.idle_assets \in Amount /\ strategies[i].position_value \in Amount
    BY DEF IInv, TypeOK, VaultAccount, StrategyAccount
  <2>2. CASE Allocate(signer, i, amount)
    <3>1. /\ vault.idle_assets - amount \in Amount
          /\ strategies[i].position_value + amount \in Amount
      BY <2>1, <2>2, MaxU64Assumption DEF Allocate, Amount
    <3> QED BY <2>2, <3>1 DEF Allocate
  <2>3. CASE Deallocate(signer, i, amount)
    <3>1. /\ vault.idle_assets + amount \in Amount
          /\ strategies[i].position_value - amount \in Amount
      BY <2>1, <2>3, MaxU64Assumption DEF Deallocate, Amount
    <3> QED BY <2>3, <3>1 DEF Deallocate
  <2> QED BY <2>2, <2>3
<1>3. TypeOK
  BY DEF IInv
<1>4. /\ vault' \in VaultAccount
      /\ vault'.last_fee_harvest_ts = vault.last_fee_harvest_ts
      /\ vault'.locked_profit_ts = vault.locked_profit_ts
      /\ vault'.num_strategies = vault.num_strategies
      /\ vault'.lp_supply = vault.lp_supply
  BY <1>2, <1>3 DEF TypeOK, VaultAccount
<1>5. /\ strategies' \in [StrategyIds -> StrategyAccount]
      /\ \A j \in StrategyIds \ {i} : strategies'[j] = strategies[j]
  BY <1>2, <1>3 DEF TypeOK, StrategyAccount
<1>6. TypeOK'
  BY <1>1, <1>3, <1>4, <1>5 DEF TypeOK, Exists
<1> QED BY <1>1, <1>4, <1>6 DEF IInv, LpSupplyCoversMint

LEMMA ReportIInv ==
  ASSUME IInv, NEW signer, NEW i \in StrategyIds, NEW value \in Amount,
         ReportYield(signer, i, value)
  PROVE  IInv'
<1> DEFINE old    == strategies[i].position_value
           profit == value - old
           loss   == old - value
<1>1. /\ Exists(i)
      /\ strategies' = [strategies EXCEPT ![i].position_value = value]
      /\ UNCHANGED <<config, asset, lp, now>>
  BY DEF ReportYield, ReportYieldAccounts
<1>2. TypeOK
  BY DEF IInv
<1>3. old \in Nat /\ value \in Nat
  BY <1>2, Numbers DEF TypeOK, StrategyAccount
<1>4. PICK total, locked, ts :
        /\ total \in Amount /\ locked \in Amount /\ ts \in 0 .. MaxTime /\ ts <= now
        /\ vault' = [vault EXCEPT !.total_assets = total,
                                  !.locked_profit = locked,
                                  !.locked_profit_ts = ts]
  <2>1. /\ vault \in VaultAccount
        /\ vault.total_assets \in Amount /\ vault.locked_profit \in Amount
        /\ vault.locked_profit_ts \in 0 .. MaxTime /\ vault.locked_profit_ts <= now
        /\ now \in 0 .. MaxTime /\ now <= now
    BY <1>2, Numbers DEF TypeOK, VaultAccount
  <2>2. CASE value > old
    <3>1. /\ vault.total_assets + profit <= MaxU64
          /\ vault.locked_profit + profit <= MaxU64
          /\ vault' = AfterProfit(profit)
      BY <1>3, <2>2 DEF ReportYield
    <3>2. profit \in Nat
      BY <1>3, <2>2
    <3> HIDE DEF profit
    <3>3. vault.total_assets + profit \in Amount /\ vault.locked_profit + profit \in Amount
      BY <2>1, <3>1, <3>2, MaxU64Assumption DEF Amount
    <3> DEFINE total == vault.total_assets + profit
               locked == vault.locked_profit + profit
    <3>4. vault' = [vault EXCEPT !.total_assets = total,
                                 !.locked_profit = locked,
                                 !.locked_profit_ts = now]
      BY <3>1 DEF AfterProfit
    <3>5. total \in Amount /\ locked \in Amount
      BY <3>3
    <3> HIDE DEF total, locked
    <3> WITNESS total, locked, now
    <3> QED BY <2>1, <3>4, <3>5
  <2>3. CASE value < old
    <3>1. vault' = [vault EXCEPT !.total_assets = SaturatingSub(@, loss)]
      BY <1>3, <2>3 DEF ReportYield, AfterLoss
    <3>2. loss \in Nat
      BY <1>3, <2>3
    <3> HIDE DEF loss
    <3>3. SaturatingSub(vault.total_assets, loss) \in Amount
      BY <2>1, <3>2, MaxU64Assumption DEF SaturatingSub, Amount
    <3>4. vault' = [vault EXCEPT !.total_assets = SaturatingSub(vault.total_assets, loss),
                                 !.locked_profit = vault.locked_profit,
                                 !.locked_profit_ts = vault.locked_profit_ts]
      BY <2>1, <3>1 DEF VaultAccount
    <3> QED BY <2>1, <3>3, <3>4
  <2>4. CASE value = old
    <3>1. vault' = vault
      BY <1>3, <2>4 DEF ReportYield
    <3>2. vault' = [vault EXCEPT !.total_assets = vault.total_assets,
                                 !.locked_profit = vault.locked_profit,
                                 !.locked_profit_ts = vault.locked_profit_ts]
      BY <2>1, <3>1 DEF VaultAccount
    <3> QED BY <2>1, <3>2
  <2>5. value > old \/ value < old \/ value = old
    BY <1>3
  <2> HIDE DEF old
  <2> QED BY <2>2, <2>3, <2>4, <2>5
<1>5. /\ vault' \in VaultAccount
      /\ vault'.last_fee_harvest_ts = vault.last_fee_harvest_ts
      /\ vault'.locked_profit_ts <= now
      /\ vault'.num_strategies = vault.num_strategies
      /\ vault'.lp_supply = vault.lp_supply
  BY <1>2, <1>4 DEF TypeOK, VaultAccount
<1>6. /\ strategies' \in [StrategyIds -> StrategyAccount]
      /\ \A j \in StrategyIds \ {i} : strategies'[j] = strategies[j]
  BY <1>1, <1>2 DEF TypeOK, StrategyAccount
<1>7. TypeOK'
  BY <1>1, <1>2, <1>5, <1>6 DEF TypeOK, Exists
<1> QED BY <1>1, <1>5, <1>7 DEF IInv, LpSupplyCoversMint

\* No fee is negative, nor are the LP tokens minted for it.
LEMMA FeeTypes ==
  ASSUME TypeOK
  PROVE  /\ CurrentRatio \in Nat /\ TotalFeeAssets \in Nat /\ FeeLp \in Nat
<1>1. ManagementFee \in Nat
  <2> DEFINE annual  == (EffectiveTotalAssets * config.management_fee_bps)
                           \div BPS_DENOMINATOR
             elapsed == now - vault.last_fee_harvest_ts
  <2>1. EffectiveTotalAssets \in Nat /\ config.management_fee_bps \in Nat
    BY EffectiveType, Fields DEF VaultConfig
  <2>2. EffectiveTotalAssets * config.management_fee_bps \in Nat
    BY <2>1
  <2>3. annual \in Nat
    BY <2>2, Numbers, DivFloor
  <2>4. elapsed \in Nat
    BY Fields
  <2> HIDE DEF annual, elapsed
  <2>5. annual * elapsed \in Nat
    BY <2>3, <2>4
  <2>6. (annual * elapsed) \div SecondsPerYear \in Nat
    BY <2>5, Numbers, DivFloor
  <2>7. ManagementFee = AsU64((annual * elapsed) \div SecondsPerYear)
    BY DEF ManagementFee, annual, elapsed
  <2> QED BY <2>6, <2>7, CastFits, Numbers DEF AsU64
<1>2. CurrentRatio \in Nat
  <2>1. EffectiveTotalAssets * PRECISION \in Nat /\ vault.lp_supply \in Nat
    BY EffectiveType, Numbers, Fields
  <2>2. CASE vault.lp_supply > 0
    BY <2>1, <2>2, DivFloor DEF CurrentRatio
  <2>3. CASE ~ (vault.lp_supply > 0)
    BY <2>3, Numbers DEF CurrentRatio
  <2> QED BY <2>2, <2>3
<1>3. PerformanceFee \in Nat
  <2>1. CASE CurrentRatio > vault.high_water_mark
    <3> DEFINE excess == CurrentRatio - vault.high_water_mark
               profit == (excess * vault.lp_supply) \div PRECISION
    <3>1. excess \in Nat /\ vault.lp_supply \in Nat
      BY <1>2, <2>1, Fields
    <3>2. excess * vault.lp_supply \in Nat
      BY <3>1
    <3>3. profit \in Nat
      BY <3>2, Numbers, DivFloor
    <3> HIDE DEF profit
    <3>4. config.performance_fee_bps \in Nat
      BY Fields DEF VaultConfig
    <3>5. BpsOf(profit, config.performance_fee_bps) \in Nat
      BY <3>3, <3>4, FeeType, Numbers
    <3>6. PerformanceFee = BpsOf(profit, config.performance_fee_bps)
      BY <2>1 DEF PerformanceFee, profit
    <3> QED BY <3>5, <3>6
  <2>2. CASE ~ (CurrentRatio > vault.high_water_mark)
    BY <2>2 DEF PerformanceFee
  <2> QED BY <2>1, <2>2
<1>4. TotalFeeAssets \in Nat
  BY <1>1, <1>3 DEF TotalFeeAssets
<1>5. FeeLp \in Nat
  <2>1. /\ TotalFeeAssets * vault.lp_supply \in Nat
        /\ EffectiveTotalAssets \in Nat
    BY <1>4, Fields, EffectiveType
  <2>2. CASE vault.lp_supply > 0 /\ EffectiveTotalAssets > 0
    <3>1. (TotalFeeAssets * vault.lp_supply) \div EffectiveTotalAssets \in Nat
      BY <2>1, <2>2, DivFloor
    <3> QED BY <2>2, <3>1, CastFits, Numbers DEF FeeLp, AsU64
  <2>3. CASE ~ (vault.lp_supply > 0 /\ EffectiveTotalAssets > 0)
    BY <1>4, <2>3 DEF FeeLp
  <2> QED BY <2>2, <2>3
<1> QED BY <1>2, <1>4, <1>5

\* A harvest raises both LP counts by the same number, which CanMint bounds.
LEMMA HarvestIInv ==
  ASSUME IInv, NEW signer, HarvestFees(signer)
  PROVE  IInv'
<1>1. /\ TotalFeeAssets > 0 /\ TotalFeeAssets <= MaxU64
      /\ CanMint(lp, Admin, FeeLp, LpMintAuthority, {Admin, LpMintAuthority})
      /\ vault.lp_supply + FeeLp <= MaxU64
      /\ vault.accumulated_fees + TotalFeeAssets <= MaxU64
      /\ lp' = MintTo(lp, Admin, FeeLp)
      /\ vault' = AfterHarvest(TotalFeeAssets, FeeLp)
      /\ UNCHANGED <<config, strategies, asset, now>>
  BY DEF HarvestFees
<1>2. TypeOK
  BY DEF IInv
<1>3. CurrentRatio \in Nat /\ TotalFeeAssets \in Nat /\ FeeLp \in Nat
  BY <1>2, FeeTypes
<1>4. lp' \in Ledgers(Holders)
  BY <1>1, <1>2, <1>3, Names, MintToLedger DEF TypeOK
<1>5. lp'.supply = lp.supply + FeeLp
  BY <1>1 DEF MintTo
<1>6. PICK mark \in Nat :
         vault' = [vault EXCEPT !.lp_supply = vault.lp_supply + FeeLp,
                                !.last_fee_harvest_ts = now,
                                !.accumulated_fees = vault.accumulated_fees + TotalFeeAssets,
                                !.high_water_mark = mark]
  <2>1. vault.high_water_mark \in Nat
    BY <1>2, Fields
  <2>2. CASE CurrentRatio > vault.high_water_mark
    BY <1>1, <1>3, <2>2 DEF AfterHarvest
  <2>3. CASE ~ (CurrentRatio > vault.high_water_mark)
    BY <1>1, <2>1, <2>3 DEF AfterHarvest
  <2> QED BY <2>2, <2>3
<1>7. /\ vault.lp_supply + FeeLp \in Amount
       /\ vault.accumulated_fees + TotalFeeAssets \in Amount
  BY <1>1, <1>2, <1>3, Fields, MaxU64Assumption DEF Amount
<1>8. /\ vault' \in VaultAccount
       /\ vault'.last_fee_harvest_ts = now
       /\ vault'.locked_profit_ts = vault.locked_profit_ts
       /\ vault'.num_strategies = vault.num_strategies
       /\ vault'.lp_supply = vault.lp_supply + FeeLp
  BY <1>2, <1>6, <1>7 DEF TypeOK, VaultAccount
<1>9. now <= now
  BY <1>2, Numbers DEF TypeOK
<1>10. TypeOK'
  BY <1>1, <1>2, <1>4, <1>8, <1>9 DEF TypeOK, Exists
<1> QED BY <1>2, <1>3, <1>5, <1>8, <1>10, Fields DEF IInv, LpSupplyCoversMint

\* A new strategy takes the index num_strategies and holds nothing.
LEMMA StrategyIInv ==
  ASSUME IInv, NEW signer,
         AddStrategy(signer) \/ \E i \in StrategyIds : RemoveStrategy(signer, i)
  PROVE  IInv'
<1>1. TypeOK
  BY DEF IInv
<1>2. CASE AddStrategy(signer)
  <2> DEFINE n == vault.num_strategies
  <2>1. /\ n < MAX_STRATEGIES
        /\ strategies' = [strategies EXCEPT ![n] =
                            [position_value |-> 0, is_active |-> TRUE]]
        /\ vault' = [vault EXCEPT !.num_strategies = n + 1]
        /\ UNCHANGED <<config, asset, lp, now>>
    BY <1>2 DEF AddStrategy
  <2>2. n \in 0 .. MAX_STRATEGIES /\ n \in Nat /\ n \in StrategyIds
    BY <1>1, <2>1, Numbers DEF TypeOK, VaultAccount, StrategyIds
  <2>3. n + 1 \in 0 .. MAX_STRATEGIES
    BY <2>1, <2>2, Numbers
  <2>4. /\ vault' \in VaultAccount
        /\ vault'.last_fee_harvest_ts = vault.last_fee_harvest_ts
        /\ vault'.locked_profit_ts = vault.locked_profit_ts
        /\ vault'.num_strategies = n + 1
        /\ vault'.lp_supply = vault.lp_supply
    BY <1>1, <2>1, <2>3 DEF TypeOK, VaultAccount
  <2>5. /\ strategies' \in [StrategyIds -> StrategyAccount]
        /\ strategies'[n].position_value = 0
        /\ \A j \in StrategyIds \ {n} : strategies'[j] = strategies[j]
    BY <1>1, <2>1, <2>2, MaxU64Assumption DEF TypeOK, StrategyAccount, Amount
  <2>6. ASSUME NEW j \in StrategyIds, ~ (j < n + 1)
        PROVE  strategies'[j].position_value = 0
    BY <1>1, <2>2, <2>5, <2>6 DEF TypeOK, Exists, StrategyIds
  <2>7. TypeOK'
    BY <1>1, <2>1, <2>4, <2>5, <2>6 DEF TypeOK, Exists
  <2> QED BY <2>1, <2>4, <2>7 DEF IInv, LpSupplyCoversMint
<1>3. ASSUME NEW i \in StrategyIds, RemoveStrategy(signer, i)
      PROVE  IInv'
  <2>1. /\ strategies' = [strategies EXCEPT ![i].is_active = FALSE]
        /\ UNCHANGED <<vault, config, asset, lp, now>>
    BY <1>3 DEF RemoveStrategy
  <2>2. /\ strategies' \in [StrategyIds -> StrategyAccount]
        /\ \A j \in StrategyIds :
             strategies'[j].position_value = strategies[j].position_value
    BY <1>1, <2>1 DEF TypeOK, StrategyAccount
  <2>3. TypeOK'
    BY <1>1, <2>1, <2>2 DEF TypeOK, Exists
  <2> QED BY <2>1, <2>3 DEF IInv, LpSupplyCoversMint
<1> QED BY <1>2, <1>3

LEMMA SettingIInv ==
  ASSUME IInv, NEW signer,
         \/ \E new_config \in Configs : UpdateConfig(signer, new_config)
         \/ \E is_active \in ActiveSettings : SetActive(signer, is_active)
         \/ Tick
         \/ UNCHANGED vars
  PROVE  IInv'
<1>1. TypeOK
  BY DEF IInv
<1>2. ASSUME NEW new_config \in Configs, UpdateConfig(signer, new_config)
      PROVE  IInv'
  BY <1>1, <1>2 DEF UpdateConfig, TypeOK, Exists, IInv, LpSupplyCoversMint
<1>3. ASSUME NEW is_active \in BOOLEAN, SetActive(signer, is_active)
      PROVE  IInv'
  <2>1. /\ vault' = [vault EXCEPT !.is_active = is_active]
        /\ UNCHANGED <<config, strategies, asset, lp, now>>
    BY <1>3 DEF SetActive
  <2>2. /\ vault' \in VaultAccount
        /\ vault'.last_fee_harvest_ts = vault.last_fee_harvest_ts
        /\ vault'.locked_profit_ts = vault.locked_profit_ts
        /\ vault'.num_strategies = vault.num_strategies
        /\ vault'.lp_supply = vault.lp_supply
    BY <1>1, <2>1 DEF TypeOK, VaultAccount
  <2>3. TypeOK'
    BY <1>1, <2>1, <2>2 DEF TypeOK, Exists
  <2> QED BY <2>1, <2>2, <2>3 DEF IInv, LpSupplyCoversMint
<1>4. CASE Tick
  <2>1. /\ now < MaxTime /\ now' = now + 1
        /\ UNCHANGED <<vault, config, strategies, asset, lp>>
    BY <1>4 DEF Tick
  <2>2. /\ now' \in 0 .. MaxTime
        /\ vault.last_fee_harvest_ts <= now'
        /\ vault.locked_profit_ts <= now'
    BY <1>1, <2>1, Numbers DEF TypeOK, VaultAccount
  <2>3. TypeOK'
    BY <1>1, <2>1, <2>2 DEF TypeOK, Exists
  <2> QED BY <2>1, <2>3 DEF IInv, LpSupplyCoversMint
<1>5. CASE UNCHANGED vars
  BY <1>1, <1>5 DEF vars, TypeOK, Exists, IInv, LpSupplyCoversMint
<1> QED BY <1>2, <1>3, <1>4, <1>5, Names

LEMMA NextIInv == IInv /\ [Next]_vars => IInv'
<1> SUFFICES ASSUME IInv, [Next]_vars PROVE IInv'
  OBVIOUS
<1>1. CASE HolderStep
  BY <1>1, Names, DepositIInv, WithdrawIInv, BurnIInv, DonateIInv DEF HolderStep
<1>2. CASE ManagerStep
  BY <1>2, Names, AllocateIInv, ReportIInv DEF ManagerStep
<1>3. CASE AdminStep
  BY <1>3, HarvestIInv, StrategyIInv, SettingIInv DEF AdminStep
<1>4. CASE Tick \/ UNCHANGED vars
  BY <1>4, SettingIInv
<1> QED BY <1>1, <1>2, <1>3, <1>4 DEF Next

-----------------------------------------------------------------------------
(* The price that holders are given *)

\* The lock depends on no field that a deposit or a withdrawal writes.
LEMMA LockKept ==
  ASSUME TypeOK, config' = config, now' = now,
         vault'.locked_profit = vault.locked_profit,
         vault'.locked_profit_ts = vault.locked_profit_ts
  PROVE  RemainingLocked' = RemainingLocked
BY DEF RemainingLocked, AsU64

\* With LP outstanding a deposit is priced at total_assets less the lock, both
\* before and after, and mints no more than its part.
LEMMA DepositKeepsPrice ==
  ASSUME IInv, NEW user \in Holders, NEW amount \in Amount, Deposit(user, amount),
         vault.lp_supply > 0
  PROVE  EffectiveTotalAssets' * vault.lp_supply
           >= EffectiveTotalAssets * vault.lp_supply'
<1> DEFINE minted == LpToMint(amount)
           fee    == BpsOf(minted, config.deposit_fee_bps)
           net    == minted - fee
           E      == EffectiveTotalAssets
           L      == vault.lp_supply
           T      == vault.total_assets
           R      == RemainingLocked
<1>1. /\ CanPrice /\ fee <= minted
      /\ vault' = [vault EXCEPT !.total_assets = @ + amount,
                                !.idle_assets = @ + amount,
                                !.lp_supply = @ + net,
                                !.accumulated_fees = @ + fee]
      /\ config' = config /\ now' = now
  BY DEF Deposit
<1>2. TypeOK /\ TypeOK'
  BY DepositIInv DEF IInv
<1>3. /\ vault'.total_assets = T + amount
      /\ vault'.lp_supply = L + net
      /\ vault'.locked_profit = vault.locked_profit
      /\ vault'.locked_profit_ts = vault.locked_profit_ts
  BY <1>1, <1>2 DEF TypeOK, VaultAccount
<1>4. RemainingLocked' = R
  BY <1>1, <1>2, <1>3, LockKept
<1>5. /\ T \in Nat /\ R \in Nat /\ E \in Nat /\ L \in Nat /\ amount \in Nat
      /\ E > 0 /\ E = IF R > T THEN 0 ELSE T - R
  <2>1. /\ T \in Nat /\ R \in Nat /\ L \in Nat /\ amount \in Nat
    BY <1>2, Fields, LockedType, Numbers
  <2>2. E \in Nat /\ E = IF R > T THEN 0 ELSE T - R
    BY <1>2, EffectiveType
  <2>3. E > 0
    BY <1>1 DEF CanPrice
  <2> QED BY <2>1, <2>2, <2>3
<1>6. EffectiveTotalAssets' = IF R > T + amount THEN 0 ELSE T + amount - R
  BY <1>3, <1>4, <1>5 DEF EffectiveTotalAssets, SaturatingSub
<1>7. EffectiveTotalAssets' = E + amount
  BY <1>5, <1>6
<1>8. minted \in Nat /\ minted * E <= amount * L
  BY <1>1, <1>2, MintedShares, Numbers
<1>9. config.deposit_fee_bps \in Nat
  BY <1>2, Fields DEF VaultConfig
<1>10. fee \in Nat
  BY <1>8, <1>9, FeeType, Numbers
<1> HIDE DEF fee, minted
<1>11. net \in Int /\ net <= minted
  BY <1>8, <1>10
<1> HIDE DEF net, E, L
<1>12. net * E <= minted * E
  BY <1>5, <1>8, <1>11
<1>13. net * E <= amount * L
  BY <1>5, <1>8, <1>11, <1>12
<1>14. (E + amount) * L >= E * (L + net)
  BY <1>5, <1>11, <1>13
<1> QED BY <1>3, <1>7, <1>14 DEF E, L

\* What a withdrawal redeems is its part at most, so what is left of the effective
\* assets is at least the part of those who stay.
LEMMA WithdrawalKeepsPrice ==
  ASSUME IInv, NEW user \in Holders, NEW lp_amount \in Amount,
         InstantWithdraw(user, lp_amount)
  PROVE  EffectiveTotalAssets' * vault.lp_supply
           >= EffectiveTotalAssets * vault.lp_supply'
<1> DEFINE back == AssetsToReturn(lp_amount)
           fee  == BpsOf(back, config.withdrawal_fee_bps)
           E    == EffectiveTotalAssets
           L    == vault.lp_supply
           T    == vault.total_assets
           R    == RemainingLocked
<1>1. /\ L > 0 /\ back <= T /\ lp_amount <= L
      /\ vault' = AfterWithdrawal(back, back - fee, lp_amount)
      /\ config' = config /\ now' = now
  BY DEF InstantWithdraw
<1>2. TypeOK
  BY DEF IInv
<1> HIDE DEF fee
<1>3. /\ vault'.total_assets = T - back
      /\ vault'.lp_supply = L - lp_amount
      /\ vault'.locked_profit = vault.locked_profit
      /\ vault'.locked_profit_ts = vault.locked_profit_ts
  BY <1>1, <1>2 DEF AfterWithdrawal, TypeOK, VaultAccount
<1>4. RemainingLocked' = R
  BY <1>1, <1>2, <1>3, LockKept
<1>5. /\ T \in Nat /\ R \in Nat /\ E \in Nat /\ L \in Nat /\ lp_amount \in Nat
      /\ E = IF R > T THEN 0 ELSE T - R
  BY <1>2, Fields, LockedType, EffectiveType, Numbers
<1>6. back \in Nat /\ back * L <= lp_amount * E
  BY <1>1, <1>2, RedeemedAssets, Numbers
<1>7. EffectiveTotalAssets' = IF R > T - back THEN 0 ELSE T - back - R
  BY <1>3, <1>4 DEF EffectiveTotalAssets, SaturatingSub
<1> HIDE DEF back
<1> DEFINE F == EffectiveTotalAssets'
<1>8. F \in Nat /\ F >= E - back
  BY <1>1, <1>5, <1>6, <1>7
<1> HIDE DEF E, L, F
<1>9. F * L >= (E - back) * L
  BY <1>5, <1>6, <1>8
<1>10. (E - back) * L >= E * (L - lp_amount)
  BY <1>5, <1>6
<1>11. F * L >= E * (L - lp_amount)
  BY <1>5, <1>6, <1>8, <1>9, <1>10
<1> QED BY <1>3, <1>11 DEF E, L, F

-----------------------------------------------------------------------------
(* Harvests *)

\* A quotient does not grow with its divisor.
LEMMA DivAntitone ==
  ASSUME NEW n \in Nat, NEW s \in Nat \ {0}, NEW f \in Nat
  PROVE  n \div (s + f) \in Nat /\ n \div (s + f) <= n \div s
<1> DEFINE q == n \div (s + f)
           r == n \div s
<1>1. q \in Nat /\ q * (s + f) <= n
  <2>1. s + f \in Nat \ {0}
    OBVIOUS
  <2> QED BY <2>1, DivFloor
<1>2. r \in Nat /\ n < (r + 1) * s
  OBVIOUS
<1> HIDE DEF q, r
<1>3. q * s <= q * (s + f)
  BY <1>1
<1>4. q * s < (r + 1) * s
  BY <1>1, <1>2, <1>3
<1>5. q < r + 1
  BY <1>1, <1>2, <1>4
<1> QED BY <1>1, <1>2, <1>5 DEF q, r

\* After a harvest the management fee is counted from now, and the mark stands at
\* least at the ratio before, which the LP tokens minted for the fee can only lower.
LEMMA HarvestLeavesNothing ==
  ASSUME IInv, HarvestFees(Admin), vault.lp_supply > 0
  PROVE  TotalFeeAssets' = 0
<1>1. /\ vault' = AfterHarvest(TotalFeeAssets, FeeLp)
      /\ config' = config /\ now' = now
  BY DEF HarvestFees
<1>2. /\ TypeOK /\ TypeOK'
      /\ CurrentRatio \in Nat /\ TotalFeeAssets \in Nat /\ FeeLp \in Nat
      /\ vault.high_water_mark \in Nat
      /\ vault.lp_supply \in Nat \ {0}
      /\ EffectiveTotalAssets \in Nat
      /\ now \in Nat
  BY HarvestIInv, FeeTypes, Fields, EffectiveType, Numbers DEF IInv, TypeOK
<1>3. /\ vault'.total_assets = vault.total_assets
      /\ vault'.locked_profit = vault.locked_profit
      /\ vault'.locked_profit_ts = vault.locked_profit_ts
      /\ vault'.last_fee_harvest_ts = now
      /\ vault'.lp_supply = vault.lp_supply + FeeLp
      /\ vault'.high_water_mark =
           IF CurrentRatio > vault.high_water_mark THEN CurrentRatio
           ELSE vault.high_water_mark
  BY <1>1, <1>2 DEF AfterHarvest, TypeOK, VaultAccount
<1>4. EffectiveTotalAssets' = EffectiveTotalAssets
  BY <1>1, <1>2, <1>3, LockKept DEF EffectiveTotalAssets, SaturatingSub
<1>5. ManagementFee' = 0
  <2> DEFINE annual == (EffectiveTotalAssets * config.management_fee_bps)
                         \div BPS_DENOMINATOR
  <2>1. annual \in Nat
    <3>1. EffectiveTotalAssets * config.management_fee_bps \in Nat
      BY <1>2, Fields DEF VaultConfig
    <3> QED BY <3>1, Numbers, DivFloor
  <2>2. ManagementFee' = AsU64((annual * (now - now)) \div SecondsPerYear)
    BY <1>1, <1>3, <1>4 DEF ManagementFee, AsU64
  <2> HIDE DEF annual
  <2>3. annual * (now - now) = 0
    BY <1>2, <2>1
  <2>4. 0 \div SecondsPerYear = 0
    BY Numbers
  <2>5. AsU64(0) = 0
    BY Numbers DEF AsU64
  <2> QED BY <2>2, <2>3, <2>4, <2>5
<1>6. CurrentRatio' \in Nat /\ CurrentRatio' <= CurrentRatio
  <2> DEFINE n == EffectiveTotalAssets * PRECISION
             s == vault.lp_supply
             f == FeeLp
  <2>1. n \in Nat /\ s \in Nat \ {0} /\ f \in Nat
    BY <1>2, Numbers
  <2>2. CurrentRatio = n \div s
    BY <2>1 DEF CurrentRatio
  <2>3. CurrentRatio' = n \div (s + f)
    <3>1. vault'.lp_supply > 0
      BY <1>3, <2>1
    <3> QED BY <1>3, <1>4, <3>1 DEF CurrentRatio
  <2> HIDE DEF n, s, f
  <2> QED BY <2>1, <2>2, <2>3, DivAntitone
<1>7. ~ (CurrentRatio' > vault'.high_water_mark)
  BY <1>2, <1>3, <1>6
<1>8. PerformanceFee' = 0
  BY <1>7 DEF PerformanceFee
<1> QED BY <1>5, <1>8 DEF TotalFeeAssets

-----------------------------------------------------------------------------
(* Theorems *)

\* The inductive invariant holds in every reachable state of the vault program, for
\* any fees, amounts, holders and number of strategies.
THEOREM Invariance == Spec => []IInv
BY InitIInv, NextIInv, PTL DEF Spec

\* The accounts of the vault keep their types in every reachable state.
THEOREM TypeCorrect == Spec => []TypeOK
<1>1. IInv => TypeOK
  BY DEF IInv
<1> QED BY <1>1, Invariance, PTL

\* The vault's count of LP tokens covers the LP mint in every reachable state.
THEOREM LpSupplyAlwaysCovers == Spec => []LpSupplyCoversMint
<1>1. IInv => LpSupplyCoversMint
  BY DEF IInv
<1> QED BY <1>1, Invariance, PTL

\* Neither a deposit nor a withdrawal ever lowers the effective assets per LP token
\* of those who hold LP, whatever the fees and however the divisions round.
THEOREM PriceKept == Spec => HoldersKeepPrice
<1>1. ASSUME IInv, [Next]_vars,
             NEW user \in Holders,
             \/ \E amount \in DepositAmounts : Deposit(user, amount)
             \/ \E amount \in WithdrawAmounts : InstantWithdraw(user, amount),
             vault.lp_supply > 0
      PROVE  EffectiveTotalAssets' * vault.lp_supply
               >= EffectiveTotalAssets * vault.lp_supply'
  BY <1>1, Names, DepositKeepsPrice, WithdrawalKeepsPrice
<1> DEFINE Kept ==
      \A user \in Holders :
        /\ \/ \E amount \in DepositAmounts : Deposit(user, amount)
           \/ \E amount \in WithdrawAmounts : InstantWithdraw(user, amount)
        /\ vault.lp_supply > 0
        => EffectiveTotalAssets' * vault.lp_supply
             >= EffectiveTotalAssets * vault.lp_supply'
<1>2. IInv /\ [Next]_vars => [Kept]_vars
  BY <1>1
<1>3. HoldersKeepPrice <=> [][Kept]_vars
  BY DEF HoldersKeepPrice
<1> QED BY <1>2, <1>3, Invariance, PTL DEF Spec

\* A gain is charged once: while there are LP tokens a second harvest right after the
\* first finds no fee to take, whatever the fees and however the ratio was rounded.
THEOREM ChargedOnce == Spec => GainChargedOnce
<1> DEFINE Once == HarvestFees(Admin) /\ vault.lp_supply > 0 => TotalFeeAssets' = 0
<1>1. IInv => Once
  BY HarvestLeavesNothing
<1>2. GainChargedOnce <=> [][Once]_vars
  BY DEF GainChargedOnce
<1> QED BY <1>1, <1>2, Invariance, PTL DEF Spec
=============================================================================
