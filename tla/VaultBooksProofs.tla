-------------------------- MODULE VaultBooksProofs ---------------------------
(***************************************************************************)
(* The vault's books for all constants: what total_assets claims is there,  *)
(* the books move with the tokens, and only exit fees come between the two. *)
(* One lemma per instruction says how it moves total_assets, the books and  *)
(* the vault's tokens; the three theorems are read off these.               *)
(***************************************************************************)
EXTENDS VaultProofs

LEMMA IdsFinite == IsFiniteSet(StrategyIds)
BY Numbers, FS_Interval DEF StrategyIds

LEMMA BooksType ==
  ASSUME TypeOK
  PROVE  /\ \A i \in StrategyIds : strategies[i].position_value \in Nat
         /\ Positions \in Nat
         /\ Books \in Nat
<1>1. \A i \in StrategyIds : strategies[i].position_value \in Nat
  BY Numbers DEF TypeOK, StrategyAccount
<1>2. Positions \in Nat
  BY <1>1, IdsFinite, TotalType DEF Positions
<1> QED BY <1>1, <1>2, Fields DEF Books

\* When one position changes, the sum of the positions changes by as much.
LEMMA PositionsUpdate ==
  ASSUME TypeOK, TypeOK', NEW i \in StrategyIds,
         \A j \in StrategyIds \ {i} :
           strategies'[j].position_value = strategies[j].position_value
  PROVE  Positions' = Positions + strategies'[i].position_value
                                - strategies[i].position_value
<1> DEFINE f == [j \in StrategyIds |-> strategies[j].position_value]
           g == [j \in StrategyIds |-> strategies'[j].position_value]
<1>1. \A j \in StrategyIds : f[j] \in Nat /\ g[j] \in Nat
  BY Numbers DEF TypeOK, StrategyAccount
<1>2. \A j \in StrategyIds \ {i} : g[j] = f[j]
  OBVIOUS
<1>3. f[i] = strategies[i].position_value /\ g[i] = strategies'[i].position_value
  OBVIOUS
<1>4. Positions = Total(f, StrategyIds) /\ Positions' = Total(g, StrategyIds)
  BY DEF Positions
<1> HIDE DEF f, g
<1>5. Total(g, StrategyIds) = Total(f, StrategyIds) + g[i] - f[i]
  BY <1>1, <1>2, IdsFinite, TotalUpdate
<1> QED BY <1>3, <1>4, <1>5

\* The sum is a function of the positions.
LEMMA PositionsKept ==
  ASSUME \A i \in StrategyIds :
           strategies'[i].position_value = strategies[i].position_value
  PROVE  Positions' = Positions
<1> DEFINE f == [j \in StrategyIds |-> strategies[j].position_value]
           g == [j \in StrategyIds |-> strategies'[j].position_value]
<1>1. \A j \in StrategyIds : g[j] = f[j]
  OBVIOUS
<1>2. Positions = Total(f, StrategyIds) /\ Positions' = Total(g, StrategyIds)
  BY DEF Positions
<1> HIDE DEF f, g
<1> QED BY <1>1, <1>2, IdsFinite, TotalSame

-----------------------------------------------------------------------------
(* What each instruction moves *)

\* The tokens in the vault's account.
Held == asset.bal[VaultAssetAccount]

LEMMA DepositMoves ==
  ASSUME IInv, NEW user \in Holders, NEW amount \in Amount, Deposit(user, amount)
  PROVE  /\ vault'.total_assets = vault.total_assets + amount
         /\ Books' = Books + amount
         /\ Held' = Held + amount
<1> DEFINE minted == LpToMint(amount)
           fee    == BpsOf(minted, config.deposit_fee_bps)
<1>1. /\ CanTransfer(asset, user, VaultAssetAccount, amount, user, {user})
      /\ asset' = Transfer(asset, user, VaultAssetAccount, amount)
      /\ vault' = [vault EXCEPT !.total_assets = @ + amount,
                                !.idle_assets = @ + amount,
                                !.lp_supply = @ + (minted - fee),
                                !.accumulated_fees = @ + fee]
      /\ UNCHANGED strategies
  BY DEF Deposit
<1> HIDE DEF minted, fee
<1>2. TypeOK /\ amount \in Nat
  BY Numbers DEF IInv
<1>3. /\ vault'.total_assets = vault.total_assets + amount
      /\ vault'.idle_assets = vault.idle_assets + amount
  BY <1>1, <1>2 DEF TypeOK, VaultAccount
<1>4. Positions' = Positions
  BY <1>1, PositionsKept
<1>5. /\ user \in AssetAccounts /\ VaultAssetAccount \in AssetAccounts
      /\ user # VaultAssetAccount
  BY Names
<1>6. asset'.bal[VaultAssetAccount] = asset.bal[VaultAssetAccount] + amount
  BY <1>1, <1>2, <1>5, TransferLedger DEF TypeOK
<1> QED BY <1>2, <1>3, <1>4, <1>6, Fields, BooksType DEF Books, Held

\* The fee of a withdrawal leaves total_assets but neither the books nor the account.
LEMMA WithdrawalMoves ==
  ASSUME IInv, NEW user \in Holders, NEW lp_amount \in Amount,
         InstantWithdraw(user, lp_amount)
  PROVE  LET back == AssetsToReturn(lp_amount)
             fee  == BpsOf(back, config.withdrawal_fee_bps)
         IN  /\ back \in Nat /\ fee \in Nat /\ fee <= back
             /\ vault'.total_assets = vault.total_assets - back
             /\ Books' = Books - (back - fee)
             /\ Held' = Held - (back - fee)
<1> DEFINE back == AssetsToReturn(lp_amount)
           fee  == BpsOf(back, config.withdrawal_fee_bps)
           net  == back - fee
<1>1. /\ vault.lp_supply > 0 /\ fee <= back
      /\ CanTransfer(asset, VaultAssetAccount, user, net,
                     VaultAssetAuthority, {user, VaultAssetAuthority})
      /\ asset' = Transfer(asset, VaultAssetAccount, user, net)
      /\ vault' = [vault EXCEPT !.total_assets = @ - back,
                                !.idle_assets = @ - net,
                                !.lp_supply = @ - lp_amount]
      /\ UNCHANGED strategies
  BY DEF InstantWithdraw, AfterWithdrawal
<1>2. TypeOK /\ back \in Nat /\ config.withdrawal_fee_bps \in Nat
  BY <1>1, Fields, RedeemedAssets, Numbers DEF IInv, VaultConfig
<1>3. fee \in Nat
  BY <1>2, FeeType, Numbers
<1> HIDE DEF fee, back
<1>4. net \in Nat
  BY <1>1, <1>2, <1>3
<1> HIDE DEF net
<1>5. /\ vault'.total_assets = vault.total_assets - back
      /\ vault'.idle_assets = vault.idle_assets - net
  BY <1>1, <1>2 DEF TypeOK, VaultAccount
<1>6. Positions' = Positions
  BY <1>1, PositionsKept
<1>7. /\ user \in AssetAccounts /\ VaultAssetAccount \in AssetAccounts
      /\ user # VaultAssetAccount
  BY Names
<1>8. asset'.bal[VaultAssetAccount] = asset.bal[VaultAssetAccount] - net
  BY <1>1, <1>2, <1>4, <1>7, TransferLedger DEF TypeOK
<1>9. Books' = Books - net
  BY <1>2, <1>4, <1>5, <1>6, Fields, BooksType DEF Books
<1> QED BY <1>1, <1>2, <1>3, <1>5, <1>8, <1>9 DEF Held, net, fee, back

\* Allocating and deallocating move assets from one entry of the books to another.
LEMMA AllocateMoves ==
  ASSUME IInv, NEW signer, NEW i \in StrategyIds, NEW amount \in Amount,
         Allocate(signer, i, amount) \/ Deallocate(signer, i, amount)
  PROVE  /\ vault'.total_assets = vault.total_assets
         /\ Books' = Books
         /\ Held' = Held
<1> DEFINE old == strategies[i].position_value
<1>1. /\ asset' = asset
      /\ \/ /\ vault' = [vault EXCEPT !.idle_assets = @ - amount]
            /\ strategies' = [strategies EXCEPT ![i].position_value = @ + amount]
         \/ /\ vault' = [vault EXCEPT !.idle_assets = @ + amount]
            /\ strategies' = [strategies EXCEPT ![i].position_value = @ - amount]
  BY DEF Allocate, Deallocate
<1>2. TypeOK /\ TypeOK' /\ amount \in Nat
  BY AllocateIInv, Numbers DEF IInv
<1>3. \A j \in StrategyIds \ {i} :
        strategies'[j].position_value = strategies[j].position_value
  BY <1>1, <1>2 DEF TypeOK
<1>4. Positions' = Positions + strategies'[i].position_value - old
  BY <1>2, <1>3, PositionsUpdate
<1>5. /\ vault'.total_assets = vault.total_assets
      /\ \/ /\ vault'.idle_assets = vault.idle_assets - amount
            /\ strategies'[i].position_value = old + amount
         \/ /\ vault'.idle_assets = vault.idle_assets + amount
            /\ strategies'[i].position_value = old - amount
  BY <1>1, <1>2 DEF TypeOK, VaultAccount, StrategyAccount
<1>6. old \in Nat /\ Positions \in Nat /\ vault.idle_assets \in Nat
  BY <1>2, BooksType, Fields
<1> HIDE DEF old
<1> QED BY <1>1, <1>2, <1>4, <1>5, <1>6 DEF Books, Held

\* A report moves total_assets and the books by the same amount, except that
\* total_assets stops at zero.
LEMMA ReportMoves ==
  ASSUME IInv, NEW signer, NEW i \in StrategyIds, NEW value \in Amount,
         ReportYield(signer, i, value)
  PROVE  LET change == value - strategies[i].position_value
         IN  /\ change \in Int
             /\ Books' \in Nat
             /\ Books' = Books + change
             /\ \/ vault'.total_assets = vault.total_assets + change
                \/ /\ vault'.total_assets = 0
                   /\ vault.total_assets + change < 0
<1> DEFINE old == strategies[i].position_value
<1>1. /\ strategies' = [strategies EXCEPT ![i].position_value = value]
      /\ \/ value > old /\ vault' = AfterProfit(value - old)
         \/ value < old /\ vault' = AfterLoss(old - value)
         \/ value = old /\ vault' = vault
  BY DEF ReportYield
<1>2. TypeOK /\ TypeOK' /\ value \in Nat
  BY ReportIInv, Numbers DEF IInv
<1>3. old \in Nat /\ Positions \in Nat
      /\ vault.idle_assets \in Nat /\ vault.total_assets \in Nat
  BY <1>2, BooksType, Fields
<1>4. \A j \in StrategyIds \ {i} :
        strategies'[j].position_value = strategies[j].position_value
  BY <1>1, <1>2 DEF TypeOK
<1>5. strategies'[i].position_value = value
  BY <1>1, <1>2 DEF TypeOK, StrategyAccount
<1>6. Positions' = Positions + value - old
  BY <1>2, <1>4, <1>5, PositionsUpdate
<1> HIDE DEF old
<1>7. Positions' \in Nat
  <2>1. \A j \in StrategyIds : strategies'[j].position_value \in Nat
    BY <1>2, Numbers DEF TypeOK, StrategyAccount
  <2> QED BY <2>1, IdsFinite, TotalType DEF Positions
<1>8. vault'.idle_assets = vault.idle_assets
  BY <1>1, <1>2 DEF AfterProfit, AfterLoss, TypeOK, VaultAccount
<1>9. \/ vault'.total_assets = vault.total_assets + (value - old)
      \/ vault'.total_assets = 0 /\ vault.total_assets + (value - old) < 0
  <2>1. CASE value > old /\ vault' = AfterProfit(value - old)
    BY <1>2, <2>1 DEF AfterProfit, TypeOK, VaultAccount
  <2>2. CASE value < old /\ vault' = AfterLoss(old - value)
    <3>1. vault'.total_assets = SaturatingSub(vault.total_assets, old - value)
      BY <1>2, <2>2 DEF AfterLoss, TypeOK, VaultAccount
    <3> QED BY <1>2, <1>3, <2>2, <3>1 DEF SaturatingSub
  <2>3. CASE value = old /\ vault' = vault
    BY <1>2, <1>3, <2>3
  <2> QED BY <1>1, <2>1, <2>2, <2>3
<1> QED BY <1>2, <1>3, <1>6, <1>7, <1>8, <1>9 DEF Books, old

\* A gift moves the tokens only.
LEMMA DonateMoves ==
  ASSUME IInv, NEW user \in Holders, NEW amount \in Amount, DonateAsset(user, amount)
  PROVE  /\ vault'.total_assets = vault.total_assets
         /\ Books' = Books
         /\ Held' = Held + amount
<1>1. /\ CanTransfer(asset, user, VaultAssetAccount, amount, user, {user})
      /\ asset' = Transfer(asset, user, VaultAssetAccount, amount)
      /\ UNCHANGED <<vault, strategies>>
  BY DEF DonateAsset
<1>2. TypeOK /\ amount \in Nat
  BY Numbers DEF IInv
<1>3. Positions' = Positions
  BY <1>1, PositionsKept
<1>4. asset'.bal[VaultAssetAccount] = asset.bal[VaultAssetAccount] + amount
  BY <1>1, <1>2, Names, TransferLedger DEF TypeOK
<1> QED BY <1>1, <1>3, <1>4 DEF Books, Held

\* The rest moves neither: fees are paid in LP tokens, and a strategy is added with
\* a position of zero in the place of one.
LEMMA OthersMove ==
  ASSUME IInv, NEW signer,
         \/ \E user \in Holders, amount \in BurnAmounts : BurnLp(user, amount)
         \/ HarvestFees(signer)
         \/ AddStrategy(signer)
         \/ \E i \in StrategyIds : RemoveStrategy(signer, i)
         \/ \E new_config \in Configs : UpdateConfig(signer, new_config)
         \/ \E is_active \in ActiveSettings : SetActive(signer, is_active)
         \/ Tick
         \/ UNCHANGED vars
  PROVE  /\ vault'.total_assets = vault.total_assets
         /\ Books' = Books
         /\ Held' = Held
<1>1. TypeOK
  BY DEF IInv
<1>2. asset' = asset
  BY DEF BurnLp, HarvestFees, AddStrategy, RemoveStrategy, UpdateConfig, SetActive,
         Tick, vars
<1>3. /\ vault'.total_assets = vault.total_assets
      /\ vault'.idle_assets = vault.idle_assets
  BY <1>1 DEF BurnLp, HarvestFees, AfterHarvest, AddStrategy, RemoveStrategy,
              UpdateConfig, SetActive, Tick, vars, TypeOK, VaultAccount
<1>4. \A i \in StrategyIds :
        strategies'[i].position_value = strategies[i].position_value
  <2>1. CASE strategies' = strategies
    BY <2>1
  <2>2. CASE AddStrategy(signer)
    <3> DEFINE n == vault.num_strategies
    <3>1. /\ n < MAX_STRATEGIES
          /\ strategies' = [strategies EXCEPT ![n] =
                              [position_value |-> 0, is_active |-> TRUE]]
      BY <2>2 DEF AddStrategy
    <3>2. n \in StrategyIds
      BY <1>1, <3>1, Numbers DEF TypeOK, VaultAccount, StrategyIds
    <3>3. ~ Exists(n)
      BY <3>2, Numbers DEF Exists, StrategyIds
    <3>4. strategies[n].position_value = 0
      BY <1>1, <3>2, <3>3 DEF TypeOK
    <3>5. strategies'[n].position_value = 0
      BY <1>1, <3>1, <3>2 DEF TypeOK
    <3> QED BY <1>1, <3>1, <3>4, <3>5 DEF TypeOK
  <2>3. ASSUME NEW i \in StrategyIds, RemoveStrategy(signer, i)
        PROVE  \A j \in StrategyIds :
                 strategies'[j].position_value = strategies[j].position_value
    BY <1>1, <2>3 DEF RemoveStrategy, TypeOK, StrategyAccount
  <2>4. \/ strategies' = strategies
        \/ AddStrategy(signer)
        \/ \E i \in StrategyIds : RemoveStrategy(signer, i)
    BY DEF BurnLp, HarvestFees, UpdateConfig, SetActive, Tick, vars
  <2> QED BY <2>1, <2>2, <2>3, <2>4
<1>5. Positions' = Positions
  BY <1>4, PositionsKept
<1> QED BY <1>2, <1>3, <1>5 DEF Books, Held

-----------------------------------------------------------------------------
(* The total stays within the books.  Deposits, moves and reports change both *)
(* by the same, a withdrawal takes its fee off the total alone, and a total   *)
(* that a loss brings to zero is within any books.                            *)

LEMMA HolderWithin ==
  ASSUME IInv, TotalWithinBooks, NEW user \in Holders, NEW amount \in Amount,
         Deposit(user, amount) \/ InstantWithdraw(user, amount)
  PROVE  TotalWithinBooks'
<1>1. /\ vault.total_assets \in Nat /\ Books \in Nat /\ amount \in Nat
      /\ vault.total_assets <= Books
  BY Fields, BooksType, Numbers DEF IInv, TotalWithinBooks
<1>2. CASE Deposit(user, amount)
  <2>1. vault'.total_assets = vault.total_assets + amount /\ Books' = Books + amount
    BY <1>2, DepositMoves
  <2> QED BY <1>1, <2>1 DEF TotalWithinBooks
<1>3. CASE InstantWithdraw(user, amount)
  <2> DEFINE back == AssetsToReturn(amount)
             fee  == BpsOf(back, config.withdrawal_fee_bps)
  <2>1. /\ back \in Nat /\ fee \in Nat
        /\ vault'.total_assets = vault.total_assets - back
        /\ Books' = Books - (back - fee)
    BY <1>3, WithdrawalMoves
  <2> HIDE DEF back, fee
  <2> QED BY <1>1, <2>1 DEF TotalWithinBooks
<1> QED BY <1>2, <1>3

LEMMA ManagerWithin ==
  ASSUME IInv, TotalWithinBooks, NEW signer, NEW i \in StrategyIds,
         NEW value \in Amount,
         \/ Allocate(signer, i, value) \/ Deallocate(signer, i, value)
         \/ ReportYield(signer, i, value)
  PROVE  TotalWithinBooks'
<1>1. /\ vault.total_assets \in Nat /\ Books \in Nat
      /\ vault.total_assets <= Books
  BY Fields, BooksType DEF IInv, TotalWithinBooks
<1>2. CASE Allocate(signer, i, value) \/ Deallocate(signer, i, value)
  BY <1>1, <1>2, AllocateMoves DEF TotalWithinBooks
<1>3. CASE ReportYield(signer, i, value)
  <2> DEFINE change == value - strategies[i].position_value
  <2>1. /\ change \in Int
        /\ Books' = Books + change
        /\ \/ vault'.total_assets = vault.total_assets + change
           \/ vault'.total_assets = 0
    BY <1>3, ReportMoves
  <2>2. Books' \in Nat
    BY <1>3, ReportMoves
  <2> HIDE DEF change
  <2> QED BY <1>1, <2>1, <2>2 DEF TotalWithinBooks
<1> QED BY <1>2, <1>3

BooksInv == IInv /\ TotalWithinBooks

LEMMA InitBooksInv == Init => BooksInv
<1> SUFFICES ASSUME Init PROVE BooksInv
  OBVIOUS
<1>1. IInv
  BY InitIInv
<1>2. vault.total_assets = 0
  BY DEF Init
<1> QED BY <1>1, <1>2, BooksType DEF BooksInv, TotalWithinBooks, IInv

LEMMA NextBooksInv == BooksInv /\ [Next]_vars => BooksInv'
<1> SUFFICES ASSUME BooksInv, [Next]_vars PROVE BooksInv'
  OBVIOUS
<1>1. IInv /\ TotalWithinBooks /\ IInv'
  BY NextIInv DEF BooksInv
<1>2. ASSUME vault'.total_assets = vault.total_assets, Books' = Books
      PROVE  TotalWithinBooks'
  BY <1>1, <1>2 DEF TotalWithinBooks
<1>3. SUFFICES TotalWithinBooks'
  BY <1>1 DEF BooksInv
<1>4. CASE HolderStep
  <2>1. ASSUME NEW user \in Holders, NEW amount \in BurnAmounts,
               BurnLp(user, amount)
        PROVE  TotalWithinBooks'
    BY <1>1, <1>2, <2>1, OthersMove
  <2>2. ASSUME NEW user \in Holders, NEW amount \in GiftAmounts,
               DonateAsset(user, amount)
        PROVE  TotalWithinBooks'
    BY <1>1, <1>2, <2>2, Names, DonateMoves
  <2> QED BY <1>1, <1>4, <2>1, <2>2, Names, HolderWithin DEF HolderStep
<1>5. CASE ManagerStep
  BY <1>1, <1>5, Names, ManagerWithin DEF ManagerStep
<1>6. CASE AdminStep
  BY <1>1, <1>2, <1>6, OthersMove DEF AdminStep
<1>7. CASE Tick \/ UNCHANGED vars
  BY <1>1, <1>2, <1>7, OthersMove
<1> QED BY <1>4, <1>5, <1>6, <1>7 DEF Next

-----------------------------------------------------------------------------
(* Theorems *)

THEOREM BooksInvariance == Spec => []BooksInv
BY InitBooksInv, NextBooksInv, PTL DEF Spec

\* What total_assets claims is in the books in every reachable state, for any number
\* of strategies and whatever is reported of them, lost or paid in fees.
THEOREM TotalAlwaysWithinBooks == Spec => []TotalWithinBooks
<1>1. BooksInv => TotalWithinBooks
  BY DEF BooksInv
<1> QED BY <1>1, BooksInvariance, PTL

\* What the books claim beyond the vault's tokens changes by what is reported and by
\* what is given, and by nothing else.
THEOREM BooksAreTokens == Spec => BooksFollowTokens
<1> DEFINE Follow ==
      \/ Gap' = Gap
      \/ \E i \in StrategyIds, v \in ReportedValues :
           /\ ReportYield(Manager, i, v)
           /\ Gap' = Gap + (v - strategies[i].position_value)
      \/ \E user \in Holders, amount \in GiftAmounts :
           /\ DonateAsset(user, amount)
           /\ Gap' = Gap - amount
<1>1. ASSUME IInv, [Next]_vars
      PROVE  Follow
  <2>1. Books \in Nat /\ Held \in Nat /\ Gap = Books - Held /\ Gap' = Books' - Held'
    BY <1>1, BooksType, Names, Numbers DEF IInv, TypeOK, Ledgers, Held, Gap
  <2>2. ASSUME Books' = Books, Held' = Held
        PROVE  Follow
    BY <2>1, <2>2
  <2>3. CASE HolderStep
    <3>1. ASSUME NEW user \in Holders, NEW amount \in DepositAmounts,
                 Deposit(user, amount)
          PROVE  Gap' = Gap
      <4>1. amount \in Amount /\ amount \in Int
        BY <3>1, Names, Numbers
      <4> QED BY <1>1, <2>1, <3>1, <4>1, DepositMoves
    <3>2. ASSUME NEW user \in Holders, NEW amount \in WithdrawAmounts,
                 InstantWithdraw(user, amount)
          PROVE  Gap' = Gap
      <4> DEFINE back == AssetsToReturn(amount)
                 fee  == BpsOf(back, config.withdrawal_fee_bps)
      <4>1. amount \in Amount
        BY Names
      <4>2. /\ back \in Nat /\ fee \in Nat
            /\ Books' = Books - (back - fee) /\ Held' = Held - (back - fee)
        BY <1>1, <3>2, <4>1, WithdrawalMoves
      <4> HIDE DEF back, fee
      <4> QED BY <2>1, <4>2
    <3>3. ASSUME NEW user \in Holders, NEW amount \in BurnAmounts,
                 BurnLp(user, amount)
          PROVE  Follow
      BY <1>1, <2>2, <3>3, OthersMove
    <3>4. ASSUME NEW user \in Holders, NEW amount \in GiftAmounts,
                 DonateAsset(user, amount)
          PROVE  Follow
      <4>1. amount \in Amount /\ amount \in Int
        BY <3>4, Names, Numbers
      <4>2. Books' = Books /\ Held' = Held + amount
        BY <1>1, <3>4, <4>1, DonateMoves
      <4>3. Gap' = Gap - amount
        BY <2>1, <4>1, <4>2
      <4> QED BY <3>4, <4>3
    <3> QED BY <2>3, <3>1, <3>2, <3>3, <3>4 DEF HolderStep
  <2>4. CASE ManagerStep
    <3>1. ASSUME NEW signer, NEW i \in StrategyIds, NEW amount \in MoveAmounts,
                 Allocate(signer, i, amount) \/ Deallocate(signer, i, amount)
          PROVE  Follow
      BY <1>1, <2>2, <3>1, Names, AllocateMoves
    <3>2. ASSUME NEW signer, NEW i \in StrategyIds, NEW value \in ReportedValues,
                 ReportYield(signer, i, value)
          PROVE  Follow
      <4> DEFINE change == value - strategies[i].position_value
      <4>1. change \in Int /\ Books' = Books + change
        BY <1>1, <3>2, Names, ReportMoves
      <4>2. ReportYield(Manager, i, value) /\ Held' = Held
        BY <3>2 DEF ReportYield, Held
      <4>3. Gap' = Gap + change
        <5> HIDE DEF change
        <5> QED BY <2>1, <4>1, <4>2
      <4> QED BY <4>2, <4>3
    <3> QED BY <2>4, <3>1, <3>2 DEF ManagerStep
  <2>5. CASE AdminStep
    BY <1>1, <2>2, <2>5, OthersMove DEF AdminStep
  <2>6. CASE Tick \/ UNCHANGED vars
    BY <1>1, <2>2, <2>6, OthersMove
  <2> QED BY <1>1, <2>3, <2>4, <2>5, <2>6 DEF Next
<1>2. IInv /\ [Next]_vars => [Follow]_vars
  BY <1>1
<1>3. BooksFollowTokens <=> [][Follow]_vars
  BY DEF BooksFollowTokens
<1> QED BY <1>2, <1>3, Invariance, PTL DEF Spec

\* The books exceed the total by the exit fees that were taken, less the losses that
\* the total could not bear, and by nothing else.
THEOREM OnlyExitFeesBetween == Spec => ExcessIsExitFees
<1> DEFINE Fees ==
      \/ Excess' = Excess
      \/ \E user \in Holders, lp_amount \in WithdrawAmounts :
           /\ InstantWithdraw(user, lp_amount)
           /\ Excess' - Excess = BpsOf(AssetsToReturn(lp_amount), config.withdrawal_fee_bps)
      \/ /\ \E i \in StrategyIds, v \in ReportedValues : ReportYield(Manager, i, v)
         /\ Excess' < Excess
         /\ vault'.total_assets = 0
<1>1. ASSUME IInv, [Next]_vars
      PROVE  Fees
  <2>1. vault.total_assets \in Nat /\ Books \in Nat
    BY <1>1, Fields, BooksType DEF IInv
  <2>2. ASSUME vault'.total_assets = vault.total_assets, Books' = Books
        PROVE  Fees
    BY <2>2 DEF Excess
  <2>3. CASE HolderStep
    <3>1. ASSUME NEW user \in Holders, NEW amount \in DepositAmounts,
                 Deposit(user, amount)
          PROVE  Excess' = Excess
      <4>1. amount \in Amount /\ amount \in Nat
        BY <3>1, Names, Numbers
      <4>2. vault'.total_assets = vault.total_assets + amount /\ Books' = Books + amount
        BY <1>1, <3>1, <4>1, DepositMoves
      <4> QED BY <2>1, <4>1, <4>2 DEF Excess
    <3>2. ASSUME NEW user \in Holders, NEW amount \in WithdrawAmounts,
                 InstantWithdraw(user, amount)
          PROVE  Excess' - Excess = BpsOf(AssetsToReturn(amount), config.withdrawal_fee_bps)
      <4> DEFINE back == AssetsToReturn(amount)
                 fee  == BpsOf(back, config.withdrawal_fee_bps)
      <4>1. amount \in Amount
        BY Names
      <4>2. /\ back \in Nat /\ fee \in Nat
            /\ vault'.total_assets = vault.total_assets - back
            /\ Books' = Books - (back - fee)
        BY <1>1, <3>2, <4>1, WithdrawalMoves
      <4> HIDE DEF back, fee
      <4>3. Excess' - Excess = fee
        BY <2>1, <4>2 DEF Excess
      <4> QED BY <4>3 DEF fee, back
    <3>3. ASSUME NEW user \in Holders, NEW amount \in BurnAmounts,
                 BurnLp(user, amount)
          PROVE  Fees
      BY <1>1, <2>2, <3>3, OthersMove
    <3>4. ASSUME NEW user \in Holders, NEW amount \in GiftAmounts,
                 DonateAsset(user, amount)
          PROVE  Fees
      BY <1>1, <2>2, <3>4, Names, DonateMoves
    <3> QED BY <2>3, <3>1, <3>2, <3>3, <3>4 DEF HolderStep
  <2>4. CASE ManagerStep
    <3>1. ASSUME NEW signer, NEW i \in StrategyIds, NEW amount \in MoveAmounts,
                 Allocate(signer, i, amount) \/ Deallocate(signer, i, amount)
          PROVE  Fees
      BY <1>1, <2>2, <3>1, Names, AllocateMoves
    <3>2. ASSUME NEW signer, NEW i \in StrategyIds, NEW value \in ReportedValues,
                 ReportYield(signer, i, value)
          PROVE  Fees
      <4> DEFINE change == value - strategies[i].position_value
      <4>1. /\ change \in Int
            /\ Books' = Books + change
            /\ \/ vault'.total_assets = vault.total_assets + change
               \/ /\ vault'.total_assets = 0
                  /\ vault.total_assets + change < 0
        BY <1>1, <3>2, Names, ReportMoves
      <4>2. ReportYield(Manager, i, value)
        BY <3>2 DEF ReportYield
      <4> HIDE DEF change
      <4>3. CASE vault'.total_assets = vault.total_assets + change
        BY <2>1, <4>1, <4>3 DEF Excess
      <4>4. CASE vault'.total_assets = 0 /\ vault.total_assets + change < 0
        <5>1. Excess' < Excess
          BY <2>1, <4>1, <4>4 DEF Excess
        <5> QED BY <4>2, <4>4, <5>1
      <4> QED BY <4>1, <4>3, <4>4
    <3> QED BY <2>4, <3>1, <3>2 DEF ManagerStep
  <2>5. CASE AdminStep
    BY <1>1, <2>2, <2>5, OthersMove DEF AdminStep
  <2>6. CASE Tick \/ UNCHANGED vars
    BY <1>1, <2>2, <2>6, OthersMove
  <2> QED BY <1>1, <2>3, <2>4, <2>5, <2>6 DEF Next
<1>2. IInv /\ [Next]_vars => [Fees]_vars
  BY <1>1
<1>3. ExcessIsExitFees <=> [][Fees]_vars
  BY DEF ExcessIsExitFees
<1> QED BY <1>2, <1>3, Invariance, PTL DEF Spec
=============================================================================
