# CrossFluf: a TLA+ verification project

CrossFluf is a set of Solana programs with the command-line tools and the bot that
drive them: a flash-loan pool whose shares are the loans (`src/programs/fluf`), a
sample borrower, an institutional vault with strategies and fees
(`src/programs/vault`), a KYC transfer hook for the token the vault holds
(`src/programs/kyc_hook`), and TypeScript clients (`src/stablecoin`, `src/cli`).
This directory models the programs in TLA+, checks the models with TLC on small
instances, and proves theorems about them with TLAPS.

    tlasany M.tla                      parse a module
    tlc -workers 2 -config X.cfg M     run X of PROJECT.json
    tlapm M.tla                        check the proofs of M

`PROJECT.json` lists the components, the runs, a mutation of the code for every
property, the source lines behind every definition, the disagreements found, the
hazards and the theorems.


## 1. The system

| component | source | state | operations |
|---|---|---|---|
| fluf program | `programs/fluf/src/lib.rs` | program state (deployer); per pool: T account, fT mint, fT account, fee account | initialize, create_pool, deposit, withdraw, lend_and_call, withdraw_fees |
| borrower_sample | `programs/borrower_sample/src/lib.rs` | one fT account | create_accounts, handle_borrow |
| vault program | `programs/vault/src/lib.rs` | Vault account (counters, settings), Strategy accounts, asset account, LP mint | initialize_vault, deposit, instant_withdraw, add_strategy, allocate, deallocate, report_yield, harvest_fees, remove_strategy, update_config, set_active |
| kyc_hook program | `programs/kyc_hook/src/lib.rs` | a registry per mint (authority, total_verified), a KYC status per wallet (shared by all mints), the extra-account list of the mint | initialize_registry, initialize_extra_account_meta_list, set_kyc_status, transfer_authority, transfer_hook, fallback |
| rebalance bot | `stablecoin/rebalance-bot.ts` | none kept; each pass works on what it fetched | rebalance, refresh, fee-harvest and monitor loops on timers |
| stablecoin CLI | `stablecoin/cli.ts` | none kept; each command works on what it read | create-mint, init-hook, init-registry, verify-kyc, revoke-kyc, mint-tokens, burn-tokens, transfer |
| vault CLI | `stablecoin/vault-cli.ts` | none | one command per vault instruction |
| fluf CLI | `cli/flufcli.ts` | none | one command per fluf instruction |
| SPL token program | external | mints and accounts | mint_to, burn, transfer |

**How they interact.** A client sends transactions; a transaction is atomic and holds
a write lock on every account it changes. Inside one, `fluf` calls the token program
and, in `lend_and_call`, a borrower program that may itself call the token program on
the accounts it was given; `vault` calls the token program, which calls `kyc_hook`
when the asset carries it. Between transactions, everything is shared: any wallet may
send any instruction, pay anybody, give tokens to an account of a program, or burn
its own LP tokens. The bot reads accounts, waits for other calls, and then writes
absolute values computed from what it had read.

**What is hard.**

- *fluf.* The price of a share is a quotient of two balances that every instruction
  and every gift changes; all divisions round. Inside `lend_and_call` fT exists that
  nothing backs while foreign code runs, and an account value read before the call
  is stale after it. Correct means: no call lowers what a share redeems, every fT is
  backed between transactions, a loan closes in its transaction whichever account of the
  pool the caller has it paid back to, a holder can leave.
- *vault.* Four counters (`total_assets`, `idle_assets`, positions, `lp_supply`) are
  updated separately by instructions that disagree on fees; a fifth (`locked_profit`)
  makes the price depend on the clock. The books can drift from the tokens, the
  total from the books, the LP count from the LP mint. Correct means: they do not
  drift the dangerous way, holders who stay do not pay for those who come and go,
  and a gain is charged once.
- *kyc_hook and its CLI.* Two handlers for a transfer, of which the one that Token-2022
  reaches checks less; a status with an expiry; a counter that must follow changes
  only. Verifying and revoking are each a status and a freeze state, changed by two
  transactions of which the second may fail or come late. Statuses are shared by all
  mints, and anybody may open a registry for another one. Correct means: no verified
  wallet goes uncounted, nobody holds tokens before being decided on, and a revoked wallet
  neither receives nor pays by transfer.
- *bot.* Values fetched before an await and used after it; three writing loops that overlap
  each other; transactions that fail, are lost, or are given up on and land all the same;
  a process that keeps nothing and may be stopped between two transactions. Correct
  means: every pass ends, once the others rest the vault comes into balance and stays
  there, a report books the yield it stands for, and holders can still get out.

The hazards are listed one by one, with their lines, in `PROJECT.json`.


## 2. The modules

| module | stands for | relation to the others |
|---|---|---|
| `SplToken` | the token program's mint_to, burn and transfer on a ledger `[supply, bal]` | extended by all |
| `Sums` | the sum of a function over a finite set, on the community modules' fold | extended by SplToken, and so by all |
| `BorrowerSample` | `handle_borrow`, as an operator on the fT ledger | extended by FlufPool |
| `FlufPool` | the fluf program with its borrower and the wallets | implements SharePool |
| `SharePool` | what a pool of shares promises: join, leave, gain, no price ever falls | instantiated by FlufPool |
| `MCFlufPool` | the symmetry of the run | extends FlufPool |
| `Vault` | the vault program with wallets, manager, admin and clock | |
| `MCVault` | the configurations of the runs, and statements the code does not keep | extends Vault |
| `RebalanceBot` | the bot's three writing loops, the transactions in flight, restarts | extends Vault: its transactions are Vault's actions, the holders and the admin act in between |
| `MCRebalanceBot` | the configurations of the runs, and statements the code does not keep | extends RebalanceBot |
| `KycHook` | the kyc_hook program, the stablecoin's token accounts and the commands of its CLI | uses SplToken's ledger, one per mint |
| `MCKycHook` | the runs' expiries and symmetries, and a statement the code does not keep | extends KycHook |
| `SumProofs` | the laws of a sum, and two ways to use induction | used by SplTokenProofs |
| `SplTokenProofs` | lemmas on ledgers and on rounded division | used by all proof modules |
| `VaultProofs` | the theorems about Vault's types, prices and fees | extends Vault |
| `VaultBooksProofs` | the theorems about Vault's books | extends VaultProofs |
| `FlufPoolProofs` | the theorems about FlufPool | extends FlufPool |
| `KycHookProofs` | the theorems about KycHook | extends KycHook |
| `RebalanceBotProofs` | the theorems about what the bot sends, and about the vault with the bot at work | extends RebalanceBot and VaultBooksProofs |

### 2.1 Correspondence

*Ledgers.* A mint and all its accounts are one record: `supply` and `bal`, a function
from account to amount. `CanMint`, `CanBurn` and `CanTransfer` are the token program's
checks (balance, overflow, authority among the signers), and are conjuncts of the
calling action; `MintTo`, `Burn` and `Transfer` give the ledger after. Who signed is a
set: the wallet, and a PDA when the call is made with its seeds.

*Instructions are actions.* Each `pub fn` of a program is one action with the
instruction's name, in the order of the code: `require!`s and the implicit checks
(overflow, division by zero, account constraints, token-call failures) are conjuncts,
since any of them reverts the transaction. What the `#[derive(Accounts)]` context of an
instruction asks of the accounts it is given is an operator of its own, `DepositAccounts`
and the like, where it asks something that is not true of every call. `withdraw_fees` of fluf is the exception:
it is modelled with its failure as an outcome (`feesResult`) because a call that
always fails would otherwise be an action that is never enabled.

*FlufPool.* `T` and `fT` are the two ledgers; `created` says which of the accounts
that an instruction creates exist; `deployer` is `state.deployer`. `LendAndCall` goes
through the ledgers between its calls by name: `lent` after mint_to, `repaid` after the
borrower ran, `held` the balance after `reload()`, `shared` after the protocol's
share was taken. Its `lender` is the account the loan is paid back to: the program asks of
`pool_fluf_account` only that it is writable (fluf/src/lib.rs:352-353), so it is any fT account
that the pool PDA can sign for (`PoolOwned`): the pool's own, the fee account, or one of
`OtherPoolAccounts`, which wallets opened in the pool's name. `Users` may also send fT to
each other, to the borrower (the way its interest is funded, `tests/fluf.ts:400`) and to
any of the pool's accounts, and T to the pool: the program cannot prevent it.

*Vault.* `vault` holds the counters of the Vault account and `config` its settings;
`strategies[i]` is the account with index i, and exists when `i < num_strategies`.
`Init` is `initialize_vault`. `AsU64` is the cast `as u64`; `SaturatingSub` is
`saturating_sub`. Two actions are not the program's: `BurnLp`, a holder who burns LP at the token
program, and `DonateAsset`, a wallet that sends the asset to the vault's account; the vault
hears of neither. `Wrong...` operators, here and in FlufPool, are mutations used to
confirm that a property notices the bug they stand for; no action uses them.

*RebalanceBot.* `pass[loop]` is where `rebalanceLoop` and `refreshLoop` are: at rest, between
the two reads of a rebalance (`Fetching`, holding the idle balance it read), or sending
what is left of a list of transactions (`Sending`). `StartRebalance` reads the vault,
`FetchStrategies` the strategies and computes the whole list with the floors, the
threshold and the order of the code (`Delta`, `ShouldRebalance`, `ToMove`, `InOrder`, `Moves`);
`StartRefresh` reads and computes `Reports`. Each transaction is then one step:
it `Lands` and is executed by the vault's own action, it `Fails` (rejected, or lost), or it
`TimesOut` and goes to `late`, from where it `LandsLate` or `Expires` while the pass is
already further or over. `Restart` stops the process anywhere: both loops are at rest,
and what had been sent and not confirmed is in `late[Stopped]`. Between any two of these
steps `OthersStep` lets the holders, the admin and the clock do all they do in Vault; the
manager's instructions are the bot's own. `FeeHarvest` is the third loop: one `harvest_fees`, signed by the
bot's wallet and refused unless that is the admin's too; what it reads first (the LP
mint) never changes, so the action is the moment it lands. `MAX_SAFE_INTEGER` is 2^53 - 1:
`toNumber` throws above it, which ends a rebalance pass at once (`FetchStrategies` is not enabled,
`FetchFails` is) and a refresh pass at that strategy (`Readable`); `BN` takes no larger
argument, so such a transaction fails (`Execute`). The simulated yield is
`position \div YieldDivisor`: 5 % a year for ten minutes is one part in 1,051,200.

*KycHook.* `registry`, `status` and `metaList` are the program's accounts, as functions on
those that exist; `account` is the state of a wallet's token account (absent, frozen,
thawed) and `token` the ledger. `Init` is the state `create-mint` leaves. The commands of
the CLI are processes: a terminal runs one at a time, `cmd[t]` says what it does next,
and each action is one transaction or one read. `VerifyKyc` sends the status, then
`LookForAccount` reads whether there is an account, then `Thaw` sends the thaw;
`RevokeKyc` sends the status and then `Freeze`. `MintTokens` and `TransferTokens` read
whether the recipient has an account and `Send` is the transaction built from the
answer, with the account's creation in it when there was none. `Fail` ends a command at
any of its calls. Commands of several terminals interleave freely, and so do the
registry's instructions, the wallets' `CreateAccount` and the clock. `Fallback` is what
a transfer is asked; `TransferHook` is the handler that would look at the expiry, which
only a property names. Officers run commands; one of them is the issuer, whose key
alone can freeze, thaw and mint.

*SharePool* has two variables, `assets` and `shares`. Its steps may change both in any
way that keeps `shares <= assets` and lets no share lose value; under the mapping
`assets <- T.bal[PoolAccount], shares <- fT.supply`, a deposit is a Join, a withdrawal
a Leave, a loan with interest or a gift a Gain, and the rest stutters.

### 2.2 What is left out of the modelled programs

- Pools of several mints: a pool's addresses are derived from its mint, so two pools
  share nothing but the deployer.
- Checks that derived addresses make true (a pool's mint against its own account's
  mint, and the decimals of a mint just created).
- Fields no instruction reads: names, `protocol`, bumps, `allocated`,
  `last_update_ts`.
- Loans so large that `amount * 1025` leaves u64: whether the product wraps or panics
  depends on the build. `LendAndCall` carries the bound `amount * 1025 <= MaxU64`.
- `kyc_hook` is taken to allow every transfer of the vault's asset.
- Delegates (`approve`), and payments of the asset or of LP from one wallet to another:
  no instruction of the vault looks at who holds what beside its caller.
- The stablecoin mint's permanent delegate, and freezing and thawing by hand: no command
  does either. (A test thaws the account of a wallet without a status by hand, to reach
  the hook: tests/kyc_stablecoin.ts:457-467.)
- A second pass of the same bot loop while one is running, which needs a pass of some seven
  or more transactions nearly all of which time out (`CanStart`), and the bot's monitor loop
  (reads only).
- Rounding of JavaScript numbers: amounts above 2^53 - 1 are refused as in the code, but a sum
  of amounts that goes above it is taken as exact where the code keeps the nearest number.
- Borrowers other than `borrower_sample`: `lend_and_call` accepts no other program
  (fluf/src/lib.rs:364).
- u128 intermediates do not overflow: they are products of two u64 values, except in
  the management fee, whose third factor is a number of seconds.


## 3. What TLC checks

| run | instance | result |
|---|---|---|
| `fluf_pool` | 2 wallets with 240 T, one more fT account in the pool's name, loans of 0 and 8000 (interest 200, protocol share 1), gifts of 200 | `TypeOK`, `Backed`, `ExitOpen`, `LoanSettles`, and FlufPool implements SharePool; 284,607 states up to symmetry |
| `vault_shares` | 1 user and the admin, all four fees, 1 strategy, three time steps, u64 cut to 24 | `TypeOK`, `LpSupplyCoversMint`, `HoldersKeepPrice`, `GainChargedOnce`; 209,600 states |
| `vault_books` | 2 strategies, withdrawal fee switched on and off, gifts of 4 | `TotalWithinBooks`, `BooksFollowTokens`, `ExcessIsExitFees`; 338,208 states |
| `kyc` | 2 terminals, 2 officers, 2 wallets, 1 mint, two clock values, a status that expires and one that does not | `TypeOK`, `KycBeforeTokens`, `RevokedStaysOut`; 214,198 states up to symmetry |
| `kyc_registries` | 2 mints, 2 officers, 2 wallets, counters up to 2, 1 terminal | `VerifiedAreCounted`; 1,520,118 states up to symmetry |
| `vault_relock` | profits reported twice | profit already unlocked is locked again |
| `vault_deactivated` | report after remove_strategy | a deactivated strategy holds a value nobody can move |
| `kyc_expired` | as kyc with one terminal, a transfer after the expiry | a wallet whose KYC has expired pays |
| `bot` | 2 strategies, one depositor of 2, yield of half a position, threshold of 3/10, one transaction in flight after its time-out | `BotTypeOK`, `EventuallyBalanced`, `PassesEnd`; 41,949 states |
| `bot_fees` | the bot's wallet is the admin's; 1 strategy, 2 depositors of 6, three fees, LP burns, pauses, two clock values, a word of 12 and safe integers up to 9 | `LpSupplyCoversMint`, `TotalWithinBooks`; 851,720 states |
| `bot_stale` | as bot | a report books what the rebalance moved in between |
| `bot_exit` | as bot without yield, and a holder who keeps trying to leave | the holder never gets out |

**Bounds, and why they are enough.** Rounding depends on remainders, not on size. A loan of
8000 is the smallest at which the protocol's share of the interest (200) is not zero,
and a deposit of 240 the smallest round one that can pay that interest; with gifts of
200 the pool's quotients then have remainders, and a wrong
rounding in `withdraw` or a supply read after the burn is found in this run.
The total of T is fixed, so the state space is finite without a constraint. In the
vault runs the word is cut to `MaxU64 = 24` so that counters reach it and checked
additions fail; BPS, the year and the fixed-point unit are constants because TLC's
integers have 32 bits, and are small enough that every fee rounds both to zero and to
more; the profit lock lasts two time steps, so a profit is fully, half and not
locked. Two strategies are used where positions are summed. `DepositAmounts` etc. are
the arguments tried; the sets are larger than one where two amounts interact.
`GiftAmounts` is a bound of its own: gifts are on in `vault_books`, where a property is about
tokens, and off where none reads them. So are `BurnAmounts` and `ActiveSettings`, which the
`bot` run leaves empty or at what the vault starts with, since its two loops read neither
the LP nor the flag; `bot_fees` has both.
In `kyc` two terminals are the fewest that let one command run between two steps of
another, and two wallets the fewest with a transfer between them; `MaxU64 = 2` lets the
counter and the supply reach their limit; the expiring status expires when the clock
moves, once. Wallets and terminals are symmetric: no action and no property names one.
`officer` is not a symmetry set, since the issuer is one of them. `kyc_registries` has the second
mint that the counters need, and one terminal: a status and its counter are written by
one instruction, which nothing interleaves with. Two mints are the fewest with
two registries, and `MaxU64 = 2` is as many as there are wallets, so a counter that drifted up
saturates.
In the `bot` runs the vault is at most 4 (`MaxU64`), so that reports and allocations also
run into the limits of the word; a deposit of 2 over two strategies needs an even
split, which one unit too many on either side already violates at the threshold of
3/10; a yield of half a position makes the refresh loop act, and stop, at these sizes.
Two strategies are the fewest with something to balance. `MaxLate = 1` is one transaction in
flight after its time-out, which is enough for it to land after a later one of the
same pass, after the pass, in the middle of the other loop's, and after a restart.
`bot_fees` checks safety only, and gives the bot one strategy in exchange for a second holder, fees
and a clock; positions pass the largest safe integer, 9, on their way to 12.

**Deadlock** is not checked (`CHECK_DEADLOCK FALSE`): a wallet is never obliged to
send anything, and with the bounded amounts the last deposit may be made.

**Fairness.** The programs have none: nothing in the repository obliges a wallet to send a
transaction, so no liveness of the programs alone could be justified; `ExitOpen` says
instead that at no moment a condition of `withdraw` fails for a holder. The bot's is `BotFairness`:

- *timers*: `WF(StartRebalance)` and `WF(StartRefresh)`: `setInterval` keeps starting passes
  (rebalance-bot.ts:418-419);
- *awaits*: weak fairness of a pass's next step whatever its outcome: every call returns, with
  a result or an error or by web3's time-out, and the code catches the errors;
- *flight*: `WF(Settles)`: a blockhash expires, so no transaction is in flight for ever;
- *the network*: `SF(FetchStrategies)` and `SF(LandsFor(ix, i))` for allocate and deallocate: reads
  fail and transactions are lost, but not for ever those of one kind about one strategy,
  when they could have landed. Strong, since each attempt is a new one and weak
  fairness would say nothing of attempts that end in between. Without it the property is
  false of any bot.

Nothing is assumed of holders, the admin, restarts, or reports landing.
`EventuallyBalanced` asks for balance only if from some point on nobody disturbs it
(`Disturbed`): under an endless stream of deposits the vault need not ever be in balance.
The bot's own reports disturb it too: in a vault whose positions are large enough to
yield at every refresh (from 1,051,200 units on) the reports never stop and the property says nothing. It is
checked, in `bot`, for amounts the bot can read.
`bot_exit` adds `SF` for the holder's withdrawal, to show that wanting to leave is not enough.

### 3.1 Where the repository says something else

Each violation run quotes its line in `PROJECT.json`:

- `vault_relock`: `locked_profit` only grows, and every profit restarts its clock.
- `vault_deactivated`: `report_yield` does not ask whether the strategy is active.
- `kyc_expired`: Token-2022 calls a hook with the interface's discriminator, which Anchor
  hands to `fallback`; `fallback` reads `is_verified` and not `expires_at`
  (kyc_hook/src/lib.rs:246-256), so an expired wallet pays until someone revokes it.
- `bot_stale`: `refreshLoop` reports old value plus yield as an absolute value
  (rebalance-bot.ts:273). The bot deallocates 1 between the read and the report, and the
  report gives the unit back to the position while it stays in idle: the books rise by
  2 for a yield of 1, and the vault takes the difference for profit and locks it.
- `bot_exit`: `rebalanceLoop` (186) puts all idle assets to work and deallocates for balance
  only; `instant_withdraw` pays from idle assets only. A holder gets out only in the
  moments between a deposit and the next pass, and src/README.md:33 says "Want to
  leave? [...] No lockup. No penalty. No permission needed."

Also met, and not given a run, because one transaction shows them or because a property of
a passing run says what is left:

- `withdraw_fees` (fluf/src/lib.rs:242) makes its transfer without the seeds of the pool PDA that
  owns the fee account. The model takes the failing branch: no caller can collect the fees
  ("Execute the transfer of the entire balance of the fee account", 244), and the supply they
  hold stays in the denominator of every share price.
- The caller of `lend_and_call` chooses the account the loan is paid back to (352-353). With
  another than the pool's own, a gift left there stays where it is, against the comment at
  176-178 ("this amount should be distributed to all participants"); with the fee account, the
  fees of earlier loans are burnt with the interest, against the comment at 182. What remains
  true of every such choice is `LoanSettles`.
- A status is shared by all mints (kyc_hook/src/lib.rs:392), a counter belongs to one, and anybody
  may open a registry for any mint (284-301). With a second registry a counter is not the
  "Total number of verified wallets" (425). What remains true is `VerifiedAreCounted`.
- A reported profit raises a position without a token arriving, and deallocated
  (vault/src/lib.rs:331) it is counted as "sitting idle in vault" (859). A withdrawal may pass the
  check of idle_assets (198) and fail in the transfer. `BooksFollowTokens` says that only
  reports and gifts bring this about.
- `mintTokens` (cli.ts:443-466) creates the recipient's account, frozen by default, and mints to it in
  one transaction, which fails and undoes the creation. The message of `verify-kyc` that names
  `mint-tokens` as the way to an account (361-363) is printed when the thaw throws; where it
  finds no account the command says nothing. Only a wallet that creates its own account gets
  out of the circle.
- A withdrawal fee leaves total_assets and stays in idle_assets, so total_assets is not "idle +
  all strategies" (vault/src/lib.rs:857), in the safe direction (`TotalWithinBooks`,
  `ExcessIsExitFees`).
- The borrower's fee is 2.5 % where its comments say "0.3%" and "0.25%"
  (borrower_sample/src/lib.rs:23-24).
- `update_config` checks one of the two fee limits of `initialize_vault` (vault/src/lib.rs:524 against
  40-43), and no fee but the performance fee: with a deposit or withdrawal fee above 10000 the
  subtraction of the fee panics (526).
- `deposit` adds its fee to `accumulated_fees` in LP tokens (158) where `harvest_fees` adds assets.
- Tokens may be minted to a wallet that was revoked when its account is not, or no longer, frozen,
  because minting calls no hook (`RevokedStaysOut` speaks of transfers, `KycBeforeTokens` of
  wallets without a status).


## 4. What TLAPS proves

| theorem | statement | for |
|---|---|---|
| `TypeCorrect` | `Spec => []TypeOK` | FlufPool |
| `BackedAlways` | `Spec => []Backed` | FlufPool |
| `ImplementsSharePool` | `Spec => SharePoolSpec` | FlufPool |
| `VaultProofs!TypeCorrect` | `Spec => []TypeOK` | Vault |
| `LpSupplyAlwaysCovers` | `Spec => []LpSupplyCoversMint` | Vault |
| `PriceKept` | `Spec => HoldersKeepPrice` | Vault |
| `ChargedOnce` | `Spec => GainChargedOnce` | Vault |
| `LoansSettle` | `Spec => LoanSettles` | FlufPool |
| `ExitAlwaysOpen` | `Spec => []ExitOpen` | FlufPool |
| `TotalAlwaysWithinBooks` | `Spec => []TotalWithinBooks` | Vault |
| `BooksAreTokens` | `Spec => BooksFollowTokens` | Vault |
| `OnlyExitFeesBetween` | `Spec => ExcessIsExitFees` | Vault |
| `KycHookProofs!TypeCorrect` | `Spec => []TypeOK` | KycHook |
| `NoTokensBeforeKyc` | `Spec => []KycBeforeTokens` | KycHook |
| `RevokedKeptOut` | `Spec => RevokedStaysOut` | KycHook |
| `NobodyUncounted` | `Spec => []VerifiedAreCounted`, for at most `MaxU64` wallets | KycHook |
| `VaultSafeUnderBot` | `BotSpec => [](TypeOK /\ LpSupplyCoversMint /\ TotalWithinBooks)` | RebalanceBot |
| `BotTypeCorrect` | `BotSpec => []BotTypeOK` | RebalanceBot |

These are all the invariants and action properties that the passing runs check. They hold
for every set of wallets, every word size `MaxU64`, all amounts and, for the vault, all
configurations, fixed-point units, numbers of strategies and lengths of time, from the
assumptions in the modules: the wallets are finitely many and none has the name of a
program account; amounts fit a word; all of the asset there is fits a word.

**The pool.** `TypeOK` is not inductive by itself: that a deposit's quotient, cast
with `as u64`, is the quotient needs it to fit the word, which needs the supply of fT
to be at most the pool's T. So the inductive invariant is `IInv == TypeOK /\ Backed`.
A deposit keeps `Backed` because `(amount * supply) \div pool <= amount`
(`PartRoundedDown`); a withdrawal because what stays of a rounded-down payment still
covers what stays of the supply (`RestCovered`); a loan because what is burnt is at
least what was minted, which is what the repayment check gives (`LoanLedger`). Wallets'
payments leave the supply alone, and gifts of T only raise the pool (`OtherStep`,
`DonateStep`). The refinement uses the same lemmas for the steps and the invariant to
show that a cast never truncates.

**The vault.** The inductive invariant is `IInv == TypeOK /\ LpSupplyCoversMint`. `TypeOK`
carries more than types: no timestamp is ahead of the clock (so elapsed times are
natural numbers and the locked part is one) and strategies beyond `num_strategies` hold
nothing (so `AddStrategy` overwrites nothing). Each instruction has a lemma: the new
value of each counter is an `Amount` because of the checked arithmetic that guards it, and
the two LP counts rise by the same number, fall by the same number, or, when a holder
burns LP directly, drift in the direction the invariant allows. `PriceKept` adds, per
instruction, that the lock is unchanged (`LockKept`), so effective assets move by what
was paid: a deposit mints `minted * effective <= amount * lp_supply` (`MintedShares`,
where the cast may only lower the number), a withdrawal redeems
`back * lp_supply <= lp_amount * effective` (`RedeemedAssets`), and what saturates in
`EffectiveTotalAssets` saturates towards those who stay. `ChargedOnce` needs no more than that a
quotient does not grow with its divisor (`DivAntitone`): the mark is raised to the ratio before
the harvest, whose new LP tokens leave the effective assets alone and only lower the
ratio (`HarvestLeavesNothing`).

**Loans.** `LoanLedger` follows the fT ledger through the four calls of `lend_and_call`: what is in
the pool's account after `reload()` is what was there plus the repayment, the protocol's
share is taken from what is above the loan, and the rest is burnt. So what is burnt
beyond the loan is the gain less its two hundredth, rounded down (`LoansSettle`). All of it is for
any account the pool may sign for; paid back to the fee account, the loan's share moves from
that account to itself, and the same sums hold.

**The stablecoin.** `KycBeforeTokens` is not inductive: a thaw is sent blindly, by a command that
wrote the status some steps ago. The invariant adds `StatusBeforeThaw`, that a command
about to look for the account or to thaw it has its wallet's status written; statuses are
never removed, so no other command can undo that. `SendAccount` is the other half: a
transaction that creates the recipient's account would find it frozen, so what goes
through found a thawed one. `SendTokens` and `BurnTokensStep` give `RevokedKeptOut`: a step that
keeps the supply and changes a balance is a transfer, and both its ends are verified
at that moment. `NobodyUncounted` has the invariant
`CountInv`: the verified wallets are at most the sum of all counters, and exactly the sum while there
is at most one registry. A verification that adds to the verified adds to a counter, unless that one is
full, and then it alone covers all wallets; a revocation takes from the verified and from a
counter, unless that one is empty, which with one registry would mean that nobody was verified
(`CountStep`). A new registry adds nothing to the sum (`NewRegistryStep`).

**Sums.** What follows adds up balances over accounts and positions over strategies. A sum is a fold,
defined by recursion on a set. Its laws (`SumProofs`) are proved by induction in the form of the library's
`WFMin`, that a well-founded relation has a minimal element in every set that is not empty: the
set of counterexamples, were there one, would have a smallest (`SubsetInduction`, for finite
sets; `NatSteps`, for numbers). `SumExists` and `SumAgrees` give the sum that the fold chooses, `TotalChoice` its
recursion; `TotalSplit` takes one element out, and from it follow `TotalUpdate` (one
value changes), `TotalSame`, `TotalBounds` and `TotalConstant`.

**The exit.** `ExitOpen` needs more than `IInv`: the payment of a withdrawal must not overflow the
account it goes to. The invariant `ExitInv` adds that in both ledgers the balances add up to the
supply, which mint, burn and transfer keep (`MintToAddsUp`, `BurnAddsUp`, `TransferAddsUp`) and a
loan keeps through its four calls (`LoanAddsUp`). So one balance is at most the supply and two together
are (`BalanceBounds`): what a wallet burns is at most the supply, its redemption is at most what is in the
pool by `Backed`, and what it has after it is at most all the T there is (`ExitFromInv`).

**The books.** One lemma per kind of instruction says by how much it moves the total, the idle assets, the sum of
the positions and the vault's tokens (`DepositMoves`, `WithdrawalMoves`, `AllocateMoves`,
`ReportMoves`, `DonateMoves`, `OthersMove`), from `IInv`. `BooksAreTokens` (only reports and gifts move
books and tokens apart, each by its amount) and `OnlyExitFeesBetween` read the differences off these
lemmas. `TotalWithinBooks` is inductive together with `IInv` (`BooksInv`): a
deposit and a profit move both sides alike, a withdrawal takes its fee from the total only, and a
loss too large for the total leaves it at zero, which no books are below, being a sum of naturals.

**The vault under the bot.** The lemmas of `VaultProofs` and `VaultBooksProofs` take any u64 as the
amount, so whatever a pass computed from whatever it read, each of its transactions keeps
`BooksInv` (`ExecuteBooksInv`); the fee loop's harvest is one of the admin's instructions, and what the
others and the clock do in between are steps of Vault (`BotStepBooksInv`, `OthersStepBooksInv`).

**What the bot sends.** `BotTypeOK` says what is left of a pass: transactions with a non-zero argument, in the order of
the strategies, at most one for each. It rests on what `InOrder` chooses: every
finite set of indices can be put in ascending order (`OrderExists`, by `SubsetInduction`: take
the largest out, append it to the rest in order), so the choice is one (`InOrderIs`).
The arguments are not zero because what is moved is chosen by its difference from the equal share
(`MoveType`) and what is reported has a yield. That a pass which is sending has something left to send
(`txs # <<>>`) belongs to the invariant: without it the head and the tail of the list, which
every later step takes, would mean nothing (`QueueTail`, `CurrentType`). The rest is one lemma per kind of step:
starting (`StartsState`), sending (`SendsState`), settling what was late (`SettlesState`), and the
restart, whose transactions in flight come from both (`InFlightType`).

**Checked by TLC only.** The two liveness properties of the bot, `EventuallyBalanced` and `PassesEnd`: they
rest on fairness, which is about ENABLED and out of reach of the provers. And what the violation
runs show, which no theorem could: that a statement of the repository is not kept.


## 5. The plan

Done: the pool with its abstract specification, the vault, the stablecoin, the bot over the
vault, and the theorems of section 4. What follows, in the order of importance:

1. **RebalanceBot**: the safety half of `EventuallyBalanced` as theorems: equal shares never add up to
   more than there is, so the moves of one pass, all landed on the state it read, leave the vault balanced.
2. **Vault under the bot**: the books' two action properties with the bot's own reports as the exception.
3. **RebalanceBot**: two passes of one loop at once, on a smaller vault.

## 6. Not modelled

- *vault CLI*: `create-vault` and `add-strategy` send one instruction of the vault each, which Vault has
  (`Init`, `AddStrategy`); `info` reads. The two transactions before `initialize_vault` create
  accounts nothing reads until then. After a failed third one, `create-vault` cannot be
  run again under the same name (the asset account exists); no state of the program is
  at stake.
- *fluf CLI*: one command, one instruction, no state.
- *lend_and_call step by step*: the accounts a transaction writes are locked while it runs, so
  nothing interleaves with the borrower's call, and the one borrower of the repository
  is deterministic; splitting the instruction would add states and no behaviour.
- *tests, migrations, demo, docs and agent skills*: read for what they say of the programs.
