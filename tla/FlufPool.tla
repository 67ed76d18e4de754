------------------------------ MODULE FlufPool ------------------------------
(***************************************************************************)
(* The flash loan pool, src/programs/fluf, together with the borrower it    *)
(* calls.  Holders deposit a token T and receive shares fT; a loan is fT    *)
(* minted for the length of one transaction; the interest is fT that is     *)
(* burnt, so that the T in the pool is divided among fewer fT.              *)
(*                                                                          *)
(* One pool is modelled: the PDAs of a pool are derived from its T mint, so *)
(* pools share nothing but the program state account.  A Solana transaction *)
(* is atomic and holds the write lock of every account it changes, so each  *)
(* instruction is one action, and a failed require!, a failed token call or *)
(* an arithmetic panic is an action that is not enabled.  withdraw_fees     *)
(* records what it returned instead: its failure is what a reader needs to  *)
(* see.                                                                     *)
(***************************************************************************)
EXTENDS BorrowerSample, FiniteSets

CONSTANTS
  Users,             \* wallets; each has an account for T and one for fT
  OtherPoolAccounts, \* fT accounts that somebody opened for the pool PDA
  NoUser,            \* the deployer before initialize
  InitialT,          \* what every wallet holds of T at the start
  DepositAmounts,    \* bounds: the amounts the instructions are called with
  LoanAmounts,
  SendAmounts

\* The accounts owned by the pool PDA, and the PDA itself as a signer.
Pool            == "pool"
PoolAccount     == "pool_account"
PoolFlufAccount == "pool_fluf_account"
FeeAccount      == "fee_account"

\* The fT accounts whose authority is the pool PDA: its own two, and any that a
\* wallet opened in its name.
PoolOwned    == OtherPoolAccounts \union {PoolFlufAccount, FeeAccount}

TAccounts    == Users \union {PoolAccount}
FlufAccounts == Users \union PoolOwned \union {BorrowerAccount}

\* The accounts that an instruction creates; the others exist with the pool, those of
\* OtherPoolAccounts empty.
ProgramState == "program_state"
Created      == {ProgramState, Pool, FeeAccount, BorrowerAccount}

ASSUME UsersAssumption ==
  /\ IsFiniteSet(Users)
  /\ IsFiniteSet(OtherPoolAccounts)
  /\ OtherPoolAccounts \intersect Users = {}
  /\ (Users \union OtherPoolAccounts)
       \intersect {Pool, PoolAccount, PoolFlufAccount, FeeAccount,
                   BorrowerAccount, NoUser} = {}
ASSUME AmountsAssumption ==
  /\ InitialT \in Amount
  /\ InitialT * Cardinality(Users) \in Amount
  /\ DepositAmounts \subseteq Amount
  /\ LoanAmounts \subseteq Amount
  /\ SendAmounts \subseteq Amount

VARIABLES
  created,      \* which of the accounts in Created exist
  deployer,     \* state.deployer
  T,            \* the ledger of the pool token
  fT,           \* the ledger of the share token, fluf_mint
  feesResult    \* what the deployer's last withdraw_fees returned

vars == <<created, deployer, T, fT, feesResult>>

Init ==
  /\ created = {}
  /\ deployer = NoUser
  /\ T = [supply |-> InitialT * Cardinality(Users),
           bal |-> [a \in TAccounts |-> IF a \in Users THEN InitialT ELSE 0]]
  /\ fT = [supply |-> 0, bal |-> [a \in FlufAccounts |-> 0]]
  /\ feesResult = "none"

AsU64(n) == n % (MaxU64 + 1)

-----------------------------------------------------------------------------
(* Setting up *)

\* The state account is created with init, so only the first call succeeds; its
\* signer becomes the deployer.
Initialize(user) ==
  /\ ProgramState \notin created
  /\ created' = created \union {ProgramState}
  /\ deployer' = user
  /\ UNCHANGED <<T, fT, feesResult>>

\* Anyone may create the pool of a mint, once.  Its T account, fT mint and fT
\* account are created in the same transaction, empty.
CreatePool ==
  /\ Pool \notin created
  /\ created' = created \union {Pool}
  /\ UNCHANGED <<deployer, T, fT, feesResult>>

\* create_accounts of the borrower, with init_if_needed; a second call changes
\* nothing.  The borrower's account is for fT, so the mint exists.
CreateAccounts ==
  /\ Pool \in created
  /\ created' = created \union {BorrowerAccount}
  /\ UNCHANGED <<deployer, T, fT, feesResult>>

-----------------------------------------------------------------------------
(* Depositing and withdrawing *)

\* fT for a deposit: one for one into an empty pool, otherwise the depositor's
\* part of the pool rounded down and cast to u64.
SharesFor(amount) ==
  IF T.bal[PoolAccount] = 0
  THEN amount
  ELSE AsU64((amount * fT.supply) \div T.bal[PoolAccount])

\* The pool exists, and the signer has an account for either token.
DepositAccounts(user) ==
  /\ Pool \in created
  /\ user \in DOMAIN T.bal
  /\ user \in DOMAIN fT.bal

Deposit(user, amount) ==
  LET amount_fluf == SharesFor(amount)
  IN  /\ DepositAccounts(user)
      /\ CanTransfer(T, user, PoolAccount, amount, user, {user})
      /\ CanMint(fT, user, amount_fluf, Pool, {user, Pool})
      /\ T' = Transfer(T, user, PoolAccount, amount)
      /\ fT' = MintTo(fT, user, amount_fluf)
      /\ UNCHANGED <<created, deployer, feesResult>>

\* As if the supply were read after the burn, or the payment rounded up.
WrongSupplyAfterBurn(amount_fluf) ==
  IF fT.supply = amount_fluf
  THEN T.bal[PoolAccount]
  ELSE AsU64((amount_fluf * T.bal[PoolAccount]) \div (fT.supply - amount_fluf))
WrongRoundedUp(amount_fluf) ==
  IF fT.supply = 0
  THEN 0
  ELSE AsU64((amount_fluf * T.bal[PoolAccount] + fT.supply - 1) \div fT.supply)

\* T for a number of fT, rounded down.
Redemption(amount_fluf) ==
  IF fT.supply = 0
  THEN 0
  ELSE AsU64((amount_fluf * T.bal[PoolAccount]) \div fT.supply)

WithdrawAccounts(user) ==
  /\ Pool \in created
  /\ user \in DOMAIN T.bal
  /\ user \in DOMAIN fT.bal

\* All that withdraw can fail at: an account that is missing, the burn, the payment.
CanWithdraw(user) ==
  /\ WithdrawAccounts(user)
  /\ CanBurn(fT, user, fT.bal[user], user, {user})
  /\ CanTransfer(T, PoolAccount, user, Redemption(fT.bal[user]), Pool, {user, Pool})

\* withdraw takes no amount: it redeems all the fT of the caller.
Withdraw(user) ==
  /\ CanWithdraw(user)
  /\ fT' = Burn(fT, user, fT.bal[user])
  /\ T' = Transfer(T, PoolAccount, user, Redemption(fT.bal[user]))
  /\ UNCHANGED <<created, deployer, feesResult>>

-----------------------------------------------------------------------------
(* The flash loan *)

\* What the lender requires back, with the multiplication of the code.  Loans
\* for which it exceeds u64 are outside the model (see README).
RequiredBack(amount) == (amount * 1025) \div 1000

\* As if the share were 5 parts of 25.
WrongFifth(earned) == earned \div 5

ProtocolShare(earned) == earned \div 200

\* The pool and the borrower's account exist, and the fee account is created when it
\* does not.  pool_fluf_account is only asked to be writable, so the caller names the
\* lender's account: any that the pool may sign for, for the token program takes the
\* transfer and the burn below from no other.  The fee account can be named once it
\* exists, since it is read before it would be created.  borrower_fluf_account is
\* writable too, but the seeds in the borrower leave one (borrower_sample/src/lib.rs:68).
LendAndCallAccounts(lender) ==
  /\ {Pool, BorrowerAccount} \subseteq created
  /\ lender \in PoolOwned
  /\ lender = FeeAccount => FeeAccount \in created

\* One transaction: mint the loan to the borrower, call it, read the lender's account
\* again, take the protocol's share of what came in above the loan, burn the rest.
\* The three ledgers named below are those between the calls.
LendAndCall(lender, amount) ==
  LET lent   == MintTo(fT, BorrowerAccount, amount)
      repaid == HandleBorrow(lent, lender, amount)
      held   == repaid.bal[lender]
      fee    == ProtocolShare(held - amount)
      shared == Transfer(repaid, lender, FeeAccount, fee)
  IN  /\ LendAndCallAccounts(lender)
      /\ T.bal[PoolAccount] > 0
      /\ amount * 1025 <= MaxU64
      /\ CanMint(fT, BorrowerAccount, amount, Pool, {Pool})
      /\ CanHandleBorrow(lent, lender, amount)
      /\ held >= RequiredBack(amount)
      /\ CanTransfer(repaid, lender, FeeAccount, fee, Pool, {Pool})
      /\ CanBurn(shared, lender, held - fee, Pool, {Pool})
      /\ fT' = Burn(shared, lender, held - fee)
      /\ created' = created \union {FeeAccount}
      /\ UNCHANGED <<deployer, T, feesResult>>

WithdrawFeesAccounts == {ProgramState, Pool, FeeAccount} \subseteq created

\* The deployer asks for the fees.  The pool is named as the authority of the
\* transfer, but the call is made without the pool's seeds, so the only signer
\* the token program sees is the caller.
WithdrawFees(user) ==
  LET balance   == fT.bal[FeeAccount]
      signers   == {user}
      succeeds  == CanTransfer(fT, FeeAccount, user, balance, Pool, signers)
  IN  /\ WithdrawFeesAccounts
      /\ user = deployer
      /\ fT' = IF succeeds THEN Transfer(fT, FeeAccount, user, balance) ELSE fT
      /\ feesResult' = IF succeeds THEN "paid" ELSE "failed"
      /\ UNCHANGED <<created, deployer, T>>

-----------------------------------------------------------------------------
(* What wallets may do with their tokens without the program: fund the       *)
(* borrower's interest, give fT or T to the pool, pay each other.            *)

SendFluf(user, to, amount) ==
  /\ Pool \in created
  /\ to \in FlufAccounts
  /\ to \in {BorrowerAccount, FeeAccount} => to \in created
  /\ CanTransfer(fT, user, to, amount, user, {user})
  /\ fT' = Transfer(fT, user, to, amount)
  /\ UNCHANGED <<created, deployer, T, feesResult>>

DonateT(user, amount) ==
  /\ Pool \in created
  /\ CanTransfer(T, user, PoolAccount, amount, user, {user})
  /\ T' = Transfer(T, user, PoolAccount, amount)
  /\ UNCHANGED <<created, deployer, fT, feesResult>>

Next ==
  \/ CreatePool
  \/ CreateAccounts
  \/ \E lender \in PoolOwned, amount \in LoanAmounts : LendAndCall(lender, amount)
  \/ \E user \in Users :
       \/ Initialize(user)
       \/ Withdraw(user)
       \/ WithdrawFees(user)
       \/ \E amount \in DepositAmounts : Deposit(user, amount)
       \/ \E amount \in SendAmounts :
            \/ DonateT(user, amount)
            \/ \E to \in FlufAccounts : SendFluf(user, to, amount)

Spec == Init /\ [][Next]_vars

-----------------------------------------------------------------------------
(* Properties *)

\* Type invariant: every balance and supply is a u64 (the accounts of
\* fluf/src/lib.rs:254-387), the PDAs exist or not, the deployer is a wallet.
TypeOK ==
  /\ created \subseteq Created
  /\ deployer \in Users \union {NoUser}
  /\ T \in Ledgers(TAccounts)
  /\ fT \in Ledgers(FlufAccounts)
  /\ feesResult \in {"none", "paid", "failed"}

\* Between transactions there is no fT without a T behind it: whatever was minted
\* for deposits and loans, the supply never exceeds the pool (deposit
\* fluf/src/lib.rs:45-55, lend_and_call 157 and 219).
Backed == fT.supply <= T.bal[PoolAccount]

\* No deposit, withdrawal, loan or gift lowers what one fT redeems: the pool is a
\* SharePool (deposit, withdraw and lend_and_call, fluf/src/lib.rs:40-222).
Shares == INSTANCE SharePool WITH assets <- T.bal[PoolAccount], shares <- fT.supply
SharePoolSpec == Shares!Spec

\* A holder can always leave: at no moment would withdraw revert for a wallet,
\* whatever the others did before (withdraw, fluf/src/lib.rs:86-131).
ExitOpen == Pool \in created => \A user \in Users : CanWithdraw(user)

\* A loan closes in its transaction, whichever account it is paid back to: the borrower
\* kept nothing of it, and of all that was in that account above the loan, gifts
\* included, at least 199/200 is burnt for the holders, no more than the protocol's
\* share staying behind (lend_and_call, fluf/src/lib.rs:157-219).
LoanSettles ==
  [][\A lender \in PoolOwned, amount \in LoanAmounts : LendAndCall(lender, amount) =>
       LET earned == fT.bal[lender] + (fT.bal[BorrowerAccount] - fT'.bal[BorrowerAccount])
       IN  /\ fT'.bal[BorrowerAccount] <= fT.bal[BorrowerAccount]
           /\ 200 * (fT.supply - fT'.supply) >= 199 * earned
           /\ 200 * fT'.bal[lender] <= earned
    ]_vars
=============================================================================
