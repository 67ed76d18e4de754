---------------------------- MODULE KycHookProofs ----------------------------
(***************************************************************************)
(* Theorems about KycHook for any number of mints, wallets, officers and    *)
(* commands running at once: types, that nobody gets at a token before the  *)
(* registry decided on the wallet, that no transfer moves tokens of or to a  *)
(* revoked wallet, and what the registries' counters count.                 *)
(***************************************************************************)
EXTENDS KycHook, SplTokenProofs, FiniteSetTheorems

\* The strengthening: a verification that has yet to look for the account or to thaw
\* it has written the wallet's status, so the thaw it will send finds one.
StatusBeforeThaw ==
  \A t \in Terminals :
    cmd[t].step \in {"look", "thaw"} => cmd[t].wallet \in DOMAIN status

IInv == TypeOK /\ KycBeforeTokens /\ StatusBeforeThaw

-----------------------------------------------------------------------------
(* Commands *)

\* A running command has the fields its step needs.
LEMMA CommandFields ==
  ASSUME NEW c \in Commands
  PROVE  /\ c.step \in {"look", "thaw", "freeze", "mint", "transfer"} =>
              c.mint \in Mints /\ c.wallet \in Wallets
         /\ c.step = "transfer" => c.from \in Wallets
         /\ c.step = "look" =>
              [c EXCEPT !.step = "thaw"] \in Commands
         /\ c.step = "look" =>
              /\ [c EXCEPT !.step = "thaw"].step = "thaw"
              /\ [c EXCEPT !.step = "thaw"].wallet = c.wallet
BY DEF Commands, Idle

LEMMA IdleCommand == Idle \in Commands /\ Idle.step = "idle"
BY DEF Commands, Idle

\* What it means for a terminal to turn to its next step.
LEMMA RunStep ==
  ASSUME cmd \in [Terminals -> Commands], NEW t \in Terminals,
         NEW next \in Commands, Run(t, next)
  PROVE  /\ cmd' \in [Terminals -> Commands]
         /\ cmd'[t] = next
         /\ \A u \in Terminals \ {t} : cmd'[u] = cmd[u]
BY DEF Run

\* A step that leaves accounts, tokens and statuses alone keeps the invariant when the
\* types are kept and no command comes to look or thaw that did not before.
LEMMA NoTokenStep ==
  ASSUME IInv, TypeOK', UNCHANGED <<account, token>>,
         DOMAIN status \subseteq DOMAIN status',
         NEW t \in Terminals, \A u \in Terminals \ {t} : cmd'[u] = cmd[u],
         cmd'[t].step \in {"look", "thaw"} => cmd'[t].wallet \in DOMAIN status'
  PROVE  IInv'
BY DEF IInv, KycBeforeTokens, StatusBeforeThaw

-----------------------------------------------------------------------------
(* The program *)

LEMMA InitIInv == Init => IInv
<1> SUFFICES ASSUME Init PROVE IInv
  OBVIOUS
<1>1. /\ registry = [m \in {} |-> {}] /\ status = [w \in {} |-> {}]
      /\ metaList = {} /\ now = 0 /\ now \in 0 .. MaxTime
  BY KycAssumption DEF Init
<1>2. /\ account \in [Mints -> [Wallets -> {"absent", "frozen", "thawed"}]]
      /\ \A m \in Mints, w \in Wallets : account[m][w] = "absent"
  BY DEF Init
<1>3. /\ token \in [Mints -> Ledgers(Wallets)]
      /\ \A m \in Mints, w \in Wallets : token[m].bal[w] = 0
  BY MaxU64Assumption DEF Init, Ledgers, Amount
<1>4. /\ cmd \in [Terminals -> Commands]
      /\ \A t \in Terminals : cmd[t].step = "idle"
  BY IdleCommand DEF Init
<1>5. TypeOK
  BY <1>1, <1>2, <1>3, <1>4 DEF TypeOK
<1>6. KycBeforeTokens
  BY <1>2, <1>3 DEF KycBeforeTokens
<1>7. StatusBeforeThaw
  BY <1>4 DEF StatusBeforeThaw
<1> QED BY <1>5, <1>6, <1>7 DEF IInv

LEMMA RegistryIInv ==
  ASSUME IInv, NEW m \in Mints,
         \/ InitializeExtraAccountMetaList(m)
         \/ \E officer \in Officers :
              \/ InitializeRegistry(officer, m)
              \/ \E new_authority \in Officers :
                   TransferAuthority(officer, m, new_authority)
  PROVE  IInv'
<1>1. TypeOK
  BY DEF IInv
<1>2. UNCHANGED <<status, account, token, now, cmd>>
  BY DEF InitializeExtraAccountMetaList, InitializeRegistry, TransferAuthority
<1>3. CASE InitializeExtraAccountMetaList(m)
  BY <1>1, <1>2, <1>3 DEF InitializeExtraAccountMetaList, IInv, TypeOK,
     KycBeforeTokens, StatusBeforeThaw
<1>4. ASSUME NEW officer \in Officers, InitializeRegistry(officer, m)
      PROVE  IInv'
  <2>1. [authority |-> officer, total_verified |-> 0] \in KycRegistry
    BY MaxU64Assumption DEF KycRegistry, Amount
  <2>2. /\ DOMAIN registry' = DOMAIN registry \union {m}
        /\ \A k \in DOMAIN registry' : registry'[k] \in KycRegistry
        /\ metaList' = metaList
    BY <1>1, <1>4, <2>1 DEF InitializeRegistry, With, TypeOK
  <2> QED BY <1>1, <1>2, <2>2 DEF IInv, TypeOK, KycBeforeTokens, StatusBeforeThaw
<1>5. ASSUME NEW officer \in Officers, NEW new_authority \in Officers,
             TransferAuthority(officer, m, new_authority)
      PROVE  IInv'
  <2>1. /\ DOMAIN registry' = DOMAIN registry
        /\ \A k \in DOMAIN registry' : registry'[k] \in KycRegistry
        /\ metaList' = metaList
    BY <1>1, <1>5 DEF TransferAuthority, TransferAuthorityAccounts, TypeOK, KycRegistry
  <2> QED BY <1>1, <1>2, <2>1 DEF IInv, TypeOK, KycBeforeTokens, StatusBeforeThaw
<1> QED BY <1>3, <1>4, <1>5

\* set_kyc_status gives the wallet a status and keeps the counter a u64.
LEMMA StatusStep ==
  ASSUME TypeOK, NEW officer \in Officers, NEW m \in Mints, NEW w \in Wallets,
         NEW v \in BOOLEAN, NEW e \in Int, SetKycStatus(officer, m, w, v, e)
  PROVE  /\ DOMAIN status' = DOMAIN status \union {w}
         /\ \A x \in DOMAIN status' : status'[x] \in KycStatus
         /\ DOMAIN registry' = DOMAIN registry
         /\ \A k \in DOMAIN registry' : registry'[k] \in KycRegistry
<1>1. [is_verified |-> v, expires_at |-> e] \in KycStatus
  BY DEF KycStatus
<1>2. /\ DOMAIN status' = DOMAIN status \union {w}
      /\ \A x \in DOMAIN status' : status'[x] \in KycStatus
  BY <1>1 DEF SetKycStatus, With, TypeOK
<1>3. /\ m \in DOMAIN registry /\ registry[m] \in KycRegistry
      /\ registry[m].total_verified \in Amount
  BY DEF SetKycStatus, SetKycStatusAccounts, TypeOK, KycRegistry
<1>4. CountAfter(registry[m].total_verified, Verified(w), v) \in Amount
  BY <1>3, MaxU64Assumption DEF CountAfter, Amount
<1>5. /\ DOMAIN registry' = DOMAIN registry
      /\ \A k \in DOMAIN registry' : registry'[k] \in KycRegistry
  BY <1>3, <1>4 DEF SetKycStatus, TypeOK, KycRegistry
<1> QED BY <1>2, <1>5

-----------------------------------------------------------------------------
(* The commands *)

LEMMA VerifyIInv ==
  ASSUME IInv, NEW t \in Terminals, NEW officer \in Officers, NEW m \in Mints,
         NEW w \in Wallets,
         \/ \E expires_at \in Expiries : VerifyKyc(t, officer, m, w, expires_at)
         \/ RevokeKyc(t, officer, m, w)
  PROVE  IInv'
<1> DEFINE After(step) == [step |-> step, officer |-> officer, mint |-> m, wallet |-> w]
           Sets(v, e, step) == /\ SetKycStatus(officer, m, w, v, e)
                               /\ Run(t, After(step))
                               /\ UNCHANGED <<metaList, account, token, now>>
<1>1. PICK v \in BOOLEAN, e \in Int, step \in {"look", "freeze"} : Sets(v, e, step)
  <2>1. ASSUME NEW expires_at \in Expiries, VerifyKyc(t, officer, m, w, expires_at)
        PROVE  expires_at \in Int /\ Sets(TRUE, expires_at, "look")
    BY <2>1, KycAssumption DEF VerifyKyc
  <2>2. ASSUME RevokeKyc(t, officer, m, w)
        PROVE  Sets(FALSE, -1, "freeze")
    BY <2>2, Zenon DEF RevokeKyc
  <2>3. -1 \in Int
    OBVIOUS
  <2> HIDE DEF Sets
  <2> QED BY <2>1, <2>2, <2>3
<1>2. TypeOK
  BY DEF IInv
<1>3. /\ DOMAIN status' = DOMAIN status \union {w}
      /\ \A x \in DOMAIN status' : status'[x] \in KycStatus
      /\ DOMAIN registry' = DOMAIN registry
      /\ \A k \in DOMAIN registry' : registry'[k] \in KycRegistry
  BY <1>1, <1>2, StatusStep
<1> DEFINE next == After(step)
<1>4. next \in Commands /\ next.wallet = w
  BY <1>1 DEF Commands
<1> HIDE DEF next
<1>5. /\ cmd' \in [Terminals -> Commands]
      /\ cmd'[t] = next
      /\ \A u \in Terminals \ {t} : cmd'[u] = cmd[u]
  BY <1>1, <1>2, <1>4, RunStep DEF TypeOK, next
<1>6. TypeOK'
  BY <1>1, <1>2, <1>3, <1>5 DEF TypeOK
<1> QED BY <1>1, <1>3, <1>4, <1>5, <1>6, NoTokenStep

\* Commands that only read, or end.
LEMMA ReadIInv ==
  ASSUME IInv, NEW t \in Terminals,
         \/ LookForAccount(t)
         \/ Fail(t)
         \/ \E m \in Mints, w \in Wallets :
              \/ \E from \in Wallets : TransferTokens(t, m, from, w)
              \/ \E officer \in Officers : MintTokens(t, officer, m, w)
  PROVE  IInv'
<1>1. PICK next \in Commands :
        /\ Run(t, next)
        /\ next.step \in {"look", "thaw"} =>
             cmd[t].step \in {"look", "thaw"} /\ next.wallet = cmd[t].wallet
        /\ UNCHANGED <<registry, status, metaList, account, token, now>>
  <2>1. cmd[t] \in Commands
    BY DEF IInv, TypeOK
  <2>2. CASE LookForAccount(t)
    BY <2>1, <2>2, CommandFields, IdleCommand DEF LookForAccount
  <2>3. CASE Fail(t)
    BY <2>3, IdleCommand DEF Fail
  <2>4. ASSUME NEW m \in Mints, NEW w \in Wallets, NEW from \in Wallets,
               TransferTokens(t, m, from, w)
        PROVE  \E next \in Commands :
                 /\ Run(t, next)
                 /\ next.step \notin {"look", "thaw"}
                 /\ UNCHANGED <<registry, status, metaList, account, token, now>>
    <3> DEFINE found == account[m][w] # "absent"
               next  == [step |-> "transfer", mint |-> m, from |-> from, wallet |-> w,
                         found |-> found]
    <3>1. /\ Run(t, next)
          /\ UNCHANGED <<registry, status, metaList, account, token, now>>
      BY <2>4 DEF TransferTokens
    <3>2. found \in BOOLEAN
      OBVIOUS
    <3> HIDE DEF found
    <3>3. next \in Commands /\ next.step = "transfer"
      BY <3>2 DEF Commands
    <3> HIDE DEF next
    <3> QED BY <3>1, <3>3
  <2>5. ASSUME NEW m \in Mints, NEW w \in Wallets, NEW officer \in Officers,
               MintTokens(t, officer, m, w)
        PROVE  \E next \in Commands :
                 /\ Run(t, next)
                 /\ next.step \notin {"look", "thaw"}
                 /\ UNCHANGED <<registry, status, metaList, account, token, now>>
    <3> DEFINE found == account[m][w] # "absent"
               next  == [step |-> "mint", officer |-> officer, mint |-> m, wallet |-> w,
                         found |-> found]
    <3>1. /\ Run(t, next)
          /\ UNCHANGED <<registry, status, metaList, account, token, now>>
      BY <2>5 DEF MintTokens
    <3>2. found \in BOOLEAN
      OBVIOUS
    <3> HIDE DEF found
    <3>3. next \in Commands /\ next.step = "mint"
      BY <3>2 DEF Commands
    <3> HIDE DEF next
    <3> QED BY <3>1, <3>3
  <2> QED BY <2>2, <2>3, <2>4, <2>5
<1>2. TypeOK
  BY DEF IInv
<1>3. /\ cmd' \in [Terminals -> Commands]
      /\ cmd'[t] = next
      /\ \A u \in Terminals \ {t} : cmd'[u] = cmd[u]
  BY <1>1, <1>2, RunStep DEF TypeOK
<1>4. TypeOK'
  BY <1>1, <1>2, <1>3 DEF TypeOK
<1>5. cmd'[t].step \in {"look", "thaw"} => cmd'[t].wallet \in DOMAIN status'
  BY <1>1, <1>3 DEF IInv, StatusBeforeThaw
<1> QED BY <1>1, <1>3, <1>4, <1>5, NoTokenStep

\* A thaw finds a status: the command wrote it before it looked.
LEMMA FreezeIInv ==
  ASSUME IInv, NEW t \in Terminals, Thaw(t) \/ Freeze(t)
  PROVE  IInv'
<1> DEFINE c == cmd[t]
<1>1. TypeOK /\ c \in Commands
  BY DEF IInv, TypeOK
<1>2. PICK before \in {"frozen", "thawed"}, after \in {"frozen", "thawed"} :
        /\ SetFrozen(t, before, after)
        /\ after = "thawed" => c.step = "thaw"
        /\ c.step \in {"thaw", "freeze"}
  BY DEF Thaw, Freeze
<1>3. c.mint \in Mints /\ c.wallet \in Wallets
  BY <1>1, <1>2, CommandFields
<1>4. /\ account' \in [Mints -> [Wallets -> {"absent", "frozen", "thawed"}]]
      /\ \A m \in Mints, w \in Wallets :
           \/ account'[m][w] = account[m][w]
           \/ /\ account[m][w] # "absent" /\ account'[m][w] # "absent"
              /\ account'[m][w] = "thawed" => w \in DOMAIN status
  <2>1. CASE account' = account
    BY <1>1, <2>1 DEF TypeOK
  <2>2. CASE /\ account[c.mint][c.wallet] = before
             /\ account' = [account EXCEPT ![c.mint][c.wallet] = after]
    <3>1. c.step = "thaw" => c.wallet \in DOMAIN status
      BY DEF IInv, StatusBeforeThaw
    <3> QED BY <1>1, <1>2, <1>3, <2>2, <3>1 DEF TypeOK
  <2> QED BY <1>2, <2>1, <2>2 DEF SetFrozen
<1>5. /\ Run(t, Idle)
      /\ UNCHANGED <<registry, status, metaList, token, now>>
  BY <1>2 DEF SetFrozen
<1>6. /\ cmd' \in [Terminals -> Commands]
      /\ cmd'[t] = Idle
      /\ \A u \in Terminals \ {t} : cmd'[u] = cmd[u]
  BY <1>1, <1>5, IdleCommand, RunStep DEF TypeOK
<1>7. TypeOK'
  BY <1>1, <1>4, <1>5, <1>6 DEF TypeOK
<1>8. KycBeforeTokens'
  BY <1>4, <1>5 DEF IInv, KycBeforeTokens
<1>9. StatusBeforeThaw'
  BY <1>5, <1>6, IdleCommand DEF IInv, StatusBeforeThaw
<1> QED BY <1>7, <1>8, <1>9 DEF IInv

\* The transaction of mint-tokens or transfer finds the recipient's account thawed, so
\* the default state of an account created in it rules that transaction out.
LEMMA SendAccount ==
  ASSUME TypeOK, NEW t \in Terminals, NEW amount \in Amount, Send(t, amount)
  PROVE  /\ cmd[t].mint \in Mints /\ cmd[t].wallet \in Wallets
         /\ account[cmd[t].mint][cmd[t].wallet] = "thawed"
         /\ account' = account
<1> DEFINE c == cmd[t]
<1>1. c \in Commands /\ c.step \in {"mint", "transfer"}
  BY DEF TypeOK, Send
<1>2. c.mint \in Mints /\ c.wallet \in Wallets
  BY <1>1, CommandFields
<1>3. RecipientAccount(c) = "thawed"
  BY DEF Send, CanMintTokens, CanTransferTokens
<1>4. account[c.mint][c.wallet] = "thawed"
  BY <1>3 DEF RecipientAccount, DefaultAccountState
<1>5. account' = [account EXCEPT ![c.mint][c.wallet] = "thawed"]
  BY <1>3 DEF Send
<1>6. account' = account
  BY <1>2, <1>4, <1>5 DEF TypeOK
<1> QED BY <1>2, <1>4, <1>6

\* What a transaction does to the ledgers: the accounts it pays from or to are thawed,
\* and if it does not change the supply, the wallets whose balances it changes are
\* verified.
LEMMA SendTokens ==
  ASSUME TypeOK, NEW t \in Terminals, NEW amount \in Amount, Send(t, amount)
  PROVE  /\ token' \in [Mints -> Ledgers(Wallets)]
         /\ \A m \in Mints, w \in Wallets :
              token'[m].bal[w] # token[m].bal[w] =>
                /\ account[m][w] = "thawed"
                /\ token'[m].supply = token[m].supply => Verified(w)
<1> DEFINE c == cmd[t]
           m == c.mint
<1>1. /\ c \in Commands /\ m \in Mints /\ c.wallet \in Wallets
      /\ account[m][c.wallet] = "thawed"
      /\ token \in [Mints -> Ledgers(Wallets)] /\ token[m] \in Ledgers(Wallets)
      /\ amount \in Nat
  BY SendAccount, MaxU64Assumption DEF TypeOK, Amount
<1>2. CASE /\ c.step = "mint" /\ CanMintTokens(c, amount)
           /\ token' = [token EXCEPT ![m] = MintTo(@, c.wallet, amount)]
  <2> DEFINE after == MintTo(token[m], c.wallet, amount)
  <2>1. CanMint(token[m], c.wallet, amount, Issuer, {c.officer})
    BY <1>2 DEF CanMintTokens
  <2>2. /\ after \in Ledgers(Wallets)
        /\ after.supply = token[m].supply + amount
        /\ after.bal = [token[m].bal EXCEPT ![c.wallet] = @ + amount]
    BY <1>1, <2>1, MintToLedger
  <2>3. /\ token[m].supply \in Nat
        /\ token[m].bal \in [Wallets -> Nat]
    BY <1>1, MaxU64Assumption DEF Ledgers, Amount
  <2>4. token' = [token EXCEPT ![m] = after]
    BY <1>2
  <2> HIDE DEF after
  <2>5. \A w \in Wallets : after.bal[w] # token[m].bal[w] =>
          w = c.wallet /\ after.supply # token[m].supply
    BY <1>1, <2>2, <2>3
  <2> QED BY <1>1, <2>2, <2>4, <2>5
<1>3. CASE /\ c.step = "transfer" /\ CanTransferTokens(c, amount)
           /\ token' = [token EXCEPT ![m] = Transfer(@, c.from, c.wallet, amount)]
  <2> DEFINE after == Transfer(token[m], c.from, c.wallet, amount)
  <2>1. /\ CanTransfer(token[m], c.from, c.wallet, amount, c.from, {c.from})
        /\ account[m][c.from] = "thawed"
        /\ Verified(c.from) /\ Verified(c.wallet)
    BY <1>3 DEF CanTransferTokens, Fallback
  <2>2. c.from \in Wallets
    BY <1>1, <1>3, CommandFields
  <2>3. /\ after \in Ledgers(Wallets)
        /\ c.from # c.wallet =>
             \A a \in Wallets \ {c.from, c.wallet} : after.bal[a] = token[m].bal[a]
    BY <1>1, <2>1, <2>2, TransferLedger
  <2>4. c.from = c.wallet => after.bal = token[m].bal
    BY DEF Transfer
  <2>5. token' = [token EXCEPT ![m] = after]
    BY <1>3
  <2> HIDE DEF after
  <2> QED BY <1>1, <2>1, <2>2, <2>3, <2>4, <2>5
<1> QED BY <1>2, <1>3 DEF Send

LEMMA SendIInv ==
  ASSUME IInv, NEW t \in Terminals, NEW amount \in Amount, Send(t, amount)
  PROVE  IInv'
<1>1. TypeOK
  BY DEF IInv
<1>2. /\ account' = account
      /\ token' \in [Mints -> Ledgers(Wallets)]
      /\ \A m \in Mints, w \in Wallets :
           token'[m].bal[w] # token[m].bal[w] => account[m][w] = "thawed"
  BY <1>1, SendAccount, SendTokens
<1>3. Run(t, Idle) /\ UNCHANGED <<registry, status, metaList, now>>
  BY DEF Send
<1>4. /\ cmd' \in [Terminals -> Commands]
      /\ cmd'[t] = Idle
      /\ \A u \in Terminals \ {t} : cmd'[u] = cmd[u]
  BY <1>1, <1>3, IdleCommand, RunStep DEF TypeOK
<1>5. TypeOK'
  BY <1>1, <1>2, <1>3, <1>4 DEF TypeOK
<1>6. KycBeforeTokens'
  BY <1>2, <1>3 DEF IInv, KycBeforeTokens
<1>7. StatusBeforeThaw'
  BY <1>3, <1>4, IdleCommand DEF IInv, StatusBeforeThaw
<1> QED BY <1>5, <1>6, <1>7 DEF IInv

-----------------------------------------------------------------------------
(* The wallets and the clock *)

\* A burn touches a thawed account and changes its balance only with the supply.
LEMMA BurnTokensStep ==
  ASSUME TypeOK, NEW m \in Mints, NEW w \in Wallets, NEW amount \in Amount,
         BurnTokens(m, w, amount)
  PROVE  /\ token' \in [Mints -> Ledgers(Wallets)]
         /\ \A k \in Mints, v \in Wallets :
              token'[k].bal[v] # token[k].bal[v] =>
                /\ account[k][v] = "thawed"
                /\ token'[k].supply # token[k].supply
<1> DEFINE after == Burn(token[m], w, amount)
<1>1. /\ token \in [Mints -> Ledgers(Wallets)] /\ token[m] \in Ledgers(Wallets)
      /\ amount \in Nat
      /\ token[m].supply \in Nat /\ token[m].bal \in [Wallets -> Nat]
  BY MaxU64Assumption DEF TypeOK, Ledgers, Amount
<1>2. /\ account[m][w] = "thawed"
      /\ CanBurn(token[m], w, amount, w, {w})
      /\ token' = [token EXCEPT ![m] = after]
  BY DEF BurnTokens
<1>3. /\ after \in Ledgers(Wallets)
      /\ after.supply = token[m].supply - amount
      /\ after.bal = [token[m].bal EXCEPT ![w] = @ - amount]
  BY <1>1, <1>2, BurnLedger
<1> HIDE DEF after
<1>4. \A v \in Wallets : after.bal[v] # token[m].bal[v] =>
        v = w /\ after.supply # token[m].supply
  BY <1>1, <1>3
<1> QED BY <1>1, <1>2, <1>3, <1>4

LEMMA WalletIInv ==
  ASSUME IInv,
         \/ Tick
         \/ \E m \in Mints, w \in Wallets :
              \/ CreateAccount(m, w)
              \/ \E amount \in TokenAmounts : BurnTokens(m, w, amount)
  PROVE  IInv'
<1>1. TypeOK
  BY DEF IInv
<1>2. CASE Tick
  <2>1. now' \in 0 .. MaxTime
    BY <1>1, <1>2, KycAssumption DEF Tick, TypeOK
  <2> QED BY <1>2, <2>1 DEF Tick, IInv, TypeOK, KycBeforeTokens, StatusBeforeThaw
<1>3. ASSUME NEW m \in Mints, NEW w \in Wallets, CreateAccount(m, w)
      PROVE  IInv'
  <2>1. /\ account[m][w] = "absent"
        /\ account' = [account EXCEPT ![m][w] = "frozen"]
        /\ UNCHANGED <<registry, status, metaList, token, now, cmd>>
    BY <1>3 DEF CreateAccount, DefaultAccountState
  <2>2. /\ account' \in [Mints -> [Wallets -> {"absent", "frozen", "thawed"}]]
        /\ \A k \in Mints, v \in Wallets :
             account'[k][v] \in {"absent", "thawed"} => account'[k][v] = account[k][v]
    BY <1>1, <2>1 DEF TypeOK
  <2> QED BY <1>1, <2>1, <2>2 DEF IInv, TypeOK, KycBeforeTokens, StatusBeforeThaw
<1>4. ASSUME NEW m \in Mints, NEW w \in Wallets, NEW amount \in TokenAmounts,
             BurnTokens(m, w, amount)
      PROVE  IInv'
  <2>1. /\ token' \in [Mints -> Ledgers(Wallets)]
        /\ \A k \in Mints, v \in Wallets :
             token'[k].bal[v] # token[k].bal[v] => account[k][v] = "thawed"
    BY <1>1, <1>4, BurnTokensStep, KycAssumption
  <2>2. UNCHANGED <<registry, status, metaList, account, now, cmd>>
    BY <1>4 DEF BurnTokens
  <2> QED BY <1>1, <2>1, <2>2 DEF IInv, TypeOK, KycBeforeTokens, StatusBeforeThaw
<1> QED BY <1>2, <1>3, <1>4

LEMMA NextIInv == IInv /\ [Next]_vars => IInv'
<1> SUFFICES ASSUME IInv, [Next]_vars PROVE IInv'
  OBVIOUS
<1>1. CASE UNCHANGED vars
  BY <1>1 DEF vars, IInv, TypeOK, KycBeforeTokens, StatusBeforeThaw
<1>2. CASE \/ Tick
           \/ \E m \in Mints, w \in Wallets :
                \/ CreateAccount(m, w)
                \/ \E amount \in TokenAmounts : BurnTokens(m, w, amount)
  BY <1>2, WalletIInv
<1>3. CASE \E m \in Mints :
             \/ InitializeExtraAccountMetaList(m)
             \/ \E officer \in Officers :
                  \/ InitializeRegistry(officer, m)
                  \/ \E new_authority \in Officers :
                       TransferAuthority(officer, m, new_authority)
  BY <1>3, RegistryIInv
<1>4. ASSUME NEW t \in Terminals, Thaw(t) \/ Freeze(t) PROVE IInv'
  BY <1>4, FreezeIInv
<1>5. ASSUME NEW t \in Terminals, NEW amount \in TokenAmounts, Send(t, amount)
      PROVE  IInv'
  BY <1>5, SendIInv, KycAssumption
<1>6. ASSUME NEW t \in Terminals,
             \/ LookForAccount(t)
             \/ Fail(t)
             \/ \E m \in Mints, w \in Wallets :
                  \/ \E from \in Wallets : TransferTokens(t, m, from, w)
                  \/ \E officer \in Officers : MintTokens(t, officer, m, w)
      PROVE  IInv'
  BY <1>6, ReadIInv
<1>7. ASSUME NEW t \in Terminals, NEW officer \in Officers, NEW m \in Mints,
             NEW w \in Wallets,
             \/ \E expires_at \in Expiries : VerifyKyc(t, officer, m, w, expires_at)
             \/ RevokeKyc(t, officer, m, w)
      PROVE  IInv'
  BY <1>7, VerifyIInv
<1> QED BY <1>1, <1>2, <1>3, <1>4, <1>5, <1>6, <1>7 DEF Next

-----------------------------------------------------------------------------
(* The counters.  With one registry at most the sum of the counters is exact;    *)
(* a second one makes it an upper bound: a wallet that one registry counted may  *)
(* be revoked through the other, which has nothing to subtract.                  *)

Counts == [m \in DOMAIN registry |-> registry[m].total_verified]

AtMostOneRegistry == \A j, k \in DOMAIN registry : j = k

CountInv ==
  /\ TypeOK
  /\ Cardinality(VerifiedWallets) <= CountedVerified
  /\ AtMostOneRegistry => Cardinality(VerifiedWallets) = CountedVerified

LEMMA CountsType ==
  ASSUME TypeOK
  PROVE  /\ IsFiniteSet(DOMAIN registry)
         /\ \A m \in DOMAIN registry : Counts[m] \in Nat /\ Counts[m] <= MaxU64
         /\ \A m \in DOMAIN registry : Counts[m] <= CountedVerified
         /\ \A m \in DOMAIN registry : AtMostOneRegistry => CountedVerified = Counts[m]
         /\ CountedVerified \in Nat
         /\ CountedVerified = Total(Counts, DOMAIN registry)
<1>1. IsFiniteSet(DOMAIN registry)
  BY KycAssumption, FS_Subset DEF TypeOK
<1>2. ASSUME NEW m \in DOMAIN registry
      PROVE  Counts[m] \in Nat /\ Counts[m] <= MaxU64
  BY MaxU64Assumption DEF TypeOK, KycRegistry, Amount, Counts
<1>3. CountedVerified = Total(Counts, DOMAIN registry)
  BY DEF CountedVerified, Counts
<1>4. CountedVerified \in Nat
  BY <1>1, <1>2, <1>3, TotalType
<1>5. \A m \in DOMAIN registry : Counts[m] <= CountedVerified
  BY <1>1, <1>2, <1>3, TotalBounds
<1>6. ASSUME NEW m \in DOMAIN registry, AtMostOneRegistry
      PROVE  CountedVerified = Counts[m]
  <2>1. (DOMAIN registry) \ {m} = {}
    BY <1>6 DEF AtMostOneRegistry
  <2>2. Total(Counts, DOMAIN registry)
          = Counts[m] + Total(Counts, (DOMAIN registry) \ {m})
    BY <1>1, <1>2, TotalSplit
  <2> QED BY <1>2, <1>3, <2>1, <2>2, TotalEmpty
<1> QED BY <1>1, <1>2, <1>3, <1>4, <1>5, <1>6

LEMMA PrimedCounts ==
  ASSUME TypeOK'
  PROVE  /\ IsFiniteSet(DOMAIN registry')
         /\ \A m \in DOMAIN registry' : Counts'[m] \in Nat
         /\ CountedVerified' = Total(Counts', DOMAIN registry')
<1>1. IsFiniteSet(DOMAIN registry')
  BY KycAssumption, FS_Subset DEF TypeOK
<1>2. \A m \in DOMAIN registry' : Counts'[m] \in Nat
  BY MaxU64Assumption DEF TypeOK, KycRegistry, Amount, Counts
<1>3. CountedVerified' = Total(Counts', DOMAIN registry')
  BY DEF CountedVerified, Counts
<1> QED BY <1>1, <1>2, <1>3

\* The registries and one counter of them after a step: the sum moves with it.
LEMMA CountsUpdate ==
  ASSUME TypeOK, TypeOK', DOMAIN registry' = DOMAIN registry,
         NEW m \in DOMAIN registry,
         \A k \in (DOMAIN registry) \ {m} : Counts'[k] = Counts[k]
  PROVE  CountedVerified' = CountedVerified + Counts'[m] - Counts[m]
<1>1. /\ \A k \in DOMAIN registry : Counts[k] \in Nat
      /\ CountedVerified = Total(Counts, DOMAIN registry)
      /\ IsFiniteSet(DOMAIN registry)
  BY CountsType
<1>2. /\ \A k \in DOMAIN registry' : Counts'[k] \in Nat
      /\ CountedVerified' = Total(Counts', DOMAIN registry')
  BY PrimedCounts
<1> DEFINE f == Counts
           g == Counts'
           D == DOMAIN registry
<1>3. \A k \in D : f[k] \in Nat /\ g[k] \in Nat
  BY <1>1, <1>2
<1>4. \A k \in D \ {m} : g[k] = f[k]
  OBVIOUS
<1>5. IsFiniteSet(D) /\ m \in D
  BY <1>1
<1> HIDE DEF f, g, D
<1>6. Total(g, D) = Total(f, D) + g[m] - f[m]
  BY <1>3, <1>4, <1>5, TotalUpdate
<1> QED BY <1>1, <1>2, <1>6 DEF f, g, D

\* The verified wallets after set_kyc_status, and the counters.
LEMMA CountStep ==
  ASSUME CountInv, TypeOK', Cardinality(Wallets) <= MaxU64,
         NEW officer \in Officers, NEW m \in Mints, NEW w \in Wallets,
         NEW v \in BOOLEAN, NEW e \in Int, SetKycStatus(officer, m, w, v, e)
  PROVE  CountInv'
<1> DEFINE V     == VerifiedWallets
           n     == Cardinality(V)
           sum   == CountedVerified
           total == Counts[m]
<1>1. /\ m \in DOMAIN registry /\ TypeOK
      /\ registry' = [registry EXCEPT ![m].total_verified =
                        CountAfter(@, Verified(w), v)]
      /\ status' = With(status, w, [is_verified |-> v, expires_at |-> e])
  BY DEF SetKycStatus, SetKycStatusAccounts, CountInv
<1>2. /\ V \subseteq Wallets /\ IsFiniteSet(Wallets) /\ IsFiniteSet(V)
      /\ V \union {w} \subseteq Wallets
      /\ Cardinality(Wallets) \in Nat /\ n \in Nat
  BY <1>1, KycAssumption, FS_Subset, FS_CardinalityType DEF VerifiedWallets, TypeOK
<1>3. /\ total \in Nat /\ total <= MaxU64 /\ sum \in Nat /\ total <= sum
      /\ AtMostOneRegistry => sum = total
  BY <1>1, CountsType
<1>4. n <= sum /\ (AtMostOneRegistry => n = sum)
  BY DEF CountInv
<1>5. /\ DOMAIN registry' = DOMAIN registry
      /\ Counts'[m] = CountAfter(total, Verified(w), v)
      /\ \A k \in (DOMAIN registry) \ {m} : Counts'[k] = Counts[k]
  BY <1>1 DEF TypeOK, KycRegistry, Counts
<1>6. sum' = sum + CountAfter(total, Verified(w), v) - total
  BY <1>1, <1>5, CountsUpdate
<1>7. AtMostOneRegistry' <=> AtMostOneRegistry
  BY <1>5 DEF AtMostOneRegistry
<1>8. Verified(w) <=> w \in V
  BY DEF Verified, VerifiedWallets
<1>9. V' = IF v THEN V \union {w} ELSE V \ {w}
  BY <1>1 DEF VerifiedWallets, With
<1> HIDE DEF V, total, sum
<1>10. n' <= sum' /\ (AtMostOneRegistry => n' = sum')
  <2>1. CASE v /\ w \notin V
    <3>1. n' = n + 1
      BY <1>2, <1>9, <2>1, FS_AddElement
    <3>2. Cardinality(V \union {w}) <= Cardinality(Wallets)
      BY <1>2, FS_Subset
    <3>3. n + 1 <= MaxU64
      BY <1>2, <1>9, <2>1, <3>1, <3>2, MaxU64Assumption
    <3> HIDE DEF n
    <3>4. CASE total < MaxU64
      <4>1. CountAfter(total, Verified(w), v) = total + 1
        BY <1>8, <2>1, <3>4 DEF CountAfter
      <4> QED BY <1>2, <1>3, <1>4, <1>6, <3>1, <4>1
    <3>5. CASE ~ (total < MaxU64)
      <4>1. CountAfter(total, Verified(w), v) = total
        BY <2>1, <3>5 DEF CountAfter
      <4> QED BY <1>2, <1>3, <1>4, <1>6, <3>1, <3>3, <3>5, <4>1, MaxU64Assumption
    <3> QED BY <3>4, <3>5
  <2>2. CASE ~ v /\ w \in V
    <3>1. n' = n - 1 /\ n' \in Nat
      BY <1>2, <1>9, <2>2, FS_RemoveElement, FS_CardinalityType
    <3> HIDE DEF n
    <3>2. CASE total > 0
      <4>1. CountAfter(total, Verified(w), v) = total - 1
        BY <1>8, <2>2, <3>2 DEF CountAfter
      <4> QED BY <1>2, <1>3, <1>4, <1>6, <3>1, <4>1
    <3>3. CASE ~ (total > 0)
      <4>1. CountAfter(total, Verified(w), v) = total
        BY <2>2, <3>3 DEF CountAfter
      <4> QED BY <1>2, <1>3, <1>4, <1>6, <3>1, <3>3, <4>1
    <3> QED BY <3>2, <3>3
  <2>3. CASE v <=> w \in V
    <3>1. V' = V
      BY <1>9, <2>3
    <3>2. CountAfter(total, Verified(w), v) = total
      BY <1>8, <2>3 DEF CountAfter
    <3>3. n' = n
      BY <3>1
    <3> HIDE DEF n
    <3> QED BY <1>3, <1>4, <1>6, <3>2, <3>3
  <2> QED BY <2>1, <2>2, <2>3
<1> QED BY <1>7, <1>10 DEF CountInv, V, sum

\* A new registry counts nothing; it is the first only when nobody is verified.
LEMMA NewRegistryStep ==
  ASSUME CountInv, TypeOK', NEW officer \in Officers, NEW m \in Mints,
         InitializeRegistry(officer, m)
  PROVE  CountInv'
<1> DEFINE D == DOMAIN registry
<1>1. /\ m \notin D /\ status' = status /\ TypeOK
      /\ registry' = With(registry, m, [authority |-> officer, total_verified |-> 0])
  BY DEF InitializeRegistry, InitializeRegistryAccounts, CountInv
<1>2. /\ DOMAIN registry' = D \union {m}
      /\ Counts'[m] = 0 /\ \A k \in D : Counts'[k] = Counts[k]
  BY <1>1 DEF With, Counts
<1>3. /\ IsFiniteSet(DOMAIN registry')
      /\ \A k \in DOMAIN registry' : Counts'[k] \in Nat
      /\ CountedVerified' = Total(Counts', DOMAIN registry')
  BY PrimedCounts
<1>4. CountedVerified = Total(Counts, D) /\ IsFiniteSet(D) /\ CountedVerified \in Nat
  BY <1>1, CountsType
<1> DEFINE f == Counts
           g == Counts'
           E == DOMAIN registry'
<1>5. E \ {m} = D
  BY <1>1, <1>2
<1>6. /\ IsFiniteSet(E) /\ m \in E /\ g[m] = 0
      /\ \A k \in E : g[k] \in Nat
      /\ \A k \in D : g[k] = f[k]
  BY <1>2, <1>3
<1>7. CountedVerified' = Total(g, E) /\ CountedVerified = Total(f, D)
  BY <1>3, <1>4
<1> HIDE DEF f, g, E
<1>8. Total(g, E) = g[m] + Total(g, E \ {m})
  BY <1>6, TotalSplit
<1> HIDE DEF D
<1>9. Total(g, D) = Total(f, D)
  BY <1>4, <1>6, TotalSame
<1>10. CountedVerified' = CountedVerified
  BY <1>4, <1>5, <1>6, <1>7, <1>8, <1>9
<1>11. VerifiedWallets' = VerifiedWallets
  BY <1>1 DEF VerifiedWallets
<1>12. AtMostOneRegistry' => AtMostOneRegistry
  BY <1>2 DEF AtMostOneRegistry, D
<1> QED BY <1>10, <1>11, <1>12 DEF CountInv

LEMMA SameCounts ==
  ASSUME CountInv, TypeOK', status' = status,
         DOMAIN registry' = DOMAIN registry, Counts' = Counts
  PROVE  CountInv'
<1>1. VerifiedWallets' = VerifiedWallets /\ (AtMostOneRegistry' <=> AtMostOneRegistry)
  BY DEF VerifiedWallets, AtMostOneRegistry
<1>2. CountedVerified = Total(Counts, DOMAIN registry)
  BY DEF CountedVerified, Counts
<1>3. CountedVerified' = Total(Counts', DOMAIN registry')
  BY DEF CountedVerified, Counts
<1>4. CountedVerified' = CountedVerified
  BY <1>2, <1>3
<1> QED BY <1>1, <1>4 DEF CountInv

\* Every other step leaves the statuses alone, and the registries with the numbers they
\* had, or creates one.
LEMMA CountInvStep ==
  ASSUME Cardinality(Wallets) <= MaxU64, CountInv, TypeOK', [Next]_vars
  PROVE  CountInv'
<1>1. ASSUME UNCHANGED <<registry, status>> PROVE CountInv'
  BY <1>1, SameCounts DEF Counts
<1>2. ASSUME NEW officer \in Officers, NEW m \in Mints, NEW w \in Wallets,
             NEW v \in BOOLEAN, NEW e \in Int, SetKycStatus(officer, m, w, v, e)
      PROVE  CountInv'
  BY <1>2, CountStep
<1>3. ASSUME NEW officer \in Officers, NEW m \in Mints, InitializeRegistry(officer, m)
      PROVE  CountInv'
  BY <1>3, NewRegistryStep
<1>4. ASSUME NEW officer \in Officers, NEW m \in Mints, NEW new_authority \in Officers,
             TransferAuthority(officer, m, new_authority)
      PROVE  CountInv'
  <2>1. /\ m \in DOMAIN registry /\ status' = status
        /\ registry' = [registry EXCEPT ![m].authority = new_authority]
    BY <1>4 DEF TransferAuthority, TransferAuthorityAccounts
  <2>2. /\ DOMAIN registry' = DOMAIN registry
        /\ \A k \in DOMAIN registry :
             registry'[k].total_verified = registry[k].total_verified
    BY <2>1 DEF CountInv, TypeOK, KycRegistry
  <2>3. Counts' = Counts
    BY <2>2 DEF Counts
  <2> QED BY <2>1, <2>2, <2>3, SameCounts
<1>5. ASSUME NEW t \in Terminals, NEW officer \in Officers, NEW m \in Mints,
             NEW w \in Wallets,
             \/ \E expires_at \in Expiries : VerifyKyc(t, officer, m, w, expires_at)
             \/ RevokeKyc(t, officer, m, w)
      PROVE  CountInv'
  <2>1. ASSUME NEW e \in Expiries, VerifyKyc(t, officer, m, w, e)
        PROVE  e \in Int /\ SetKycStatus(officer, m, w, TRUE, e)
    BY <2>1, KycAssumption DEF VerifyKyc
  <2>2. ASSUME RevokeKyc(t, officer, m, w)
        PROVE  SetKycStatus(officer, m, w, FALSE, -1)
    BY <2>2, Zenon DEF RevokeKyc
  <2>3. -1 \in Int
    OBVIOUS
  <2> QED BY <1>2, <1>5, <2>1, <2>2, <2>3
<1>6. CASE UNCHANGED vars
  BY <1>1, <1>6 DEF vars
<1>7. CASE \/ Tick
           \/ \E m \in Mints :
                \/ InitializeExtraAccountMetaList(m)
                \/ \E w \in Wallets :
                     \/ CreateAccount(m, w)
                     \/ \E amount \in TokenAmounts : BurnTokens(m, w, amount)
  BY <1>1, <1>7 DEF Tick, InitializeExtraAccountMetaList, CreateAccount, BurnTokens
<1>8. ASSUME NEW t \in Terminals,
             \/ LookForAccount(t) \/ Thaw(t) \/ Freeze(t) \/ Fail(t)
             \/ \E amount \in TokenAmounts : Send(t, amount)
             \/ \E m \in Mints, w \in Wallets :
                  \/ \E from \in Wallets : TransferTokens(t, m, from, w)
                  \/ \E officer \in Officers : MintTokens(t, officer, m, w)
      PROVE  CountInv'
  <2>1. CASE LookForAccount(t) \/ Thaw(t) \/ Freeze(t) \/ Fail(t)
    BY <1>1, <2>1 DEF LookForAccount, Thaw, Freeze, SetFrozen, Fail
  <2>2. ASSUME NEW amount \in TokenAmounts, Send(t, amount) PROVE CountInv'
    BY <1>1, <2>2 DEF Send
  <2>3. ASSUME NEW m \in Mints, NEW w \in Wallets,
               \/ \E from \in Wallets : TransferTokens(t, m, from, w)
               \/ \E officer \in Officers : MintTokens(t, officer, m, w)
        PROVE  CountInv'
    BY <1>1, <2>3 DEF TransferTokens, MintTokens
  <2> QED BY <1>8, <2>1, <2>2, <2>3
<1> QED BY <1>3, <1>4, <1>5, <1>6, <1>7, <1>8 DEF Next

-----------------------------------------------------------------------------
(* Theorems *)

THEOREM Invariance == Spec => []IInv
BY InitIInv, NextIInv, PTL DEF Spec

\* Registries, statuses, accounts, ledgers and commands keep their types, for any
\* number of stablecoins, wallets and terminals.
THEOREM TypeCorrect == Spec => []TypeOK
<1>1. IInv => TypeOK
  BY DEF IInv
<1> QED BY <1>1, Invariance, PTL

\* No wallet without a KYC status ever has a thawed account or tokens, however many
\* commands overlap, fail or find accounts missing.
THEOREM NoTokensBeforeKyc == Spec => []KycBeforeTokens
<1>1. IInv => KycBeforeTokens
  BY DEF IInv
<1> QED BY <1>1, Invariance, PTL

\* No transfer changes the balance of a wallet that is not verified, whenever the
\* transfer was prepared and whatever became of the freeze.
THEOREM RevokedKeptOut == Spec => RevokedStaysOut
<1> DEFINE Out ==
      \A m \in Mints, w \in Wallets :
        token'[m].supply = token[m].supply /\ ~ Verified(w)
          => token'[m].bal[w] = token[m].bal[w]
<1>1. TypeOK /\ [Next]_vars => [Out]_vars
  <2> SUFFICES ASSUME TypeOK, Next, token' # token PROVE Out
    BY DEF vars
  <2>1. ASSUME NEW t \in Terminals, NEW amount \in TokenAmounts, Send(t, amount)
        PROVE  Out
    BY <2>1, SendTokens, KycAssumption
  <2>2. ASSUME NEW m \in Mints, NEW w \in Wallets, NEW amount \in TokenAmounts,
               BurnTokens(m, w, amount)
        PROVE  Out
    BY <2>2, BurnTokensStep, KycAssumption
  <2>3. \/ \E t \in Terminals, amount \in TokenAmounts : Send(t, amount)
        \/ \E m \in Mints, w \in Wallets, amount \in TokenAmounts :
             BurnTokens(m, w, amount)
    <3>1. ~ Tick
      BY DEF Tick
    <3>2. ASSUME NEW m \in Mints, NEW w \in Wallets
          PROVE  ~ CreateAccount(m, w)
      BY DEF CreateAccount
    <3>3. ASSUME NEW m \in Mints
          PROVE  ~ InitializeExtraAccountMetaList(m)
      BY DEF InitializeExtraAccountMetaList
    <3>4. ASSUME NEW m \in Mints, NEW officer \in Officers
          PROVE  /\ ~ InitializeRegistry(officer, m)
                 /\ \A a \in Officers : ~ TransferAuthority(officer, m, a)
      BY DEF InitializeRegistry, TransferAuthority
    <3>5. ASSUME NEW t \in Terminals
          PROVE  ~ LookForAccount(t) /\ ~ Thaw(t) /\ ~ Freeze(t) /\ ~ Fail(t)
      BY DEF LookForAccount, Thaw, Freeze, SetFrozen, Fail
    <3>6. ASSUME NEW t \in Terminals, NEW m \in Mints, NEW w \in Wallets
          PROVE  /\ \A from \in Wallets : ~ TransferTokens(t, m, from, w)
                 /\ \A officer \in Officers :
                      /\ ~ MintTokens(t, officer, m, w)
                      /\ ~ RevokeKyc(t, officer, m, w)
                      /\ \A e \in Expiries : ~ VerifyKyc(t, officer, m, w, e)
      BY DEF TransferTokens, MintTokens, RevokeKyc, VerifyKyc
    <3> QED BY <3>1, <3>2, <3>3, <3>4, <3>5, <3>6 DEF Next
  <2> QED BY <2>1, <2>2, <2>3
<1>2. RevokedStaysOut <=> [][Out]_vars
  BY DEF RevokedStaysOut
<1> QED BY <1>1, <1>2, TypeCorrect, PTL DEF Spec

\* For any number of mints and of registries opened for them, and counters that can
\* hold the number of the wallets, the counters of all registries add up to at least the
\* verified wallets, and to exactly their number as long as there is one registry.
THEOREM NobodyUncounted ==
  ASSUME Cardinality(Wallets) <= MaxU64
  PROVE  Spec => []VerifiedAreCounted
<1>1. Init => CountInv
  <2> SUFFICES ASSUME Init PROVE CountInv
    OBVIOUS
  <2>1. DOMAIN registry = {} /\ DOMAIN status = {}
    BY DEF Init
  <2>2. VerifiedWallets = {} /\ CountedVerified = 0
    BY <2>1, TotalEmpty DEF VerifiedWallets, CountedVerified
  <2> QED BY <2>2, InitIInv, FS_EmptySet DEF CountInv, IInv
<1>2. TypeOK /\ TypeOK' /\ CountInv /\ [Next]_vars => CountInv'
  BY CountInvStep
<1>3. CountInv => VerifiedAreCounted
  <2> SUFFICES ASSUME CountInv PROVE VerifiedAreCounted
    OBVIOUS
  <2>1. Cardinality(DOMAIN registry) = 1 => AtMostOneRegistry
    BY CountsType, FS_Singleton DEF CountInv, AtMostOneRegistry
  <2> QED BY <2>1 DEF CountInv, VerifiedAreCounted
<1> QED BY <1>1, <1>2, <1>3, TypeCorrect, PTL DEF Spec
=============================================================================
