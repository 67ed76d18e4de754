------------------------------ MODULE KycHook -------------------------------
(***************************************************************************)
(* The KYC stablecoin: the hook program src/programs/kyc_hook, the          *)
(* Token-2022 mints that call it, and the commands of                       *)
(* src/stablecoin/cli.ts that issue the token.                              *)
(*                                                                          *)
(* An instruction of the program is one action.  A command of the CLI is a  *)
(* process of several steps: it sends a transaction, waits, reads or sends  *)
(* again, and other commands run in between; a call that fails ends it.     *)
(* cmd[t] is what the command run from terminal t still has to do.          *)
(*                                                                          *)
(* Left out because nothing reads them: a status's wallet, verified_at,     *)
(* verified_by and bump, the registry's mint and bump.                      *)
(***************************************************************************)
EXTENDS SplToken, FiniteSets

CONSTANTS
  Mints,           \* mints, each created with create-mint
  Wallets,         \* wallets that may hold them
  Issuer,          \* the key that created the mints: mint and freeze authority
  Officers,        \* the keys that commands are run with, Issuer among them
  Terminals,       \* where commands run
  Expiries,        \* bounds: values for expires_at, amounts, the clock
  TokenAmounts,
  MaxTime

ASSUME KycAssumption ==
  /\ IsFiniteSet(Mints)
  /\ IsFiniteSet(Wallets)
  /\ Issuer \in Officers
  /\ Expiries \subseteq Int
  /\ TokenAmounts \subseteq Amount
  /\ MaxTime \in Nat

VARIABLES
  registry,     \* the KycRegistry accounts that exist, by mint
  status,       \* the KycStatus accounts that exist, by wallet
  metaList,     \* the mints whose ExtraAccountMetaList exists
  account,      \* the token account of a wallet for a mint: absent, frozen, thawed
  token,        \* the ledger of each mint
  now,          \* Clock::unix_timestamp
  cmd           \* the commands that are running

vars == <<registry, status, metaList, account, token, now, cmd>>

KycStatus   == [is_verified : BOOLEAN, expires_at : Int]
KycRegistry == [authority : Officers, total_verified : Amount]

\* A terminal with no command, and what a running one will do next.
Idle == [step |-> "idle"]
Commands ==
  {Idle}
    \union [step : {"look", "thaw", "freeze"},
            officer : Officers, mint : Mints, wallet : Wallets]
    \union [step : {"mint"}, officer : Officers, mint : Mints, wallet : Wallets,
            found : BOOLEAN]
    \union [step : {"transfer"}, mint : Mints, from : Wallets, wallet : Wallets,
            found : BOOLEAN]

\* As if the extension were left out.
WrongDefaultAccountState == "thawed"

\* create-mint has been run: nothing is issued, and the mint's accounts will be
\* created in the state that the DefaultAccountState extension names.
DefaultAccountState == "frozen"

Init ==
  /\ registry = [m \in {} |-> {}]
  /\ status = [w \in {} |-> {}]
  /\ metaList = {}
  /\ account = [m \in Mints |-> [w \in Wallets |-> "absent"]]
  /\ token = [m \in Mints |-> [supply |-> 0, bal |-> [w \in Wallets |-> 0]]]
  /\ now = 0
  /\ cmd = [t \in Terminals |-> Idle]

With(f, k, v) == [x \in DOMAIN f \union {k} |-> IF x = k THEN v ELSE f[x]]

-----------------------------------------------------------------------------
(* The program *)

\* The registry is created with init, whoever signs.
InitializeRegistryAccounts(m) == m \notin DOMAIN registry

\* The first signer for a mint becomes its authority, issuer or not.
InitializeRegistry(officer, m) ==
  /\ InitializeRegistryAccounts(m)
  /\ registry' = With(registry, m, [authority |-> officer, total_verified |-> 0])
  /\ UNCHANGED <<status, metaList, account, token, now, cmd>>

InitializeExtraAccountMetaList(m) ==
  /\ m \notin metaList
  /\ metaList' = metaList \union {m}
  /\ UNCHANGED <<registry, status, account, token, now, cmd>>

Verified(w) == w \in DOMAIN status /\ status[w].is_verified

\* As if was_verified were not looked at.
WrongAlwaysCounts(total, was_verified, is_verified) ==
  IF is_verified
  THEN (IF total < MaxU64 THEN total + 1 ELSE total)
  ELSE (IF total > 0 THEN total - 1 ELSE total)
WrongUnsaturated(total, was_verified, is_verified) ==
  IF is_verified THEN total + 1 ELSE total - 1

CountAfter(total, was_verified, is_verified) ==
  IF is_verified /\ ~ was_verified /\ total < MaxU64
  THEN total + 1
  ELSE IF ~ is_verified /\ was_verified /\ total > 0 THEN total - 1 ELSE total

\* The mint's registry exists; the wallet's status is created with init_if_needed.
SetKycStatusAccounts(m) == m \in DOMAIN registry

\* A status belongs to a wallet and not to a mint: its address is derived from
\* the wallet alone.  It is created with init_if_needed, unverified.
SetKycStatus(officer, m, w, is_verified, expires_at) ==
  /\ SetKycStatusAccounts(m)
  /\ officer = registry[m].authority
  /\ status' = With(status, w, [is_verified |-> is_verified,
                                expires_at |-> expires_at])
  /\ registry' = [registry EXCEPT ![m].total_verified =
                    CountAfter(@, Verified(w), is_verified)]

\* The registry exists; that its authority signs is asked by the handler.
TransferAuthorityAccounts(m) == m \in DOMAIN registry

TransferAuthority(officer, m, new_authority) ==
  /\ TransferAuthorityAccounts(m)
  /\ officer = registry[m].authority
  /\ registry' = [registry EXCEPT ![m].authority = new_authority]
  /\ UNCHANGED <<status, metaList, account, token, now, cmd>>

\* What the handler named transfer_hook asks of a transfer: the account list and the
\* registry of the mint and the statuses of both owners exist, and are in order.
NotExpired(w) == status[w].expires_at > 0 => now < status[w].expires_at
TransferHookAccounts(m, from, to) ==
  /\ m \in metaList
  /\ m \in DOMAIN registry
  /\ {from, to} \subseteq DOMAIN status
TransferHook(m, from, to) ==
  /\ TransferHookAccounts(m, from, to)
  /\ \A w \in {from, to} : Verified(w) /\ NotExpired(w)

\* As if only the sender were looked at.
WrongSourceOnly(from, to) == Verified(from)

\* What the handler that Token-2022 reaches asks of it.
Fallback(from, to) == Verified(from) /\ Verified(to)

-----------------------------------------------------------------------------
(* Verifying and revoking: the status in one transaction, the freeze state   *)
(* of the token account in another.                                          *)

Run(t, next) == cmd' = [cmd EXCEPT ![t] = next]

VerifyKyc(t, officer, m, w, expires_at) ==
  /\ cmd[t] = Idle
  /\ SetKycStatus(officer, m, w, TRUE, expires_at)
  /\ Run(t, [step |-> "look", officer |-> officer, mint |-> m, wallet |-> w])
  /\ UNCHANGED <<metaList, account, token, now>>

\* getAccountInfo: with no account there is nothing to thaw.
LookForAccount(t) ==
  /\ cmd[t].step = "look"
  /\ Run(t, IF account[cmd[t].mint][cmd[t].wallet] = "absent"
            THEN Idle
            ELSE [cmd[t] EXCEPT !.step = "thaw"])
  /\ UNCHANGED <<registry, status, metaList, account, token, now>>

RevokeKyc(t, officer, m, w) ==
  /\ cmd[t] = Idle
  /\ SetKycStatus(officer, m, w, FALSE, -1)
  /\ Run(t, [step |-> "freeze", officer |-> officer, mint |-> m, wallet |-> w])
  /\ UNCHANGED <<metaList, account, token, now>>

\* thawAccount and freezeAccount need the mint's freeze authority and an account
\* in the other state.  The command catches the error and ends all the same.
SetFrozen(t, before, after) ==
  LET c == cmd[t]
  IN  /\ account' = IF /\ c.officer = Issuer
                       /\ account[c.mint][c.wallet] = before
                    THEN [account EXCEPT ![c.mint][c.wallet] = after]
                    ELSE account
      /\ Run(t, Idle)
      /\ UNCHANGED <<registry, status, metaList, token, now>>

Thaw(t)   == cmd[t].step = "thaw" /\ SetFrozen(t, "frozen", "thawed")
Freeze(t) == cmd[t].step = "freeze" /\ SetFrozen(t, "thawed", "frozen")

-----------------------------------------------------------------------------
(* Minting, burning, transferring.  mint-tokens and transfer look for the    *)
(* recipient's account first and put its creation into the transaction when  *)
(* they did not find it; a transaction that fails leaves nothing behind.     *)

MintTokens(t, officer, m, w) ==
  /\ cmd[t] = Idle
  /\ Run(t, [step |-> "mint", officer |-> officer, mint |-> m, wallet |-> w,
             found |-> account[m][w] # "absent"])
  /\ UNCHANGED <<registry, status, metaList, account, token, now>>

\* The accounts that the hook needs are resolved from the account list while the
\* transaction is built; without the list the hook fails and nothing happens.
TransferTokens(t, m, from, to) ==
  /\ cmd[t] = Idle
  /\ m \in metaList
  /\ Run(t, [step |-> "transfer", mint |-> m, from |-> from, wallet |-> to,
             found |-> account[m][to] # "absent"])
  /\ UNCHANGED <<registry, status, metaList, account, token, now>>

\* The recipient's account as the second instruction of the transaction sees it;
\* creating an account that exists by now is an error.
RecipientAccount(c) ==
  IF c.found THEN account[c.mint][c.wallet]
  ELSE IF account[c.mint][c.wallet] = "absent" THEN DefaultAccountState
  ELSE "error"

\* Token-2022 neither mints to nor moves from or to a frozen account.
CanMintTokens(c, amount) ==
  /\ RecipientAccount(c) = "thawed"
  /\ CanMint(token[c.mint], c.wallet, amount, Issuer, {c.officer})

CanTransferTokens(c, amount) ==
  /\ account[c.mint][c.from] = "thawed"
  /\ RecipientAccount(c) = "thawed"
  /\ CanTransfer(token[c.mint], c.from, c.wallet, amount, c.from, {c.from})
  /\ Fallback(c.from, c.wallet)

\* The transaction of mint-tokens or of transfer goes through, the account it
\* creates included.
Send(t, amount) ==
  LET c == cmd[t]
      m == c.mint
  IN  /\ \/ /\ c.step = "mint"
            /\ CanMintTokens(c, amount)
            /\ token' = [token EXCEPT ![m] = MintTo(@, c.wallet, amount)]
         \/ /\ c.step = "transfer"
            /\ CanTransferTokens(c, amount)
            /\ token' = [token EXCEPT ![m] = Transfer(@, c.from, c.wallet, amount)]
      /\ account' = [account EXCEPT ![m][c.wallet] = RecipientAccount(c)]
      /\ Run(t, Idle)
      /\ UNCHANGED <<registry, status, metaList, now>>

\* A call of the command fails, rejected or lost on its way, and the command ends.
Fail(t) ==
  /\ cmd[t] # Idle
  /\ Run(t, Idle)
  /\ UNCHANGED <<registry, status, metaList, account, token, now>>

BurnTokens(m, w, amount) ==
  /\ account[m][w] = "thawed"
  /\ CanBurn(token[m], w, amount, w, {w})
  /\ token' = [token EXCEPT ![m] = Burn(@, w, amount)]
  /\ UNCHANGED <<registry, status, metaList, account, now, cmd>>

\* A wallet creates its own account, as wallets do before receiving a token.
CreateAccount(m, w) ==
  /\ account[m][w] = "absent"
  /\ account' = [account EXCEPT ![m][w] = DefaultAccountState]
  /\ UNCHANGED <<registry, status, metaList, token, now, cmd>>

\* The clock; MaxTime is a bound of the model.
Tick ==
  /\ now < MaxTime
  /\ now' = now + 1
  /\ UNCHANGED <<registry, status, metaList, account, token, cmd>>

Next ==
  \/ Tick
  \/ \E m \in Mints :
       \/ InitializeExtraAccountMetaList(m)
       \/ \E officer \in Officers :
            \/ InitializeRegistry(officer, m)
            \/ \E new_authority \in Officers : TransferAuthority(officer, m, new_authority)
       \/ \E w \in Wallets :
            \/ CreateAccount(m, w)
            \/ \E amount \in TokenAmounts : BurnTokens(m, w, amount)
  \/ \E t \in Terminals :
       \/ LookForAccount(t)
       \/ Thaw(t)
       \/ Freeze(t)
       \/ Fail(t)
       \/ \E amount \in TokenAmounts : Send(t, amount)
       \/ \E m \in Mints, w \in Wallets :
            \/ \E from \in Wallets : TransferTokens(t, m, from, w)
            \/ \E officer \in Officers :
                 \/ MintTokens(t, officer, m, w)
                 \/ RevokeKyc(t, officer, m, w)
                 \/ \E expires_at \in Expiries : VerifyKyc(t, officer, m, w, expires_at)

Spec == Init /\ [][Next]_vars

-----------------------------------------------------------------------------
(* Properties *)

\* Type invariant: registries, statuses and commands have their fields
\* (kyc_hook/src/lib.rs:418-446), an absent account holds nothing.
TypeOK ==
  /\ DOMAIN registry \subseteq Mints
  /\ \A m \in DOMAIN registry : registry[m] \in KycRegistry
  /\ DOMAIN status \subseteq Wallets
  /\ \A w \in DOMAIN status : status[w] \in KycStatus
  /\ metaList \subseteq Mints
  /\ account \in [Mints -> [Wallets -> {"absent", "frozen", "thawed"}]]
  /\ token \in [Mints -> Ledgers(Wallets)]
  /\ \A m \in Mints, w \in Wallets :
       account[m][w] = "absent" => token[m].bal[w] = 0
  /\ now \in 0 .. MaxTime
  /\ cmd \in [Terminals -> Commands]

VerifiedWallets == {w \in DOMAIN status : status[w].is_verified}

\* No verified wallet goes uncounted: the counters of all registries add up to at least
\* the verified wallets, whichever registry verified or revoked them, repeatedly or
\* without need, and whoever has the authority; as long as there is one registry, its
\* counter is exactly their number.  (For no more wallets than a counter can hold.)
\* (kyc_hook/src/lib.rs:173-188; 284-301 and 392: anybody may open a registry for
\* another mint, and a status is shared by all.)
CountedVerified == Total([m \in DOMAIN registry |-> registry[m].total_verified], DOMAIN registry)
VerifiedAreCounted ==
  /\ Cardinality(VerifiedWallets) <= CountedVerified
  /\ Cardinality(DOMAIN registry) = 1 => Cardinality(VerifiedWallets) = CountedVerified

\* Nobody gets at the token without the registry's authority having decided on the
\* wallet: however commands overlap, fail half way or find accounts missing, a wallet
\* without a KYC status has no thawed account and no tokens (verifyKyc and mintTokens,
\* cli.ts:306-470, with the frozen default of 192-196).
KycBeforeTokens ==
  \A m \in Mints, w \in Wallets :
    account[m][w] = "thawed" \/ token[m].bal[w] > 0 => w \in DOMAIN status

\* After a revocation no tokens reach or leave the wallet by transfer until it is
\* verified again, also when the freeze that follows the revocation never came, was
\* undone by another command, or the transfer had been prepared before
\* (revokeKyc, cli.ts:367-416; fallback, kyc_hook/src/lib.rs:246-256).
RevokedStaysOut ==
  [][\A m \in Mints, w \in Wallets :
       token'[m].supply = token[m].supply /\ ~ Verified(w)
         => token'[m].bal[w] = token[m].bal[w]
    ]_vars
=============================================================================
