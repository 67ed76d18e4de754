------------------------------ MODULE SplToken ------------------------------
(***************************************************************************)
(* The SPL token program as the programs under src/programs use it: one     *)
(* mint and the token accounts of that mint.  It is a dependency of the     *)
(* repository, not a part of it, so what it does is taken from the calls    *)
(* made to it (token::transfer, token::mint_to, token::burn) and from the   *)
(* failures the callers rely on ("Fails if the user doesn't have enough     *)
(* tokens", fluf/src/lib.rs:63).                                            *)
(*                                                                          *)
(* A ledger is a record [supply |-> n, bal |-> f]: the supply of the mint   *)
(* and the balance of each account.  An instruction is a guard (Can...) and *)
(* the ledger it leaves.  A transaction whose guard is false reverts, so    *)
(* callers use the guard as a conjunct of the calling action.               *)
(***************************************************************************)
EXTENDS Integers, Sums

CONSTANT MaxU64        \* the largest amount a token account can hold

ASSUME MaxU64Assumption == MaxU64 \in Nat \ {0}

Amount == 0 .. MaxU64

Ledgers(Accounts) == [supply : Amount, bal : [Accounts -> Amount]]

\* The balances of the accounts add up to the supply of the mint.
AddsUp(m) == m.supply = Total(m.bal, DOMAIN m.bal)

\* The authority named by the instruction must be among the accounts that signed
\* the transaction or that the calling program signed for with PDA seeds.
CanMint(m, to, n, authority, signers) ==
  /\ authority \in signers
  /\ m.supply + n <= MaxU64
  /\ m.bal[to] + n <= MaxU64

MintTo(m, to, n) ==
  [supply |-> m.supply + n, bal |-> [m.bal EXCEPT ![to] = @ + n]]

CanBurn(m, from, n, authority, signers) ==
  /\ authority \in signers
  /\ n <= m.bal[from]
  /\ n <= m.supply

Burn(m, from, n) ==
  [supply |-> m.supply - n, bal |-> [m.bal EXCEPT ![from] = @ - n]]

CanTransfer(m, from, to, n, authority, signers) ==
  /\ authority \in signers
  /\ n <= m.bal[from]
  /\ from # to => m.bal[to] + n <= MaxU64

Transfer(m, from, to, n) ==
  [supply |-> m.supply,
   bal |-> IF from = to THEN m.bal
           ELSE [m.bal EXCEPT ![from] = @ - n, ![to] = @ + n]]
=============================================================================
