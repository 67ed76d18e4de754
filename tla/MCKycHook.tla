----------------------------- MODULE MCKycHook ------------------------------
(***************************************************************************)
(* Instances of KycHook for TLC, and a statement of the repository about    *)
(* the stablecoin that the code does not keep.                              *)
(***************************************************************************)
EXTENDS KycHook, TLC

\* -1 never expires (cli.ts:661-665), 1 expires at the second moment of the clock.
NeverOrSoon == {-1, 1}
Never       == {-1}

Symmetry == Permutations(Wallets) \union Permutations(Terminals)
MintSymmetry == Permutations(Wallets) \union Permutations(Mints)

-----------------------------------------------------------------------------
(* What the repository says of the stablecoin and the code does not keep.    *)

\* "The transfer hook - called by Token-2022 on EVERY transfer."
\* (kyc_hook/src/lib.rs:116): a transfer that moves tokens passed transfer_hook,
\* which refuses a wallet whose KYC has expired.
HookedOnEveryTransfer ==
  [][\A t \in Terminals, amount \in TokenAmounts :
       cmd[t].step = "transfer" /\ Send(t, amount) /\ token' # token
         => TransferHook(cmd[t].mint, cmd[t].from, cmd[t].wallet)
    ]_vars
=============================================================================
