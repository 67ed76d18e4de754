----------------------------- MODULE MCFlufPool -----------------------------
(***************************************************************************)
(* Instances of FlufPool for TLC.                                           *)
(***************************************************************************)
EXTENDS FlufPool, TLC

\* No action and no property names a wallet.
WalletSymmetry == Permutations(Users)
=============================================================================
