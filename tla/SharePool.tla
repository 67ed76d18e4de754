----------------------------- MODULE SharePool ------------------------------
(***************************************************************************)
(* What a share-issuing pool promises, with nothing about how it computes   *)
(* or settles: it holds assets, it has issued shares, and the only changes  *)
(* are someone joining, someone leaving, and the pool gaining.  None of the *)
(* three may lower what a share is worth.  FlufPool implements this         *)
(* specification with assets = the balance of pool_account and shares = the *)
(* supply of the fT mint.                                                   *)
(***************************************************************************)
EXTENDS Integers

VARIABLES assets, shares

poolVars == <<assets, shares>>

Init == assets = 0 /\ shares = 0

\* assets / shares does not fall, cross-multiplied so that it also reads when
\* there are no shares.
PriceKept == assets' * shares >= assets * shares'

\* Assets come in and shares are issued for them, never more than one each.
Join ==
  /\ assets' >= assets
  /\ shares' >= shares
  /\ shares' <= assets'
  /\ PriceKept

\* Shares are redeemed, for no more than their part of the assets.
Leave ==
  /\ assets' <= assets
  /\ shares' <= shares
  /\ shares' >= 0
  /\ PriceKept

\* The pool earns: assets are given to it, or shares are given up for nothing.
Gain ==
  /\ assets' >= assets
  /\ shares' <= shares
  /\ shares' >= 0

Next ==
  /\ assets' \in Nat
  /\ shares' \in Nat
  /\ Join \/ Leave \/ Gain

Spec == Init /\ [][Next]_poolVars

-----------------------------------------------------------------------------
\* Every share outstanding is worth at least one unit of the asset: the pool can
\* never have issued more fT than the T it holds (fluf/src/lib.rs:47-55).
Covered ==
  /\ assets \in Nat
  /\ shares \in Nat
  /\ shares <= assets
=============================================================================
