-------------------------------- MODULE Sums ---------------------------------
(***************************************************************************)
(* The sum of the values of a function over a finite set: of balances over  *)
(* accounts, of positions over strategies.  It is in terms of the community *)
(* modules' fold; its laws are in SumProofs.                                *)
(***************************************************************************)
EXTENDS FiniteSetsExt, Integers

Total(f, S) == MapThenSumSet(LAMBDA x : f[x], S)
=============================================================================
