--------------------------- MODULE MCRebalanceBot ---------------------------
(***************************************************************************)
(* Instances of RebalanceBot for TLC, and the statements of the repository  *)
(* about the vault under the bot that the code does not keep.               *)
(***************************************************************************)
EXTENDS RebalanceBot

NoFees ==
  {[max_cap |-> MaxU64,
    performance_fee_bps |-> 0, management_fee_bps |-> 0,
    deposit_fee_bps |-> 0, withdrawal_fee_bps |-> 0,
    locked_profit_degradation |-> 0, withdrawal_wait_period |-> 0]}

\* Every fee but that of a deposit, and a profit lock of one second.
Fees ==
  {[max_cap |-> MaxU64,
    performance_fee_bps |-> 5, management_fee_bps |-> 1,
    deposit_fee_bps |-> 0, withdrawal_fee_bps |-> 3,
    locked_profit_degradation |-> 1, withdrawal_wait_period |-> 0]}

\* "Simulate yield: 5% APY pro-rated per refresh interval" (rebalance-bot.ts:258):
\* a report of the refresh loop adds to the vault's books no more than that yield
\* of the position it finds, and never takes from them.
ReportsBookYield ==
  [][Lands("refresh") =>
       LET i == Current("refresh").strategy
       IN  Books' - Books \in 0 .. SimulatedYield(i)
    ]_botVars

-----------------------------------------------------------------------------
\* A holder who wants out: keeps sending instant_withdraw for all its LP tokens.
Leaves(h) == InstantWithdraw(h, lp.bal[h]) /\ UNCHANGED <<pass, late>>

ExitSpec == BotSpec /\ \A h \in Holders : SF_botVars(Leaves(h))

\* "Want to leave? Burn vT, get fT back, [...] No lockup. No penalty. No permission
\* needed." (src/README.md:33): whoever wants out gets out.
HoldersGetOut == \A h \in Holders : lp.bal[h] > 0 ~> lp.bal[h] = 0
=============================================================================
