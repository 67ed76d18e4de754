------------------------------ MODULE MCVault -------------------------------
(***************************************************************************)
(* Instances of Vault for TLC, and the statements of the repository about   *)
(* the vault's accounts that the code does not keep.                        *)
(***************************************************************************)
EXTENDS Vault

Config(deposit_fee, withdrawal_fee, management_fee, performance_fee) ==
  [max_cap |-> 24,
   performance_fee_bps |-> performance_fee, management_fee_bps |-> management_fee,
   deposit_fee_bps |-> deposit_fee, withdrawal_fee_bps |-> withdrawal_fee,
   locked_profit_degradation |-> 2, withdrawal_wait_period |-> 0]

NoFees   == Config(0, 0, 0, 0)
ExitFee  == Config(0, 5, 0, 0)
AllFees  == Config(2, 3, 1, 5)

\* The sets of configurations of the runs.
AllFeesOnly  == {AllFees}
WithExitFee  == {NoFees, ExitFee}

-----------------------------------------------------------------------------
(* What the repository says of the vault and the code does not keep.         *)

\* "Currently locked profit amount" (vault/src/lib.rs:881), which unlocks over
\* locked_profit_degradation seconds (docs/RANGER-FINANCE-VAULTS.md:274-277): a new
\* profit adds itself to what is still locked, and nothing that had been unlocked
\* is locked again.
OnlyNewProfitIsLocked ==
  [][\A i \in StrategyIds, value \in ReportedValues :
       /\ ReportYield(Manager, i, value)
       /\ value > strategies[i].position_value
       => RemainingLocked' <= RemainingLocked + (value - strategies[i].position_value)
    ]_vars

\* "Deactivate a strategy. [...] Strategy must have zero position."
\* (vault/src/lib.rs:495): a deactivated strategy holds nothing, and allocate and
\* deallocate refuse it.
DeactivatedIsEmpty ==
  \A i \in StrategyIds : ~ strategies[i].is_active => strategies[i].position_value = 0
=============================================================================
