--------------------------- MODULE MCWithdrawals ---------------------------
(* Faults and symmetry for model checking Withdrawals. *)
EXTENDS Withdrawals, TLC

EveryFault == {"ledger", "store", "rpc", "broadcast", "reject", "drop", "cancel",
               "crash"}

Symmetry == Permutations(Call)
=============================================================================
