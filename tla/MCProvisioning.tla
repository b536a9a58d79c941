--------------------------- MODULE MCProvisioning ---------------------------
(* Symmetry for model checking Provisioning. *)
EXTENDS Provisioning, TLC

Symmetry == Permutations(Call) \cup Permutations(Account)
=============================================================================
