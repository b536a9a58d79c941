----------------------------- MODULE MCGateway ------------------------------
(* Symmetry for model checking Gateway. *)
EXTENDS Gateway, TLC

MCSymmetry ==
  Permutations(User) \cup Permutations(BetId) \cup Permutations(ListingId)
  \cup Permutations(Outcome)
=============================================================================
