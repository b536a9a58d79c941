-------------------------- MODULE MCGeneralBackend --------------------------
(* Three spellings of two addresses, for TLC. *)
EXTENDS GeneralBackend, TLC
CONSTANTS i1, i2, b1, b2, ana, Ana, bia

TwoAddresses == ana :> ana @@ Ana :> ana @@ bia :> bia
Symmetry == Permutations(Browser) \cup Permutations(Id)
=============================================================================
