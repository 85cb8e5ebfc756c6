--------------------------- MODULE MCAccountLogin ---------------------------
(***************************************************************************)
(* AccountLogin for TLC: passwords and verifies are interchangeable.       *)
(***************************************************************************)
EXTENDS AccountLogin, TLC

Symmetry == Permutations(Password) \cup Permutations(Verify)
=============================================================================
