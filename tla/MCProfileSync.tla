---------------------------- MODULE MCProfileSync ----------------------------
(* Two keys, two slots and a pool of three records. *)
EXTENDS ProfileSync, TLC
Symmetry == Permutations(Keys)
=============================================================================
