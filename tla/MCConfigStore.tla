---------------------------- MODULE MCConfigStore ----------------------------
(* Three generations of backups, two threads that save and a second app. *)
EXTENDS ConfigStore, TLC
Symmetry == Permutations(Apps) \cup Permutations(Threads)
=============================================================================
