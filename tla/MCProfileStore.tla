--------------------------- MODULE MCProfileStore ---------------------------
(* A profile of two chunks, the factory one mixed, so that clearing it and    *)
(* setting it are different writes.                                           *)
EXTENDS ProfileStore

MCDefaults == [p \in 1 .. 2 |-> IF p = 1 THEN 1 ELSE 0]
=============================================================================
