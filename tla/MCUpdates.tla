------------------------------ MODULE MCUpdates ------------------------------
(* A 32U4 with a foreign sketch, one that is behind, and an RP2040 that is. *)
EXTENDS Updates, TLC
MCArriving == {Pad("avr109", 0), Pad("avr109", 1), Pad("uf2", 1)}
=============================================================================
