--------------------------- MODULE MCDeviceClient ---------------------------
(* Model checking of DeviceClient: nothing but what TLC needs. *)
EXTENDS DeviceClient, TLC

\* The callers differ in nothing but their names.
CallersAlike == Permutations(CALLERS)

=============================================================================
