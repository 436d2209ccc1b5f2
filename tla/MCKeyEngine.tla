---------------------------- MODULE MCKeyEngine ----------------------------
(* Two keys; the first has a macro on its tap, single pass or looped, and    *)
(* with the first profile a double binding too.                              *)
EXTENDS KeyEngine

OnePass ==
  [k \in 0 .. 1 |-> IF k = 0 THEN [tap |-> "macro", double |-> "key"]
                             ELSE [tap |-> "key", double |-> "none"]]

Looped == [OnePass EXCEPT ![0] = [tap |-> "loop", double |-> "none"]]

MCProfiles == {OnePass, Looped}
=============================================================================
