------------------------------ MODULE MCCapture ------------------------------
(* One recording with a shift, a printable word that asks for a secret, and Enter. *)
EXTENDS Capture
MCTravels == {<<4, 0>>, <<200, -31>>}
MCGaps == [keyboard |-> {24}, mouse |-> {30}]
MCStored == <<KeyAction({}, "a", "click"), TextAction(<<"a", "a">>), DelayAction(20)>>
=============================================================================
