------------------------- MODULE MCRecordingSession -------------------------
(* Two keys, one with both gestures; two slots are enough for liveness.      *)
EXTENDS RecordingSession

MCSlots == {<<"k1", "tap">>, <<"k1", "double">>, <<"k2", "tap">>}
MCTwoSlots == {<<"k1", "tap">>, <<"k2", "tap">>}

\* Threads inside an abort or a finish.
Ending(t) == Stopping(t) \/ pc[t] \in {"release", "keep"}

\* Bound: at most two threads end a recording at once.
AtMostTwoEnd == Cardinality({t \in Thread : Ending(t)}) <= 2

\* Bound: the second recording is into the same slot, whatever the first was into.
SecondIntoOne == tape = 2 => tapeFor = <<"k1", "tap">>

\* Bound: once a stop has overlapped a start, nothing is promised any more.
NotCrossed == ~crossed
=============================================================================
