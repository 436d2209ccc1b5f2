----------------------------- MODULE MCMacroReplay -----------------------------
(* A drag with pauses; a text among holds, one character of it a capital under *)
(* a held shift; texts cut off by the end; moves without a pause or with an    *)
(* empty one; half a hold; a click in a drag, and a tap of a held modifier.    *)
EXTENDS MacroReplay, TLC

Press(keys) == Record("press", keys, 0)
Let(keys) == Record("release key", keys, 0)
Tap(keys) == Record("tap", keys, 0)
Click == Record("click", 0, 0)
Hop(x, y) == Record("move", x, y)
Idle(ticks) == Record("delay", ticks, 0)
Said(struck) == Record("text", Len(struck), struck)

MCSlots == {
    <<Press({"left"}), Hop(3, -2), Hop(-5, 1), Idle(7), Let({"left"}), Hop(7, 2), Idle(5),
      Hop(0, 0)>>,
    <<Press({"shift", "s"}), Said(<<{"a"}, {"shift", "b"}, {}, {"c"}>>), Press({"x"}),
      Let({"s"}), Tap({"t"}), Let({"s"}), Idle(2)>>,
    <<Idle(1), Said([k \in 1 .. 8 |-> {"a"}]), Press({"x"})>>,
    <<Press({"w"}), Record("sequence", 0, 0), Idle(2), Hop(9, 9), Idle(1), Hop(-5, 2)>>,
    <<Hop(1, 0), Hop(-1, -1), Idle(1), Hop(0, 0), Idle(0)>>,
    <<Press({"left"}), Press({"ctrl", "w"}), Click, Tap({"ctrl", "v"})>>}
================================================================================
