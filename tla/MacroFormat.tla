----------------------------- MODULE MacroFormat -----------------------------
(***************************************************************************)
(* What a macro is on its way from the host to the pad: the host's actions *)
(* (config/model.py), the three-byte records they become (config/binary.py)*)
(* and the packing of the slots into the macro region.  A record is a      *)
(* triple; a character or a key stands for the byte that carries it, a set *)
(* of modifiers for the mask.                                              *)
(***************************************************************************)
EXTENDS Integers, Sequences, FiniteSets, SequencesExt, FiniteSetsExt

CONSTANTS
    TextRunMax,     \* characters one text header may announce (255)
    AxisMax,        \* one signed byte of movement or wheel (127)
    DelayByteMax,   \* one byte of pause, in units of DelayUnit (255)
    SlotMax,        \* records one slot may hold (255 or the board's ceiling)
    PoolMax,        \* records the macro region holds (308)
    Slots           \* MACRO_SLOTS

ASSUME FormatAssumption ==
    /\ {TextRunMax, AxisMax, DelayByteMax, SlotMax, PoolMax, Slots} \subseteq Nat \ {0}

\* FoldLeft, in one pass over the prefixes: the runs fold long lists very often.
FoldOver(Op(_, _), base, list) ==
    LET upto[i \in 0 .. Len(list)] == IF i = 0 THEN base ELSE Op(upto[i - 1], list[i])
    IN  upto[Len(list)]

DelayUnit == 10
NoKey == "no key"
ClampTo(v, low, high) == Max({low, Min({high, v})})

\* Python's round(n / d): to the nearest, a half to the even neighbour.
RoundDiv(n, d) ==
    LET q == n \div d
        twice == 2 * (n % d)
    IN  IF twice > d \/ (twice = d /\ q % 2 = 1) THEN q + 1 ELSE q

(***************************************************************************)
(* Actions: one wide record, of which each kind reads its own fields.      *)
(***************************************************************************)
Action == [kind |-> "none", mods |-> {}, key |-> NoKey, mode |-> "click",
           button |-> "left", text |-> <<>>, dx |-> 0, dy |-> 0, delta |-> 0,
           ms |-> 0]
KeyAction(mods, key, mode) ==
    [Action EXCEPT !.kind = "key", !.mods = mods, !.key = key, !.mode = mode]
TextAction(text)  == [Action EXCEPT !.kind = "text", !.text = text]
DelayAction(ms)   == [Action EXCEPT !.kind = "delay", !.ms = ms]
ButtonAction(button, mode) ==
    [Action EXCEPT !.kind = "mouse_button", !.button = button, !.mode = mode]
MoveAction(dx, dy) == [Action EXCEPT !.kind = "mouse_move", !.dx = dx, !.dy = dy]
WheelAction(delta) == [Action EXCEPT !.kind = "mouse_wheel", !.delta = delta]
HomeAction         == [Action EXCEPT !.kind = "mouse_home"]

KeyType == [click |-> "KEY", press |-> "KEY_PRESS", release |-> "KEY_RELEASE"]

\* The three bytes of every kind but text.
Encode(a) ==
    CASE a.kind = "key"          -> <<KeyType[a.mode], a.mods, a.key>>
      [] a.kind = "mouse_button" -> <<"MOUSE_BUTTON", a.button, a.mode>>
      [] a.kind = "mouse_move"   -> <<"MOUSE_MOVE", ClampTo(a.dx, -AxisMax, AxisMax),
                                      ClampTo(a.dy, -AxisMax, AxisMax)>>
      [] a.kind = "mouse_wheel"  -> <<"MOUSE_WHEEL", ClampTo(a.delta, -AxisMax, AxisMax), 0>>
      [] a.kind = "mouse_home"   -> <<"MOUSE_HOME", 0, 0>>
      [] a.kind = "delay"        -> <<"DELAY",
                                      ClampTo(RoundDiv(a.ms, DelayUnit), 0, DelayByteMax), 0>>
      [] OTHER                   -> <<"NONE", 0, 0>>

Decode(r) ==
    CASE r[1] \in {KeyType[m] : m \in DOMAIN KeyType} ->
            KeyAction(r[2], r[3], CHOOSE m \in DOMAIN KeyType : KeyType[m] = r[1])
      [] r[1] = "MOUSE_BUTTON" -> ButtonAction(r[2], r[3])
      [] r[1] = "MOUSE_MOVE"   -> MoveAction(r[2], r[3])
      [] r[1] = "MOUSE_WHEEL"  -> WheelAction(r[2])
      [] r[1] = "MOUSE_HOME"   -> HomeAction
      [] r[1] = "DELAY"        -> DelayAction(r[2] * DelayUnit)
      [] OTHER                 -> Action

\* A text run is a header and its characters, three to a record, padded.
Payload(length) == (length + 2) \div 3
CharAt(text, i) == IF i <= Len(text) THEN text[i] ELSE "nul"
Records(a) ==
    IF a.kind = "text"
    THEN <<<<"TEXT", Len(a.text), 0>>>> \o
         [i \in 1 .. Payload(Len(a.text)) |->
             <<CharAt(a.text, 3 * i - 2), CharAt(a.text, 3 * i - 1), CharAt(a.text, 3 * i)>>]
    ELSE <<Encode(a)>>
RecordCount(a) == IF a.kind = "text" THEN 1 + Payload(Len(a.text)) ELSE 1

MacroRecords(macro) == FoldOver(LAMBDA n, a : n + RecordCount(a), 0, macro)
AllRecords(macro)   == FoldOver(LAMBDA out, a : out \o Records(a), <<>>, macro)

(***************************************************************************)
(* The region: the slots' records back to back, only their counts stored.  *)
(***************************************************************************)
EncodeMacros(macros) ==
    [counts  |-> [s \in 1 .. Slots |->
                    IF s \in DOMAIN macros THEN Len(AllRecords(macros[s])) ELSE 0],
     records |-> FoldOver(LAMBDA out, m : out \o AllRecords(m), <<>>, macros)]

\* mutant: the region's size is forgotten
FitsSlots(blob) == \A s \in 1 .. Slots : blob.counts[s] <= SlotMax

\* What encode_macros refuses: a slot's count is one byte, the region has an end.
FitsIn(blob) ==
    /\ \A s \in 1 .. Slots : blob.counts[s] <= SlotMax
    /\ Len(blob.records) <= PoolMax

\* Where a slot's records begin: the sum of the counts before it.
Base(blob, slot) == FoldOver(LAMBDA n, c : n + c, 0, SubSeq(blob.counts, 1, slot - 1))

\* Reading a slot back folds the payload records into their run.
PayloadText(records, at, length) ==
    [i \in 1 .. length |-> records[at + 1 + (i - 1) \div 3][1 + ((i - 1) % 3)]]
DecodeMacro(blob, slot) ==
    LET own == SubSeq(blob.records, Base(blob, slot) + 1,
                      Base(blob, slot) + blob.counts[slot])
        Read(s, at) ==
            IF at < s.next THEN s
            ELSE IF own[at][1] # "TEXT"
                 THEN [next |-> at + 1, steps |-> Append(s.steps, Decode(own[at]))]
            ELSE LET length == own[at][2]
                     after  == at + 1 + Payload(length)
                 IN  IF after > Len(own) + 1
                     THEN [s EXCEPT !.next = Len(own) + 1]
                     ELSE [next |-> after,
                           steps |-> IF length = 0 THEN s.steps
                                     ELSE Append(s.steps,
                                                 TextAction(PayloadText(own, at, length)))]
    IN  FoldOver(Read, [next |-> 1, steps |-> <<>>], [i \in DOMAIN own |-> i]).steps
DecodeMacros(blob) ==
    LET all  == [s \in 1 .. Slots |-> DecodeMacro(blob, s)]
        used == {s \in 1 .. Slots : all[s] # <<>>}
    IN  SubSeq(all, 1, Max(used \cup {0}))
=============================================================================
