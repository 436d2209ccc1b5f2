------------------------------ MODULE MacroSlots ------------------------------
(***************************************************************************)
(* The profile a host edits, as bindings that point at macro slots, and    *)
(* the operations that move macros between slots (app.py, config/model.py).*)
(* A binding is nothing, a shortcut, or a slot with a number of passes.    *)
(***************************************************************************)
EXTENDS Integers, FiniteSets, FiniteSetsExt

CONSTANTS
    Keys,           \* the bindings a person can edit: key and gesture
    SlotCount,      \* MACRO_SLOTS
    PoolRecords     \* record_capacity of the board

ASSUME SlotAssumption == {SlotCount, PoolRecords} \subseteq Nat \ {0}

MacroSlot == 1 .. SlotCount
NoSlot == 0
NoMacro == <<>>                         \* an empty slot
Recorded(id) == <<"recorded", id>>
Wrapped(shortcut) == <<"wrapped", shortcut>>    \* the shortcut and its gap

Nothing == [kind |-> "none", shortcut |-> <<>>, slot |-> NoSlot, passes |-> 1]
Shortcut(s) == [kind |-> "key", shortcut |-> s, slot |-> NoSlot, passes |-> 1]
Sequence(slot, passes) ==
    [kind |-> "sequence", shortcut |-> <<>>, slot |-> slot, passes |-> passes]

\* repeated_shortcut: a slot that holds no more than a shortcut and its gap.
IsWrapped(macro) == macro # NoMacro /\ macro[1] = "wrapped"

\* One record suffices for a recording here; a wrapped shortcut has a pause, too.
SizeOf(macro) == CASE macro = NoMacro -> 0 [] IsWrapped(macro) -> 2 [] OTHER -> 1

\* What a binding amounts to, whichever slot it lies in.
Meaning(p, k) ==
    LET b == p.keys[k]
    IN  CASE b.kind # "sequence"                                -> <<b.kind, b.shortcut, 1>>
          [] b.kind = "sequence" /\ IsWrapped(p.macros[b.slot])  ->
                <<"key", p.macros[b.slot][2], b.passes>>
          [] b.kind = "sequence" /\ ~IsWrapped(p.macros[b.slot]) ->
                <<"sequence", p.macros[b.slot], b.passes>>

SetAction(p, k, b) == [p EXCEPT !.keys[k] = b]

Referenced(p) == {p.keys[k].slot : k \in {k \in Keys : p.keys[k].kind = "sequence"}}

Reclaim(p) ==
    [p EXCEPT !.macros = [s \in MacroSlot |-> IF s \in Referenced(p) THEN @[s] ELSE NoMacro]]

\* The records of the pool that are taken, each as its slot and its place in there.
Taken(p, ignored) ==
    {r \in (MacroSlot \ {ignored}) \X (1 .. 2) : r[2] <= SizeOf(p.macros[r[1]])}
UsedRecords(p, ignored) == Cardinality(Taken(p, ignored))

\* mutant: any slot will do
FindSlotAnywhere(p, macro, alsoFree) == 1

\* The first slot that is empty, or is about to be; NoSlot when there is no room.
FindSlot(p, macro, alsoFree) ==
    LET free == {s \in MacroSlot : s = alsoFree \/ p.macros[s] = NoMacro}
    IN  IF UsedRecords(p, alsoFree) + SizeOf(macro) > PoolRecords \/ free = {}
        THEN NoSlot ELSE Min(free)

\* The slot a new recording into k would give back.
Owned(p, k) == p.keys[k].slot

\* The macro lies in its slot, and no binding points there yet.
Placed(p, k, slot, macro) ==
    [p EXCEPT !.macros = [s \in MacroSlot |->
                            CASE s = slot                   -> macro
                              [] s # slot /\ s = Owned(p, k) -> NoMacro
                              [] OTHER                      -> @[s]]]

(***************************************************************************)
(* set_repeat; the profile as it is when nothing is to be done or possible.*)
(***************************************************************************)
SetRepeat(p, k, passes) ==
    LET b       == p.keys[k]
        wrapped == b.kind = "sequence" /\ IsWrapped(p.macros[b.slot])
        slot    == FindSlot(p, Wrapped(b.shortcut), NoSlot)
    IN  CASE wrapped /\ passes = 1 ->
                Reclaim(SetAction(p, k, Shortcut(p.macros[b.slot][2])))
          [] b.kind = "sequence" /\ ~(wrapped /\ passes = 1) ->
                SetAction(p, k, Sequence(b.slot, passes))
          [] b.kind = "key" /\ passes > 1 /\ slot # NoSlot ->
                Reclaim(SetAction([p EXCEPT !.macros[slot] = Wrapped(b.shortcut)],
                                  k, Sequence(slot, passes)))
          [] OTHER -> p
=============================================================================
