----------------------------- MODULE MacroReplay -----------------------------
(***************************************************************************)
(* How the pad plays a macro slot (runMacro, runText, runMoves, emitMove   *)
(* and macroWait in firmware/src/KeyEngine.cpp): the records, the clock    *)
(* that wraps, the budget for work and the stop.  Which key press stops a  *)
(* macro is module KeyEngine's; here a pump may see one once it is armed.  *)
(* A tick is 10 ms, the unit of ACT_DELAY.                                 *)
(***************************************************************************)
EXTENDS Integers, Sequences, FiniteSets, FiniteSetsExt

CONSTANTS
    Slots,          \* what the slot may hold: sequences of Record
    Loops,          \* the loop counts a binding may ask for
    Starts,         \* bound: what millis() may read when a macro starts
    WRAP,           \* millis() counts modulo this
    MAX_RUN,        \* MK_MACRO_MAX_RUN_MS
    ARM,            \* MK_MACRO_ABORT_ARM_MS
    TEXT_DELAY,     \* textDelayMs()
    SLICE,          \* MK_MACRO_MOVE_SLICE_MS
    SPREAD_MAX,     \* MK_MACRO_MOVE_SPREAD_MAX_MS
    Buttons,        \* the buttons of the mouse
    FRAME_NUM, FRAME_DEN,   \* MK_HID_POLL_INTERVAL_MS * MK_MACRO_MOVE_PACE_NUM / DEN
    MaxWork         \* bound: ticks that sending itself takes in a pass

\* What a record presses or lets go of is a set: a key with its modifiers, or buttons.  The
\* header of a text also says what each of its characters strikes, which is in its payload.
Record(type, a, b) == [type |-> type, a |-> a, b |-> b]
Magnitude(n) == IF n < 0 THEN -n ELSE n

ASSUME TimeAssumption ==
    /\ {MAX_RUN, ARM, TEXT_DELAY, SLICE, SPREAD_MAX, MaxWork} \subseteq Nat
    /\ {FRAME_NUM, FRAME_DEN} \subseteq Nat \ {0}
    /\ Starts \subseteq 0 .. WRAP - 1

RecordTypes == {"press", "release key", "tap", "click", "delay", "text", "move", "sequence"}

IsSlot(s) ==
    /\ Len(s) \in Nat /\ DOMAIN s = 1 .. Len(s)
    /\ \A i \in DOMAIN s :
         /\ s[i].type \in RecordTypes
         /\ s[i].type \in {"delay", "text"} => s[i].a \in Nat
         /\ s[i].type = "text" => DOMAIN s[i].b = 1 .. s[i].a
         /\ s[i].type = "move" => s[i].a \in Int /\ s[i].b \in Int

ASSUME SlotAssumption == \A s \in Slots : IsSlot(s)

\* millis() wraps after 49 days: every wait, the budget and what rounding may take off it,
\* and the time sending takes in a pass are less than half of that.
ASSUME WrapAssumption ==
    /\ WRAP \in Nat /\ MaxWork < WRAP \div 2
    /\ {TEXT_DELAY, SLICE, SPREAD_MAX} \subseteq 0 .. WRAP \div 2
    /\ \A s \in Slots :
         /\ MAX_RUN + Len(s) <= WRAP \div 2
         /\ \A i \in DOMAIN s : s[i].type = "delay" => s[i].a <= WRAP \div 2

VARIABLES
    slot, loops, pass,  \* what is played, how often, and the pass it is in
    index,              \* the next record, counted from 1
    pc, back,           \* where the firmware is, and where a wait returns to
    clock,              \* millis()
    until,              \* what a wait waits for
    deadline,           \* macroDeadline_, 0 also for "none runs"
    armAt, armed, aborted,      \* macroAbort...
    left,               \* characters of a text run still to type
    move,               \* the run of moves being played: see NoMove
    held,               \* keys and buttons that are down
    elapsed, work,      \* history: ticks of this pass, and those nothing authored
    zeroed,             \* history: the deadline of this pass landed on 0
    cut,                \* history: the budget ended this pass
    rewritten,          \* history: a pump of this pass let the profile be written
    gone,               \* history: what the reports of the move add up to
    late                \* history: something was begun to be sent after the stop
run == <<slot, loops>>
pumped == <<armAt, armed, aborted, rewritten>>
history == <<elapsed, work>>
flags == <<zeroed, cut>>
vars == <<run, pass, index, pc, back, clock, until, deadline, pumped, left, move, held,
          history, flags, gone, late>>

NoMove == [at |-> 0, end |-> 0, rest |-> 0, over |-> 0, step |-> 0, steps |-> 0, from |-> 0]

Later(at, ticks) == (at + ticks) % WRAP
Reached(at) == (clock - at) % WRAP < WRAP \div 2
Count == Len(slot)
Here == slot[index]

Init ==
    /\ slot \in Slots /\ loops = 1 /\ pass = 0 /\ index = 1
    /\ pc = "idle" /\ back = "idle" /\ clock \in Starts /\ until = 0 /\ deadline = 0
    /\ armAt = 0 /\ armed = FALSE /\ aborted = FALSE /\ rewritten = FALSE
    /\ left = 0 /\ move = NoMove /\ held = {}
    /\ elapsed = 0 /\ work = 0 /\ zeroed = FALSE /\ cut = FALSE
    /\ gone = <<0, 0>> /\ late = FALSE

(***************************************************************************)
(* Time                                                                    *)
(***************************************************************************)
\* What serial asks before it writes the profile: not whether runMacro is on the stack, but
\* whether macroDeadline_ is 0.
MayWrite == deadline = 0

\* macroPump: a key pressed once it is armed stops it; and serial may write the profile if
\* it takes no macro to run.  What is played of the records it then finds is left out.
Pump ==
    /\ armed' = (armed \/ Reached(armAt))
    /\ aborted' \in {aborted, aborted \/ armed}
    /\ rewritten' \in {rewritten, rewritten \/ MayWrite}
    /\ UNCHANGED armAt

\* macroDeadline_ grows by what was authored; 0 is taken for "no macro runs".
Extend(ticks) ==
    /\ deadline' = IF deadline = 0 THEN 0 ELSE Later(deadline, ticks)
    /\ zeroed' = (zeroed \/ deadline' = 0)
Wait(at, then) == pc' = "wait" /\ until' = at /\ back' = then

\* macroWait's loop, and pumpUntil
Waiting ==
    /\ pc = "wait"
    /\ IF Reached(until) THEN pc' = back /\ UNCHANGED <<clock, elapsed, pumped>>
       ELSE /\ Pump
            /\ IF aborted' THEN pc' = back /\ UNCHANGED <<clock, elapsed>>
               ELSE clock' = Later(clock, 1) /\ elapsed' = elapsed + 1 /\ UNCHANGED pc
    /\ UNCHANGED <<run, pass, index, back, until, deadline, left, move, held, work, flags,
                   gone, late>>

\* A report waits for the endpoint, a yield for the link.
Work ==
    /\ pc \in {"record", "text", "moves", "step"} /\ work < MaxWork
    /\ clock' = Later(clock, 1) /\ elapsed' = elapsed + 1 /\ work' = work + 1
    /\ UNCHANGED <<run, pass, index, pc, back, until, deadline, pumped, left, move, held,
                   flags, gone, late>>

(***************************************************************************)
(* runMacro                                                                *)
(***************************************************************************)
Start ==
    /\ pc = "idle" /\ pc' = "pass"
    /\ slot' \in Slots /\ clock' \in Starts /\ pass' = 1
    /\ \E asked \in Loops :
         /\ loops' = IF asked = 0 THEN 1 ELSE asked
         /\ armed' = (asked > 1)
    /\ armAt' = Later(clock', ARM) /\ aborted' = FALSE /\ late' = FALSE /\ rewritten' = FALSE
    /\ elapsed' = 0 /\ work' = 0 /\ cut' = FALSE /\ zeroed' = FALSE
    /\ UNCHANGED <<index, back, until, deadline, left, move, held, gone>>

\* mutant: one budget for all passes
BudgetOnce == IF pass = 1 THEN Later(clock, MAX_RUN) ELSE deadline

\* Renewed by every pass.
Budget == Later(clock, MAX_RUN)

BeginPass ==
    /\ pc = "pass" /\ pc' = "record" /\ index' = 1
    /\ deadline' = Budget /\ zeroed' = (deadline' = 0)
    /\ elapsed' = 0 /\ work' = 0 /\ cut' = FALSE /\ rewritten' = FALSE
    /\ UNCHANGED <<run, pass, back, clock, until, armAt, armed, aborted, left, move, held, gone, late>>

\* The head of the loop, up to the record.
NextRecord ==
    /\ pc = "record"
    /\ IF index > Count THEN pc' = "release" /\ UNCHANGED <<pumped, cut>>
       ELSE /\ Pump
            /\ cut' = (~aborted' /\ Reached(deadline))
            /\ pc' = IF aborted' \/ cut' THEN "release" ELSE Here.type
    /\ UNCHANGED <<run, pass, index, back, clock, until, deadline, left, move, held,
                   history, zeroed, gone, late>>

Sent == late' = (late \/ aborted)

\* dispatch: a tap ends with its key and modifiers up, whoever pressed them, and a click
\* with all the buttons; a nested sequence and an unknown type do nothing.
Dispatch ==
    /\ pc \in {"press", "release key", "tap", "click", "sequence"} /\ pc' = "record"
    /\ index' = index + 1
    /\ held' = CASE pc = "press" -> held \cup Here.a
                 [] pc \in {"release key", "tap"} -> held \ Here.a
                 [] pc = "click" -> held \ Buttons
                 [] pc = "sequence" -> held
    /\ IF pc = "sequence" THEN UNCHANGED late ELSE Sent
    /\ UNCHANGED <<run, pass, back, clock, until, deadline, pumped, left, move, history,
                   flags, gone>>

Delay ==
    /\ pc = "delay" /\ index' = index + 1
    /\ Extend(Here.a) /\ Wait(Later(clock, Here.a), "record")
    /\ UNCHANGED <<run, pass, clock, pumped, left, move, held, history, cut, gone, late>>

\* mutant: a hold is let go of only when the last pass is over
HeldLast == IF pass = loops THEN {} ELSE held

\* Between passes as well as at the end.
HeldAfter == {}

Release ==
    /\ pc = "release" /\ held' = HeldAfter
    /\ IF aborted \/ pass = loops
       THEN pc' = "idle" /\ deadline' = 0 /\ armed' = FALSE /\ armAt' = 0 /\ UNCHANGED pass
       ELSE pc' = "pass" /\ pass' = pass + 1 /\ UNCHANGED <<deadline, armed, armAt>>
    /\ index' = 1 /\ until' = 0 /\ back' = "idle" /\ gone' = <<0, 0>>
    /\ UNCHANGED <<run, clock, aborted, rewritten, left, move, history, flags, late>>

(***************************************************************************)
(* runText                                                                 *)
(***************************************************************************)
Payload(length) == (length + 2) \div 3

\* mutant: the record after the text is computed in too few bits
AfterTextWrapped == 1 + ((index + Payload(Here.a)) % 4)

AfterText == index + 1 + Payload(Here.a)

\* A run cut off by the end of the slot types nothing.
Text ==
    /\ pc = "text" /\ left = 0
    /\ IF AfterText > Count + 1 \/ Here.a = 0
       THEN /\ index' = IF AfterText > Count + 1 THEN Count + 1 ELSE AfterText
            /\ pc' = "record" /\ UNCHANGED left
       ELSE left' = Here.a /\ UNCHANGED <<index, pc>>
    /\ UNCHANGED <<run, pass, back, clock, until, deadline, pumped, move, held, history,
                   flags, gone, late>>

\* A character goes out as a tap of its key, with shift where it needs that.
Type ==
    /\ pc = "text" /\ left > 0 /\ left' = left - 1
    /\ held' = held \ Here.b[Here.a - left']
    /\ Extend(TEXT_DELAY) /\ Wait(Later(clock, TEXT_DELAY), "typed") /\ Sent
    /\ UNCHANGED <<run, pass, index, clock, pumped, move, history, cut, gone>>

Typed ==
    /\ pc = "typed"
    /\ IF aborted \/ left = 0
       THEN pc' = "record" /\ index' = AfterText /\ left' = 0
       ELSE pc' = "text" /\ UNCHANGED <<index, left>>
    /\ UNCHANGED <<run, pass, back, clock, until, deadline, pumped, move, held, history,
                   flags, gone, late>>

(***************************************************************************)
(* runMoves and emitMove                                                   *)
(***************************************************************************)
\* The first record that is not one of the moves that start here.
EndOfMoves == Min({i \in index .. Count + 1 : i = Count + 1 \/ slot[i].type # "move"})
Paused(end) == end <= Count /\ slot[end].type = "delay"
Pause(end) == IF Paused(end) THEN slot[end].a ELSE 0
Spread(pause) == IF pause = 0 THEN SLICE ELSE Min({pause, SPREAD_MAX})

\* mutant: the pause of a run of moves comes out of the budget
Unpaid(ticks) == UNCHANGED <<deadline, zeroed>>

Paid(ticks) == Extend(ticks)

\* Moves in a row share the pause after them; without one the run is still a slice long.
Moves ==
    /\ pc = "move" /\ pc' = "moves"
    /\ LET end == EndOfMoves
           pause == Pause(end)
           spread == Spread(pause)
       IN /\ index' = IF Paused(end) THEN end + 1 ELSE end
          /\ Paid(IF pause = 0 THEN spread ELSE pause)
          /\ move' = [NoMove EXCEPT !.at = index, !.end = end, !.over = spread \div (end - index),
                                    !.rest = Max({pause - spread, 0})]
    /\ UNCHANGED <<run, pass, back, clock, until, pumped, left, held, history, cut, gone, late>>

Span(m) == Max({Magnitude(m.a), Magnitude(m.b)})

\* No more reports than ticks, counts or frames there are.
StepsOf(m) ==
    Max({1, Min({move.over, Span(m), Max({1, (move.over * FRAME_DEN) \div FRAME_NUM})})})

\* The next move of the run, or what is left of its pause.
EachMove ==
    /\ pc = "moves"
    /\ IF move.at = move.end
       THEN /\ Wait(Later(clock, move.rest), "record") /\ UNCHANGED <<move, gone>>
       ELSE LET m == slot[move.at] IN
            /\ move' = [at |-> move.at, end |-> move.end, rest |-> move.rest, over |-> move.over,
                        step |-> 1, steps |-> StepsOf(m), from |-> clock]
            /\ gone' = <<0, 0>>
            /\ IF Span(m) = 0 THEN Wait(Later(clock, move.over), "moved")
               ELSE pc' = "step" /\ UNCHANGED <<until, back>>
    /\ UNCHANGED <<run, pass, index, clock, deadline, pumped, left, held, history, flags, late>>

\* Division in C++ rounds towards zero.
Quotient(n, d) == IF n < 0 THEN -((-n) \div d) ELSE n \div d

Share(whole, done) == Quotient(whole * move.step, move.steps) - done

\* One report, and the wait for the moment the next one is due.
Step ==
    /\ pc = "step"
    /\ LET m == slot[move.at]
           last == move.step = move.steps
       IN /\ gone' = <<gone[1] + Share(m.a, gone[1]), gone[2] + Share(m.b, gone[2])>>
          /\ late' = (late \/ (aborted /\ move.step = 1))
          /\ Wait(Later(move.from, (move.over * move.step) \div move.steps),
                  IF last THEN "moved" ELSE "step")
    /\ move' = [move EXCEPT !.step = @ + 1]
    /\ UNCHANGED <<run, pass, index, clock, deadline, pumped, left, held, history, flags>>

\* mutant: the stop is not looked at between two moves
MovedOn == pc' = "moves"

AfterMove == pc' = IF aborted THEN "record" ELSE "moves"

Moved ==
    /\ pc = "moved" /\ AfterMove
    /\ move' = IF pc' = "record" THEN NoMove ELSE [move EXCEPT !.at = @ + 1]
    /\ UNCHANGED <<run, pass, index, back, clock, until, deadline, pumped, left, held,
                   history, flags, gone, late>>

Next ==
    \/ Start \/ BeginPass \/ NextRecord \/ Dispatch \/ Delay \/ Release
    \/ Text \/ Type \/ Typed \/ Moves \/ EachMove \/ Step \/ Moved
    \/ Waiting \/ Work

Spec == Init /\ [][Next]_vars

(***************************************************************************)
(* What a slot says, read without playing it                               *)
(***************************************************************************)
\* Where the record after record i begins, and where records begin: at the first place and
\* after every record, and nowhere else.
Following(s, i) == i + 1 + (IF s[i].type = "text" THEN Payload(s[i].a) ELSE 0)

Beginnings == [s \in Slots |->
    {i \in DOMAIN s : \A P \in SUBSET DOMAIN s :
        /\ 1 \in P
        /\ \A j \in P : Following(s, j) \in DOMAIN s => Following(s, j) \in P
        => i \in P}]

\* The records that are records, and not the characters of a text; a text that is cut off
\* by the end is not played.
Played == {i \in Beginnings[slot] : Following(slot, i) <= Count + 1}

\* Ticks that record i takes on purpose: a delay or a text says so; moves take those of
\* the delay after them, or one slice when there is none or it is empty.
Authored(i) ==
    CASE slot[i].type = "delay" -> slot[i].a
      [] slot[i].type = "text" -> slot[i].a * TEXT_DELAY
      [] slot[i].type = "move" ->
           IF i < Count /\ (slot[i + 1].type = "move" \/ Pause(i + 1) > 0) THEN 0 ELSE SLICE
      [] OTHER -> 0

\* All of them, each as its record and its place in there.
Ticks == UNION {{i} \X (1 .. Authored(i)) : i \in Played}
AllAuthored == Cardinality(Ticks)

\* What record i leaves up, whether it pressed it or not.
LetsGo(i) ==
    CASE slot[i].type \in {"release key", "tap"} -> slot[i].a
      [] slot[i].type = "click" -> Buttons
      [] slot[i].type = "text" -> UNION {slot[i].b[k] : k \in 1 .. slot[i].a}
      [] OTHER -> {}

\* What is down when the record before n has been played.
HeldBefore(n) ==
    UNION {slot[i].a \ UNION {LetsGo(j) : j \in {j \in Played : i < j /\ j < n}} :
              i \in {i \in Played : i < n /\ slot[i].type = "press"}}

\* The deadline of this pass is 0 at the start of it or once t ticks of it were authored.
ZeroAhead(t) == (clock - elapsed + MAX_RUN + t) % WRAP = 0

(***************************************************************************)
(* Properties                                                              *)
(***************************************************************************)
\* At every record of every pass exactly those keys and buttons are down that this pass has
\* pressed and nothing has let go of since: no release, no tap or typed character that
\* strikes them too, no click; what a text holds counts for what it types, not as presses.
\* A macro stopped inside a text has typed only part of it; and nothing is down when it is
\* over, however it ended (runMacro, runText, dispatchKey).
HeldAsRecorded ==
    /\ pc = "record" /\ ~aborted => held = HeldBefore(index)
    /\ pc = "idle" => held = {}

\* Nobody writes the profile a macro reads its records from, unless the time of the pass,
\* its budget and part of what its records take add up to the wrap of millis() to the tick:
\* the deadline serial goes by lands on 0 then (macroRunning, runMacro, macroWait).
MacroReadsStableProfile == rewritten => \E t \in 0 .. AllAuthored : ZeroAhead(t)

\* Only work spends the budget: a pass is cut short when sending took MAX_RUN, however
\* long its pauses are, and across the wrap of millis(); except that a deadline that lands
\* on 0 is taken for none (macroWait, runMoves, Config.h:158).
BudgetForWork == cut => work >= MAX_RUN \/ zeroed

\* A pass takes no longer than was recorded plus what sending takes, so nothing is played
\* twice and no pause is stretched; and the reports of a move add up to it (runText,
\* runMoves, emitMove).
PlaysAsRecorded ==
    /\ elapsed <= AllAuthored + work
    /\ pc = "moved" /\ ~aborted =>
         gone = <<slot[move.at].a, slot[move.at].b>>

\* Once it is stopped, a macro sends no more than the rest of the move that was under way,
\* which goes out at once (macroWait, runText, runMoves, emitMove).
StopEndsOutput == ~late
=============================================================================
