------------------------------ MODULE Normalizer ------------------------------
(***************************************************************************)
(* recorder/normalize.py: a raw capture becomes steps, the steps a macro   *)
(* of the pad or a refusal.  Times are milliseconds.  A printable key      *)
(* stands for what it types; the detector of prompting commands reads one  *)
(* such token as a word.                                                   *)
(***************************************************************************)
EXTENDS MacroFormat

CONSTANTS
    Modifiers,      \* tokens of keycodes.MODIFIER_BITS
    Printable,      \* tokens that type a character
    Unsendable,     \* tokens parse_hotkey refuses
    Commands,       \* words that answer with a password prompt
    Separators      \* words after which another command starts

ASSUME TokenAssumption ==
    /\ Modifiers \cap (Printable \cup Unsendable) = {}
    /\ NoKey \notin Modifiers \cup Printable \cup Unsendable

MinGap == 40        \* DEFAULT_MIN_GAP_MS
MaxDelay == 2000    \* MAX_DELAY_MS
DragMinTravel == 48 \* DRAG_MIN_TRAVEL
Unset == -1

AbsOf(n) == IF n < 0 THEN -n ELSE n
Quantize(ms) == RoundDiv(ms, DelayUnit) * DelayUnit

\* A raw event; dx, dy are the travel of a move, dy the turn of the wheel.
RawEvent(kind, token, at, dx, dy) ==
    [kind |-> kind, token |-> token, at |-> at, dx |-> dx, dy |-> dy]

ProducesStep(e) ==
    \/ e.kind \in {"mouse_click", "mouse_release", "scroll", "mouse_move"}
    \/ e.kind = "key_down" /\ e.token \notin Modifiers

(***************************************************************************)
(* _mouse_modes: which press and release are a click, which a drag.        *)
(***************************************************************************)
\* The press a release closes: the last one of its button not closed before.
Opens(ev, i, j) ==
    /\ i < j /\ ev[i].kind = "mouse_click" /\ ev[j].kind = "mouse_release"
    /\ ev[i].token = ev[j].token
    /\ \A k \in i + 1 .. j - 1 :
          ev[k].token = ev[i].token => ev[k].kind \notin {"mouse_click", "mouse_release"}

IsDrag(ev, i, j) ==
    LET between == i + 1 .. j - 1
        moves   == {k \in between : ev[k].kind = "mouse_move"}
    IN  \/ \E k \in between \ moves : ProducesStep(ev[k])
        \/ MapThenSumSet(LAMBDA k : AbsOf(ev[k].dx) + AbsOf(ev[k].dy), moves) >= DragMinTravel

IsClick(ev, i, j) == Opens(ev, i, j) /\ ~IsDrag(ev, i, j)

\* A press that a second press of its button overtakes stays a press; one that
\* nothing follows is a click.
MouseMode(ev, k) ==
    LET at == DOMAIN ev
    IN  IF ev[k].kind = "mouse_click"
        THEN IF \/ \E j \in at : IsClick(ev, k, j)
                \/ ~\E j \in at : /\ j > k /\ ev[j].token = ev[k].token
                                  /\ ev[j].kind \in {"mouse_click", "mouse_release"}
             THEN "click" ELSE "press"
        ELSE IF \E i \in at : Opens(ev, i, k) /\ IsDrag(ev, i, k) THEN "release" ELSE "skip"

Wobble(ev) == {k \in DOMAIN ev : /\ ev[k].kind = "mouse_move"
                                 /\ \E i, j \in DOMAIN ev : i < k /\ k < j /\ IsClick(ev, i, j)}

(***************************************************************************)
(* normalize: one event at a time over steps, the modifiers held in order, *)
(* the keys down, the text pending and the clocks.                         *)
(***************************************************************************)
NormalInit == [steps |-> <<>>, held |-> <<>>, down |-> {}, text |-> <<>>,
               last |-> Unset, origin |-> Unset, elapsed |-> 0]

Emit(s, a) == [s EXCEPT !.steps = Append(@, a)]
FlushText(s) == IF s.text = <<>> THEN s
                ELSE [Emit(s, TextAction(s.text)) EXCEPT !.text = <<>>]

\* mutant: every gap is rounded by itself
AddDelayGapwise(s, at, preserve) ==
    LET gap   == IF preserve THEN (IF s.origin = Unset THEN 0 ELSE at - s.last) ELSE at - s.last
        pause == Quantize(gap)
        due   == IF preserve THEN gap > 0 ELSE s.last # Unset /\ gap >= MinGap
        timed == IF due THEN Emit(s, DelayAction(pause)) ELSE s
    IN  [timed EXCEPT !.origin = IF @ = Unset THEN at ELSE @, !.last = at]

\* Real timing quantises the timeline, not each gap, and never clips a pause.
AddDelay(s, at, preserve) ==
    LET origin == IF s.origin = Unset THEN at ELSE s.origin
        target == Quantize(at - origin)
        gap    == IF preserve THEN target - s.elapsed ELSE at - s.last
        pause  == IF preserve THEN gap ELSE Min({MaxDelay, Quantize(gap)})
        due    == IF preserve THEN gap > 0 ELSE s.last # Unset /\ gap >= MinGap
        timed  == IF due THEN Emit(s, DelayAction(pause)) ELSE s
    IN  IF preserve THEN [timed EXCEPT !.origin = origin, !.elapsed = target, !.last = at]
        ELSE [timed EXCEPT !.last = at]

\* Every step but a character of running text: the text first, then the pause.
Step(s, at, preserve, a) == Emit(AddDelay(FlushText(s), at, preserve), a)

Stroke(token, mode) == IF token \in Modifiers THEN KeyAction({token}, NoKey, mode)
                       ELSE KeyAction({}, token, mode)

KeyUp(s, e, preserve) ==
    LET freed == [s EXCEPT !.down = @ \ {e.token}, !.held = Remove(@, e.token)]
    IN  CASE e.token \notin s.down -> s
          [] e.token \in s.down /\ preserve -> Step(freed, e.at, TRUE, Stroke(e.token, "release"))
          [] OTHER -> freed

\* mutant: a repeat types again
KeyDownRepeats(s, e, preserve) ==
    IF preserve \/ e.token \in Modifiers THEN s
    ELSE Step([s EXCEPT !.down = @ \cup {e.token}], e.at, FALSE,
              KeyAction(ToSet(s.held), e.token, "click"))

KeyDown(s, e, preserve) ==
    LET pressed == [s EXCEPT !.down = @ \cup {e.token}]
        holding == IF e.token \in Modifiers THEN [pressed EXCEPT !.held = Append(@, e.token)]
                   ELSE pressed
    IN  CASE e.token \in s.down    -> s          \* a repeat, not a keystroke
          [] e.token \notin s.down /\ preserve ->
                Step(holding, e.at, TRUE, Stroke(e.token, "press"))
          [] e.token \notin s.down /\ ~preserve /\ e.token \in Modifiers -> holding
          [] e.token \notin s.down /\ ~preserve /\ e.token \notin Modifiers ->
                IF s.held # <<>> \/ e.token \notin Printable
                THEN Step(pressed, e.at, FALSE,
                          KeyAction(ToSet(s.held), e.token, "click"))
                ELSE LET dated == IF s.text = <<>> THEN AddDelay(pressed, e.at, FALSE)
                                  ELSE [pressed EXCEPT !.last = e.at]
                     IN  [dated EXCEPT !.text = Append(@, e.token)]

NormalStep(ev, preserve, s, k) ==
    LET e == ev[k]
        mode == MouseMode(ev, k)
    IN  CASE e.kind = "key_up"   -> KeyUp(s, e, preserve)
          [] e.kind = "key_down" -> KeyDown(s, e, preserve)
          [] e.kind \in {"mouse_click", "mouse_release"} ->
                IF mode = "skip" THEN s
                ELSE Step(s, e.at, preserve, ButtonAction(e.token, mode))
          [] e.kind = "scroll" ->
                IF e.dy = 0 THEN s ELSE Step(s, e.at, preserve, WheelAction(e.dy))
          [] e.kind = "mouse_move" ->
                IF k \in Wobble(ev) \/ (e.dx = 0 /\ e.dy = 0) THEN s
                ELSE Step(s, e.at, preserve, MoveAction(e.dx, e.dy))

\* Stable: events of one moment keep the order they arrived in.
ByTime(events) ==
    LET Insert(out, e) ==
            LET later == {i \in DOMAIN out : out[i].at > e.at}
                at == IF later = {} THEN Len(out) + 1 ELSE Min(later)
            IN  InsertAt(out, at, e)
    IN  FoldOver(Insert, <<>>, events)

Normalize(events, preserve) ==
    LET ev == ByTime(events)
        order == [k \in DOMAIN ev |-> k]
    IN  FlushText(FoldOver(LAMBDA s, k : NormalStep(ev, preserve, s, k),
                           NormalInit, order)).steps

(***************************************************************************)
(* redact_secrets: the text that answers a prompt never reaches storage.   *)
(***************************************************************************)
RunsPrompting(text) ==
    \E p \in DOMAIN text : /\ text[p] \in Commands
                           /\ (p = 1 \/ text[p - 1] \in Separators)

\* mutant: a pause, too, is something done in between
DetectInOneGo(s, step) ==
    IF step.kind = "text" /\ s.state = "submitted" THEN [s EXCEPT !.state = "idle"]
    ELSE [kept  |-> Append(s.kept, step),
          state |-> CASE step.kind = "text" /\ RunsPrompting(step.text) -> "saw-command"
                      [] step.kind = "key" /\ s.state = "saw-command"    -> "submitted"
                      [] OTHER                                           -> "idle"]

Detect(s, step) ==
    CASE step.kind = "delay" -> [s EXCEPT !.kept = Append(@, step)]
      [] step.kind = "text" /\ s.state = "submitted" -> [s EXCEPT !.state = "idle"]
      [] step.kind = "text" /\ s.state # "submitted" ->
            [kept  |-> Append(s.kept, step),
             state |-> IF RunsPrompting(step.text) THEN "saw-command" ELSE "idle"]
      [] OTHER ->
            [kept  |-> Append(s.kept, step),
             state |-> IF /\ step.kind = "key" /\ step.mods = {} /\ step.key = "enter"
                          /\ s.state = "saw-command"
                       THEN "submitted" ELSE "idle"]
RedactSecrets(steps) == FoldOver(Detect, [kept |-> <<>>, state |-> "idle"], steps).kept

(***************************************************************************)
(* compile_device_macro                                                    *)
(***************************************************************************)
\* A long value in as many pieces as its byte needs, the last one the rest.
Slices(total, most) ==
    LET sign == IF total < 0 THEN -1 ELSE 1
        size == AbsOf(total)
        n    == (size + most - 1) \div most
    IN  [i \in 1 .. n |-> sign * (IF i < n THEN most ELSE size - (n - 1) * most)]

\* Along the straight line: step i ends at the i-th part of the whole, rounded.
SplitMove(dx, dy) ==
    LET span  == Max({AbsOf(dx), AbsOf(dy)})
        n     == (span + AxisMax - 1) \div AxisMax
        Part(d, i) == RoundDiv(d * i, n) - RoundDiv(d * (i - 1), n)
    IN  IF span = 0 THEN <<>>
        ELSE [i \in 1 .. n |-> MoveAction(Part(dx, i), Part(dy, i))]

TextRuns(text) ==
    LET n == (Len(text) + TextRunMax - 1) \div TextRunMax
    IN  [i \in 1 .. n |-> TextAction(SubSeq(text, (i - 1) * TextRunMax + 1,
                                            Min({i * TextRunMax, Len(text)})))]

Compiled(step) ==
    LET waits == Slices(step.ms, DelayByteMax * DelayUnit)
        turns == Slices(step.delta, AxisMax)
    IN
    CASE step.kind = "delay"       -> [i \in DOMAIN waits |-> DelayAction(waits[i])]
      [] step.kind = "mouse_wheel" -> [i \in DOMAIN turns |-> WheelAction(turns[i])]
      [] step.kind = "mouse_move"  -> SplitMove(step.dx, step.dy)
      [] step.kind = "text"        -> TextRuns(step.text)
      [] OTHER                     -> <<step>>

Sendable(step) == /\ step.kind = "key" => step.key \notin Unsendable
                  /\ step.kind = "text" => ToSet(step.text) \cap Unsendable = {}

\* The macro, or <<>> for a refusal (UnsupportedRecording).
CompileDeviceMacro(steps, anchored) ==
    LET body == FoldOver(LAMBDA out, s : out \o Compiled(s), <<>>, steps)
        pointed == \E i \in DOMAIN body :
                      body[i].kind \in {"mouse_move", "mouse_button", "mouse_wheel"}
        macro == IF anchored /\ pointed THEN <<HomeAction>> \o body ELSE body
    IN  IF \A i \in DOMAIN steps : Sendable(steps[i])
        THEN IF MacroRecords(macro) <= SlotMax THEN macro ELSE <<>>
        ELSE <<>>

\* reduce_to_device_action: a single shortcut needs no slot; <<>> when it is not one.
DeviceAction(steps) ==
    LET meaningful == SelectSeq(steps, LAMBDA s : s.kind # "delay")
    IN  IF /\ Len(meaningful) = 1
           /\ meaningful[1].kind = "key" /\ meaningful[1].mode = "click"
           /\ Sendable(meaningful[1])
        THEN meaningful ELSE <<>>
=============================================================================
