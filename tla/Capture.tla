------------------------------- MODULE Capture -------------------------------
(***************************************************************************)
(* From the hands to a stored macro: the capture backends                  *)
(* (recorder/evdev_source.py, recorder/recorder.py) turn what is done with *)
(* keyboard and mouse into raw events, stop() seals them, and the macro is *)
(* normalised, compiled and laid out in the pad's macro region beside the  *)
(* one that is already there.  "done" is the history of what the person    *)
(* did, in time order; the code cannot see it.                             *)
(***************************************************************************)
EXTENDS Normalizer

CONSTANTS
    Keys,           \* tokens of the keyboard in reach
    Travels,        \* movements one mouse report may carry, <<dx, dy>>
    Gaps,           \* per device, milliseconds from the thing done before
    Late,           \* milliseconds by which evdev may read a key after the mouse
    Backends,       \* "evdev", "pynput"
    Timings,        \* values of preserve_key_timing
    PadEvents,      \* whether the pad reports keys of its own meanwhile
    Windows,        \* whether the editor's window may take a click: BOOLEAN
    Stored,         \* the macro another key has on the pad
    MaxDone         \* bound: things done in one recording

Devices == {"keyboard", "mouse"}

ASSUME CaptureAssumption ==
    /\ Keys \subseteq Modifiers \cup Printable \cup Unsendable \cup {"enter"}
    /\ Gaps \in [Devices -> SUBSET (Nat \ {0})] /\ Late \in Nat
    /\ Timings \subseteq BOOLEAN /\ PadEvents \subseteq BOOLEAN /\ Windows \subseteq BOOLEAN

DeadZone == 6           \* MOTION_DEAD_ZONE
Slice == 50             \* MOTION_SLICE_SECONDS
Rest == 120             \* MOTION_REST_SECONDS
SelfWindow == 150       \* SELF_INPUT_WINDOW
EditorLead == 300       \* EDITOR_CLICK_LEAD
EditorSlack == 50       \* EDITOR_CLICK_SLACK

VARIABLES
    backend, preserve,  \* Recorder.backend, preserve_key_timing
    now,                \* the monotonic clock
    last,               \* per device, the time stamp of its latest event
    pressed,            \* keys and buttons that are physically down
    events,             \* Recorder._events
    motion,             \* the travel summed up: dx, dy, since, latest
    padAt,              \* Recorder._last_device_key_at
    editorAts,          \* Recorder._editor_click_ats
    done,               \* history: what the person did
    filtered,           \* history: a resting hand's drift was left out
    phase,              \* "recording", "stored", "refused"
    macro, blob         \* what the key has then, and the pad's macro region
vars == <<backend, preserve, now, last, pressed, events, motion, padAt, editorAts,
          done, filtered, phase, macro, blob>>
given == <<backend, preserve>>
outcome == <<phase, macro, blob>>

Button == "left"
NoMotion == [dx |-> 0, dy |-> 0, since |-> Unset, latest |-> 0]
Recording == phase = "recording"

Init ==
    /\ backend \in Backends /\ preserve \in Timings
    /\ now = 1000 /\ last = [d \in Devices |-> 0] /\ pressed = {}
    /\ events = <<>> /\ motion = NoMotion
    /\ padAt = Unset /\ editorAts = {} /\ done = <<>>
    /\ filtered = FALSE
    /\ phase = "recording" /\ macro = <<>> /\ blob = EncodeMacros(<<Stored>>)

(***************************************************************************)
(* _record and the motion slices, as operators on the list of events.      *)
(***************************************************************************)
\* On pynput the pad's own output comes back as input: blank the discrete events
\* for a moment after the pad reported a key.
SelfInput(e) == /\ backend # "evdev" /\ e.kind # "mouse_move"
                /\ padAt # Unset
                /\ 0 <= e.at - padAt /\ e.at - padAt < SelfWindow
Record(list, e) == IF SelfInput(e) THEN list ELSE Append(list, e)

\* mutant: a click, too, takes a short travel for drift
FlushedAnyway(list, m, filterNoise) ==
    IF m.since = Unset \/ (AbsOf(m.dx) < DeadZone /\ AbsOf(m.dy) < DeadZone) THEN list
    ELSE Record(list, RawEvent("mouse_move", "move", m.since, m.dx, m.dy))

Still(m) == AbsOf(m.dx) < DeadZone /\ AbsOf(m.dy) < DeadZone
Flushed(list, m, filterNoise) ==
    IF m.since = Unset \/ (m.dx = 0 /\ m.dy = 0) \/ (filterNoise /\ Still(m))
    THEN list
    ELSE Record(list, RawEvent("mouse_move", "move", m.since, m.dx, m.dy))

Drifts == motion.since # Unset /\ Still(motion)

\* When the event of a device is stamped: after everything, or, the kernel's
\* stamps being what evdev keeps, a little before what the mouse already gave.
Stamps(d) == {now + g : g \in Gaps[d]}
             \cup {t \in {now - Late} : d = "keyboard" /\ backend = "evdev" /\ t > last[d]}

\* A discrete event: it ends the slice of motion before it.
Happens(d, at, kind, token, dy, aimed) ==
    /\ events' = Record(Flushed(events, motion, ~aimed), RawEvent(kind, token, at, 0, dy))
    /\ motion' = NoMotion
    /\ filtered' = (filtered \/ (~aimed /\ Drifts))
    /\ now' = Max({now, at}) /\ last' = [last EXCEPT ![d] = at]
    /\ done' = Append(done, RawEvent(kind, token, at, 0, dy))
Room == Recording /\ Len(done) < MaxDone

Press(k) ==
    /\ Room /\ k \notin pressed
    /\ \E at \in Stamps("keyboard") : Happens("keyboard", at, "key_down", k, 0, FALSE)
    /\ pressed' = pressed \cup {k}
    /\ UNCHANGED <<given, padAt, editorAts, outcome>>

Release(k) ==
    /\ Room /\ k \in pressed
    /\ \E at \in Stamps("keyboard") : Happens("keyboard", at, "key_up", k, 0, FALSE)
    /\ pressed' = pressed \ {k}
    /\ UNCHANGED <<given, padAt, editorAts, outcome>>

\* The desktop repeats a held key: evdev drops it, pynput hands over a press.
Repeat(k) ==
    /\ Room /\ k \in pressed \ Modifiers
    /\ \E at \in Stamps("keyboard") :
          IF backend = "evdev"
          THEN /\ now' = Max({now, at}) /\ last' = [last EXCEPT !["keyboard"] = at]
               /\ done' = Append(done, RawEvent("repeat", k, at, 0, 0))
               /\ UNCHANGED <<events, motion, filtered>>
          ELSE Happens("keyboard", at, "key_down", k, 0, FALSE)
    /\ UNCHANGED <<given, pressed, padAt, editorAts, outcome>>

\* A button goes down, on the editor's own window or on another.
Click(onEditor) ==
    /\ Room /\ Button \notin pressed
    /\ \E at \in Stamps("mouse") :
          /\ Happens("mouse", at, "mouse_click", Button, 0, TRUE)
          /\ editorAts' = IF onEditor THEN editorAts \cup {Max({now, at})} ELSE editorAts
    /\ pressed' = pressed \cup {Button}
    /\ UNCHANGED <<given, padAt, outcome>>

LetGo ==
    /\ Room /\ Button \in pressed
    /\ \E at \in Stamps("mouse") : Happens("mouse", at, "mouse_release", Button, 0, TRUE)
    /\ pressed' = pressed \ {Button}
    /\ UNCHANGED <<given, padAt, editorAts, outcome>>

Turn(dy) ==
    /\ Room
    /\ \E at \in Stamps("mouse") : Happens("mouse", at, "scroll", "scroll", dy, TRUE)
    /\ UNCHANGED <<given, pressed, padAt, editorAts, outcome>>

Move(travel) ==
    /\ Room
    /\ \E at \in Stamps("mouse") :
          LET full == motion.since # Unset /\ at - motion.since >= Slice
              base == IF full THEN NoMotion ELSE motion
          IN  /\ events' = IF full THEN Flushed(events, motion, FALSE) ELSE events
              /\ motion' = [dx |-> base.dx + travel[1], dy |-> base.dy + travel[2],
                            since |-> IF base.since = Unset THEN at ELSE base.since,
                            latest |-> at]
              /\ now' = Max({now, at}) /\ last' = [last EXCEPT !["mouse"] = at]
              /\ done' = Append(done, RawEvent("mouse_move", "move", at, travel[1], travel[2]))
    /\ UNCHANGED <<given, pressed, padAt, editorAts, filtered, outcome>>

\* evdev's reader wakes up and finds the pointer at rest.
RestFlush ==
    /\ Recording /\ backend = "evdev" /\ motion.since # Unset
    /\ now' = Max({now, motion.latest + Rest})
    /\ events' = Flushed(events, motion, TRUE)
    /\ motion' = NoMotion
    /\ filtered' = (filtered \/ Drifts)
    /\ UNCHANGED <<given, last, pressed, padAt, editorAts, done, outcome>>

\* The pad reports a key (note_device_key).
PadKey ==
    /\ Room /\ TRUE \in PadEvents /\ padAt = Unset      \* bound: once
    /\ padAt' = now
    /\ done' = Append(done, RawEvent("pad", "pad", now, 0, 0))
    /\ UNCHANGED <<given, now, last, pressed, events, motion, editorAts, filtered, outcome>>

(***************************************************************************)
(* stop: what is held is let go at the moment of stopping, and the clicks  *)
(* the editor's own windows took are dropped with their releases.          *)
(***************************************************************************)
HeldAtEnd(ev) ==
    LET Track(down, e) == CASE e.kind = "key_down" -> IF e.token \in ToSet(down) THEN down
                                                      ELSE Append(down, e.token)
                            [] e.kind = "key_up"   -> Remove(down, e.token)
                            [] OTHER               -> down
    IN  Reverse(FoldOver(Track, <<>>, ev))

ClosedAt(ev, at) ==
    LET sorted == ByTime(ev)
        held == HeldAtEnd(sorted)
    IN  IF preserve
        THEN sorted \o [i \in DOMAIN held |-> RawEvent("key_up", held[i], at, 0, 0)]
        ELSE sorted

DropEditorClicks(ev) ==
    LET mine == {i \in DOMAIN ev :
                    /\ ev[i].kind = "mouse_click"
                    /\ \E t \in editorAts : -EditorSlack <= t - ev[i].at /\ t - ev[i].at <= EditorLead}
        ReleasesOf(i) == {j \in DOMAIN ev : /\ j > i /\ ev[j].kind = "mouse_release"
                                            /\ ev[j].token = ev[i].token}
        doomed == mine \cup {Min(ReleasesOf(i)) : i \in {i \in mine : ReleasesOf(i) # {}}}
        left == SelectSeq([i \in DOMAIN ev |-> i], LAMBDA i : i \notin doomed)
    IN  [k \in DOMAIN left |-> ev[left[k]]]

Raw == DropEditorClicks(ClosedAt(Flushed(events, motion, TRUE), now))
Steps == RedactSecrets(Normalize(Raw, preserve))

\* assign_recording: a shortcut is bound directly, a macro goes to a slot of its
\* own behind the one already there; what does not fit is refused whole.
Stop ==
    /\ Recording
    /\ events' = Raw /\ motion' = NoMotion
    /\ LET steps  == Steps
           simple == DeviceAction(steps)
           body   == IF simple # <<>> THEN simple ELSE CompileDeviceMacro(steps, FALSE)
           laid   == EncodeMacros(<<Stored, body>>)
           fits   == body # <<>> /\ (simple # <<>> \/ FitsIn(laid))
       IN  /\ phase' = IF fits THEN "stored" ELSE "refused"
           /\ macro' = IF fits THEN body ELSE macro
           /\ blob'  = IF fits /\ simple = <<>> THEN laid ELSE blob
    /\ filtered' = (filtered \/ Drifts)
    /\ UNCHANGED <<given, now, last, pressed, padAt, editorAts, done>>

Next ==
    \/ \E k \in Keys : Press(k)
    \/ \E k \in Keys : Release(k)
    \/ \E k \in Keys : Repeat(k)
    \/ \E w \in Windows : Click(w)
    \/ LetGo
    \/ \E dy \in {1} : Turn(dy)
    \/ \E t \in Travels : Move(t)
    \/ RestFlush
    \/ PadKey
    \/ Stop

Spec == Init /\ [][Next]_vars

(***************************************************************************)
(* What the pad will do with the macro, and what the person did.           *)
(***************************************************************************)
\* Nothing of the pad's own was in the way.
Undisturbed == backend = "evdev" \/ padAt = Unset
InOrder == ByTime(done)

\* The keystrokes a macro makes, each with the modifiers under it.
MacroStrokes ==
    LET Add(out, a) == CASE a.kind = "key"  -> Append(out, <<a.mods, a.key>>)
                         [] a.kind = "text" -> out \o [i \in DOMAIN a.text |-> <<{}, a.text[i]>>]
                         [] OTHER           -> out
    IN  FoldOver(Add, <<>>, macro)

\* The keystrokes the person made: repeats are none, nor are modifiers.
DoneStrokes ==
    LET Add(s, e) ==
            CASE e.kind = "key_down" /\ e.token \notin s.down ->
                    [down |-> s.down \cup {e.token},
                     out  |-> IF e.token \in Modifiers THEN s.out
                              ELSE Append(s.out, <<s.down \cap Modifiers, e.token>>)]
              [] e.kind = "key_up" -> [s EXCEPT !.down = @ \ {e.token}]
              [] OTHER -> s
    IN  FoldOver(Add, [down |-> {}, out |-> <<>>], InOrder).out

\* The presses and releases of a macro at the moment of its run they happen.
MacroHolds ==
    LET Add(s, a) ==
            CASE a.kind = "delay" -> [s EXCEPT !.at = @ + a.ms]
              [] a.kind = "key"   ->
                    [s EXCEPT !.out = Append(@, <<a.mode, a.mods \cup ({a.key} \ {NoKey}), s.at>>)]
              [] OTHER -> s
    IN  FoldOver(Add, [at |-> 0, out |-> <<>>], macro).out

DoneHolds ==
    LET Add(s, e) ==
            CASE e.kind = "key_down" /\ e.token \notin s.down ->
                    [down |-> s.down \cup {e.token},
                     out  |-> Append(s.out, <<"press", {e.token}, e.at>>)]
              [] e.kind = "key_up" ->
                    [down |-> s.down \ {e.token},
                     out  |-> Append(s.out, <<"release", {e.token}, e.at>>)]
              [] OTHER -> s
    IN  FoldOver(Add, [down |-> {}, out |-> <<>>], InOrder)

\* Where the pointer is, from where it began, at every step made with a button
\* or the wheel.
PointerPath(list, Sort(_), Travel(_)) ==
    LET Add(s, k) == [at  |-> <<s.at[1] + Travel(k)[1], s.at[2] + Travel(k)[2]>>,
                      out |-> IF Sort(k) = "none" THEN s.out
                              ELSE Append(s.out, <<Sort(k), s.at>>)]
    IN  FoldOver(Add, [at |-> <<0, 0>>, out |-> <<>>], [k \in DOMAIN list |-> k]).out
MacroPath ==
    PointerPath(macro,
        LAMBDA k : CASE macro[k].kind = "mouse_button" -> macro[k].mode
                     [] macro[k].kind = "mouse_wheel"  -> "wheel"
                     [] OTHER                          -> "none",
        LAMBDA k : <<macro[k].dx, macro[k].dy>>)
DonePath ==
    LET ev == InOrder
    IN  PointerPath(ev,
            LAMBDA k : CASE ev[k].kind = "scroll" -> "wheel"
                         [] ev[k].kind \in {"mouse_click", "mouse_release"}
                              /\ MouseMode(ev, k) # "skip" -> MouseMode(ev, k)
                         [] OTHER -> "none",
            LAMBDA k : IF ev[k].kind = "mouse_move" /\ k \notin Wobble(ev)
                       THEN <<ev[k].dx, ev[k].dy>> ELSE <<0, 0>>)

(***************************************************************************)
(* Properties                                                              *)
(***************************************************************************)
TypeOK ==
    /\ backend \in {"evdev", "pynput"} /\ preserve \in BOOLEAN
    /\ now \in Nat /\ last \in [Devices -> Nat] /\ pressed \subseteq Keys \cup {Button}
    /\ motion \in [dx : Int, dy : Int, since : Nat \cup {Unset}, latest : Nat]
    /\ padAt \in Nat \cup {Unset} /\ editorAts \subseteq Nat
    /\ filtered \in BOOLEAN /\ phase \in {"recording", "stored", "refused"}
    /\ \A i \in DOMAIN events : events[i].at \in Nat
    /\ \A i \in DOMAIN macro :            \* every piece fits its bytes
          /\ macro[i].ms \in 0 .. DelayByteMax * DelayUnit
          /\ AbsOf(macro[i].dx) <= AxisMax /\ AbsOf(macro[i].dy) <= AxisMax
          /\ Len(macro[i].text) <= TextRunMax

\* What was typed is what the macro types, in the order it was typed and with the
\* modifiers that were down, whichever device was read first and however often the
\* desktop repeated a held key (normalize, "down" and the sort).
StrokesAsTyped ==
    phase = "stored" /\ ~preserve /\ Undisturbed
        /\ ~({"enter"} \cup Commands \subseteq {done[i].token : i \in DOMAIN done})  \* see SecretsLeftOut
        => MacroStrokes = DoneStrokes

\* Text that answers the prompt of a command just submitted is in no macro, however
\* long the answer took (redact_secrets: a guess, which a click in between ends).
\* Real timing makes no text, only presses: there is nothing to judge there.
SecretsLeftOut ==
    phase = "stored" /\ ~preserve =>
        LET acts == SelectSeq(macro, LAMBDA a : a.kind # "delay")
        IN  \A i \in 1 .. Len(acts) - 2 :
               ~(/\ acts[i].kind = "text" /\ RunsPrompting(acts[i].text)
                 /\ (i = 1 \/ acts[i - 1].kind # "text")
                 /\ acts[i + 1].kind = "key" /\ acts[i + 1].key = "enter"
                 /\ acts[i + 1].mods = {} /\ acts[i + 2].kind = "text")

\* The macro lets go of every button it presses and of no other.
ButtonsBalanced ==
    \A i \in DOMAIN macro : macro[i].kind = "mouse_button" /\ macro[i].mode # "click" =>
        \E j \in DOMAIN macro :
            /\ macro[j].kind = "mouse_button" /\ macro[j].mode # "click"
            /\ macro[j].mode # macro[i].mode
            /\ IF macro[i].mode = "press" THEN j > i ELSE j < i

\* Every hold of a key lasts as long as it did, to one quantum, however many short
\* gaps lie between its ends.
KeysAsHeld ==
    LET held  == DoneHolds.down
        holds == DoneHolds.out
        made  == MacroHolds
        n     == Len(holds)
        At(i) == IF i <= n THEN holds[i][3] ELSE now
    IN  /\ Len(made) = n + Cardinality(held)
        /\ \A i \in 1 .. n : made[i][1] = holds[i][1] /\ made[i][2] = holds[i][2]
        /\ \A k \in held : \E i \in n + 1 .. Len(made) :
              made[i][1] = "release" /\ made[i][2] = {k}
        /\ InOrder[1].kind = "key_down" =>
              \A i \in DOMAIN made :
                 2 * AbsOf(made[i][3] - (At(i) - InOrder[1].at)) <= DelayUnit

\* A button that is pressed is let go of, and with real timing keys are held as they
\* were (_mouse_modes, add_delay's timeline, stop()).
HoldsAsHeld ==
    phase = "stored" /\ Undisturbed => ButtonsBalanced /\ (preserve => KeysAsHeld)

\* Buttons and wheel act where they did: the pointer has then travelled what the
\* hand moved it, slices, splitting and late events notwithstanding.
PointerInPlace ==
    phase = "stored" /\ Undisturbed /\ ~filtered /\ editorAts = {} => MacroPath = DonePath

\* What the pad holds reads back as what was compiled, behind a macro that is
\* untouched, and no count is beyond its byte (encode_profile, decode_profile).
StoredAsCompiled ==
    phase # "recording" =>
        /\ Len(blob.records) <= PoolMax /\ \A s \in 1 .. Slots : blob.counts[s] <= SlotMax
        /\ LET read == DecodeMacros(blob)
           IN  IF phase = "stored" /\ Len(macro) > 1 THEN read = <<Stored, macro>>
               ELSE read \in {<<Stored>>, <<Stored, macro>>}
=============================================================================
