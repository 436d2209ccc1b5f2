---------------------------- MODULE ButtonInput ----------------------------
(***************************************************************************)
(* The button scanner of the pad (firmware/src/ButtonInput.cpp): debounces *)
(* the keys, turns presses into TAP, DOUBLE and HOLD gestures, queues them *)
(* for the engine and raises the request to record a key.                  *)
(*                                                                         *)
(* A time stamp of the code is an age here: the ticks since the event, no  *)
(* larger than the greatest threshold it is compared with.  An age or flag *)
(* that the code will set again before it next reads it is kept at its     *)
(* initial value meanwhile: pressedAt, holdFired, recordFired and          *)
(* secondPress while the key is up, releasedAt while it is down, changedAt *)
(* while the level read is the stable one.                                 *)
(***************************************************************************)
EXTENDS Integers, Sequences

CONSTANTS
  KEY_COUNT,    \* MK_KEY_COUNT
  DEBOUNCE,     \* MK_DEBOUNCE_MS, in ticks, as are the three below
  DOUBLE_TAP,   \* MK_DOUBLE_TAP_MS
  HOLD,         \* MK_HOLD_MS
  RECORD_HOLD,  \* MK_RECORD_HOLD_MS
  QUEUE_SIZE    \* gestures the queue holds

ASSUME ThresholdAssumption ==
  /\ KEY_COUNT \in Nat \ {0}
  /\ DEBOUNCE \in Nat \ {0}
  /\ DOUBLE_TAP \in Nat \ {0}
  /\ HOLD \in Nat \ {0}
  /\ RECORD_HOLD \in Nat
  /\ HOLD < RECORD_HOLD
  /\ QUEUE_SIZE \in Nat \ {0}

Key == 0 .. KEY_COUNT - 1
NoKey == -1

Phase == {"idle", "down", "pending", "doubleDown"}

KeyState ==
  [ phase : Phase, raw : BOOLEAN, stable : BOOLEAN,
    holdFired : BOOLEAN, recordFired : BOOLEAN, suppressed : BOOLEAN,
    secondPress : BOOLEAN, hasReleased : BOOLEAN,
    changedAge : 0 .. DEBOUNCE, pressedAge : 0 .. RECORD_HOLD,
    releasedAge : 0 .. DOUBLE_TAP ]

Event == [key : Key, gesture : {"tap", "double", "hold"}, released : BOOLEAN]
Request == [key : Key \cup {NoKey}, gesture : {"tap", "double"}]

VARIABLES
  keys,           \* [Key -> KeyState]
  queue,          \* gestures not yet taken by the engine, oldest first
  recordRequest,  \* recordRequest_ and recordGesture_
  doubleTapMask,  \* keys whose tap waits out the double-tap window
  presses         \* history: presses of a key not yet answered by a gesture
                  \* nor claimed by the engine

inputVars == <<keys, queue, recordRequest, doubleTapMask, presses>>

InputInit ==
  /\ keys = [k \in Key |->
       [ phase |-> "idle", raw |-> FALSE, stable |-> FALSE,
         holdFired |-> FALSE, recordFired |-> FALSE, suppressed |-> FALSE,
         secondPress |-> FALSE, hasReleased |-> FALSE,
         changedAge |-> 0, pressedAge |-> 0, releasedAge |-> 0 ]]
  /\ queue = <<>>
  /\ recordRequest = [key |-> NoKey, gesture |-> "tap"]
  /\ presses = [k \in Key |-> 0]

---------------------------------------------------------------------------
(* The queue *)

TapOf(k) == [key |-> k, gesture |-> "tap", released |-> FALSE]
DoubleOf(k) == [key |-> k, gesture |-> "double", released |-> FALSE]
HoldOf(k) == [key |-> k, gesture |-> "hold", released |-> FALSE]
HoldEndOf(k) == [key |-> k, gesture |-> "hold", released |-> TRUE]

\* A full queue drops the newest gesture.
Pushed(q, e) == IF Len(q) >= QUEUE_SIZE THEN q ELSE Append(q, e)

\* pressedMask_: the keys debounced as down.
Down == {k \in Key : keys[k].stable}

---------------------------------------------------------------------------
(* One key's turn in update() *)

\* The level the debouncer accepts: it differs from the stable one and has
\* been read unchanged for DEBOUNCE ticks.
Settled(s, level) ==
  /\ s.raw = level
  /\ s.stable # level
  /\ s.changedAge >= DEBOUNCE

\* Is this press the second of a quick pair?
IsSecondPress(s) == s.hasReleased /\ s.releasedAge < DOUBLE_TAP

AfterPress(s) ==
  [s EXCEPT !.stable = TRUE, !.secondPress = IsSecondPress(s),
            !.phase = IF s.phase = "pending" THEN "doubleDown" ELSE "down",
            !.holdFired = FALSE, !.recordFired = FALSE,
            !.changedAge = 0, !.pressedAge = 0, !.releasedAge = 0]

PressEdge(k) ==
  /\ Settled(keys[k], TRUE)
  /\ keys' = [keys EXCEPT ![k] = AfterPress(keys[k])]
  /\ presses' = [presses EXCEPT ![k] = presses[k] + 1]
  /\ UNCHANGED <<queue, recordRequest>>

\* Mutant: the claim on the key is forgotten.
VerdictUnclaimed(k) ==
  LET s == keys[k] IN
  IF s.phase = "doubleDown" THEN "double"
  ELSE IF s.holdFired /\ ~s.suppressed THEN "holdEnd"
  ELSE IF k \in doubleTapMask THEN "defer"
  ELSE "tap"

\* What letting the key go does: swallow it, fire DOUBLE, end a hold, defer the
\* tap until the window closes, or fire it now.
ReleaseVerdict(k) ==
  LET s == keys[k] IN
  IF s.suppressed THEN "swallow"
  ELSE IF s.phase = "doubleDown"
       THEN IF s.recordFired THEN "swallow" ELSE "double"
  ELSE IF s.holdFired THEN "holdEnd"
  ELSE IF k \in doubleTapMask THEN "defer"
  ELSE "tap"

AfterRelease(s, verdict) ==
  [s EXCEPT !.stable = FALSE, !.hasReleased = TRUE, !.suppressed = FALSE,
            !.phase = IF verdict = "defer" THEN "pending" ELSE "idle",
            !.holdFired = FALSE, !.recordFired = FALSE, !.secondPress = FALSE,
            !.changedAge = 0, !.pressedAge = 0, !.releasedAge = 0]

ReleaseEdge(k) ==
  /\ Settled(keys[k], FALSE)
  /\ LET verdict == ReleaseVerdict(k) IN
     /\ keys' = [keys EXCEPT ![k] = AfterRelease(keys[k], verdict)]
     /\ queue' = CASE verdict = "double"  -> Pushed(queue, DoubleOf(k))
                   [] verdict = "holdEnd" -> Pushed(queue, HoldEndOf(k))
                   [] verdict = "tap"     -> Pushed(queue, TapOf(k))
                   [] verdict \in {"swallow", "defer"} -> queue
     /\ presses' = IF verdict = "defer" THEN presses
                   ELSE [presses EXCEPT ![k] = 0]
  /\ UNCHANGED recordRequest

HoldDue(s) == s.stable /\ ~s.holdFired /\ s.pressedAge >= HOLD

\* Only a key held on its own asks to be recorded.
RecordDue(k) ==
  /\ Down = {k}
  /\ ~keys[k].recordFired
  /\ keys[k].pressedAge >= RECORD_HOLD

TapDueLate(s) == s.phase = "pending" /\ s.releasedAge > DOUBLE_TAP   \* mutant
TapDue(s) == s.phase = "pending" /\ s.releasedAge >= DOUBLE_TAP

AfterDwell(s, level, record) ==
  [s EXCEPT !.raw = level,
            !.changedAge = IF level = s.raw THEN s.changedAge ELSE 0,
            !.holdFired = s.holdFired \/ HoldDue(s),
            !.recordFired = s.recordFired \/ record,
            !.phase = IF TapDue(s) THEN "idle" ELSE s.phase]

\* No edge this scan: note the level read and serve the timers. The timers
\* cannot be due in the scan of an edge, which restarts them.
Dwell(k, level) ==
  LET s == keys[k] IN
  /\ ~Settled(s, level)
  /\ keys' = [keys EXCEPT ![k] = AfterDwell(s, level, RecordDue(k))]
  /\ recordRequest' =
       IF RecordDue(k)
       THEN [key |-> k, gesture |-> IF s.secondPress THEN "double" ELSE "tap"]
       ELSE recordRequest
  /\ queue' = IF HoldDue(s) THEN Pushed(queue, HoldOf(k))
              ELSE IF TapDue(s) THEN Pushed(queue, TapOf(k)) ELSE queue
  /\ presses' = IF TapDue(s) THEN [presses EXCEPT ![k] = 0] ELSE presses

\* One key's turn, with whatever level its pin reads at: a bouncing contact
\* included.
ScanKey(k) ==
  /\ \/ PressEdge(k)
     \/ ReleaseEdge(k)
     \/ \E level \in BOOLEAN : Dwell(k, level)
  /\ UNCHANGED doubleTapMask

---------------------------------------------------------------------------
(* What the engine asks of the scanner *)

\* Swallows every gesture of these keys until they are released.
AfterSuppress(s) ==
  [s EXCEPT !.suppressed = TRUE, !.holdFired = TRUE, !.phase = "down"]

Suppressed(mask) ==
  [k \in Key |-> IF k \in mask THEN AfterSuppress(keys[k]) ELSE keys[k]]

\* History: a press the engine claimed is owed no gesture.
Claimed(mask) == [k \in Key |-> IF k \in mask THEN 0 ELSE presses[k]]

\* d ticks go by; an age stops at its limit.
Older(age, d, limit) == IF age + d > limit THEN limit ELSE age + d

Aged(s, d) ==
  [s EXCEPT
     !.changedAge = IF s.raw = s.stable THEN s.changedAge
                    ELSE Older(s.changedAge, d, DEBOUNCE),
     !.pressedAge = IF s.stable THEN Older(s.pressedAge, d, RECORD_HOLD)
                    ELSE s.pressedAge,
     !.releasedAge = IF s.stable THEN s.releasedAge
                     ELSE Older(s.releasedAge, d, DOUBLE_TAP)]

Elapse(d) == keys' = [k \in Key |-> Aged(keys[k], d)]
=============================================================================
