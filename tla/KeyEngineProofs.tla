-------------------------- MODULE KeyEngineProofs --------------------------
(* What module KeyEngine keeps for any number of keys, thresholds, queue     *)
(* size and profiles.                                                        *)
EXTENDS KeyEngine, TLAPS

(* A key's phase fixes how many of its presses are still owed a gesture. A   *)
(* suppressed key is owed none, unless it was up when the engine claimed it  *)
(* and has been pressed since.                                               *)
KeyOwes(s, n) ==
  /\ s.phase = "idle" => ~s.stable /\ ~s.suppressed /\ n = 0
  /\ s.phase = "pending" => ~s.stable /\ ~s.suppressed /\ n = 1
  /\ s.phase = "doubleDown" => s.stable /\ ~s.suppressed /\ n = 2
  /\ s.phase = "down" => /\ ~s.suppressed => s.stable /\ n = 1
                         /\ s.suppressed => n \in {0, 1}
                         /\ ~s.stable => n = 0
                         /\ s.stable /\ n = 0 => s.holdFired

PressInv == \A k \in Key : KeyOwes(keys[k], presses[k])

Verdict == {"swallow", "double", "holdEnd", "defer", "tap"}

(* A key whose turn in the scan is over has no overdue tap.                  *)
WindowInv ==
  \A k \in Key :
    keys[k].phase = "pending" /\ (pc = "scan" => k < cursor)
      => keys[k].releasedAge < DOUBLE_TAP

(* Until a key is pressed, nothing is down that was not down at the arming.  *)
StopInv ==
  /\ macro.aborted => fresh
  /\ macro.armed /\ ~fresh => Down \subseteq macro.startMask

---------------------------------------------------------------------------
(* The helpers                                                               *)

LEMMA KeyInRange == \A k : k \in Key <=> k \in Int /\ 0 <= k /\ k < KEY_COUNT
  BY ThresholdAssumption DEF Key

LEMMA FieldValues ==
  /\ TRUE \in BOOLEAN /\ FALSE \in BOOLEAN
  /\ 0 \in 0 .. DEBOUNCE /\ 0 \in 0 .. RECORD_HOLD /\ 0 \in 0 .. DOUBLE_TAP
  BY ThresholdAssumption

LEMMA PushedType ==
  ASSUME NEW q \in Seq(Event), Len(q) <= QUEUE_SIZE, NEW e \in Event
  PROVE  Pushed(q, e) \in Seq(Event) /\ Len(Pushed(q, e)) <= QUEUE_SIZE
  BY ThresholdAssumption DEF Pushed

LEMMA AppendType ==
  ASSUME NEW q \in Seq(Event), NEW e \in Event
  PROVE  Append(q, e) \in Seq(Event)
  OBVIOUS

LEMMA AppendTells ==
  ASSUME NEW q \in Seq(Event), NEW a \in Event
  PROVE  /\ Append(q, a) # q
         /\ q # <<>> => Tail(q) # Append(q, a)
         /\ \A e \in Event : Append(q, e) = Append(q, a) => e = a
<1>1. \A e \in Event : Append(q, e)[Len(q) + 1] = e /\ Len(Append(q, e)) = Len(q) + 1
  OBVIOUS
<1>2. q # <<>> => Len(Tail(q)) = Len(q) - 1
  OBVIOUS
<1>3. Len(q) \in Nat
  OBVIOUS
<1> QED BY <1>1, <1>2, <1>3

LEMMA TailType ==
  ASSUME NEW q \in Seq(Event), q # <<>>, Len(q) <= QUEUE_SIZE
  PROVE  Tail(q) \in Seq(Event) /\ Len(Tail(q)) <= QUEUE_SIZE
  BY ThresholdAssumption

LEMMA EventsOfKey ==
  ASSUME NEW k \in Key
  PROVE  /\ TapOf(k) \in Event /\ DoubleOf(k) \in Event
         /\ HoldOf(k) \in Event /\ HoldEndOf(k) \in Event
  BY DEF Event, TapOf, DoubleOf, HoldOf, HoldEndOf

LEMMA OlderType ==
  ASSUME NEW limit \in Nat, NEW age \in 0 .. limit, NEW d \in Nat
  PROVE  Older(age, d, limit) \in 0 .. limit
  BY DEF Older

(* A press edge.                                                             *)
LEMMA AfterPressKey ==
  ASSUME NEW s \in KeyState
  PROVE  /\ AfterPress(s) \in KeyState
         /\ AfterPress(s).phase =
              IF s.phase = "pending" THEN "doubleDown" ELSE "down"
         /\ AfterPress(s).stable = TRUE
         /\ AfterPress(s).suppressed = s.suppressed
<1> DEFINE second == IsSecondPress(s)
           next == IF s.phase = "pending" THEN "doubleDown" ELSE "down"
<1>1. second \in BOOLEAN /\ next \in Phase
  BY DEF IsSecondPress, KeyState, Phase
<1>2. AfterPress(s) =
        [s EXCEPT !.stable = TRUE, !.secondPress = second, !.phase = next,
                  !.holdFired = FALSE, !.recordFired = FALSE,
                  !.changedAge = 0, !.pressedAge = 0, !.releasedAge = 0]
  BY DEF AfterPress
<1>3. next = IF s.phase = "pending" THEN "doubleDown" ELSE "down"
  OBVIOUS
<1> HIDE DEF second, next
<1>4. AfterPress(s) \in KeyState
  BY <1>1, <1>2, FieldValues, Zenon DEF KeyState
<1>5. AfterPress(s).phase = next
  BY <1>1, <1>2, Zenon DEF KeyState
<1>6. AfterPress(s).stable = TRUE
  BY <1>1, <1>2, Zenon DEF KeyState
<1>7. AfterPress(s).suppressed = s.suppressed
  BY <1>1, <1>2, Zenon DEF KeyState
<1> QED BY <1>3, <1>4, <1>5, <1>6, <1>7

(* A release edge.                                                           *)
LEMMA AfterReleaseKey ==
  ASSUME NEW s \in KeyState, NEW verdict \in Verdict
  PROVE  /\ AfterRelease(s, verdict) \in KeyState
         /\ AfterRelease(s, verdict).phase =
              IF verdict = "defer" THEN "pending" ELSE "idle"
         /\ AfterRelease(s, verdict).stable = FALSE
         /\ AfterRelease(s, verdict).suppressed = FALSE
         /\ AfterRelease(s, verdict).releasedAge = 0
<1> DEFINE next == IF verdict = "defer" THEN "pending" ELSE "idle"
           after == AfterRelease(s, verdict)
<1>1. next \in Phase
  BY DEF Phase
<1>2. after =
        [s EXCEPT !.stable = FALSE, !.hasReleased = TRUE, !.suppressed = FALSE,
                  !.phase = next, !.holdFired = FALSE, !.recordFired = FALSE,
                  !.secondPress = FALSE, !.changedAge = 0, !.pressedAge = 0,
                  !.releasedAge = 0]
  BY DEF AfterRelease
<1>3. next = IF verdict = "defer" THEN "pending" ELSE "idle"
  OBVIOUS
<1> HIDE DEF next
<1>4. after \in KeyState
  BY <1>1, <1>2, FieldValues, Zenon DEF KeyState
<1>5. after.phase = next
  BY <1>1, <1>2, Zenon DEF KeyState
<1>6. after.stable = FALSE
  BY <1>1, <1>2, Zenon DEF KeyState
<1>7. after.suppressed = FALSE
  BY <1>1, <1>2, Zenon DEF KeyState
<1>8. after.releasedAge = 0
  BY <1>1, <1>2, Zenon DEF KeyState
<1> QED BY <1>3, <1>4, <1>5, <1>6, <1>7, <1>8

(* A scan without an edge.                                                   *)
LEMMA AfterDwellKey ==
  ASSUME NEW s \in KeyState, NEW level \in BOOLEAN, NEW record \in BOOLEAN
  PROVE  /\ AfterDwell(s, level, record) \in KeyState
         /\ AfterDwell(s, level, record).phase =
              IF TapDue(s) THEN "idle" ELSE s.phase
         /\ AfterDwell(s, level, record).stable = s.stable
         /\ AfterDwell(s, level, record).suppressed = s.suppressed
         /\ AfterDwell(s, level, record).holdFired = (s.holdFired \/ HoldDue(s))
         /\ AfterDwell(s, level, record).releasedAge = s.releasedAge
<1> DEFINE after == AfterDwell(s, level, record)
           age == IF level = s.raw THEN s.changedAge ELSE 0
           hold == s.holdFired \/ HoldDue(s)
           rec == s.recordFired \/ record
           next == IF TapDue(s) THEN "idle" ELSE s.phase
<1>1. /\ age \in 0 .. DEBOUNCE
      /\ hold \in BOOLEAN /\ rec \in BOOLEAN /\ next \in Phase
  BY FieldValues DEF KeyState, Phase
<1>2. after =
        [s EXCEPT !.raw = level, !.changedAge = age, !.holdFired = hold,
                  !.recordFired = rec, !.phase = next]
  BY DEF AfterDwell
<1>3. /\ next = IF TapDue(s) THEN "idle" ELSE s.phase
      /\ hold = (s.holdFired \/ HoldDue(s))
  OBVIOUS
<1> HIDE DEF age, hold, rec, next
<1>4. after \in KeyState
  BY <1>1, <1>2, Zenon DEF KeyState
<1>5. after.phase = next
  BY <1>1, <1>2, Zenon DEF KeyState
<1>6. after.stable = s.stable
  BY <1>1, <1>2, Zenon DEF KeyState
<1>7. after.suppressed = s.suppressed
  BY <1>1, <1>2, Zenon DEF KeyState
<1>8. after.holdFired = hold
  BY <1>1, <1>2, Zenon DEF KeyState
<1>9. after.releasedAge = s.releasedAge
  BY <1>1, <1>2, Zenon DEF KeyState
<1> QED BY <1>3, <1>4, <1>5, <1>6, <1>7, <1>8, <1>9, Zenon

(* A claim of the engine.                                                    *)
LEMMA AfterSuppressKey ==
  ASSUME NEW s \in KeyState
  PROVE  /\ AfterSuppress(s) \in KeyState
         /\ AfterSuppress(s).phase = "down"
         /\ AfterSuppress(s).stable = s.stable
         /\ AfterSuppress(s).suppressed = TRUE
         /\ AfterSuppress(s).holdFired = TRUE
  BY DEF AfterSuppress, KeyState, Phase

(* Time passing changes nothing but ages.                                    *)
LEMMA AgedKey ==
  ASSUME NEW s \in KeyState, NEW d \in Nat
  PROVE  /\ Aged(s, d) \in KeyState
         /\ Aged(s, d).phase = s.phase /\ Aged(s, d).stable = s.stable
         /\ Aged(s, d).suppressed = s.suppressed
         /\ Aged(s, d).holdFired = s.holdFired
<1> DEFINE changed == IF s.raw = s.stable THEN s.changedAge
                      ELSE Older(s.changedAge, d, DEBOUNCE)
           pressed == IF s.stable THEN Older(s.pressedAge, d, RECORD_HOLD)
                      ELSE s.pressedAge
           released == IF s.stable THEN s.releasedAge
                       ELSE Older(s.releasedAge, d, DOUBLE_TAP)
<1>1. /\ s.changedAge \in 0 .. DEBOUNCE
      /\ s.pressedAge \in 0 .. RECORD_HOLD
      /\ s.releasedAge \in 0 .. DOUBLE_TAP
  BY DEF KeyState
<1>2. /\ Older(s.changedAge, d, DEBOUNCE) \in 0 .. DEBOUNCE
      /\ Older(s.pressedAge, d, RECORD_HOLD) \in 0 .. RECORD_HOLD
      /\ Older(s.releasedAge, d, DOUBLE_TAP) \in 0 .. DOUBLE_TAP
  BY <1>1, OlderType, ThresholdAssumption
<1>3. /\ changed \in 0 .. DEBOUNCE
      /\ pressed \in 0 .. RECORD_HOLD
      /\ released \in 0 .. DOUBLE_TAP
  BY <1>1, <1>2
<1>4. Aged(s, d) = [s EXCEPT !.changedAge = changed, !.pressedAge = pressed,
                             !.releasedAge = released]
  BY DEF Aged
<1> HIDE DEF changed, pressed, released
<1> QED BY <1>3, <1>4 DEF KeyState
---------------------------------------------------------------------------
(* What a key owes, through each of the changes above                        *)

LEMMA PressOwes ==
  ASSUME NEW s \in KeyState, NEW n \in 0 .. 2, KeyOwes(s, n), Settled(s, TRUE)
  PROVE  n \in {0, 1} /\ KeyOwes(AfterPress(s), n + 1)
<1>1. ~s.stable /\ s.phase \in Phase
  BY DEF Settled, KeyState
<1>2. n \in {0, 1}
  BY <1>1 DEF KeyOwes, Phase
<1> DEFINE t == AfterPress(s)
<1>3. /\ t.phase = IF s.phase = "pending" THEN "doubleDown" ELSE "down"
      /\ t.stable /\ t.suppressed = s.suppressed
  BY AfterPressKey
<1> HIDE DEF t
<1>4. s.phase = "pending" => KeyOwes(t, n + 1)
  BY <1>3 DEF KeyOwes
<1>5. s.phase # "pending" => KeyOwes(t, n + 1)
  BY <1>1, <1>2, <1>3 DEF KeyOwes, Phase
<1> QED BY <1>2, <1>4, <1>5 DEF t

LEMMA ReleaseOwes ==
  ASSUME NEW k \in Key, keys[k] \in KeyState, NEW n \in 0 .. 2,
         KeyOwes(keys[k], n), Settled(keys[k], FALSE)
  PROVE  LET verdict == ReleaseVerdict(k) IN
         /\ verdict \in Verdict
         /\ KeyOwes(AfterRelease(keys[k], verdict),
                    IF verdict = "defer" THEN n ELSE 0)
         /\ verdict = "double" => n = 2
         /\ verdict \in {"holdEnd", "defer", "tap"} => n = 1
<1> DEFINE s == keys[k]
           verdict == ReleaseVerdict(k)
<1>1. s.stable /\ s.phase \in Phase
  BY DEF Settled, KeyState
<1>2. verdict \in Verdict
  BY DEF ReleaseVerdict, Verdict
<1>3. verdict = "double" => n = 2
  BY <1>1 DEF ReleaseVerdict, KeyOwes
<1>4. verdict \in {"holdEnd", "defer", "tap"} => n = 1
  BY <1>1 DEF ReleaseVerdict, KeyOwes, Phase
<1>5. KeyOwes(AfterRelease(s, verdict), IF verdict = "defer" THEN n ELSE 0)
  <2> DEFINE t == AfterRelease(s, verdict)
  <2>1. /\ t.phase = IF verdict = "defer" THEN "pending" ELSE "idle"
        /\ ~t.stable /\ ~t.suppressed
    BY <1>2, AfterReleaseKey
  <2> HIDE DEF t, verdict
  <2>2. KeyOwes(t, IF verdict = "defer" THEN n ELSE 0)
    BY <1>4, <2>1 DEF KeyOwes, Verdict
  <2> QED BY <2>2 DEF t
<1> QED BY <1>2, <1>3, <1>4, <1>5

LEMMA DwellOwes ==
  ASSUME NEW s \in KeyState, NEW n \in 0 .. 2, KeyOwes(s, n),
         NEW level \in BOOLEAN, NEW record \in BOOLEAN
  PROVE  /\ TapDue(s) => KeyOwes(AfterDwell(s, level, record), 0)
         /\ ~TapDue(s) => KeyOwes(AfterDwell(s, level, record), n)
         /\ HoldDue(s) => n \in {1, 2}
         /\ TapDue(s) => n = 1 /\ ~HoldDue(s)
<1>1. s.phase \in Phase /\ s.stable \in BOOLEAN /\ s.suppressed \in BOOLEAN
  BY DEF KeyState
<1>2. HoldDue(s) => n \in {1, 2}
  BY <1>1 DEF HoldDue, KeyOwes, Phase
<1>3. TapDue(s) => n = 1 /\ ~HoldDue(s) /\ ~s.stable /\ ~s.suppressed
  BY DEF HoldDue, TapDue, KeyOwes
<1>4. CASE TapDue(s)
  BY <1>3, <1>4, AfterDwellKey DEF KeyOwes
<1>5. CASE ~TapDue(s)
  <2> DEFINE t == AfterDwell(s, level, record)
  <2>1. /\ t.phase = s.phase /\ t.stable = s.stable
        /\ t.suppressed = s.suppressed
        /\ s.holdFired => t.holdFired
    BY <1>5, AfterDwellKey
  <2> HIDE DEF t
  <2>2. KeyOwes(t, n)
    BY <2>1 DEF KeyOwes
  <2> QED BY <1>2, <1>5, <2>2 DEF t
<1> QED BY <1>2, <1>3, <1>4, <1>5

LEMMA SuppressOwes ==
  ASSUME NEW s \in KeyState, NEW n \in 0 .. 2
  PROVE  KeyOwes(AfterSuppress(s), 0)
  BY AfterSuppressKey DEF KeyOwes

LEMMA AgedOwes ==
  ASSUME NEW s \in KeyState, NEW n \in 0 .. 2, KeyOwes(s, n), NEW d \in Nat
  PROVE  KeyOwes(Aged(s, d), n)
  BY AgedKey DEF KeyOwes

(* Claiming a set of keys.                                                   *)
LEMMA Claiming ==
  ASSUME NEW mask \in SUBSET Key, keys \in [Key -> KeyState],
         presses \in [Key -> 0 .. 2], PressInv
  PROVE  /\ Suppressed(mask) \in [Key -> KeyState]
         /\ Claimed(mask) \in [Key -> 0 .. 2]
         /\ \A k \in Key : /\ KeyOwes(Suppressed(mask)[k], Claimed(mask)[k])
                           /\ Suppressed(mask)[k].stable = keys[k].stable
                           /\ Suppressed(mask)[k].phase = "pending" =>
                                Suppressed(mask)[k] = keys[k]
<1> SUFFICES ASSUME NEW k \in Key
             PROVE  /\ Suppressed(mask)[k] \in KeyState
                    /\ KeyOwes(Suppressed(mask)[k], Claimed(mask)[k])
                    /\ Suppressed(mask)[k].stable = keys[k].stable
                    /\ Suppressed(mask)[k].phase = "pending" =>
                         Suppressed(mask)[k] = keys[k]
  BY DEF Suppressed, Claimed
<1>1. keys[k] \in KeyState /\ presses[k] \in 0 .. 2 /\ KeyOwes(keys[k], presses[k])
  BY DEF PressInv
<1>2. CASE k \in mask
  <2>1. Suppressed(mask)[k] = AfterSuppress(keys[k]) /\ Claimed(mask)[k] = 0
    BY <1>2 DEF Suppressed, Claimed
  <2> QED BY <1>1, <2>1, AfterSuppressKey, SuppressOwes
<1>3. CASE k \notin mask
  <2>1. Suppressed(mask)[k] = keys[k] /\ Claimed(mask)[k] = presses[k]
    BY <1>3 DEF Suppressed, Claimed
  <2> QED BY <1>1, <2>1
<1> QED BY <1>2, <1>3

---------------------------------------------------------------------------
(* One key's turn in the scan                                                *)

ScanInv == TypeOK /\ PressInv

LEMMA PressEdgeStep ==
  ASSUME ScanInv, NEW k \in Key, PressEdge(k)
  PROVE  /\ keys' \in [Key -> KeyState] /\ presses' \in [Key -> 0 .. 2]
         /\ PressInv'
         /\ \A j \in Key \ {k} : keys'[j] = keys[j]
         /\ keys'[k].phase # "pending"
<1>1. keys[k] \in KeyState /\ presses[k] \in 0 .. 2 /\ KeyOwes(keys[k], presses[k])
  BY DEF ScanInv, TypeOK, PressInv
<1>2. keys'[k] = AfterPress(keys[k]) /\ presses'[k] = presses[k] + 1
  BY DEF PressEdge, ScanInv, TypeOK
<1>3. presses[k] \in {0, 1} /\ KeyOwes(keys'[k], presses'[k])
  BY <1>1, <1>2, PressOwes DEF PressEdge
<1>4. \A j \in Key \ {k} : keys'[j] = keys[j] /\ presses'[j] = presses[j]
  BY DEF PressEdge, ScanInv, TypeOK
<1>5. keys' \in [Key -> KeyState]
  BY <1>1, AfterPressKey DEF PressEdge, ScanInv, TypeOK
<1>6. presses' \in [Key -> 0 .. 2]
  BY <1>3 DEF PressEdge, ScanInv, TypeOK
<1>7. keys'[k].phase # "pending"
  BY <1>1, <1>2, AfterPressKey
<1> QED BY <1>3, <1>4, <1>5, <1>6, <1>7 DEF PressInv, ScanInv

LEMMA ReleaseEdgeStep ==
  ASSUME ScanInv, NEW k \in Key, ReleaseEdge(k)
  PROVE  /\ keys' \in [Key -> KeyState] /\ presses' \in [Key -> 0 .. 2]
         /\ queue' \in Seq(Event) /\ Len(queue') <= QUEUE_SIZE
         /\ PressInv' /\ GestureAnswersPresses
         /\ \A j \in Key \ {k} : keys'[j] = keys[j]
         /\ ~keys'[k].stable /\ keys'[k].releasedAge = 0
<1> DEFINE verdict == ReleaseVerdict(k)
<1>1. keys[k] \in KeyState /\ presses[k] \in 0 .. 2 /\ KeyOwes(keys[k], presses[k])
  BY DEF ScanInv, TypeOK, PressInv
<1>2. /\ keys' = [keys EXCEPT ![k] = AfterRelease(keys[k], verdict)]
      /\ presses' = IF verdict = "defer" THEN presses
                    ELSE [presses EXCEPT ![k] = 0]
      /\ queue' = CASE verdict = "double"  -> Pushed(queue, DoubleOf(k))
                    [] verdict = "holdEnd" -> Pushed(queue, HoldEndOf(k))
                    [] verdict = "tap"     -> Pushed(queue, TapOf(k))
                    [] verdict \in {"swallow", "defer"} -> queue
      /\ Settled(keys[k], FALSE)
  BY DEF ReleaseEdge
<1>3. /\ verdict \in Verdict
      /\ KeyOwes(AfterRelease(keys[k], verdict),
                 IF verdict = "defer" THEN presses[k] ELSE 0)
      /\ verdict = "double" => presses[k] = 2
      /\ verdict \in {"holdEnd", "defer", "tap"} => presses[k] = 1
  BY <1>1, <1>2, ReleaseOwes
<1> HIDE DEF verdict
<1>4. /\ keys'[k] = AfterRelease(keys[k], verdict)
      /\ presses'[k] = IF verdict = "defer" THEN presses[k] ELSE 0
      /\ \A j \in Key \ {k} : keys'[j] = keys[j] /\ presses'[j] = presses[j]
  BY <1>2 DEF ScanInv, TypeOK
<1>5. keys' \in [Key -> KeyState] /\ presses' \in [Key -> 0 .. 2]
  <2>1. AfterRelease(keys[k], verdict) \in KeyState
    BY <1>1, <1>3, AfterReleaseKey
  <2> QED BY <1>2, <2>1 DEF ScanInv, TypeOK
<1>6. PressInv'
  BY <1>3, <1>4 DEF PressInv, ScanInv
<1>7. \E e \in Event :
        /\ queue' \in {queue, Append(queue, e)}
        /\ Len(queue') <= QUEUE_SIZE
        /\ queue' # queue => /\ e.key = k
                             /\ e.gesture = "double" => presses[k] = 2
                             /\ e.gesture \in {"tap", "hold"} => presses[k] = 1
  <2>1. Len(queue) <= QUEUE_SIZE /\ queue \in Seq(Event)
    BY DEF ScanInv, TypeOK
  <2>2. CASE verdict = "double"
    BY <1>2, <1>3, <2>1, <2>2, EventsOfKey, PushedType DEF DoubleOf, Pushed
  <2>3. CASE verdict = "holdEnd"
    BY <1>2, <1>3, <2>1, <2>3, EventsOfKey, PushedType DEF HoldEndOf, Pushed
  <2>4. CASE verdict = "tap"
    BY <1>2, <1>3, <2>1, <2>4, EventsOfKey, PushedType DEF TapOf, Pushed
  <2>5. CASE verdict \in {"swallow", "defer"}
    BY <1>2, <2>1, <2>5, EventsOfKey
  <2> QED BY <1>3, <2>2, <2>3, <2>4, <2>5 DEF Verdict
<1>8. queue' \in Seq(Event) /\ Len(queue') <= QUEUE_SIZE
  BY <1>7, AppendType DEF ScanInv, TypeOK
<1>9. GestureAnswersPresses
  <2> PICK e \in Event : <1>7!(e)
    BY <1>7
  <2> SUFFICES ASSUME NEW f \in Event, queue' = Append(queue, f)
               PROVE  CASE f.gesture = "tap"    -> presses[f.key] = 1
                        [] f.gesture = "double" -> presses[f.key] = 2
                        [] f.gesture = "hold"   -> presses[f.key] \in {1, 2}
    BY DEF GestureAnswersPresses
  <2>1. queue \in Seq(Event)
    BY DEF ScanInv, TypeOK
  <2>2. f = e /\ queue' # queue
    BY <2>1, AppendTells
  <2>3. f.gesture \in {"tap", "double", "hold"}
    BY DEF Event
  <2> QED BY <2>2, <2>3
<1>10. ~keys'[k].stable /\ keys'[k].releasedAge = 0
  <2>1. AfterRelease(keys[k], verdict).stable = FALSE
        /\ AfterRelease(keys[k], verdict).releasedAge = 0
    BY <1>1, <1>3, AfterReleaseKey
  <2> QED BY <1>4, <2>1
<1> QED BY <1>4, <1>5, <1>6, <1>8, <1>9, <1>10

LEMMA DwellStep ==
  ASSUME ScanInv, NEW k \in Key, NEW level \in BOOLEAN, Dwell(k, level)
  PROVE  /\ keys' \in [Key -> KeyState] /\ presses' \in [Key -> 0 .. 2]
         /\ queue' \in Seq(Event) /\ Len(queue') <= QUEUE_SIZE
         /\ recordRequest' \in Request
         /\ PressInv' /\ GestureAnswersPresses
         /\ \A j \in Key \ {k} : keys'[j] = keys[j]
         /\ keys'[k].stable = keys[k].stable
         /\ keys'[k].phase = "pending" => keys'[k].releasedAge < DOUBLE_TAP
<1> DEFINE s == keys[k]
           t == AfterDwell(s, level, RecordDue(k))
<1>1. s \in KeyState /\ presses[k] \in 0 .. 2 /\ KeyOwes(s, presses[k])
  BY DEF ScanInv, TypeOK, PressInv
<1>2. RecordDue(k) \in BOOLEAN
  BY DEF RecordDue
<1>3. /\ keys' = [keys EXCEPT ![k] = t]
      /\ presses' = IF TapDue(s) THEN [presses EXCEPT ![k] = 0] ELSE presses
      /\ queue' = IF HoldDue(s) THEN Pushed(queue, HoldOf(k))
                  ELSE IF TapDue(s) THEN Pushed(queue, TapOf(k)) ELSE queue
      /\ recordRequest' \in
           {recordRequest, [key |-> k, gesture |-> "double"],
            [key |-> k, gesture |-> "tap"]}
  BY DEF Dwell
<1>4. /\ TapDue(s) => KeyOwes(t, 0)
      /\ ~TapDue(s) => KeyOwes(t, presses[k])
      /\ HoldDue(s) => presses[k] \in {1, 2}
      /\ TapDue(s) => presses[k] = 1 /\ ~HoldDue(s)
  BY <1>1, <1>2, DwellOwes
<1>5. /\ t \in KeyState
      /\ t.phase = IF TapDue(s) THEN "idle" ELSE s.phase
      /\ t.stable = s.stable
      /\ t.releasedAge = s.releasedAge
  BY <1>1, <1>2, AfterDwellKey
<1>6. t.phase = "pending" => t.releasedAge < DOUBLE_TAP
  <2>1. s.releasedAge \in Int /\ DOUBLE_TAP \in Int
    BY <1>1, ThresholdAssumption DEF KeyState
  <2> HIDE DEF t
  <2> QED BY <1>5, <2>1 DEF TapDue
<1> HIDE DEF t
<1>7. /\ keys'[k] = t
      /\ presses'[k] = IF TapDue(s) THEN 0 ELSE presses[k]
      /\ \A j \in Key \ {k} : keys'[j] = keys[j] /\ presses'[j] = presses[j]
  BY <1>3 DEF ScanInv, TypeOK
<1>8. keys' \in [Key -> KeyState] /\ presses' \in [Key -> 0 .. 2]
  BY <1>3, <1>5 DEF ScanInv, TypeOK
<1>9. PressInv'
  <2>1. KeyOwes(keys'[k], presses'[k])
    BY <1>4, <1>7
  <2> QED BY <1>7, <2>1 DEF PressInv, ScanInv
<1>10. \E e \in Event :
         /\ queue' \in {queue, Append(queue, e)}
         /\ Len(queue') <= QUEUE_SIZE
         /\ queue' # queue => /\ e.key = k
                              /\ e.gesture \in {"tap", "hold"}
                              /\ e.gesture = "tap" => presses[k] = 1
                              /\ e.gesture = "hold" => presses[k] \in {1, 2}
  <2>1. Len(queue) <= QUEUE_SIZE /\ queue \in Seq(Event)
    BY DEF ScanInv, TypeOK
  <2>2. CASE HoldDue(s)
    BY <1>3, <1>4, <2>1, <2>2, EventsOfKey, PushedType DEF HoldOf, Pushed
  <2>3. CASE TapDue(s) /\ ~HoldDue(s)
    BY <1>3, <1>4, <2>1, <2>3, EventsOfKey, PushedType DEF TapOf, Pushed
  <2>4. CASE ~TapDue(s) /\ ~HoldDue(s)
    BY <1>3, <2>1, <2>4, EventsOfKey
  <2> QED BY <2>2, <2>3, <2>4
<1>11. queue' \in Seq(Event) /\ Len(queue') <= QUEUE_SIZE
  BY <1>10, AppendType DEF ScanInv, TypeOK
<1>12. GestureAnswersPresses
  <2> PICK e \in Event : <1>10!(e)
    BY <1>10
  <2> SUFFICES ASSUME NEW f \in Event, queue' = Append(queue, f)
               PROVE  CASE f.gesture = "tap"    -> presses[f.key] = 1
                        [] f.gesture = "double" -> presses[f.key] = 2
                        [] f.gesture = "hold"   -> presses[f.key] \in {1, 2}
    BY DEF GestureAnswersPresses
  <2>1. queue \in Seq(Event)
    BY DEF ScanInv, TypeOK
  <2>2. f = e /\ queue' # queue
    BY <2>1, AppendTells
  <2> QED BY <2>2
<1>13. recordRequest' \in Request
  BY <1>3 DEF Request, ScanInv, TypeOK
<1> QED BY <1>5, <1>6, <1>7, <1>8, <1>9, <1>11, <1>12, <1>13
---------------------------------------------------------------------------
(* The inductive invariant                                                   *)

IInv == TypeOK /\ PressInv /\ WindowInv /\ StopInv

LEMMA TypedPress == IInv => ScanInv
  BY DEF IInv, ScanInv

LEMMA InitInv == ASSUME Init PROVE IInv
<1>1. ARM \in Nat /\ BOOT_GRACE \in Nat /\ 0 \in Key /\ PROFILES # {}
  BY EngineAssumption, ThresholdAssumption DEF Key
<1>2. keys \in [Key -> KeyState]
  BY FieldValues DEF Init, InputInit, KeyState, Phase
<1>3. TypeOK
  <2>1. queue \in Seq(Event) /\ Len(queue) <= QUEUE_SIZE
    BY ThresholdAssumption DEF Init, InputInit
  <2>2. presses \in [Key -> 0 .. 2] /\ recordRequest \in Request
    BY DEF Init, InputInit, Request
  <2>3. macro \in Macro
    BY <1>1 DEF Init, NoMacro, Macro
  <2>4. doubleTapMask \subseteq Key
    BY DEF Init, DoubleBound
  <2> QED BY <1>1, <1>2, <2>1, <2>2, <2>3, <2>4 DEF Init, TypeOK
<1>4. PressInv /\ WindowInv
  BY DEF Init, InputInit, PressInv, KeyOwes, WindowInv
<1>5. StopInv
  BY DEF Init, StopInv, NoMacro
<1> QED BY <1>3, <1>4, <1>5 DEF IInv

LEMMA WaitStep ==
  ASSUME IInv, NEW d \in STEPS, Wait(d)
  PROVE  IInv'
<1>1. d \in Nat /\ ARM \in Nat /\ BOOT_GRACE \in Nat /\ 0 \in Key
  BY EngineAssumption, ThresholdAssumption DEF Key
<1>2. \A k \in Key : /\ keys[k] \in KeyState /\ presses[k] \in 0 .. 2
                     /\ keys'[k] = Aged(keys[k], d)
                     /\ KeyOwes(keys[k], presses[k])
  BY DEF IInv, TypeOK, Wait, Elapse, PressInv
<1>3. keys' \in [Key -> KeyState]
  BY <1>1, <1>2, AgedKey DEF Wait, Elapse
<1>4. /\ macro' \in Macro
      /\ macro'.armed = macro.armed /\ macro'.aborted = macro.aborted
      /\ macro'.startMask = macro.startMask
  <2>1. macro \in Macro
    BY DEF IInv, TypeOK
  <2> DEFINE age == IF ~macro.running THEN 0
                    ELSE IF macro.age + d > ARM THEN ARM ELSE macro.age + d
  <2>2. age \in 0 .. ARM
    BY <1>1, <2>1 DEF Macro
  <2>3. PICK zero \in BOOLEAN : macro' = [macro EXCEPT !.zero = zero, !.age = age]
    BY DEF Wait, MayReadZero
  <2> HIDE DEF age
  <2> QED BY <2>1, <2>2, <2>3 DEF Macro
<1>5. uptime' \in 0 .. BOOT_GRACE
  BY <1>1 DEF Wait, IInv, TypeOK
<1>6. TypeOK'
  BY <1>1, <1>3, <1>4, <1>5 DEF Wait, IInv, TypeOK
<1>7. PressInv'
  <2> SUFFICES ASSUME NEW k \in Key PROVE KeyOwes(keys'[k], presses'[k])
    BY DEF PressInv
  <2> QED BY <1>1, <1>2, AgedOwes DEF Wait
<1>8. WindowInv'
  BY <1>1, KeyInRange DEF WindowInv, Wait
<1>9. StopInv'
  <2>1. Down' = Down
    BY <1>1, <1>2, AgedKey DEF Down
  <2>2. fresh' = fresh
    BY DEF Wait
  <2> QED BY <1>4, <2>1, <2>2 DEF StopInv, IInv
<1> QED BY <1>6, <1>7, <1>8, <1>9 DEF IInv

LEMMA ScanStep ==
  ASSUME IInv, Scan
  PROVE  IInv' /\ GestureAnswersPresses
<1> DEFINE k == cursor
<1>1. ScanInv /\ k \in Key /\ ScanKey(k)
  BY DEF IInv, ScanInv, TypeOK, Scan
<1>2. /\ keys' \in [Key -> KeyState] /\ presses' \in [Key -> 0 .. 2]
      /\ queue' \in Seq(Event) /\ Len(queue') <= QUEUE_SIZE
      /\ recordRequest' \in Request
      /\ PressInv' /\ GestureAnswersPresses
      /\ \A j \in Key \ {k} : keys'[j] = keys[j]
      /\ keys'[k].phase = "pending" => keys'[k].releasedAge < DOUBLE_TAP
      /\ keys'[k].stable /\ ~keys[k].stable => PressEdge(k)
  <2>1. CASE PressEdge(k)
    <3>1. queue' = queue /\ recordRequest' = recordRequest
      BY <2>1 DEF PressEdge
    <3>2. GestureAnswersPresses
      BY <3>1, <1>1, AppendTells DEF GestureAnswersPresses, ScanInv, TypeOK
    <3> QED BY <1>1, <2>1, <3>1, <3>2, PressEdgeStep DEF ScanInv, TypeOK
  <2>2. CASE ReleaseEdge(k)
    <3>1. recordRequest' = recordRequest
      BY <2>2 DEF ReleaseEdge
    <3> QED BY <1>1, <2>2, <3>1, ReleaseEdgeStep, ThresholdAssumption
            DEF ScanInv, TypeOK
  <2>3. ASSUME NEW level \in BOOLEAN, Dwell(k, level)
        PROVE  <1>2
    BY <1>1, <2>3, DwellStep
  <2> QED BY <1>1, <2>1, <2>2, <2>3 DEF ScanKey
<1>3. cursor' \in Key
  BY <1>1, KeyInRange, ThresholdAssumption DEF Scan
<1>4. TypeOK'
  BY <1>1, <1>2, <1>3 DEF Scan, ScanKey, IInv, TypeOK
<1>5. WindowInv'
  <2> SUFFICES ASSUME NEW j \in Key, keys'[j].phase = "pending",
                      pc' = "scan" => j < cursor'
               PROVE  keys'[j].releasedAge < DOUBLE_TAP
    BY DEF WindowInv
  <2>1. j <= k
    <3>1. /\ j \in Int /\ k \in Int /\ j < KEY_COUNT
          /\ KEY_COUNT \in Int
      BY <1>1, KeyInRange, ThresholdAssumption
    <3>2. k + 1 < KEY_COUNT => cursor' = k + 1 /\ pc' = "scan"
      BY DEF Scan
    <3> QED BY <3>1, <3>2
  <2>2. CASE j = k
    BY <1>2, <2>2
  <2>3. CASE j # k
    <3>1. j < k /\ keys'[j] = keys[j]
      BY <1>1, <1>2, <2>1, <2>3, KeyInRange
    <3> QED BY <3>1 DEF WindowInv, IInv
  <2> QED BY <2>2, <2>3
<1>6. StopInv'
  <2>1. macro' = macro /\ (fresh => fresh')
    BY DEF Scan, IInv, TypeOK
  <2>2. macro.armed /\ ~fresh' => Down' \subseteq Down
    BY <1>1, <1>2 DEF Scan, Down
  <2> QED BY <2>1, <2>2 DEF StopInv, IInv
<1> QED BY <1>2, <1>4, <1>5, <1>6 DEF IInv

(* Any step but a scan appends nothing to the queue.                         *)
LEMMA NoGesture ==
  ASSUME TypeOK, queue' = queue \/ (queue # <<>> /\ queue' = Tail(queue))
  PROVE  GestureAnswersPresses
  BY AppendTells DEF GestureAnswersPresses, TypeOK

(* Claiming a set of keys outside the scan.                                  *)
LEMMA ClaimStep ==
  ASSUME IInv, NEW mask \in SUBSET Key, pc # "scan",
         keys' = Suppressed(mask), presses' = Claimed(mask)
  PROVE  /\ keys' \in [Key -> KeyState] /\ presses' \in [Key -> 0 .. 2]
         /\ PressInv' /\ WindowInv' /\ Down' = Down
<1>1. /\ keys' \in [Key -> KeyState] /\ presses' \in [Key -> 0 .. 2]
      /\ \A k \in Key : /\ KeyOwes(keys'[k], presses'[k])
                        /\ keys'[k].stable = keys[k].stable
                        /\ keys'[k].phase = "pending" => keys'[k] = keys[k]
  BY Claiming DEF IInv, TypeOK
<1>2. WindowInv'
  BY <1>1 DEF WindowInv, IInv
<1> QED BY <1>1, <1>2 DEF PressInv, Down

LEMMA TakeRecordRequestStep ==
  ASSUME IInv, TakeRecordRequest
  PROVE  IInv' /\ GestureAnswersPresses
<1>1. \E mask \in SUBSET Key : keys' = Suppressed(mask) /\ presses' = Claimed(mask)
  BY DEF TakeRecordRequest
<1>2. /\ keys' \in [Key -> KeyState] /\ presses' \in [Key -> 0 .. 2]
      /\ PressInv' /\ WindowInv' /\ Down' = Down
  BY <1>1, ClaimStep DEF TakeRecordRequest
<1>3. recordRequest' \in Request
  BY DEF TakeRecordRequest, IInv, TypeOK, Request
<1>4. TypeOK'
  BY <1>2, <1>3 DEF TakeRecordRequest, IInv, TypeOK
<1>5. StopInv'
  BY <1>2 DEF TakeRecordRequest, IInv, StopInv
<1>6. GestureAnswersPresses
  BY NoGesture DEF TakeRecordRequest, IInv
<1> QED BY <1>2, <1>4, <1>5, <1>6 DEF IInv

LEMMA HandleEventStep ==
  ASSUME IInv, HandleEvent
  PROVE  IInv' /\ GestureAnswersPresses
<1>1. TypeOK'
  BY TailType DEF HandleEvent, engineVars, IInv, TypeOK
<1>2. PressInv' /\ WindowInv' /\ StopInv'
  BY DEF HandleEvent, engineVars, IInv, PressInv, WindowInv, StopInv, Down
<1>3. GestureAnswersPresses
  BY NoGesture DEF HandleEvent, IInv
<1> QED BY <1>1, <1>2, <1>3 DEF IInv

LEMMA StartMacroStep ==
  ASSUME IInv, StartMacro
  PROVE  IInv' /\ GestureAnswersPresses
<1>1. macro' \in Macro /\ ~macro'.aborted /\ macro'.startMask = Down
  <2>1. Down \in SUBSET Key /\ 0 \in 0 .. ARM
    BY EngineAssumption DEF Down
  <2>2. (BindingOf(Head(queue)) = "loop") \in BOOLEAN
    OBVIOUS
  <2> QED BY <2>1, <2>2 DEF StartMacro, Macro
<1>2. TypeOK'
  BY <1>1, TailType DEF StartMacro, IInv, TypeOK
<1>3. PressInv' /\ WindowInv'
  BY DEF StartMacro, IInv, PressInv, WindowInv
<1>4. StopInv'
  BY <1>1 DEF StartMacro, StopInv, Down
<1>5. GestureAnswersPresses
  BY NoGesture DEF StartMacro, IInv
<1> QED BY <1>2, <1>3, <1>4, <1>5 DEF IInv

LEMMA DrainedStep ==
  ASSUME IInv, Drained
  PROVE  IInv' /\ GestureAnswersPresses
<1>1. TypeOK'
  BY DEF Drained, DoubleBound, IInv, TypeOK
<1>2. PressInv' /\ WindowInv' /\ StopInv'
  BY DEF Drained, IInv, PressInv, WindowInv, StopInv, Down
<1>3. GestureAnswersPresses
  BY NoGesture DEF Drained, IInv
<1> QED BY <1>1, <1>2, <1>3 DEF IInv

LEMMA PumpStep ==
  ASSUME IInv, Pump
  PROVE  IInv' /\ GestureAnswersPresses
<1> DEFINE arms    == ~macro.armed /\ macro.age >= ARM
           mask    == StartMask(arms)
           pressed == Down \ mask
           stops   == (macro.armed \/ arms) /\ ~macro.aborted /\ pressed # {}
<1>1. /\ macro \in Macro /\ Down \in SUBSET Key
      /\ arms \in BOOLEAN /\ stops \in BOOLEAN
  BY DEF IInv, TypeOK, Down
<1>2. mask = IF arms THEN Down ELSE macro.startMask
  BY DEF StartMask
<1>3. mask \in SUBSET Key
  BY <1>1, <1>2 DEF Macro
<1>4. macro' = [macro EXCEPT !.armed = macro.armed \/ arms, !.startMask = mask,
                             !.aborted = macro.aborted \/ stops]
  BY DEF Pump
<1>5. stops => fresh
  <2>1. ASSUME stops, arms PROVE FALSE
    BY <1>2, <2>1
  <2>2. ASSUME stops, ~arms, ~fresh PROVE FALSE
    BY <1>2, <2>2 DEF IInv, StopInv
  <2> QED BY <2>1, <2>2
<1>6. \E m \in SUBSET Key : keys' = Suppressed(m) /\ presses' = Claimed(m)
  <2>1. (IF stops THEN pressed ELSE {}) \in SUBSET Key
    BY <1>1
  <2> QED BY <2>1 DEF Pump
<1>7. /\ keys' \in [Key -> KeyState] /\ presses' \in [Key -> 0 .. 2]
      /\ PressInv' /\ WindowInv' /\ Down' = Down
  BY <1>6, ClaimStep DEF Pump
<1> HIDE DEF arms, mask, stops
<1>8. /\ macro' \in Macro
      /\ macro'.armed = (macro.armed \/ arms)
      /\ macro'.startMask = mask
      /\ macro'.aborted = (macro.aborted \/ stops)
  BY <1>1, <1>3, <1>4 DEF Macro
<1>9. TypeOK'
  BY <1>7, <1>8 DEF Pump, IInv, TypeOK
<1>10. StopInv'
  <2>1. fresh' = fresh
    BY DEF Pump
  <2> QED BY <1>2, <1>5, <1>7, <1>8, <2>1 DEF IInv, StopInv
<1>11. GestureAnswersPresses
  BY NoGesture DEF Pump, IInv
<1> QED BY <1>7, <1>9, <1>10, <1>11 DEF IInv

LEMMA QuietStep ==
  ASSUME IInv, MacroEnds \/ ProfileWrite \/ SerialDone \/ UNCHANGED vars
  PROVE  IInv' /\ GestureAnswersPresses
<1>1. UNCHANGED inputVars /\ cursor' = cursor /\ (pc = "scan" <=> pc' = "scan")
  BY DEF MacroEnds, ProfileWrite, SerialDone, SerialTurn, vars, inputVars,
         engineVars
<1>2. macro' = NoMacro \/ (macro' = macro /\ fresh' = fresh)
  BY DEF MacroEnds, ProfileWrite, SerialDone, vars, engineVars
<1>3. NoMacro \in Macro
  BY EngineAssumption DEF NoMacro, Macro
<1>4. TypeOK'
  <2>1. /\ keys' = keys /\ queue' = queue /\ recordRequest' = recordRequest
        /\ doubleTapMask' = doubleTapMask /\ presses' = presses
    BY <1>1 DEF inputVars
  <2>2. /\ pc' \in {"wait", "scan", "engine", "drain", "serial",
                    "record", "pump", "ending"}
        /\ profile' \in PROFILES /\ maskReady' \in BOOLEAN
        /\ uptime' = uptime /\ hidEnabled' = hidEnabled /\ fresh' \in BOOLEAN
    BY DEF MacroEnds, ProfileWrite, NoteProfileChanged, SerialTurn, SerialDone,
           vars, engineVars, IInv, TypeOK
  <2> QED BY <1>1, <1>2, <1>3, <2>1, <2>2 DEF IInv, TypeOK
<1>5. PressInv' /\ WindowInv'
  BY <1>1 DEF inputVars, IInv, PressInv, WindowInv
<1>6. StopInv'
  <2>1. CASE macro' = NoMacro
    BY <2>1 DEF NoMacro, StopInv
  <2>2. CASE macro' = macro /\ fresh' = fresh
    BY <1>1, <2>2 DEF inputVars, IInv, StopInv, Down
  <2> QED BY <1>2, <2>1, <2>2
<1>7. GestureAnswersPresses
  BY <1>1, NoGesture DEF inputVars, IInv
<1> QED BY <1>4, <1>5, <1>6, <1>7 DEF IInv

LEMMA NextInv ==
  ASSUME IInv, [Next]_vars
  PROVE  IInv' /\ GestureAnswersPresses
<1>1. ASSUME NEW d \in STEPS, Wait(d)
      PROVE  IInv' /\ GestureAnswersPresses
  <2>1. GestureAnswersPresses
    BY <1>1, NoGesture DEF Wait, IInv
  <2> QED BY <1>1, <2>1, WaitStep
<1>2. CASE Scan
  BY <1>2, ScanStep
<1>3. CASE TakeRecordRequest
  BY <1>3, TakeRecordRequestStep
<1>4. CASE HandleEvent
  BY <1>4, HandleEventStep
<1>5. CASE StartMacro
  BY <1>5, StartMacroStep
<1>6. CASE Drained
  BY <1>6, DrainedStep
<1>7. CASE Pump
  BY <1>7, PumpStep
<1>8. CASE MacroEnds \/ ProfileWrite \/ SerialDone \/ UNCHANGED vars
  BY <1>8, QuietStep
<1> QED BY <1>1, <1>2, <1>3, <1>4, <1>5, <1>6, <1>7, <1>8 DEF Next

(* The invariant holds from boot on, through every step.                     *)
THEOREM Invariance == Spec => []IInv
<1>1. Init => IInv
  BY InitInv
<1>2. IInv /\ [Next]_vars => IInv'
  BY NextInv
<1> QED BY <1>1, <1>2, PTL DEF Spec

---------------------------------------------------------------------------
(* What follows                                                              *)

(* Every state of the pad is well formed; above all, no key collects more    *)
(* than two unanswered presses and the gesture queue never outgrows its      *)
(* array (ButtonInput::push, onPressEdge).                                   *)
THEOREM TypeCorrect == Spec => []TypeOK
<1>1. IInv => TypeOK
  BY DEF IInv
<1> QED BY <1>1, Invariance, PTL

(* No press fires two bindings, and one that was claimed by the engine fires *)
(* none, whatever the thresholds, the bounce of the contacts, the length of  *)
(* the queue and the moment of the claim.                                    *)
THEOREM AnswersPresses == Spec => GesturesAnswerPresses
<1>1. IInv /\ [Next]_vars => [GestureAnswersPresses]_vars
  BY NextInv
<1> QED BY <1>1, Invariance, PTL DEF Spec, GesturesAnswerPresses

(* A macro is never stopped by a key that was down before it was armed.      *)
THEOREM StopsFresh == Spec => []StopNeedsFreshPress
<1>1. IInv => StopNeedsFreshPress
  BY DEF IInv, StopInv, StopNeedsFreshPress
<1> QED BY <1>1, Invariance, PTL

(* A deferred tap outlives the double-tap window by at most one scan.        *)
THEOREM DeferredTapSettles == Spec => []DeferredTapSettlesInTime
<1>1. IInv => DeferredTapSettlesInTime
  BY DEF IInv, WindowInv, DeferredTapSettlesInTime
<1> QED BY <1>1, Invariance, PTL

(* The cached double-tap mask is never out of date unnoticed.                *)
THEOREM CachedMask == Spec => []CachedMaskIsCurrent
<1>1. Init => CachedMaskIsCurrent
  BY DEF Init, CachedMaskIsCurrent
<1>2. CachedMaskIsCurrent /\ [Next]_vars => CachedMaskIsCurrent'
  <2> SUFFICES ASSUME CachedMaskIsCurrent, [Next]_vars
               PROVE  CachedMaskIsCurrent'
    OBVIOUS
  <2>1. CASE Drained
    BY <2>1 DEF Drained, CachedMaskIsCurrent, DoubleBound
  <2>2. CASE ProfileWrite
    BY <2>2 DEF ProfileWrite, NoteProfileChanged, CachedMaskIsCurrent
  <2>3. CASE ~Drained /\ ~ProfileWrite
    <3>1. UNCHANGED <<profile, maskReady, doubleTapMask>>
      BY <2>3 DEF Next, Wait, Scan, ScanKey, TakeRecordRequest, HandleEvent,
                  StartMacro, Pump, MacroEnds, SerialDone, vars, inputVars,
                  engineVars
    <3> QED BY <3>1 DEF CachedMaskIsCurrent, DoubleBound
  <2> QED BY <2>1, <2>2, <2>3
<1> QED BY <1>1, <1>2, PTL DEF Spec
=============================================================================
