----------------------------- MODULE KeyEngine -----------------------------
(***************************************************************************)
(* The engine of the pad (firmware/src/KeyEngine.cpp) on top of the button *)
(* scanner, as loop() of firmware.ino drives them.  The firmware has one   *)
(* thread: pc says where it is.  A macro runs inside the draining of the   *)
(* gesture queue, and keeps the scanner going through macroPump().  What a *)
(* macro types is left to module MacroReplay: here it is a number of pumps *)
(* that ends sooner or later.                                              *)
(***************************************************************************)
EXTENDS ButtonInput, FiniteSets

CONSTANTS
  ARM,         \* MK_MACRO_ABORT_ARM_MS, in ticks
  BOOT_GRACE,  \* MK_BOOT_GRACE_MS
  STEPS,       \* bound: the ticks that may pass between two scans
  PROFILES     \* the profiles the host may store: what each gesture is bound to

Binding == {"none", "key", "macro", "loop"}

ASSUME EngineAssumption ==
  /\ ARM \in Nat
  /\ BOOT_GRACE \in Nat
  /\ STEPS \subseteq Nat
  /\ PROFILES # {}
  /\ PROFILES \subseteq [Key -> [{"tap", "double"} -> Binding]]

VARIABLES
  pc,         \* "wait" between two passes of loop(), "scan", "engine", "drain",
              \* "serial"; inside a macro "record" and "pump"
  cursor,     \* the key the scan is at
  profile,    \* the stored profile
  maskReady,  \* doubleTapMaskReady_
  uptime,     \* ticks since boot, no larger than BOOT_GRACE
  hidEnabled, \* the boot grace window has passed: gestures may act
  macro,      \* the macro on the stack
  fresh       \* history: a key was pressed since the running macro was armed

engineVars ==
  <<pc, cursor, profile, maskReady, uptime, hidEnabled, macro, fresh>>
vars == <<inputVars, engineVars>>

\* zero: macroDeadline_ is 0, though a macro is on the stack.
Macro == [ running : BOOLEAN, armed : BOOLEAN, aborted : BOOLEAN,
           startMask : SUBSET Key, age : 0 .. ARM, zero : BOOLEAN ]

NoMacro == [ running |-> FALSE, armed |-> FALSE, aborted |-> FALSE,
             startMask |-> {}, age |-> 0, zero |-> FALSE ]

\* refreshDoubleTapMask: the keys with a double binding.
DoubleBound(p) == {k \in Key : p[k]["double"] # "none"}

Init ==
  /\ InputInit
  /\ pc = "wait"
  /\ cursor = 0
  /\ profile \in PROFILES
  /\ doubleTapMask = DoubleBound(profile)
  /\ maskReady = TRUE
  /\ uptime = 0
  /\ hidEnabled = FALSE
  /\ macro = NoMacro
  /\ fresh = FALSE

---------------------------------------------------------------------------
(* Time and the scan *)

\* A macro's deadline is a moment on a clock that wraps: every pass sets it, every pause
\* moves it on, and it may come to read 0 (which moments do is module MacroReplay's).
MayReadZero == IF macro.running THEN BOOLEAN ELSE {FALSE}

\* Time passes before the next scan: two records of a macro may follow each
\* other within a tick, two passes of loop() are a scan interval apart.
Wait(d) ==
  /\ \/ pc = "wait" /\ d > 0
     \/ pc = "record"
  /\ Elapse(d)
  /\ uptime' = IF uptime + d > BOOT_GRACE THEN BOOT_GRACE ELSE uptime + d
  /\ \E zero \in MayReadZero :
       macro' = [macro EXCEPT !.zero = zero, !.age =
         IF ~macro.running THEN 0 ELSE IF @ + d > ARM THEN ARM ELSE @ + d]
  /\ pc' = "scan"
  /\ cursor' = 0
  /\ UNCHANGED <<queue, recordRequest, doubleTapMask, presses,
                 profile, maskReady, hidEnabled, fresh>>

\* update() of the scanner, a key at a time; after the last key comes the
\* engine's own update(), or the rest of macroPump() inside a macro.
Scan ==
  /\ pc = "scan"
  /\ ScanKey(cursor)
  /\ fresh' = \/ fresh
              \/ macro.armed /\ ~keys[cursor].stable /\ keys'[cursor].stable
  /\ IF cursor + 1 < KEY_COUNT
     THEN cursor' = cursor + 1 /\ UNCHANGED pc
     ELSE /\ cursor' = 0
          /\ pc' = IF macro.running THEN "pump" ELSE "engine"
  /\ UNCHANGED <<profile, maskReady, uptime, hidEnabled, macro>>

---------------------------------------------------------------------------
(* KeyEngine::update *)

\* Serve the record request first, so that its key is claimed before anything
\* it queued is handled.
TakeRecordRequest ==
  /\ pc = "engine"
  /\ LET mask == {recordRequest.key} \cap Key IN
     /\ keys' = Suppressed(mask)
     /\ presses' = Claimed(mask)
  /\ recordRequest' = [recordRequest EXCEPT !.key = NoKey]
  /\ hidEnabled' = (hidEnabled \/ uptime >= BOOT_GRACE)
  /\ pc' = "drain"
  /\ UNCHANGED <<queue, doubleTapMask, cursor, profile, maskReady, uptime,
                 macro, fresh>>

\* What a gesture starts. Holds are reported and no more.
BindingOf(e) ==
  IF e.gesture = "hold" \/ ~hidEnabled THEN "none"
  ELSE profile[e.key][e.gesture]

\* handleEvent for anything but a macro.
HandleEvent ==
  /\ pc = "drain"
  /\ queue # <<>>
  /\ BindingOf(Head(queue)) \in {"none", "key"}
  /\ queue' = Tail(queue)
  /\ UNCHANGED <<keys, recordRequest, doubleTapMask, presses, engineVars>>

\* runMacro up to its first record. A loop can be stopped from the start, a
\* single pass once it has run for ARM.
StartMacro ==
  /\ pc = "drain"
  /\ queue # <<>>
  /\ BindingOf(Head(queue)) \in {"macro", "loop"}
  /\ queue' = Tail(queue)
  /\ \E zero \in BOOLEAN :
       macro' = [ running |-> TRUE, armed |-> BindingOf(Head(queue)) = "loop",
                  aborted |-> FALSE, startMask |-> Down, age |-> 0, zero |-> zero ]
  /\ fresh' = FALSE
  /\ pc' = "record"
  /\ UNCHANGED <<keys, recordRequest, doubleTapMask, presses,
                 cursor, profile, maskReady, uptime, hidEnabled>>

\* The queue is empty: rebuild the cached mask if the profile changed.
Drained ==
  /\ pc = "drain"
  /\ queue = <<>>
  /\ doubleTapMask' = IF maskReady THEN doubleTapMask ELSE DoubleBound(profile)
  /\ maskReady' = TRUE
  /\ pc' = "serial"
  /\ UNCHANGED <<keys, queue, recordRequest, presses,
                 cursor, profile, uptime, hidEnabled, macro, fresh>>

---------------------------------------------------------------------------
(* Inside a macro *)

\* macroStartMask_, taken again at the moment of arming.
StartMaskFromEntry(arms) == macro.startMask   \* mutant
StartMask(arms) == IF arms THEN Down ELSE macro.startMask

\* The rest of macroPump(): arm the abort when it is due, and stop the macro on
\* a key that is down and was not when it was armed.
Pump ==
  /\ pc = "pump"
  /\ LET arms    == ~macro.armed /\ macro.age >= ARM
         mask    == StartMask(arms)
         pressed == Down \ mask
         stops   == (macro.armed \/ arms) /\ ~macro.aborted /\ pressed # {}
     IN /\ macro' = [macro EXCEPT !.armed = @ \/ arms, !.startMask = mask,
                                  !.aborted = @ \/ stops]
        /\ keys' = Suppressed(IF stops THEN pressed ELSE {})
        /\ presses' = Claimed(IF stops THEN pressed ELSE {})
  /\ pc' = IF macro.aborted THEN "ending" ELSE "record"
  /\ UNCHANGED <<queue, recordRequest, doubleTapMask,
                 cursor, profile, maskReady, uptime, hidEnabled, fresh>>

\* The records ran out, the run was stopped or its budget was spent. A stop
\* noticed inside a record sees one more pump, at the top of the next record.
MacroEnds ==
  /\ pc \in {"record", "ending"}
  /\ macro' = NoMacro
  /\ fresh' = FALSE
  /\ pc' = "drain"
  /\ UNCHANGED <<inputVars, cursor, profile, maskReady, uptime, hidEnabled>>

---------------------------------------------------------------------------
(* SerialProtocol, as far as it touches the engine *)

\* Serial is read once per pass of loop(), and by every pump of a macro.
SerialTurn == pc \in {"serial", "record"}

\* handleLine refuses every verb that writes while macroRunning() says that a macro is on
\* the stack. It says so by the deadline: one that reads 0 is taken for none.
MayWrite == ~macro.running \/ macro.zero

KeepsMask == UNCHANGED maskReady   \* mutant
NoteProfileChanged == maskReady' = FALSE

\* PROF commit or RESET defaults=1: the profile changes under the engine.
ProfileWrite ==
  /\ SerialTurn
  /\ MayWrite
  /\ profile' \in PROFILES
  /\ NoteProfileChanged
  /\ pc' = IF pc = "serial" THEN "wait" ELSE pc
  /\ UNCHANGED <<inputVars, cursor, uptime, hidEnabled, macro, fresh>>

SerialDone ==
  /\ pc = "serial"
  /\ pc' = "wait"
  /\ UNCHANGED <<inputVars, cursor, profile, maskReady, uptime, hidEnabled,
                 macro, fresh>>

---------------------------------------------------------------------------
Next ==
  \/ \E d \in STEPS : Wait(d)
  \/ Scan
  \/ TakeRecordRequest
  \/ HandleEvent
  \/ StartMacro
  \/ Drained
  \/ Pump
  \/ MacroEnds
  \/ ProfileWrite
  \/ SerialDone

Spec == Init /\ [][Next]_vars

---------------------------------------------------------------------------
(* Properties *)

TypeOK ==
  /\ keys \in [Key -> KeyState]
  /\ queue \in Seq(Event)
  /\ Len(queue) <= QUEUE_SIZE
  /\ recordRequest \in Request
  /\ doubleTapMask \subseteq Key
  /\ presses \in [Key -> 0 .. 2]
  /\ pc \in {"wait", "scan", "engine", "drain", "serial",
             "record", "pump", "ending"}
  /\ cursor \in Key
  /\ profile \in PROFILES
  /\ maskReady \in BOOLEAN
  /\ uptime \in 0 .. BOOT_GRACE
  /\ hidEnabled \in BOOLEAN
  /\ macro \in Macro
  /\ fresh \in BOOLEAN

\* Every gesture answers presses that nothing else answered and the engine did
\* not claim: a tap one press, a double two, a hold the press under way. So no
\* press fires two bindings, and a press that asked for a recording or stopped
\* a macro fires none (suppressUntilRelease, onPressEdge, onReleaseEdge).
GestureAnswersPresses ==
  \A e \in Event : queue' = Append(queue, e) =>
    CASE e.gesture = "tap"    -> presses[e.key] = 1
      [] e.gesture = "double" -> presses[e.key] = 2
      [] e.gesture = "hold"   -> presses[e.key] \in {1, 2}

GesturesAnswerPresses == [][GestureAnswersPresses]_vars

\* A macro is stopped only by a key pressed after it was armed: not by the press
\* that is still down from before, nor by one queued while it was unarmed
\* (macroPump, macroStartMask_).
StopNeedsFreshPress == macro.aborted => fresh

\* The one thing the engine caches about the profile is current whenever the
\* engine believes it is (noteProfileChanged, refreshDoubleTapMask).
CachedMaskIsCurrent == maskReady => doubleTapMask = DoubleBound(profile)

\* A tap held back for the double-tap window is held no longer than the window:
\* past the scan that follows its end it has fired, become a double or been
\* claimed, macro or no macro (update, macroPump).
DeferredTapSettlesInTime ==
  pc # "scan" =>
    \A k \in Key : keys[k].phase = "pending" => keys[k].releasedAge < DOUBLE_TAP

\* "Any pad key pressed since then stops the macro" (KeyEngine.cpp:164): past
\* the pump that follows a press, the macro is stopping. The code does not keep
\* this; nor does it what follows (README, known disagreements).
FreshPressStops == (pc = "record" /\ fresh) => macro.aborted

\* "Swallows every gesture from these keys until they are released"
\* (ButtonInput.h:30): a key that is up has nothing left to swallow.
SwallowsOnlyWhileDown == \A k \in Key : keys[k].suppressed => keys[k].stable
=============================================================================
