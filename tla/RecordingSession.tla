-------------------------- MODULE RecordingSession --------------------------
(***************************************************************************)
(* Recording a macro on the host: the session (macrokey/session.py), the   *)
(* record requests and the life of the link as the app handles them        *)
(* (macrokey/app.py), and starting and stopping the capture backend        *)
(* (macrokey/recorder/recorder.py).  Four kinds of thread share this state *)
(* without a lock: the record worker, the only one to start and finish a   *)
(* recording; a watchdog per recording; the serial reader, which reports   *)
(* a lost link; and the window.                                            *)
(*                                                                         *)
(* Every thread can abort.  An abort, and the stop it makes, are a few     *)
(* steps each, the same ones whichever thread runs them: `after` is where  *)
(* it goes on once capture is stopped, `back` once the abort returns.      *)
(***************************************************************************)
EXTENDS Integers, Sequences, FiniteSets

CONSTANTS
  SLOTS,       \* what the pad may ask to record: pairs of a key and a gesture
  MAX_STARTS,  \* bound: recordings started
  MAX_QUEUE,   \* bound: record requests of the pad in the queue
  NoKey,
  NoSlot

ASSUME SessionAssumption ==
  /\ MAX_STARTS \in Nat
  /\ MAX_QUEUE \in Nat
  /\ SLOTS # {}
  /\ \A slot \in SLOTS : slot = <<slot[1], slot[2]>> /\ slot[1] # NoKey
  /\ NoSlot \notin SLOTS

KeyOf(slot) == slot[1]
GestureOf(slot) == slot[2]
Keys == {KeyOf(slot) : slot \in SLOTS}
Gestures == {GestureOf(slot) : slot \in SLOTS}

Number == 1 .. MAX_STARTS   \* recordings, in the order they were started

Worker == <<"worker", 0>>
Window == <<"window", 0>>
Reader == <<"reader", 0>>
Watchdog(n) == <<"watchdog", n>>
Watchdogs == {Watchdog(n) : n \in Number}
Thread == {Worker, Window, Reader} \cup Watchdogs

\* A record request, and what stands in for one the worker is done with.
Request == [slot : Keys \X Gestures, finishOnly : BOOLEAN]
NoRequest == [slot |-> NoSlot, finishOnly |-> FALSE]

VARIABLES
  link,         \* device.connected
  closed,       \* the app is closing
  queue,        \* record requests waiting for the worker
  activeKey,    \* the key being recorded
  activeGesture,
  overdue,      \* the recording has run for MAX_RECORDING_SECONDS
  watchStop,    \* the recording whose watchdog self._watch_stop ends
  stopped,      \* the watchdogs whose event is set
  recording,    \* recorder.recording
  evdev,        \* recorder._evdev: the recording it was opened for, or 0
  running,      \* the backends whose thread is reading every input device
  sealed,       \* no event is appended any more
  tape,         \* the recording the captured events are of
  pc, after, back,  \* of each thread
  request,      \* the request the worker has yet to act on
  held,         \* the key the worker is finishing
  stored,       \* the slot it has stored the recording in and is pushing
  tapeFor,      \* history: the slot the captured events were started for
  crossed       \* history: a stop overlapped the start of another recording

linkVars == <<link, closed, queue>>
sessionVars == <<activeKey, activeGesture, overdue, watchStop, stopped>>
recorderVars == <<recording, evdev, running, sealed, tape>>
flowVars == <<pc, after, back>>
workVars == <<request, held, stored, tapeFor>>
vars == <<linkVars, sessionVars, recorderVars, flowVars, workVars, crossed>>

Init ==
  /\ link = TRUE
  /\ closed = FALSE
  /\ queue = <<>>
  /\ activeKey = NoKey
  /\ activeGesture \in Gestures
  /\ overdue = FALSE
  /\ watchStop = 0
  /\ stopped = {}
  /\ recording = FALSE
  /\ evdev = 0
  /\ running = {}
  /\ sealed = FALSE
  /\ tape = 0
  /\ pc = [t \in Thread |-> "idle"]
  /\ after = [t \in Thread |-> "idle"]
  /\ back = [t \in Thread |-> "idle"]
  /\ request = NoRequest
  /\ held = NoKey
  /\ stored = NoSlot
  /\ tapeFor = NoSlot
  /\ crossed = FALSE

---------------------------------------------------------------------------
(* Moving a thread *)

Go(t, label) == pc' = [pc EXCEPT ![t] = label] /\ UNCHANGED <<after, back>>

\* Capture is stopped: go on with what the stop was made for.
AfterStop(t) ==
  /\ pc' = [pc EXCEPT ![t] = after[t]]
  /\ after' = [after EXCEPT ![t] = "idle"]
  /\ UNCHANGED back

\* Call abort(), and go on at `label` when it returns: at once if no key is being
\* recorded. The callers that look first see what abort() would see.
CallAbort(t, label) ==
  IF activeKey = NoKey
  THEN Go(t, label)
  ELSE /\ pc' = [pc EXCEPT ![t] = "drop"]
       /\ after' = [after EXCEPT ![t] = "release"]
       /\ back' = [back EXCEPT ![t] = label]

\* The abort returns.
Return(t) ==
  /\ pc' = [pc EXCEPT ![t] = back[t]]
  /\ back' = [back EXCEPT ![t] = "idle"]
  /\ UNCHANGED after

\* Talk to the pad, and go on at `label`. A refusal or a timeout is swallowed.
\* A write that fails drops the link and reports it on this very thread.
Send(t, label) ==
  \/ Go(t, label) /\ UNCHANGED link
  \/ link /\ link' = FALSE /\ CallAbort(t, label)

---------------------------------------------------------------------------
(* RecordingSession.abort, and recorder.stop *)

\* Threads that will stop capture, or are stopping it.
Stopping(t) == pc[t] \in {"drop", "seal", "join", "forget"}

\* Give up the key and end the watchdog; _finish does the same.
Drop(t) ==
  /\ pc[t] = "drop"
  /\ activeKey' = NoKey
  /\ overdue' = FALSE
  /\ stopped' = stopped \cup ({watchStop} \cap Number)
  /\ Go(t, "seal")
  /\ UNCHANGED <<linkVars, activeGesture, watchStop, recorderVars, workVars, crossed>>

\* recorder.stop: note when, so that nothing later is appended.
Seal(t) ==
  /\ pc[t] = "seal"
  /\ recording' = FALSE
  /\ sealed' = TRUE
  /\ Go(t, "join")
  /\ UNCHANGED <<linkVars, sessionVars, evdev, running, tape, workVars, crossed>>

\* Stop the backend that is there at this moment and wait for its thread.
Join(t) ==
  /\ pc[t] = "join"
  /\ running' = running \ {evdev}
  /\ IF evdev = 0
     THEN AfterStop(t) /\ sealed' = TRUE
     ELSE Go(t, "forget") /\ UNCHANGED sealed
  /\ UNCHANGED <<linkVars, sessionVars, recording, evdev, tape, workVars, crossed>>

Forget(t) ==
  /\ pc[t] = "forget"
  /\ evdev' = 0
  /\ sealed' = TRUE
  /\ AfterStop(t)
  /\ UNCHANGED <<linkVars, sessionVars, recording, running, tape,
                 workVars, crossed>>

\* Hand the pixel back, and return.
Release(t) ==
  /\ pc[t] = "release"
  /\ \/ Return(t) /\ UNCHANGED link
     \/ /\ link
        /\ link' = FALSE
        /\ IF activeKey = NoKey THEN Return(t) ELSE CallAbort(t, back[t])
  /\ UNCHANGED <<closed, queue, sessionVars, recorderVars, workVars, crossed>>

Abort(t) ==
  \/ Drop(t) \/ Seal(t) \/ Join(t) \/ Forget(t) \/ Release(t)

---------------------------------------------------------------------------
(* The record worker *)

\* A finish the watchdog asked for is stale unless its key is being recorded.
StaleIfRecorded(r) == r.finishOnly /\ activeKey = KeyOf(r.slot)   \* mutant
Stale(r) == r.finishOnly /\ activeKey # KeyOf(r.slot)

Take ==
  /\ pc[Worker] = "idle"
  /\ queue # <<>>
  /\ queue' = Tail(queue)
  /\ IF closed \/ Stale(Head(queue))
     THEN Go(Worker, "idle") /\ UNCHANGED request
     ELSE Go(Worker, "handle") /\ request' = Head(queue)
  /\ UNCHANGED <<link, closed, sessionVars, recorderVars, held, stored, tapeFor,
                 crossed>>

\* handle_request: finish, or refuse a key that is not the one being recorded.
Handle ==
  /\ pc[Worker] = "handle"
  /\ activeKey # NoKey
  /\ Go(Worker, IF activeKey = KeyOf(request.slot) THEN "finish" ELSE "flash")
  /\ request' = NoRequest
  /\ UNCHANGED <<linkVars, sessionVars, recorderVars, held, stored, tapeFor, crossed>>

\* Otherwise _start, as far as the link is looked at: no keypad, no recording.
Start ==
  /\ pc[Worker] = "handle"
  /\ activeKey = NoKey
  /\ IF link THEN Go(Worker, "open") /\ UNCHANGED request
             ELSE Go(Worker, "idle") /\ request' = NoRequest
  /\ UNCHANGED <<linkVars, sessionVars, recorderVars, held, stored, tapeFor, crossed>>

\* recorder.start, refused while another recording is open.
OpenRefused ==
  /\ pc[Worker] = "open"
  /\ recording
  /\ request' = NoRequest
  /\ Go(Worker, "flash")
  /\ UNCHANGED <<linkVars, sessionVars, recorderVars, held, stored, tapeFor, crossed>>

Open ==
  /\ pc[Worker] = "open"
  /\ ~recording
  /\ tape < MAX_STARTS
  /\ tape' = tape + 1
  /\ evdev' = tape + 1
  /\ recording' = TRUE
  /\ sealed' = FALSE
  /\ tapeFor' = request.slot
  /\ crossed' = (crossed \/ \E t \in Thread : Stopping(t))
  /\ Go(Worker, "launch")
  /\ UNCHANGED <<linkVars, sessionVars, running, request, held, stored>>

\* The backend's own start: its thread reads from here on.
Launch ==
  /\ pc[Worker] = "launch"
  /\ evdev # 0
  /\ running' = running \cup {evdev}
  /\ Go(Worker, "claim")
  /\ UNCHANGED <<linkVars, sessionVars, recording, evdev, sealed, tape,
                 workVars, crossed>>

\* Mutant: the recorder still says it is recording.
LaunchFailsOpen ==
  /\ pc[Worker] = "launch"
  /\ evdev' = 0
  /\ request' = NoRequest
  /\ Go(Worker, "flash")
  /\ UNCHANGED <<linkVars, sessionVars, recording, running, sealed, tape, held,
                 stored, tapeFor, crossed>>

\* It raised, or a stop took the backend away first.
LaunchFails ==
  /\ pc[Worker] = "launch"
  /\ recording' = FALSE
  /\ evdev' = 0
  /\ request' = NoRequest
  /\ Go(Worker, "flash")
  /\ UNCHANGED <<linkVars, sessionVars, running, sealed, tape, held, stored,
                 tapeFor, crossed>>

Claim ==
  /\ pc[Worker] = "claim"
  /\ activeKey' = KeyOf(request.slot)
  /\ activeGesture' = GestureOf(request.slot)
  /\ overdue' = FALSE
  /\ request' = NoRequest
  /\ Go(Worker, "recheck")
  /\ UNCHANGED <<linkVars, watchStop, stopped, recorderVars, held, stored,
                 tapeFor, crossed>>

\* The link may have gone while capture was being opened.
Recheck ==
  /\ pc[Worker] = "recheck"
  /\ IF link THEN Go(Worker, "show") ELSE CallAbort(Worker, "idle")
  /\ UNCHANGED <<linkVars, sessionVars, recorderVars, workVars, crossed>>

Show ==
  /\ pc[Worker] = "show"
  /\ Send(Worker, "arm")
  /\ UNCHANGED <<closed, queue, sessionVars, recorderVars, workVars, crossed>>

\* An abort may have come while the pad was written to.
Arm ==
  /\ pc[Worker] = "arm"
  /\ Go(Worker, IF activeKey = NoKey THEN "idle" ELSE "guard")
  /\ UNCHANGED <<linkVars, sessionVars, recorderVars, workVars, crossed>>

\* Mutant: the previous watchdog is left to its event.
GuardKeepsPrevious ==
  /\ pc[Worker] = "guard"
  /\ watchStop' = tape
  /\ pc' = [pc EXCEPT ![Worker] = "idle", ![Watchdog(tape)] = "wait"]
  /\ UNCHANGED <<linkVars, activeKey, activeGesture, overdue, stopped, after, back,
                 recorderVars, workVars, crossed>>

\* _start_watchdog: end the previous one and start one with an event of its own.
Guard ==
  /\ pc[Worker] = "guard"
  /\ stopped' = stopped \cup ({watchStop} \cap Number)
  /\ watchStop' = tape
  /\ pc' = [pc EXCEPT ![Worker] = "idle", ![Watchdog(tape)] = "wait"]
  /\ UNCHANGED <<linkVars, activeKey, activeGesture, overdue, after, back,
                 recorderVars, workVars, crossed>>

\* _finish: an abort that came first leaves nothing to finish.
Finish ==
  /\ pc[Worker] = "finish"
  /\ IF activeKey = NoKey
     THEN Go(Worker, "idle") /\ UNCHANGED held
     ELSE /\ held' = activeKey
          /\ pc' = [pc EXCEPT ![Worker] = "drop"]
          /\ after' = [after EXCEPT ![Worker] = "keep"]
          /\ UNCHANGED back
  /\ UNCHANGED <<linkVars, sessionVars, recorderVars, request, stored, tapeFor,
                 crossed>>

\* Store what was captured, if anything was and the profile has room for it.
Keep ==
  /\ pc[Worker] = "keep"
  /\ stored' \in {NoSlot, <<held, activeGesture>>}
  /\ held' = NoKey
  /\ Go(Worker, "flash")
  /\ UNCHANGED <<linkVars, sessionVars, recorderVars, request, tapeFor, crossed>>

\* Push the profile or say what went wrong: either way the pad is written to.
Flash ==
  /\ pc[Worker] = "flash"
  /\ stored' = NoSlot
  /\ Send(Worker, "idle")
  /\ UNCHANGED <<closed, queue, sessionVars, recorderVars, request, held, tapeFor,
                 crossed>>

Work ==
  \/ Take \/ Handle \/ Start \/ OpenRefused \/ Open \/ Launch \/ LaunchFails
  \/ Claim \/ Recheck \/ Show \/ Arm \/ Guard \/ Finish \/ Keep \/ Flash
  \/ Abort(Worker)

---------------------------------------------------------------------------
(* The watchdog of a recording *)

Wakes(n) ==
  /\ pc[Watchdog(n)] = "wait"
  /\ Go(Watchdog(n), IF n \in stopped THEN "gone" ELSE "look")
  /\ UNCHANGED <<linkVars, sessionVars, recorderVars, workVars, crossed>>

\* A request is put in the queue, unless the app is closing.
Enqueue(r) == queue' = IF closed THEN queue ELSE Append(queue, r)

\* Mutant: the link is not looked at.
LooksAtAge(n) ==
  /\ pc[Watchdog(n)] = "look"
  /\ \/ /\ activeKey = NoKey
        /\ Go(Watchdog(n), "gone")
        /\ UNCHANGED <<link, queue>>
     \/ /\ activeKey # NoKey /\ ~overdue
        /\ Send(Watchdog(n), "wait")
        /\ UNCHANGED queue
  /\ UNCHANGED <<closed, sessionVars, recorderVars, workVars, crossed>>

\* End what nothing else can end: abort if the keypad is gone, ask the worker to
\* finish if it has run too long. Otherwise keep the pixel lit.
Looks(n) ==
  /\ pc[Watchdog(n)] = "look"
  /\ \/ /\ activeKey = NoKey
        /\ Go(Watchdog(n), "gone")
        /\ UNCHANGED <<link, queue>>
     \/ /\ activeKey # NoKey /\ ~link
        /\ CallAbort(Watchdog(n), "gone")
        /\ UNCHANGED <<link, queue>>
     \/ /\ activeKey # NoKey /\ link /\ overdue
        /\ Enqueue([slot |-> <<activeKey, activeGesture>>, finishOnly |-> TRUE])
        /\ Go(Watchdog(n), "gone")
        /\ UNCHANGED link
     \/ /\ activeKey # NoKey /\ link /\ ~overdue
        /\ Send(Watchdog(n), "wait")
        /\ UNCHANGED queue
  /\ UNCHANGED <<closed, sessionVars, recorderVars, workVars, crossed>>

Watch(n) ==
  Wakes(n) \/ Looks(n) \/ Abort(Watchdog(n))

---------------------------------------------------------------------------
(* The serial reader *)

\* The link is lost: _drop_link, then _on_device_disconnect on this thread.
LinkLost ==
  /\ pc[Reader] = "idle"
  /\ link
  /\ link' = FALSE
  /\ CallAbort(Reader, "idle")
  /\ UNCHANGED <<closed, queue, sessionVars, recorderVars, workVars, crossed>>

\* A key held alone on the pad.
Held ==
  /\ link
  /\ Len(queue) < MAX_QUEUE
  /\ \E slot \in SLOTS : Enqueue([slot |-> slot, finishOnly |-> FALSE])
  /\ UNCHANGED <<link, closed, sessionVars, recorderVars, flowVars, workVars,
                 crossed>>

---------------------------------------------------------------------------
(* The window *)

Cancel ==
  /\ pc[Window] = "idle"
  /\ CallAbort(Window, "idle")
  /\ UNCHANGED <<linkVars, sessionVars, recorderVars, workVars, crossed>>

\* App.disconnect: abort, then close the port. The reader is not told.
Disconnect ==
  /\ pc[Window] = "idle"
  /\ CallAbort(Window, "unplug")
  /\ UNCHANGED <<linkVars, sessionVars, recorderVars, workVars, crossed>>

Unplug ==
  /\ pc[Window] = "unplug"
  /\ link' = FALSE
  /\ Go(Window, IF closed THEN "gone" ELSE "idle")
  /\ UNCHANGED <<closed, queue, sessionVars, recorderVars, workVars, crossed>>

Reconnect ==
  /\ ~link
  /\ ~closed
  /\ link' = TRUE
  /\ UNCHANGED <<closed, queue, sessionVars, recorderVars, flowVars, workVars,
                 crossed>>

\* App.close: end the recording, or capture that has no recording yet, and
\* disconnect.
Close ==
  /\ pc[Window] = "idle"
  /\ closed' = TRUE
  /\ Go(Window, "closing")
  /\ UNCHANGED <<link, queue, sessionVars, recorderVars, workVars, crossed>>

Closing ==
  /\ pc[Window] = "closing"
  /\ IF activeKey = NoKey /\ recording
     THEN /\ pc' = [pc EXCEPT ![Window] = "seal"]
          /\ after' = [after EXCEPT ![Window] = "closed"]
          /\ crossed' = TRUE
          /\ UNCHANGED back
     ELSE /\ IF activeKey = NoKey THEN Go(Window, "closed")
                                  ELSE CallAbort(Window, "closed")
          /\ UNCHANGED crossed
  /\ UNCHANGED <<linkVars, sessionVars, recorderVars, workVars>>

Closed ==
  /\ pc[Window] = "closed"
  /\ CallAbort(Window, "unplug")
  /\ UNCHANGED <<linkVars, sessionVars, recorderVars, workVars, crossed>>

UseWindow == Cancel \/ Disconnect \/ Close
ServeWindow == Unplug \/ Closing \/ Closed \/ Abort(Window)

---------------------------------------------------------------------------
\* The recording has run for too long: ten minutes, while the window is doing
\* nothing that takes a moment.
Overruns ==
  /\ pc[Window] = "idle"
  /\ activeKey # NoKey
  /\ ~overdue
  /\ overdue' = TRUE
  /\ UNCHANGED <<linkVars, activeKey, activeGesture, watchStop, stopped,
                 recorderVars, flowVars, workVars, crossed>>

Next ==
  \/ Work
  \/ \E n \in Number : Watch(n)
  \/ LinkLost \/ Abort(Reader) \/ Held
  \/ UseWindow \/ ServeWindow \/ Reconnect
  \/ Overruns

\* Every thread is scheduled, the watchdog's wait times out, and a wait for the
\* pad's answer ends. Nothing makes anyone press, click or pull a cable.
Fairness ==
  /\ WF_vars(Work)
  /\ \A n \in Number : WF_vars(Watch(n))
  /\ WF_vars(Abort(Reader))
  /\ WF_vars(ServeWindow)

Spec == Init /\ [][Next]_vars /\ Fairness

---------------------------------------------------------------------------
(* Properties *)

Label == {"idle", "gone", "drop", "seal", "join", "forget", "release",
          "handle", "open", "launch", "claim", "recheck", "show", "arm", "guard",
          "finish", "keep", "flash", "wait", "look", "unplug", "closing", "closed"}

TypeOK ==
  /\ link \in BOOLEAN
  /\ closed \in BOOLEAN
  /\ queue \in Seq(Request)
  /\ activeKey \in Keys \cup {NoKey}
  /\ activeGesture \in Gestures
  /\ overdue \in BOOLEAN
  /\ watchStop \in Number \cup {0}
  /\ stopped \subseteq Number
  /\ recording \in BOOLEAN
  /\ evdev \in Number \cup {0}
  /\ running \subseteq Number
  /\ sealed \in BOOLEAN
  /\ tape \in Number \cup {0}
  /\ pc \in [Thread -> Label]
  /\ after \in [Thread -> Label]
  /\ back \in [Thread -> Label]
  /\ request \in Request \cup {NoRequest}
  /\ held \in Keys \cup {NoKey}
  /\ stored \in (Keys \X Gestures) \cup {NoSlot}
  /\ tapeFor \in (Keys \X Gestures) \cup {NoSlot}
  /\ crossed \in BOOLEAN

\* No thread is in the middle of starting or stopping.
Settled ==
  /\ pc[Worker] \in {"idle", "handle", "flash"}
  /\ \A t \in Thread : ~Stopping(t)

\* A recording is stored in the slot it was started for: the gesture that ends
\* it does not move it, nor does a key held meanwhile (handle_request, _finish).
StoredWhereStarted == stored # NoSlot => stored = tapeFor

\* Once things settle, capture is on exactly while a key is being recorded, its
\* events are kept, and a watchdog is there to end it, provided no stop
\* overlapped the start of another recording; and what is kept goes where it was
\* started for (_start, abort, _finish).
CaptureMatchesSession ==
  /\ StoredWhereStarted
  /\ Settled /\ ~crossed =>
       IF activeKey = NoKey
       THEN ~recording /\ running = {}
       ELSE /\ recording /\ ~sealed
            /\ running = {tape} /\ evdev = tape
            /\ watchStop = tape

\* However many aborts, finishes and restarts cross, at most one watchdog still
\* has its event clear (_start_watchdog: "Never clear and reuse the previous
\* Event").
OneWatchdog ==
  Cardinality({n \in Number : pc[Watchdog(n)] \in {"wait", "look"}
                                /\ n \notin stopped}) <= 1

\* A keypad that stays away ends the capture it can no longer end itself
\* (_on_device_disconnect, _watch).
LostLinkEndsCapture ==
  (~link /\ recording) ~> (link \/ ~recording \/ crossed)

\* A recording nobody ends is ended by its watchdog (_watch, request_record).
OverdueEndsCapture ==
  (overdue /\ recording) ~> (~overdue \/ ~recording \/ crossed)

\* "Stops global capture immediately when the only stop control vanishes"
\* (app.py:190): once the abort is over, nothing reads the input devices. Not kept when
\* the abort overlaps a start (README, known disagreements).
NoOrphanCapture ==
  (\A t \in Thread : pc[t] \in {"idle", "gone"}) /\ queue = <<>> /\ ~link /\ ~closed
    => running = {}
=============================================================================
