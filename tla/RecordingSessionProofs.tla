----------------------- MODULE RecordingSessionProofs -----------------------
(* What recording keeps for any keys and any number of recordings, however   *)
(* many threads abort at once: the runs let two of them end one.             *)
EXTENDS RecordingSession, FiniteSetTheorems, TLAPS

(* Where a thread goes on after a stop and after an abort.                   *)
FlowInv ==
  /\ after[Worker] \in {"idle", "release", "keep"}
  /\ back[Worker] \in {"idle", "arm"}
  /\ \A t \in Thread \ {Worker} :
       /\ pc[t] \in {"idle", "gone", "drop", "seal", "join", "forget", "release", "wait",
                     "look", "unplug", "closing", "closed"}
       /\ after[t] \in {"idle", "release", "closed"}
       /\ back[t] \in {"idle", "gone", "wait", "unplug", "closed"}

(* Only the worker starts a recording, so no key is recorded while it does,   *)
(* nor once it has given one up; and what it holds is what the tape is for.   *)
SlotInv ==
  /\ pc[Worker] \in {"open", "launch", "claim", "seal", "join", "forget", "release", "keep"}
       => activeKey = NoKey
  /\ pc[Worker] \in {"handle", "open", "launch", "claim"} => request \in Request
  /\ pc[Worker] \in {"launch", "claim"} => tapeFor = request.slot
  /\ activeKey # NoKey => tapeFor = <<activeKey, activeGesture>>
  /\ after[Worker] = "keep" => Stopping(Worker) /\ tapeFor = <<held, activeGesture>>
  /\ pc[Worker] = "keep" => tapeFor = <<held, activeGesture>>
  /\ stored # NoSlot => pc[Worker] = "flash" /\ stored = tapeFor

(* The watchdog of a recording starts once, when the worker is done starting; *)
(* of those started and not ended there is only that of watchStop.            *)
Starting == {"launch", "claim", "recheck", "show", "arm", "guard"}
DogInv ==
  /\ watchStop <= tape
  /\ pc[Worker] \in Starting => watchStop < tape
  /\ back[Worker] = "arm" => watchStop < tape
  /\ back[Worker] = "arm" =>
       pc[Worker] = "release" \/ (Stopping(Worker) /\ after[Worker] = "release")
  /\ \A n \in Number :
       pc[Watchdog(n)] # "idle" => n <= watchStop /\ (n \notin stopped => n = watchStop)

(* Until a stop overlaps a start: nobody stops capture while it is opened; it *)
(* is on until a thread gives the key up; and from then on someone is there   *)
(* to turn off what still runs.                                               *)
CaptureOn == recording /\ ~sealed /\ evdev = tape
Early == {"recheck", "show", "arm", "guard", "drop"}
Opening ==
  pc[Worker] \in {"launch", "claim"} =>
    /\ CaptureOn /\ \A t \in Thread : ~Stopping(t)
    /\ running = IF pc[Worker] = "launch" THEN {} ELSE {tape}
Recorded ==
  activeKey # NoKey =>
    /\ CaptureOn /\ running = {tape}
    /\ \A t \in Thread : pc[t] \notin {"seal", "join", "forget"}
    /\ pc[Worker] \notin Early => watchStop = tape
Ended ==
  activeKey = NoKey /\ pc[Worker] \notin {"launch", "claim"} =>
    /\ recording => \E t \in Thread : pc[t] \in {"drop", "seal"}
    /\ running # {} => /\ running = {tape} /\ evdev = tape
                       /\ \E t \in Thread : pc[t] \in {"drop", "seal", "join"}
                       /\ \A t \in Thread : pc[t] # "forget"
CaptureInv == ~crossed => Opening /\ Recorded /\ Ended

IInv == TypeOK /\ FlowInv /\ SlotInv /\ DogInv /\ CaptureInv
---------------------------------------------------------------------------
(* Threads and slots                                                         *)

LEMMA Threads ==
  /\ Worker \in Thread /\ Window \in Thread /\ Reader \in Thread
  /\ Worker # Window /\ Worker # Reader /\ Window # Reader
  /\ \A n \in Number : /\ Watchdog(n) \in Thread
                        /\ Watchdog(n) \notin {Worker, Window, Reader}
  /\ \A m, n \in Number : Watchdog(m) = Watchdog(n) => m = n
  BY DEF Thread, Watchdogs, Watchdog, Worker, Window, Reader

LEMMA Slots ==
  /\ \A slot \in SLOTS : slot \in Keys \X Gestures
  /\ NoKey \notin Keys
  /\ \A s \in Keys \X Gestures :
       KeyOf(s) \in Keys /\ GestureOf(s) \in Gestures /\ s = <<KeyOf(s), GestureOf(s)>>
  BY SessionAssumption DEF Keys, Gestures, KeyOf, GestureOf

(* One thread moves: where it is, and where it goes on.                      *)
Flows(t, p, a, b) ==
  /\ pc' \in [Thread -> Label] /\ after' \in [Thread -> Label] /\ back' \in [Thread -> Label]
  /\ pc'[t] = p /\ after'[t] = a /\ back'[t] = b
  /\ \A u \in Thread : u # t => pc'[u] = pc[u] /\ after'[u] = after[u] /\ back'[u] = back[u]

LEMMA GoFlows ==
  ASSUME TypeOK, NEW t \in Thread, NEW l \in Label, Go(t, l)
  PROVE  Flows(t, l, after[t], back[t])
  BY DEF TypeOK, Go, Flows

LEMMA AbortFlows ==
  ASSUME TypeOK, NEW t \in Thread, NEW l \in Label, CallAbort(t, l)
  PROVE  IF activeKey = NoKey THEN Flows(t, l, after[t], back[t])
         ELSE Flows(t, "drop", "release", l)
<1>1. CASE activeKey = NoKey
  BY <1>1, GoFlows DEF CallAbort
<1>2. CASE activeKey # NoKey
  <2>1. "drop" \in Label /\ "release" \in Label
    BY DEF Label
  <2> QED BY <1>2, <2>1 DEF CallAbort, TypeOK, Flows
<1> QED BY <1>1, <1>2

LEMMA SendFlows ==
  ASSUME TypeOK, NEW t \in Thread, NEW l \in Label, Send(t, l)
  PROVE  /\ link' \in BOOLEAN
         /\ \/ Flows(t, l, after[t], back[t])
            \/ activeKey # NoKey /\ Flows(t, "drop", "release", l)
<1>1. CASE Go(t, l) /\ UNCHANGED link
  BY <1>1, GoFlows DEF TypeOK
<1>2. CASE link /\ link' = FALSE /\ CallAbort(t, l)
  BY <1>2, AbortFlows
<1> QED BY <1>1, <1>2 DEF Send

LEMMA StopFlows ==
  ASSUME TypeOK, NEW t \in Thread, AfterStop(t)
  PROVE  Flows(t, after[t], "idle", back[t])
<1>1. "idle" \in Label
  BY DEF Label
<1> QED BY <1>1 DEF TypeOK, AfterStop, Flows

LEMMA ReturnFlows ==
  ASSUME TypeOK, NEW t \in Thread, Return(t)
  PROVE  Flows(t, back[t], after[t], "idle")
<1>1. "idle" \in Label
  BY DEF Label
<1> QED BY <1>1 DEF TypeOK, Return, Flows

LEMMA ReleaseFlows ==
  ASSUME TypeOK, NEW t \in Thread, Release(t)
  PROVE  /\ link' \in BOOLEAN
         /\ \/ Flows(t, back[t], after[t], "idle")
            \/ activeKey # NoKey /\ Flows(t, "drop", "release", back[t])
<1>1. CASE Return(t)
  BY <1>1, ReturnFlows DEF Release, TypeOK
<1>2. CASE ~Return(t)
  <2>1. activeKey # NoKey /\ CallAbort(t, back[t]) /\ link' = FALSE
    BY <1>2 DEF Release
  <2>2. back[t] \in Label
    BY DEF TypeOK
  <2> QED BY <2>1, <2>2, AbortFlows
<1> QED BY <1>1, <1>2

---------------------------------------------------------------------------
(* Types                                                                     *)

FlowType ==
  pc \in [Thread -> Label] /\ after \in [Thread -> Label] /\ back \in [Thread -> Label]

LEMMA FlowTypeOf == \A t, p, a, b : Flows(t, p, a, b) => FlowType'
  BY DEF Flows, FlowType

LEMMA AbortType ==
  ASSUME TypeOK, NEW t \in Thread, Abort(t)
  PROVE  TypeOK'
<1> USE DEF TypeOK, FlowType
<1>1. CASE Drop(t)
  <2>1. FlowType'
    BY <1>1, GoFlows, FlowTypeOf DEF Drop, Label
  <2>2. activeKey' \in Keys \cup {NoKey} /\ overdue' \in BOOLEAN /\ stopped' \subseteq Number
    BY <1>1 DEF Drop
  <2> QED BY <1>1, <2>1, <2>2 DEF Drop, linkVars, recorderVars, workVars
<1>2. CASE Seal(t)
  <2>1. FlowType'
    BY <1>2, GoFlows, FlowTypeOf DEF Seal, Label
  <2>2. recording' \in BOOLEAN /\ sealed' \in BOOLEAN
    BY <1>2 DEF Seal
  <2>3. UNCHANGED <<linkVars, sessionVars, evdev, running, tape, workVars, crossed>>
    BY <1>2 DEF Seal
  <2> QED BY <2>1, <2>2, <2>3 DEF linkVars, sessionVars, workVars
<1>3. CASE Join(t)
  <2>1. FlowType'
    BY <1>3, GoFlows, StopFlows, FlowTypeOf DEF Join, Label
  <2>2. running' \subseteq Number /\ sealed' \in BOOLEAN
    BY <1>3 DEF Join
  <2> QED BY <1>3, <2>1, <2>2 DEF Join, linkVars, sessionVars, workVars
<1>4. CASE Forget(t)
  <2>1. FlowType'
    BY <1>4, StopFlows, FlowTypeOf DEF Forget
  <2> QED BY <1>4, <2>1 DEF Forget, linkVars, sessionVars, workVars
<1>5. CASE Release(t)
  <2>1. FlowType' /\ link' \in BOOLEAN
    BY <1>5, ReleaseFlows, FlowTypeOf
  <2> QED BY <1>5, <2>1 DEF Release, sessionVars, recorderVars, workVars
<1> QED BY <1>1, <1>2, <1>3, <1>4, <1>5 DEF Abort

LEMMA QueueType ==
  /\ queue \in Seq(Request) /\ queue # <<>> =>
       Head(queue) \in Request /\ Tail(queue) \in Seq(Request)
  /\ \A r \in Request : queue \in Seq(Request) /\ Enqueue(r) => queue' \in Seq(Request)
<1>1. \A r \in Request : queue \in Seq(Request) => Append(queue, r) \in Seq(Request)
  OBVIOUS
<1> QED BY <1>1 DEF Enqueue

LEMMA WorkType ==
  ASSUME TypeOK, SlotInv, Work
  PROVE  TypeOK'
<1> USE Threads DEF TypeOK, FlowType
<1>1. CASE Take
  <2>1. FlowType'
    BY <1>1, GoFlows, FlowTypeOf DEF Take, Label
  <2>2. queue' \in Seq(Request) /\ request' \in Request \cup {NoRequest}
    BY <1>1, QueueType DEF Take
  <2> QED BY <1>1, <2>1, <2>2 DEF Take, sessionVars, recorderVars
<1>2. CASE Handle
  <2>1. FlowType'
    BY <1>2, GoFlows, FlowTypeOf DEF Handle, Label
  <2> QED BY <1>2, <2>1 DEF Handle, linkVars, sessionVars, recorderVars
<1>3. CASE Start
  <2>1. FlowType'
    BY <1>3, GoFlows, FlowTypeOf DEF Start, Label
  <2>2. request' \in Request \cup {NoRequest}
    BY <1>3 DEF Start
  <2> QED BY <1>3, <2>1, <2>2 DEF Start, linkVars, sessionVars, recorderVars
<1>4. CASE OpenRefused
  <2>1. FlowType'
    BY <1>4, GoFlows, FlowTypeOf DEF OpenRefused, Label
  <2> QED BY <1>4, <2>1 DEF OpenRefused, linkVars, sessionVars, recorderVars
<1>5. CASE Open
  <2>1. FlowType'
    BY <1>5, GoFlows, FlowTypeOf DEF Open, Label
  <2>2. tape' \in Number
    BY <1>5, SessionAssumption DEF Open, Number
  <2>3. crossed' \in BOOLEAN
    BY <1>5, Zenon DEF Open
  <2>4. tapeFor' \in (Keys \X Gestures) \cup {NoSlot}
    BY <1>5 DEF Open, SlotInv, Request
  <2>5. recording' \in BOOLEAN /\ sealed' \in BOOLEAN /\ evdev' \in Number
    BY <1>5, <2>2 DEF Open
  <2>6. UNCHANGED <<linkVars, sessionVars, running, request, held, stored>>
    BY <1>5 DEF Open
  <2> QED BY <2>1, <2>2, <2>3, <2>4, <2>5, <2>6 DEF linkVars, sessionVars
<1>6. CASE Launch
  <2>1. FlowType'
    BY <1>6, GoFlows, FlowTypeOf DEF Launch, Label
  <2> QED BY <1>6, <2>1 DEF Launch, linkVars, sessionVars, workVars
<1>7. CASE LaunchFails
  <2>1. FlowType'
    BY <1>7, GoFlows, FlowTypeOf DEF LaunchFails, Label
  <2> QED BY <1>7, <2>1 DEF LaunchFails, linkVars, sessionVars
<1>8. CASE Claim
  <2>1. FlowType'
    BY <1>8, GoFlows, FlowTypeOf DEF Claim, Label
  <2>2. activeKey' \in Keys /\ activeGesture' \in Gestures
    BY <1>8, Slots DEF Claim, SlotInv, Request
  <2> QED BY <1>8, <2>1, <2>2 DEF Claim, linkVars, recorderVars
<1>9. CASE Recheck
  <2>1. FlowType'
    BY <1>9, GoFlows, AbortFlows, FlowTypeOf DEF Recheck, Label
  <2> QED BY <1>9, <2>1 DEF Recheck, linkVars, sessionVars, recorderVars, workVars
<1>10. CASE Show
  <2>1. FlowType' /\ link' \in BOOLEAN
    BY <1>10, SendFlows, FlowTypeOf DEF Show, Label
  <2> QED BY <1>10, <2>1 DEF Show, sessionVars, recorderVars, workVars
<1>11. CASE Arm
  <2>1. FlowType'
    BY <1>11, GoFlows, FlowTypeOf DEF Arm, Label
  <2> QED BY <1>11, <2>1 DEF Arm, linkVars, sessionVars, recorderVars, workVars
<1>12. CASE Guard
  <2>1. FlowType'
    BY <1>12 DEF Guard, Label
  <2>2. stopped' \subseteq Number /\ watchStop' \in Number \cup {0}
    BY <1>12 DEF Guard
  <2> QED BY <1>12, <2>1, <2>2 DEF Guard, linkVars, recorderVars, workVars
<1>13. CASE Finish
  <2>1. FlowType'
    BY <1>13, GoFlows, FlowTypeOf DEF Finish, Label
  <2>2. held' \in Keys \cup {NoKey}
    BY <1>13 DEF Finish
  <2> QED BY <1>13, <2>1, <2>2 DEF Finish, linkVars, sessionVars, recorderVars
<1>14. CASE Keep
  <2>1. FlowType'
    BY <1>14, GoFlows, FlowTypeOf DEF Keep, Label
  <2>2. stored' \in (Keys \X Gestures) \cup {NoSlot} /\ held' \in Keys \cup {NoKey}
    BY <1>14, Slots DEF Keep, SlotInv
  <2> QED BY <1>14, <2>1, <2>2 DEF Keep, linkVars, sessionVars, recorderVars
<1>15. CASE Flash
  <2>1. FlowType' /\ link' \in BOOLEAN
    BY <1>15, SendFlows, FlowTypeOf DEF Flash, Label
  <2> QED BY <1>15, <2>1 DEF Flash, sessionVars, recorderVars
<1>16. CASE Abort(Worker)
  BY <1>16, AbortType
<1> QED BY <1>1, <1>2, <1>3, <1>4, <1>5, <1>6, <1>7, <1>8, <1>9, <1>10, <1>11, <1>12,
           <1>13, <1>14, <1>15, <1>16 DEF Work

LEMMA RestType ==
  ASSUME TypeOK, [Next]_vars, ~Work
  PROVE  TypeOK'
<1> USE Threads DEF TypeOK, FlowType
<1>1. ASSUME NEW n \in Number, Wakes(n) PROVE TypeOK'
  <2>1. FlowType'
    BY <1>1, GoFlows, FlowTypeOf DEF Wakes, Label
  <2> QED BY <1>1, <2>1 DEF Wakes, linkVars, sessionVars, recorderVars, workVars
<1>2. ASSUME NEW n \in Number, Looks(n) PROVE TypeOK'
  <2>1. FlowType' /\ link' \in BOOLEAN
    BY <1>2, GoFlows, AbortFlows, SendFlows, FlowTypeOf DEF Looks, Label
  <2>2. queue' \in Seq(Request)
    <3>1. activeKey # NoKey =>
            [slot |-> <<activeKey, activeGesture>>, finishOnly |-> TRUE] \in Request
      BY DEF Request
    <3> QED BY <1>2, <3>1, QueueType DEF Looks
  <2> QED BY <1>2, <2>1, <2>2 DEF Looks, sessionVars, recorderVars, workVars
<1>3. ASSUME NEW t \in Thread, Abort(t) PROVE TypeOK'
  BY <1>3, AbortType
<1>4. CASE LinkLost
  <2>1. FlowType'
    BY <1>4, AbortFlows, FlowTypeOf DEF LinkLost, Label
  <2>2. link' \in BOOLEAN
    BY <1>4 DEF LinkLost
  <2>3. UNCHANGED <<closed, queue, sessionVars, recorderVars, workVars, crossed>>
    BY <1>4 DEF LinkLost
  <2> QED BY <2>1, <2>2, <2>3 DEF sessionVars, recorderVars, workVars
<1>5. CASE Held
  <2>1. queue' \in Seq(Request)
    <3>1. \A slot \in SLOTS : [slot |-> slot, finishOnly |-> FALSE] \in Request
      BY Slots DEF Request
    <3> QED BY <1>5, <3>1, QueueType DEF Held
  <2> QED BY <1>5, <2>1 DEF Held, sessionVars, recorderVars, flowVars, workVars
<1>6. CASE Cancel \/ Disconnect \/ Closed
  <2>1. FlowType'
    BY <1>6, AbortFlows, FlowTypeOf DEF Cancel, Disconnect, Closed, Label
  <2> QED BY <1>6, <2>1 DEF Cancel, Disconnect, Closed, linkVars, sessionVars, recorderVars,
                            workVars
<1>7. CASE Unplug \/ Close
  <2>1. FlowType'
    BY <1>7, GoFlows, FlowTypeOf DEF Unplug, Close, Label
  <2> QED BY <1>7, <2>1 DEF Unplug, Close, sessionVars, recorderVars, workVars
<1>8. CASE Closing
  <2>1. FlowType'
    BY <1>8, GoFlows, AbortFlows, FlowTypeOf DEF Closing, Label
  <2>2. crossed' \in BOOLEAN
    BY <1>8 DEF Closing
  <2> QED BY <1>8, <2>1, <2>2 DEF Closing, linkVars, sessionVars, recorderVars, workVars
<1>9. CASE Reconnect
  BY <1>9 DEF Reconnect, sessionVars, recorderVars, flowVars, workVars
<1>10. CASE Overruns
  BY <1>10 DEF Overruns, linkVars, recorderVars, flowVars, workVars
<1>11. CASE UNCHANGED vars
  BY <1>11 DEF vars, linkVars, sessionVars, recorderVars, flowVars, workVars
<1> QED BY <1>1, <1>2, <1>3, <1>4, <1>5, <1>6, <1>7, <1>8, <1>9, <1>10, <1>11
        DEF Next, Watch, UseWindow, ServeWindow

---------------------------------------------------------------------------
(* Where threads go on                                                       *)

LEMMA AbortFlow ==
  ASSUME TypeOK, FlowInv, NEW t \in Thread, Abort(t)
  PROVE  FlowInv'
<1> USE Threads DEF FlowInv
<1>1. CASE Drop(t) \/ Seal(t)
  <2>1. PICK l \in {"seal", "join"} : Flows(t, l, after[t], back[t])
    BY <1>1, GoFlows DEF Drop, Seal, Label
  <2> QED BY <2>1 DEF Flows
<1>2. CASE Join(t) \/ Forget(t)
  <2>1. Flows(t, "forget", after[t], back[t]) \/ Flows(t, after[t], "idle", back[t])
    BY <1>2, GoFlows, StopFlows DEF Join, Forget, Label
  <2> QED BY <2>1 DEF Flows
<1>3. CASE Release(t)
  <2>1. Flows(t, back[t], after[t], "idle") \/ Flows(t, "drop", "release", back[t])
    BY <1>3, ReleaseFlows
  <2> QED BY <2>1 DEF Flows
<1> QED BY <1>1, <1>2, <1>3 DEF Abort

LEMMA WorkFlow ==
  ASSUME TypeOK, FlowInv, Work
  PROVE  FlowInv'
<1> USE Threads DEF FlowInv
<1>1. CASE Take \/ Handle \/ Start \/ OpenRefused \/ Open \/ Launch \/ LaunchFails \/ Claim
           \/ Arm \/ Keep
  <2>1. PICK l \in Label : Flows(Worker, l, after[Worker], back[Worker])
    BY <1>1, GoFlows DEF Take, Handle, Start, OpenRefused, Open, Launch, LaunchFails, Claim,
                         Arm, Keep, Label
  <2> QED BY <2>1 DEF Flows
<1>2. CASE Recheck \/ Show \/ Flash
  <2>1. PICK l \in Label, b \in {"idle", "arm"} :
          Flows(Worker, l, after[Worker], back[Worker]) \/ Flows(Worker, "drop", "release", b)
    BY <1>2, GoFlows, AbortFlows, SendFlows DEF Recheck, Show, Flash, Label
  <2> QED BY <2>1 DEF Flows
<1>3. CASE Guard
  <2>1. /\ after' = after /\ back' = back
        /\ \A t \in Thread \ {Worker} : pc'[t] \in {pc[t], "wait"}
    BY <1>3 DEF Guard, TypeOK
  <2> QED BY <2>1
<1>4. CASE Finish
  <2>1. Go(Worker, "idle") \/
        (pc' = [pc EXCEPT ![Worker] = "drop"] /\ after' = [after EXCEPT ![Worker] = "keep"]
           /\ back' = back)
    BY <1>4 DEF Finish
  <2> QED BY <2>1 DEF Go, TypeOK
<1>5. CASE Abort(Worker)
  BY <1>5, AbortFlow
<1> QED BY <1>1, <1>2, <1>3, <1>4, <1>5 DEF Work

(* The other threads move like this ...                                      *)
LEMMA WatchMoves ==
  ASSUME TypeOK, NEW n \in Number, Wakes(n) \/ Looks(n)
  PROVE  /\ pc[Watchdog(n)] \in {"wait", "look"}
         /\ \/ \E l \in {"gone", "look", "wait"} :
                 Flows(Watchdog(n), l, after[Watchdog(n)], back[Watchdog(n)])
            \/ /\ activeKey # NoKey
               /\ \E b \in {"gone", "wait"} : Flows(Watchdog(n), "drop", "release", b)
         /\ UNCHANGED <<sessionVars, recorderVars, workVars, crossed>>
<1>1. CASE Wakes(n)
  <2>1. PICK l \in {"gone", "look"} : Go(Watchdog(n), l)
    BY <1>1 DEF Wakes
  <2>2. l \in Label
    BY DEF Label
  <2>3. Flows(Watchdog(n), l, after[Watchdog(n)], back[Watchdog(n)])
    BY <2>1, <2>2, GoFlows, Threads
  <2> QED BY <1>1, <2>3 DEF Wakes
<1>2. CASE Looks(n)
  <2>1. {"gone", "wait"} \subseteq Label
    BY DEF Label
  <2>2. \/ Go(Watchdog(n), "gone")
        \/ activeKey # NoKey /\ CallAbort(Watchdog(n), "gone")
        \/ Send(Watchdog(n), "wait")
    BY <1>2 DEF Looks
  <2>3. CASE Go(Watchdog(n), "gone")
    BY <1>2, <2>1, <2>3, GoFlows, Threads DEF Looks
  <2>4. CASE activeKey # NoKey /\ CallAbort(Watchdog(n), "gone")
    BY <1>2, <2>1, <2>4, AbortFlows, Threads DEF Looks
  <2>5. CASE Send(Watchdog(n), "wait")
    BY <1>2, <2>1, <2>5, SendFlows, Threads DEF Looks
  <2> QED BY <2>2, <2>3, <2>4, <2>5
<1> QED BY <1>1, <1>2

LEMMA OtherMoves ==
  ASSUME TypeOK, NEW t \in {Reader, Window},
         \/ t = Reader /\ LinkLost
         \/ t = Window /\ (Cancel \/ Disconnect \/ Close \/ Unplug \/ Closed)
         \/ t = Window /\ Closing /\ ~(activeKey = NoKey /\ recording)
  PROVE  /\ pc[t] \in {"idle", "unplug", "closing", "closed"}
         /\ \/ \E l \in {"idle", "gone", "unplug", "closing", "closed"} :
                 Flows(t, l, after[t], back[t])
            \/ /\ activeKey # NoKey
               /\ \E b \in {"idle", "unplug", "closed"} : Flows(t, "drop", "release", b)
         /\ UNCHANGED <<sessionVars, recorderVars, workVars, crossed>>
<1> DEFINE L == {"idle", "gone", "unplug", "closing", "closed"}
<1>1. L \subseteq Label /\ t \in Thread
  BY Threads DEF Label
<1>2. /\ \/ \E l \in L : Go(t, l)
         \/ \E b \in {"idle", "unplug", "closed"} : CallAbort(t, b)
      /\ pc[t] \in {"idle", "unplug", "closing", "closed"}
  BY DEF LinkLost, Cancel, Disconnect, Close, Unplug, Closing, Closed
<1>3. UNCHANGED <<sessionVars, recorderVars, workVars, crossed>>
  BY DEF LinkLost, Cancel, Disconnect, Close, Unplug, Closing, Closed
<1>4. ASSUME NEW l \in L, Go(t, l)
      PROVE  Flows(t, l, after[t], back[t])
  BY <1>1, <1>4, GoFlows
<1>5. ASSUME NEW b \in {"idle", "unplug", "closed"}, CallAbort(t, b)
      PROVE  \/ Flows(t, b, after[t], back[t])
             \/ activeKey # NoKey /\ Flows(t, "drop", "release", b)
  BY <1>1, <1>5, AbortFlows
<1> QED BY <1>2, <1>3, <1>4, <1>5

(* ... or change nothing but the link, the queue and the clock.              *)
Aloof == Held \/ Reconnect \/ Overruns \/ UNCHANGED vars

LEMMA AloofKeeps ==
  ASSUME Aloof
  PROVE  UNCHANGED <<flowVars, activeKey, activeGesture, watchStop, stopped, recorderVars,
                     workVars, crossed>>
  BY DEF Aloof, Held, Reconnect, Overruns, vars, sessionVars

CrossingStop == Closing /\ activeKey = NoKey /\ recording

(* What may happen in a step, by the thread that takes it.                   *)
LEMMA Steps ==
  ASSUME [Next]_vars
  PROVE  \/ Work
         \/ \E t \in Thread : Abort(t)
         \/ \E n \in Number : Wakes(n) \/ Looks(n)
         \/ LinkLost \/ Cancel \/ Disconnect \/ Close \/ Unplug \/ Closed
         \/ Closing /\ ~(activeKey = NoKey /\ recording)
         \/ CrossingStop
         \/ Aloof
  BY Threads DEF Next, Watch, UseWindow, ServeWindow, CrossingStop, Aloof

LEMMA RestFlow ==
  ASSUME TypeOK, FlowInv, [Next]_vars, ~Work
  PROVE  FlowInv'
<1> USE Threads DEF FlowInv
<1>1. ASSUME NEW t \in Thread, Abort(t) PROVE FlowInv'
  BY <1>1, AbortFlow
<1>2. ASSUME NEW n \in Number, Wakes(n) \/ Looks(n) PROVE FlowInv'
  <2>1. PICK p, a, b :
          /\ p \in {"gone", "look", "wait", "drop"}
          /\ Flows(Watchdog(n), p, a, b)
          /\ a \in {after[Watchdog(n)], "release"}
          /\ b \in {back[Watchdog(n)], "gone", "wait"}
    BY <1>2, WatchMoves
  <2> QED BY <2>1 DEF Flows
<1>3. ASSUME NEW t \in {Reader, Window},
             \/ t = Reader /\ LinkLost
             \/ t = Window /\ (Cancel \/ Disconnect \/ Close \/ Unplug \/ Closed)
             \/ t = Window /\ Closing /\ ~(activeKey = NoKey /\ recording)
      PROVE  FlowInv'
  <2>1. PICK p, a, b :
          /\ p \in {"idle", "gone", "unplug", "closing", "closed", "drop"}
          /\ Flows(t, p, a, b)
          /\ a \in {after[t], "release"}
          /\ b \in {back[t], "idle", "unplug", "closed"}
    BY <1>3, OtherMoves
  <2> QED BY <2>1 DEF Flows
<1>4. CASE CrossingStop
  <2>1. pc' = [pc EXCEPT ![Window] = "seal"] /\ after' = [after EXCEPT ![Window] = "closed"]
        /\ back' = back
    BY <1>4 DEF CrossingStop, Closing
  <2> QED BY <2>1 DEF TypeOK
<1>5. CASE Aloof
  BY <1>5, AloofKeeps DEF flowVars
<1> QED BY <1>1, <1>2, <1>3, <1>4, <1>5, Steps

---------------------------------------------------------------------------
(* A recording and its slot                                                  *)

(* Where the steps of an abort take a thread.                                *)
LEMMA AbortMoves ==
  ASSUME TypeOK, NEW t \in Thread, Abort(t)
  PROVE  /\ \/ Drop(t) /\ Flows(t, "seal", after[t], back[t])
            \/ Seal(t) /\ Flows(t, "join", after[t], back[t])
            \/ Join(t) /\ evdev # 0 /\ Flows(t, "forget", after[t], back[t])
            \/ Join(t) /\ evdev = 0 /\ Flows(t, after[t], "idle", back[t])
            \/ Forget(t) /\ Flows(t, after[t], "idle", back[t])
            \/ Release(t) /\ Flows(t, back[t], after[t], "idle")
            \/ Release(t) /\ activeKey # NoKey /\ Flows(t, "drop", "release", back[t])
         /\ UNCHANGED <<activeGesture, watchStop, tape, workVars, crossed>>
         /\ ~Drop(t) => UNCHANGED <<activeKey, stopped>>
<1>1. {"seal", "join", "forget"} \subseteq Label
  BY DEF Label
<1>2. CASE Drop(t)
  BY <1>1, <1>2, GoFlows DEF Drop, recorderVars
<1>3. CASE Seal(t)
  BY <1>1, <1>3, GoFlows DEF Seal, sessionVars
<1>4. CASE Join(t)
  BY <1>1, <1>4, GoFlows, StopFlows DEF Join, sessionVars
<1>5. CASE Forget(t)
  BY <1>5, StopFlows DEF Forget, sessionVars
<1>6. CASE Release(t)
  BY <1>6, ReleaseFlows DEF Release, sessionVars, recorderVars
<1> QED BY <1>2, <1>3, <1>4, <1>5, <1>6 DEF Abort

LEMMA OthersKeepSlot ==
  ASSUME TypeOK, SlotInv, pc'[Worker] = pc[Worker], after'[Worker] = after[Worker],
         activeKey' \in {activeKey, NoKey}, UNCHANGED <<activeGesture, workVars>>
  PROVE  SlotInv'
  BY DEF SlotInv, Stopping, workVars

LEMMA WorkerAbortKeepsSlot ==
  ASSUME TypeOK, FlowInv, SlotInv, Abort(Worker)
  PROVE  SlotInv'
<1> USE Threads DEF workVars
<1>1. UNCHANGED <<activeGesture, workVars>>
  BY AbortMoves
<1>2. CASE Drop(Worker)
  <2>1. pc[Worker] = "drop" /\ pc'[Worker] = "seal" /\ after'[Worker] = after[Worker]
    BY <1>2, GoFlows DEF Drop, Flows, Label
  <2> QED BY <1>1, <1>2, <2>1 DEF Drop, SlotInv, Stopping
<1>3. CASE Seal(Worker) \/ Join(Worker) \/ Forget(Worker)
  <2>1. pc[Worker] \in {"seal", "join", "forget"} /\ activeKey' = activeKey
    BY <1>3 DEF Seal, Join, Forget, sessionVars
  <2>2. activeKey = NoKey
    BY <2>1 DEF SlotInv
  <2>3. \/ pc'[Worker] \in {"join", "forget"} /\ after'[Worker] = after[Worker]
        \/ pc'[Worker] = after[Worker] /\ after'[Worker] = "idle"
    BY <1>3, GoFlows, StopFlows DEF Seal, Join, Forget, Flows, Label
  <2>4. after[Worker] \in {"idle", "release", "keep"}
    BY DEF FlowInv
  <2>5. stored = NoSlot
    BY <2>1 DEF SlotInv
  <2>6. after[Worker] = "keep" => tapeFor = <<held, activeGesture>>
    BY DEF SlotInv
  <2> QED BY <1>1, <2>1, <2>2, <2>3, <2>4, <2>5, <2>6 DEF SlotInv, Stopping
<1>4. CASE Release(Worker)
  <2>1. activeKey = NoKey /\ stored = NoSlot /\ after[Worker] # "keep"
    BY <1>4 DEF Release, SlotInv, Stopping
  <2>2. pc'[Worker] = back[Worker] /\ after'[Worker] = after[Worker]
    BY <1>4, <2>1, ReleaseFlows DEF Flows
  <2>3. back[Worker] \in {"idle", "arm"} /\ activeKey' = activeKey
    BY <1>4 DEF FlowInv, Release, sessionVars
  <2> QED BY <1>1, <2>1, <2>2, <2>3 DEF SlotInv
<1> QED BY <1>2, <1>3, <1>4 DEF Abort

(* The worker goes from one label to another with nothing but this changed.  *)
LEMMA WorkerGoes ==
  ASSUME TypeOK, NEW l \in Label, Go(Worker, l)
  PROVE  pc'[Worker] = l /\ after'[Worker] = after[Worker]
  BY Threads, GoFlows DEF Flows

LEMMA WorkSlot ==
  ASSUME TypeOK, FlowInv, SlotInv, Work
  PROVE  SlotInv'
<1> USE Threads
<1>1. CASE Take
  <2>1. pc'[Worker] \in {"idle", "handle"} /\ after'[Worker] = after[Worker]
    BY <1>1, WorkerGoes DEF Take, Label
  <2>2. pc'[Worker] = "handle" => request' \in Request
    BY <1>1, <2>1, QueueType, WorkerGoes DEF Take, Label, TypeOK
  <2>3. UNCHANGED <<activeKey, activeGesture, held, stored, tapeFor>> /\ pc[Worker] = "idle"
    BY <1>1 DEF Take, sessionVars
  <2> QED BY <2>1, <2>2, <2>3 DEF SlotInv, Stopping
<1>2. CASE Handle
  <2>1. pc'[Worker] \in {"finish", "flash"} /\ after'[Worker] = after[Worker]
    BY <1>2, WorkerGoes DEF Handle, Label
  <2>2. UNCHANGED <<activeKey, activeGesture, held, stored, tapeFor>> /\ pc[Worker] = "handle"
    BY <1>2 DEF Handle, sessionVars
  <2> QED BY <2>1, <2>2 DEF SlotInv, Stopping
<1>3. CASE Start
  <2>1. /\ pc'[Worker] \in {"open", "idle"}
        /\ pc'[Worker] = "open" => request' = request
        /\ after'[Worker] = after[Worker]
    BY <1>3, WorkerGoes DEF Start, Label
  <2>2. UNCHANGED <<activeKey, activeGesture, held, stored, tapeFor>> /\ pc[Worker] = "handle"
        /\ activeKey = NoKey
    BY <1>3 DEF Start, sessionVars
  <2> QED BY <2>1, <2>2 DEF SlotInv, Stopping
<1>4. CASE OpenRefused \/ LaunchFails
  <2>1. pc'[Worker] = "flash" /\ after'[Worker] = after[Worker]
    BY <1>4, WorkerGoes DEF OpenRefused, LaunchFails, Label
  <2>2. /\ UNCHANGED <<activeKey, activeGesture, held, stored, tapeFor>>
        /\ pc[Worker] \in {"open", "launch"}
    BY <1>4 DEF OpenRefused, LaunchFails, sessionVars
  <2> QED BY <2>1, <2>2 DEF SlotInv, Stopping
<1>5. CASE Open
  <2>1. pc'[Worker] = "launch" /\ after'[Worker] = after[Worker]
    BY <1>5, WorkerGoes DEF Open, Label
  <2>2. /\ UNCHANGED <<activeKey, activeGesture, request, held, stored>> /\ pc[Worker] = "open"
        /\ tapeFor' = request.slot
    BY <1>5 DEF Open, sessionVars
  <2> QED BY <2>1, <2>2 DEF SlotInv, Stopping
<1>6. CASE Launch
  <2>1. pc'[Worker] = "claim" /\ after'[Worker] = after[Worker]
    BY <1>6, WorkerGoes DEF Launch, Label
  <2>2. /\ UNCHANGED <<activeKey, activeGesture, request, held, stored, tapeFor>>
        /\ pc[Worker] = "launch"
    BY <1>6 DEF Launch, sessionVars, workVars
  <2> QED BY <2>1, <2>2 DEF SlotInv, Stopping
<1>7. CASE Claim
  <2>1. pc'[Worker] = "recheck" /\ after'[Worker] = after[Worker]
    BY <1>7, WorkerGoes DEF Claim, Label
  <2>2. UNCHANGED <<held, stored, tapeFor>> /\ pc[Worker] = "claim"
    BY <1>7 DEF Claim
  <2>3. request.slot \in Keys \X Gestures /\ tapeFor = request.slot
    BY <2>2 DEF SlotInv, Request
  <2>4. tapeFor = <<activeKey', activeGesture'>>
    BY <1>7, <2>3, Slots DEF Claim
  <2> QED BY <2>1, <2>2, <2>4 DEF SlotInv, Stopping
<1>8. CASE Recheck \/ Show \/ Flash
  <2>1. \/ pc'[Worker] \in {"idle", "show", "arm"} /\ after'[Worker] = after[Worker]
        \/ pc'[Worker] = "drop" /\ after'[Worker] = "release"
    BY <1>8, WorkerGoes, AbortFlows, SendFlows DEF Recheck, Show, Flash, Label, Flows
  <2>2. UNCHANGED <<activeKey, activeGesture, request, held, tapeFor>>
        /\ pc[Worker] \in {"recheck", "show", "flash"}
    BY <1>8 DEF Recheck, Show, Flash, sessionVars, workVars
  <2>3. stored' = NoSlot
    BY <1>8 DEF Recheck, Show, Flash, SlotInv, workVars
  <2> QED BY <2>1, <2>2, <2>3 DEF SlotInv, Stopping
<1>9. CASE Arm
  <2>1. pc'[Worker] \in {"idle", "guard"} /\ after'[Worker] = after[Worker]
    BY <1>9, WorkerGoes DEF Arm, Label
  <2>2. UNCHANGED <<activeKey, activeGesture, request, held, stored, tapeFor>>
        /\ pc[Worker] = "arm"
    BY <1>9 DEF Arm, sessionVars, workVars
  <2> QED BY <2>1, <2>2 DEF SlotInv, Stopping
<1>10. CASE Guard
  <2>1. pc'[Worker] \in {"idle", "wait"} /\ after' = after
    BY <1>10 DEF Guard, TypeOK
  <2>2. UNCHANGED <<activeKey, activeGesture, request, held, stored, tapeFor>>
        /\ pc[Worker] = "guard"
    BY <1>10 DEF Guard, workVars
  <2> QED BY <2>1, <2>2 DEF SlotInv, Stopping
<1>11. CASE Finish
  <2>1. \/ pc'[Worker] = "idle" /\ after'[Worker] = after[Worker] /\ held' = held
        \/ /\ pc'[Worker] = "drop" /\ after'[Worker] = "keep"
           /\ held' = activeKey /\ activeKey # NoKey
    BY <1>11, WorkerGoes DEF Finish, Label, TypeOK
  <2>2. UNCHANGED <<activeKey, activeGesture, request, stored, tapeFor>>
        /\ pc[Worker] = "finish"
    BY <1>11 DEF Finish, sessionVars
  <2> QED BY <2>1, <2>2 DEF SlotInv, Stopping
<1>12. CASE Keep
  <2>1. pc'[Worker] = "flash" /\ after'[Worker] = after[Worker]
    BY <1>12, WorkerGoes DEF Keep, Label
  <2>2. /\ UNCHANGED <<activeKey, activeGesture, request, tapeFor>> /\ pc[Worker] = "keep"
        /\ stored' \in {NoSlot, <<held, activeGesture>>}
    BY <1>12 DEF Keep, sessionVars
  <2> QED BY <2>1, <2>2 DEF SlotInv, Stopping
<1>13. CASE Abort(Worker)
  BY <1>13, WorkerAbortKeepsSlot
<1> QED BY <1>1, <1>2, <1>3, <1>4, <1>5, <1>6, <1>7, <1>8, <1>9, <1>10, <1>11, <1>12,
           <1>13 DEF Work

LEMMA RestSlot ==
  ASSUME TypeOK, FlowInv, SlotInv, [Next]_vars, ~Work
  PROVE  SlotInv'
<1> USE Threads
<1>1. ASSUME NEW t \in Thread, Abort(t) PROVE SlotInv'
  <2>1. CASE t = Worker
    BY <1>1, <2>1, WorkerAbortKeepsSlot
  <2>2. CASE t # Worker
    <3>1. pc'[Worker] = pc[Worker] /\ after'[Worker] = after[Worker]
      BY <1>1, <2>2, AbortMoves DEF Flows
    <3>2. activeKey' \in {activeKey, NoKey} /\ UNCHANGED <<activeGesture, workVars>>
      BY <1>1, AbortMoves DEF Drop
    <3> QED BY <3>1, <3>2, OthersKeepSlot
  <2> QED BY <2>1, <2>2
<1>2. ASSUME NEW n \in Number, Wakes(n) \/ Looks(n) PROVE SlotInv'
  BY <1>2, WatchMoves, OthersKeepSlot DEF Flows, sessionVars
<1>3. ASSUME NEW t \in {Reader, Window},
             \/ t = Reader /\ LinkLost
             \/ t = Window /\ (Cancel \/ Disconnect \/ Close \/ Unplug \/ Closed)
             \/ t = Window /\ Closing /\ ~(activeKey = NoKey /\ recording)
      PROVE  SlotInv'
  BY <1>3, OtherMoves, OthersKeepSlot DEF Flows, sessionVars
<1>4. CASE CrossingStop
  BY <1>4, OthersKeepSlot DEF CrossingStop, Closing, TypeOK, sessionVars
<1>5. CASE Aloof
  BY <1>5, AloofKeeps, OthersKeepSlot DEF flowVars
<1> QED BY <1>1, <1>2, <1>3, <1>4, <1>5, Steps

---------------------------------------------------------------------------
(* Watchdogs                                                                 *)

LEMMA OthersKeepDog ==
  ASSUME DogInv, pc'[Worker] = pc[Worker], after'[Worker] = after[Worker],
         back'[Worker] = back[Worker], UNCHANGED <<watchStop, tape>>, stopped \subseteq stopped',
         \A n \in Number : pc'[Watchdog(n)] # "idle" => pc[Watchdog(n)] # "idle"
  PROVE  DogInv'
  BY DEF DogInv, Stopping

LEMMA WorkerKeepsDog ==
  ASSUME DogInv, NEW p, NEW a, NEW b, Flows(Worker, p, a, b),
         UNCHANGED <<watchStop, tape>>, stopped \subseteq stopped',
         p \in Starting \/ b = "arm" => watchStop < tape,
         b = "arm" => (p = "release" \/ (p \in {"drop", "seal", "join", "forget"} /\ a = "release"))
  PROVE  DogInv'
<1>1. \A n \in Number : pc'[Watchdog(n)] = pc[Watchdog(n)]
  BY Threads DEF Flows
<1>2. pc'[Worker] = p /\ after'[Worker] = a /\ back'[Worker] = b
  BY DEF Flows
<1> QED BY <1>1, <1>2 DEF DogInv, Stopping, Starting

LEMMA AbortDog ==
  ASSUME TypeOK, FlowInv, SlotInv, DogInv, NEW t \in Thread, Abort(t)
  PROVE  DogInv'
<1> USE Threads
<1>1. stopped \subseteq stopped' /\ UNCHANGED <<watchStop, tape>>
  BY AbortMoves DEF Drop
<1>2. CASE t # Worker
  <2>1. pc[t] # "idle"
    BY DEF Abort, Drop, Seal, Join, Forget, Release
  <2>2. \A u \in Thread : pc'[u] # "idle" => pc[u] # "idle"
    BY <2>1, AbortMoves DEF Flows
  <2>3. /\ pc'[Worker] = pc[Worker] /\ after'[Worker] = after[Worker]
        /\ back'[Worker] = back[Worker]
    BY <1>2, AbortMoves DEF Flows
  <2> QED BY <1>1, <2>2, <2>3, OthersKeepDog
<1>3. CASE t = Worker
  <2>1. /\ pc[Worker] \in {"drop", "seal", "join", "forget", "release"}
        /\ pc[Worker] = "release" => activeKey = NoKey
    BY <1>3 DEF Abort, Drop, Seal, Join, Forget, Release, SlotInv
  <2>2. \/ \E l \in {"seal", "join", "forget"} :
             pc[Worker] # "release" /\ Flows(Worker, l, after[Worker], back[Worker])
        \/ pc[Worker] # "release" /\ Flows(Worker, after[Worker], "idle", back[Worker])
        \/ Flows(Worker, back[Worker], after[Worker], "idle")
    BY <1>3, <2>1, AbortMoves DEF Drop, Seal, Join, Forget, Release
  <2>3. /\ after[Worker] \in {"idle", "release", "keep"} /\ back[Worker] \in {"idle", "arm"}
        /\ back[Worker] = "arm" => watchStop < tape
        /\ back[Worker] = "arm" /\ pc[Worker] # "release" => after[Worker] = "release"
    BY <2>1 DEF FlowInv, DogInv
  <2>4. CASE \E l \in {"seal", "join", "forget"} :
              pc[Worker] # "release" /\ Flows(Worker, l, after[Worker], back[Worker])
    BY <1>1, <2>3, <2>4, WorkerKeepsDog DEF Starting
  <2>5. CASE pc[Worker] # "release" /\ Flows(Worker, after[Worker], "idle", back[Worker])
    <3>1. after[Worker] \notin Starting
      BY <2>3 DEF Starting
    <3> QED BY <1>1, <2>3, <2>5, <3>1, WorkerKeepsDog
  <2>6. CASE Flows(Worker, back[Worker], after[Worker], "idle")
    <3>1. back[Worker] \in Starting => watchStop < tape
      BY <2>3 DEF Starting
    <3> QED BY <1>1, <2>6, <3>1, WorkerKeepsDog
  <2> QED BY <2>2, <2>4, <2>5, <2>6
<1> QED BY <1>2, <1>3

LEMMA WorkDog ==
  ASSUME TypeOK, FlowInv, SlotInv, DogInv, Work
  PROVE  DogInv'
<1> USE Threads
<1>1. CASE Take \/ Handle \/ Start \/ OpenRefused \/ LaunchFails \/ Keep
  <2>1. PICK l \in {"idle", "handle", "finish", "flash", "open"} :
          Flows(Worker, l, after[Worker], back[Worker])
    BY <1>1, GoFlows DEF Take, Handle, Start, OpenRefused, LaunchFails, Keep, Label
  <2>2. UNCHANGED <<watchStop, stopped, tape>>
    BY <1>1 DEF Take, Handle, Start, OpenRefused, LaunchFails, Keep, sessionVars, recorderVars
  <2>3. back[Worker] # "arm"
    BY <1>1 DEF Take, Handle, Start, OpenRefused, LaunchFails, Keep, DogInv, Stopping
  <2> QED BY <2>1, <2>2, <2>3, WorkerKeepsDog DEF Starting
<1>2. CASE Open
  <2>1. Flows(Worker, "launch", after[Worker], back[Worker])
    BY <1>2, GoFlows DEF Open, Label
  <2>2. UNCHANGED <<watchStop, stopped>> /\ tape' = tape + 1 /\ pc[Worker] = "open"
    BY <1>2 DEF Open, sessionVars
  <2>3. tape \in Int /\ watchStop \in Int
    BY SessionAssumption DEF TypeOK, Number
  <2>4. watchStop' < tape'
    BY <2>2, <2>3 DEF DogInv
  <2>5. \A n \in Number : pc'[Watchdog(n)] = pc[Watchdog(n)]
    BY <2>1 DEF Flows
  <2>6. back'[Worker] # "arm"
    BY <2>1, <2>2 DEF DogInv, Flows, Stopping
  <2> QED BY <2>2, <2>3, <2>4, <2>5, <2>6 DEF DogInv
<1>3. CASE Launch \/ Claim \/ Arm
  <2>1. PICK l \in {"claim", "recheck", "idle", "guard"} :
          Flows(Worker, l, after[Worker], back[Worker])
    BY <1>3, GoFlows DEF Launch, Claim, Arm, Label
  <2>2. UNCHANGED <<watchStop, stopped, tape>> /\ pc[Worker] \in {"launch", "claim", "arm"}
    BY <1>3 DEF Launch, Claim, Arm, sessionVars, recorderVars
  <2>3. back[Worker] # "arm" /\ watchStop < tape
    BY <2>2 DEF DogInv, Stopping, Starting
  <2> QED BY <2>1, <2>2, <2>3, WorkerKeepsDog
<1>4. CASE Recheck \/ Show \/ Flash
  <2>1. /\ pc[Worker] \in {"recheck", "show", "flash"}
        /\ \/ \E l \in {"idle", "show", "arm"} :
                /\ Flows(Worker, l, after[Worker], back[Worker])
                /\ pc[Worker] = "flash" => l = "idle"
           \/ Flows(Worker, "drop", "release", "idle")
           \/ Flows(Worker, "drop", "release", "arm") /\ pc[Worker] = "show"
    BY <1>4, GoFlows, AbortFlows, SendFlows DEF Recheck, Show, Flash, Label
  <2>2. UNCHANGED <<watchStop, stopped, tape>>
    BY <1>4 DEF Recheck, Show, Flash, sessionVars, recorderVars
  <2>3. back[Worker] # "arm" /\ (pc[Worker] # "flash" => watchStop < tape)
    BY <2>1 DEF DogInv, Stopping, Starting
  <2> QED BY <2>1, <2>2, <2>3, WorkerKeepsDog DEF Starting
<1>5. CASE Guard
  <2>1. /\ pc[Worker] = "guard" /\ watchStop' = tape /\ tape' = tape
        /\ stopped' = stopped \cup ({watchStop} \cap Number)
        /\ back' = back /\ after' = after
    BY <1>5 DEF Guard, recorderVars
  <2>2. back[Worker] # "arm" /\ watchStop < tape
    BY <2>1 DEF DogInv, Stopping, Starting
  <2>3. tape \in Number
    BY <2>2, SessionAssumption DEF TypeOK, Number
  <2>4. /\ pc'[Worker] = "idle"
        /\ \A n \in Number : n # tape => pc'[Watchdog(n)] = pc[Watchdog(n)]
    BY <1>5, <2>3 DEF Guard, TypeOK
  <2>5. watchStop \in Int /\ tape \in Int
    BY SessionAssumption DEF TypeOK, Number
  <2>6. \A n \in Number : n \in Int /\ (n # tape /\ pc'[Watchdog(n)] # "idle" =>
                           n <= watchStop /\ (n \notin stopped => n = watchStop))
    BY <2>4, SessionAssumption DEF DogInv, Number
  <2>7. ASSUME NEW n \in Number, pc'[Watchdog(n)] # "idle"
        PROVE  n <= tape /\ (n \notin stopped' => n = tape)
    <3>1. CASE n = tape
      BY <2>5, <3>1
    <3>2. CASE n # tape
      BY <2>1, <2>2, <2>5, <2>6, <2>7, <3>2
    <3> QED BY <3>1, <3>2
  <2> QED BY <2>1, <2>2, <2>4, <2>5, <2>7 DEF DogInv, Starting
<1>6. CASE Finish
  <2>1. /\ pc[Worker] = "finish" /\ UNCHANGED <<watchStop, stopped, tape>>
        /\ pc'[Worker] \in {"idle", "drop"} /\ back'[Worker] = back[Worker]
        /\ \A n \in Number : pc'[Watchdog(n)] = pc[Watchdog(n)]
    BY <1>6 DEF Finish, Go, TypeOK, sessionVars, recorderVars
  <2>2. back[Worker] # "arm"
    BY <2>1 DEF DogInv, Stopping, Starting
  <2> QED BY <2>1, <2>2 DEF DogInv, Starting
<1>7. CASE Abort(Worker)
  BY <1>7, AbortDog
<1> QED BY <1>1, <1>2, <1>3, <1>4, <1>5, <1>6, <1>7 DEF Work

LEMMA RestDog ==
  ASSUME TypeOK, FlowInv, SlotInv, DogInv, [Next]_vars, ~Work
  PROVE  DogInv'
<1> USE Threads
<1>1. ASSUME NEW t \in Thread, Abort(t) PROVE DogInv'
  BY <1>1, AbortDog
<1>2. ASSUME NEW n \in Number, Wakes(n) \/ Looks(n) PROVE DogInv'
  <2>1. \A u \in Thread : pc'[u] # "idle" => pc[u] # "idle"
    BY <1>2, WatchMoves DEF Flows
  <2> QED BY <1>2, <2>1, WatchMoves, OthersKeepDog DEF Flows, sessionVars, recorderVars
<1>3. ASSUME NEW t \in {Reader, Window},
             \/ t = Reader /\ LinkLost
             \/ t = Window /\ (Cancel \/ Disconnect \/ Close \/ Unplug \/ Closed)
             \/ t = Window /\ Closing /\ ~(activeKey = NoKey /\ recording)
      PROVE  DogInv'
  BY <1>3, OtherMoves, OthersKeepDog DEF Flows, sessionVars, recorderVars
<1>4. CASE CrossingStop
  <2>1. /\ pc' = [pc EXCEPT ![Window] = "seal"] /\ after' = [after EXCEPT ![Window] = "closed"]
        /\ UNCHANGED <<back, watchStop, stopped, tape>>
    BY <1>4 DEF CrossingStop, Closing, sessionVars, recorderVars
  <2> QED BY <2>1, OthersKeepDog DEF TypeOK
<1>5. CASE Aloof
  BY <1>5, AloofKeeps, OthersKeepDog DEF flowVars, recorderVars
<1> QED BY <1>1, <1>2, <1>3, <1>4, <1>5, Steps

---------------------------------------------------------------------------
(* Capture                                                                   *)

LEMMA QuietCapture ==
  ASSUME TypeOK, SlotInv, Opening, Recorded, Ended, NEW t \in Thread, NEW p, NEW a, NEW b,
         Flows(t, p, a, b), UNCHANGED <<activeKey, watchStop, recorderVars>>,
         ~Stopping(t), t = Worker => pc[t] \notin {"launch", "claim"},
         p \notin {"launch", "claim", "seal", "join", "forget"},
         p = "drop" => activeKey # NoKey,
         t = Worker /\ activeKey # NoKey /\ p \notin Early => watchStop = tape
  PROVE  Opening' /\ Recorded' /\ Ended'
<1> USE Threads DEF recorderVars, CaptureOn
<1>1. /\ pc'[t] = p
      /\ \A u \in Thread : u # t => pc'[u] = pc[u]
  BY DEF Flows
<1>2. \A u \in Thread : Stopping(u)' => Stopping(u) \/ activeKey # NoKey
  BY <1>1 DEF Stopping
<1>3. Opening'
  <2>1. SUFFICES ASSUME pc'[Worker] \in {"launch", "claim"}
                 PROVE  /\ CaptureOn' /\ \A u \in Thread : ~Stopping(u)'
                        /\ running' = IF pc'[Worker] = "launch" THEN {} ELSE {tape'}
    BY DEF Opening
  <2>2. pc'[Worker] = pc[Worker] /\ activeKey = NoKey
    BY <1>1, <2>1 DEF SlotInv
  <2> QED BY <1>2, <2>1, <2>2 DEF Opening
<1>4. Recorded'
  <2>1. SUFFICES ASSUME activeKey # NoKey
                 PROVE  /\ CaptureOn' /\ running' = {tape'}
                        /\ \A u \in Thread : pc'[u] \notin {"seal", "join", "forget"}
                        /\ pc'[Worker] \notin Early => watchStop' = tape'
    BY DEF Recorded
  <2> QED BY <1>1, <2>1 DEF Recorded
<1>5. Ended'
  <2>1. SUFFICES ASSUME activeKey = NoKey, pc'[Worker] \notin {"launch", "claim"}
                 PROVE  /\ recording => \E u \in Thread : pc'[u] \in {"drop", "seal"}
                        /\ running # {} =>
                             /\ running = {tape} /\ evdev = tape
                             /\ \E u \in Thread : pc'[u] \in {"drop", "seal", "join"}
                             /\ \A u \in Thread : pc'[u] # "forget"
    BY DEF Ended
  <2>2. pc[Worker] \notin {"launch", "claim"}
    BY <1>1, <2>1
  <2>3. \A u \in Thread : pc[u] \in {"drop", "seal", "join"} => pc'[u] = pc[u]
    BY <1>1 DEF Stopping
  <2>4. \A u \in Thread : pc[u] # "forget" => pc'[u] # "forget"
    BY <1>1
  <2> QED BY <2>1, <2>2, <2>3, <2>4 DEF Ended
<1> QED BY <1>3, <1>4, <1>5

(* While a thread stops capture, none is being opened, and once it is past    *)
(* giving the key up none is recorded.                                       *)
LEMMA AbortCapture ==
  ASSUME TypeOK, FlowInv, SlotInv, Opening, Recorded, Ended, NEW t \in Thread, Abort(t)
  PROVE  Opening' /\ Recorded' /\ Ended'
<1> USE Threads
<1>1. watchStop' = watchStop /\ tape' = tape
  BY AbortMoves
<1>2. CASE Stopping(t)
  <2>1. pc[Worker] \notin {"launch", "claim"}
    BY <1>2 DEF Opening
  <2>2. \/ Drop(t) /\ Flows(t, "seal", after[t], back[t])
        \/ Seal(t) /\ Flows(t, "join", after[t], back[t])
        \/ Join(t) /\ evdev # 0 /\ Flows(t, "forget", after[t], back[t])
        \/ Join(t) /\ evdev = 0 /\ Flows(t, after[t], "idle", back[t])
        \/ Forget(t) /\ Flows(t, after[t], "idle", back[t])
    BY <1>2, AbortMoves DEF Stopping, Release
  <2>3. after[t] \in {"idle", "release", "keep", "closed"}
    BY DEF FlowInv
  <2>4. PICK l \in {"seal", "join", "forget", "idle", "release", "keep", "closed"} :
          /\ pc'[t] = l
          /\ \A u \in Thread : u # t => pc'[u] = pc[u]
    BY <2>2, <2>3 DEF Flows
  <2>5. pc'[Worker] \notin {"launch", "claim"}
    BY <2>1, <2>4
  <2>6. activeKey' = NoKey
    BY <1>2, <2>2 DEF Drop, Seal, Join, Forget, sessionVars, Recorded
  <2>7. CASE Drop(t)
    <3>1. /\ pc[t] = "drop" /\ pc'[t] = "seal"
          /\ UNCHANGED <<recording, running, evdev>>
      BY <2>7, GoFlows DEF Drop, recorderVars, Flows, Label
    <3>2. running # {} => running = {tape} /\ evdev = tape
      BY <2>1 DEF Recorded, Ended, CaptureOn
    <3>3. running # {} => \A u \in Thread : pc'[u] # "forget"
      BY <2>1, <2>4, <3>1 DEF Recorded, Ended
    <3> QED BY <1>1, <2>5, <2>6, <3>1, <3>2, <3>3 DEF Opening, Recorded, Ended
  <2>8. CASE Seal(t)
    <3>1. /\ pc[t] = "seal" /\ pc'[t] = "join" /\ ~recording'
          /\ UNCHANGED <<running, evdev, activeKey>>
      BY <2>8, GoFlows DEF Seal, sessionVars, Flows, Label
    <3>2. running # {} => running = {tape} /\ evdev = tape /\ \A u \in Thread : pc'[u] # "forget"
      BY <2>1, <2>4, <2>6, <3>1 DEF Ended
    <3> QED BY <1>1, <2>5, <2>6, <3>1, <3>2 DEF Opening, Recorded, Ended
  <2>9. CASE Join(t)
    <3>1. /\ pc[t] = "join" /\ running' = running \ {evdev}
          /\ UNCHANGED <<recording, evdev, activeKey>>
      BY <2>9 DEF Join, sessionVars
    <3>2. running' = {}
      BY <2>1, <2>6, <3>1 DEF Ended
    <3>3. recording => \E u \in Thread : pc'[u] \in {"drop", "seal"}
      BY <2>1, <2>4, <2>6, <3>1 DEF Ended
    <3> QED BY <2>5, <2>6, <3>1, <3>2, <3>3 DEF Opening, Recorded, Ended
  <2>10. CASE Forget(t)
    <3>1. /\ pc[t] = "forget" /\ UNCHANGED <<recording, running, activeKey>>
      BY <2>10 DEF Forget, sessionVars
    <3>2. running' = {}
      BY <2>1, <2>6, <3>1 DEF Ended
    <3>3. recording => \E u \in Thread : pc'[u] \in {"drop", "seal"}
      BY <2>1, <2>4, <2>6, <3>1 DEF Ended
    <3> QED BY <2>5, <2>6, <3>1, <3>2, <3>3 DEF Opening, Recorded, Ended
  <2> QED BY <2>2, <2>7, <2>8, <2>9, <2>10
<1>3. CASE ~Stopping(t)
  <2>1. Release(t)
    BY <1>3 DEF Abort, Stopping, Drop, Seal, Join, Forget
  <2>2. pc[t] = "release" /\ UNCHANGED <<activeKey, watchStop, recorderVars>>
    BY <2>1 DEF Release, sessionVars
  <2>3. t = Worker => activeKey = NoKey
    BY <2>2 DEF SlotInv
  <2>4. back[t] \in {"idle", "arm", "gone", "wait", "unplug", "closed"}
    BY DEF FlowInv
  <2>5. \/ Flows(t, back[t], after[t], "idle")
        \/ activeKey # NoKey /\ Flows(t, "drop", "release", back[t])
    BY <2>1, ReleaseFlows
  <2> QED BY <1>3, <2>2, <2>3, <2>4, <2>5, QuietCapture
<1> QED BY <1>2, <1>3

LEMMA StartCapture ==
  ASSUME TypeOK, FlowInv, SlotInv, DogInv, ~crossed', Opening, Recorded, Ended,
         Open \/ Launch \/ LaunchFails \/ Claim \/ Guard
  PROVE  Opening' /\ Recorded' /\ Ended'
<1> USE Threads
<1>1. CASE Open
  <2>1. /\ pc[Worker] = "open" /\ ~recording /\ tape' = tape + 1 /\ evdev' = tape + 1
        /\ recording' /\ ~sealed' /\ \A t \in Thread : ~Stopping(t)
        /\ UNCHANGED <<running, activeKey>>
    BY <1>1 DEF Open, sessionVars
  <2>2. Flows(Worker, "launch", after[Worker], back[Worker])
    BY <1>1, GoFlows DEF Open, Label
  <2>3. activeKey = NoKey
    BY <2>1 DEF SlotInv
  <2>4. running = {}
    BY <2>1, <2>3 DEF Ended, Stopping
  <2>5. pc'[Worker] = "launch" /\ \A t \in Thread : ~Stopping(t)'
    BY <2>1, <2>2 DEF Stopping, Flows
  <2> QED BY <2>1, <2>3, <2>4, <2>5 DEF Opening, Recorded, Ended, CaptureOn
<1>2. CASE Launch
  <2>1. /\ pc[Worker] = "launch" /\ running' = running \cup {evdev}
        /\ UNCHANGED <<recording, sealed, evdev, tape, activeKey>>
    BY <1>2 DEF Launch, sessionVars
  <2>2. Flows(Worker, "claim", after[Worker], back[Worker])
    BY <1>2, GoFlows DEF Launch, Label
  <2>3. CaptureOn /\ running = {} /\ \A t \in Thread : ~Stopping(t)
    BY <2>1 DEF Opening
  <2>4. activeKey = NoKey
    BY <2>1 DEF SlotInv
  <2>5. pc'[Worker] = "claim" /\ \A t \in Thread : ~Stopping(t)'
    BY <2>2, <2>3 DEF Stopping, Flows
  <2> QED BY <2>1, <2>3, <2>4, <2>5 DEF Opening, Recorded, Ended, CaptureOn
<1>3. CASE LaunchFails
  <2>1. pc[Worker] = "launch" /\ ~recording' /\ UNCHANGED <<running, activeKey>>
    BY <1>3 DEF LaunchFails, sessionVars
  <2>2. pc'[Worker] = "flash"
    BY <1>3, GoFlows DEF LaunchFails, Label, Flows
  <2>3. running = {} /\ activeKey = NoKey
    BY <2>1 DEF Opening, SlotInv
  <2> QED BY <2>1, <2>2, <2>3 DEF Opening, Recorded, Ended
<1>4. CASE Claim
  <2>1. pc[Worker] = "claim" /\ UNCHANGED recorderVars
    BY <1>4 DEF Claim
  <2>2. Flows(Worker, "recheck", after[Worker], back[Worker])
    BY <1>4, GoFlows DEF Claim, Label
  <2>3. CaptureOn /\ running = {tape} /\ \A t \in Thread : ~Stopping(t)
    BY <2>1 DEF Opening
  <2>4. activeKey' # NoKey
    BY <1>4, <2>1, Slots DEF Claim, SlotInv, Request
  <2>5. pc'[Worker] = "recheck" /\ \A t \in Thread : ~Stopping(t)'
    BY <2>2, <2>3 DEF Stopping, Flows
  <2> QED BY <2>1, <2>3, <2>4, <2>5 DEF Opening, Recorded, Ended, CaptureOn, Early,
                                       Stopping, recorderVars
<1>5. CASE Guard
  <2>1. /\ pc[Worker] = "guard" /\ watchStop' = tape
        /\ UNCHANGED <<activeKey, recording, evdev, running, sealed, tape>>
    BY <1>5 DEF Guard, recorderVars
  <2>2. watchStop < tape
    BY <2>1 DEF DogInv, Starting
  <2>3. tape \in Number /\ ~(tape <= watchStop)
    BY <2>2, SessionAssumption DEF TypeOK, Number
  <2>4. pc[Watchdog(tape)] = "idle"
    BY <2>3 DEF DogInv
  <2>5. /\ pc'[Worker] = "idle" /\ pc'[Watchdog(tape)] = "wait"
        /\ \A t \in Thread \ {Worker, Watchdog(tape)} : pc'[t] = pc[t]
    BY <1>5, <2>3 DEF Guard, TypeOK
  <2>6. /\ \A t \in Thread : pc'[t] \in {"drop", "seal", "join", "forget"} => pc'[t] = pc[t]
        /\ \A t \in Thread : pc[t] \in {"drop", "seal", "join", "forget"} => pc'[t] = pc[t]
    BY <2>1, <2>4, <2>5
  <2> QED BY <2>1, <2>5, <2>6 DEF Opening, Recorded, Ended, CaptureOn
<1> QED BY <1>1, <1>2, <1>3, <1>4, <1>5

LEMMA WorkCapture ==
  ASSUME TypeOK, FlowInv, SlotInv, DogInv, ~crossed', Opening, Recorded, Ended, Work
  PROVE  Opening' /\ Recorded' /\ Ended'
<1> USE Threads
<1>1. CASE Open \/ Launch \/ LaunchFails \/ Claim \/ Guard
  BY <1>1, StartCapture
<1>2. CASE Take \/ Handle \/ Start \/ OpenRefused \/ Keep
  <2>1. PICK l \in {"idle", "handle", "finish", "flash", "open"} :
          Flows(Worker, l, after[Worker], back[Worker])
    BY <1>2, GoFlows DEF Take, Handle, Start, OpenRefused, Keep, Label
  <2>2. /\ pc[Worker] \in {"idle", "handle", "open", "keep"}
        /\ UNCHANGED <<activeKey, watchStop, recorderVars>>
    BY <1>2 DEF Take, Handle, Start, OpenRefused, Keep, sessionVars
  <2>3. activeKey # NoKey => watchStop = tape
    BY <2>2 DEF Recorded, Early
  <2> QED BY <2>1, <2>2, <2>3, QuietCapture DEF Stopping
<1>3. CASE Recheck \/ Show \/ Flash
  <2>1. /\ pc[Worker] \in {"recheck", "show", "flash"}
        /\ \/ \E l \in {"idle", "show", "arm"} :
                /\ Flows(Worker, l, after[Worker], back[Worker])
                /\ pc[Worker] = "recheck" => l = "show" \/ activeKey = NoKey
                /\ pc[Worker] = "show" => l = "arm"
           \/ \E b \in {"idle", "arm"} :
                Flows(Worker, "drop", "release", b) /\ activeKey # NoKey
    BY <1>3, GoFlows, AbortFlows, SendFlows DEF Recheck, Show, Flash, Label
  <2>2. UNCHANGED <<activeKey, watchStop, recorderVars>>
    BY <1>3 DEF Recheck, Show, Flash, sessionVars
  <2>3. activeKey # NoKey /\ pc[Worker] = "flash" => watchStop = tape
    BY DEF Recorded, Early
  <2> QED BY <2>1, <2>2, <2>3, QuietCapture DEF Stopping, Early
<1>4. CASE Arm
  <2>1. PICK l \in {"idle", "guard"} :
          /\ Flows(Worker, l, after[Worker], back[Worker])
          /\ l = "idle" => activeKey = NoKey
    BY <1>4, GoFlows DEF Arm, Label
  <2>2. pc[Worker] = "arm" /\ UNCHANGED <<activeKey, watchStop, recorderVars>>
    BY <1>4 DEF Arm, sessionVars
  <2> QED BY <2>1, <2>2, QuietCapture DEF Stopping, Early
<1>5. CASE Finish
  <2>1. pc[Worker] = "finish" /\ UNCHANGED <<activeKey, watchStop, recorderVars>>
    BY <1>5 DEF Finish, sessionVars
  <2>2. IF activeKey = NoKey THEN Flows(Worker, "idle", after[Worker], back[Worker])
                             ELSE Flows(Worker, "drop", "keep", back[Worker])
    <3>1. {"idle", "drop", "keep"} \subseteq Label
      BY DEF Label
    <3> QED BY <1>5, <3>1, GoFlows DEF Finish, Flows, TypeOK
  <2> QED BY <2>1, <2>2, QuietCapture DEF Stopping, Early
<1>6. CASE Abort(Worker)
  BY <1>6, AbortCapture
<1> QED BY <1>1, <1>2, <1>3, <1>4, <1>5, <1>6 DEF Work

LEMMA RestCapture ==
  ASSUME TypeOK, FlowInv, SlotInv, ~crossed', Opening, Recorded, Ended, [Next]_vars, ~Work
  PROVE  Opening' /\ Recorded' /\ Ended'
<1> USE Threads
<1>1. ASSUME NEW t \in Thread, Abort(t) PROVE Opening' /\ Recorded' /\ Ended'
  BY <1>1, AbortCapture
<1>2. ASSUME NEW n \in Number, Wakes(n) \/ Looks(n) PROVE Opening' /\ Recorded' /\ Ended'
  <2>1. UNCHANGED <<activeKey, watchStop, recorderVars>> /\ ~Stopping(Watchdog(n))
    BY <1>2, WatchMoves DEF sessionVars, Stopping
  <2>2. PICK p \in {"gone", "look", "wait", "drop"} : \E a, b :
          Flows(Watchdog(n), p, a, b) /\ (p = "drop" => activeKey # NoKey)
    BY <1>2, WatchMoves
  <2> QED BY <2>1, <2>2, QuietCapture
<1>3. ASSUME NEW t \in {Reader, Window},
             \/ t = Reader /\ LinkLost
             \/ t = Window /\ (Cancel \/ Disconnect \/ Close \/ Unplug \/ Closed)
             \/ t = Window /\ Closing /\ ~(activeKey = NoKey /\ recording)
      PROVE  Opening' /\ Recorded' /\ Ended'
  <2>1. UNCHANGED <<activeKey, watchStop, recorderVars>> /\ ~Stopping(t)
    BY <1>3, OtherMoves DEF sessionVars, Stopping
  <2>2. PICK p \in {"idle", "gone", "unplug", "closing", "closed", "drop"} : \E a, b :
          Flows(t, p, a, b) /\ (p = "drop" => activeKey # NoKey)
    BY <1>3, OtherMoves
  <2> QED BY <2>1, <2>2, QuietCapture
<1>4. CASE CrossingStop
  BY <1>4 DEF CrossingStop, Closing
<1>5. CASE Aloof
  <2>1. UNCHANGED <<pc, activeKey, watchStop, recorderVars>>
    BY <1>5, AloofKeeps DEF flowVars
  <2> QED BY <2>1 DEF Opening, Recorded, Ended, CaptureOn, Stopping, recorderVars
<1> QED BY <1>1, <1>2, <1>3, <1>4, <1>5, Steps

LEMMA CrossedStays ==
  ASSUME [Next]_vars, ~crossed'
  PROVE  ~crossed
<1>1. CASE Work
  <2>1. Open \/ UNCHANGED crossed
    BY <1>1 DEF Work, Take, Handle, Start, OpenRefused, Launch, LaunchFails, Claim, Recheck,
                Show, Arm, Guard, Finish, Keep, Flash, Abort, Drop, Seal, Join, Forget, Release
  <2>2. CASE Open
    <3>1. crossed' = (crossed \/ \E t \in Thread : Stopping(t))
      BY <2>2 DEF Open
    <3> QED BY <3>1, Zenon
  <2> QED BY <2>1, <2>2
<1>2. CASE CrossingStop
  BY <1>2 DEF CrossingStop, Closing
<1>3. CASE ~Work /\ ~CrossingStop
  <2>1. UNCHANGED crossed
    BY <1>3, Steps, AloofKeeps
       DEF Abort, Drop, Seal, Join, Forget, Release, Wakes, Looks, LinkLost, Cancel, Disconnect,
           Close, Unplug, Closed, Closing
  <2> QED BY <2>1
<1> QED BY <1>1, <1>2, <1>3

---------------------------------------------------------------------------
(* The inductive invariant                                                   *)

LEMMA InitInv == Init => IInv
<1> SUFFICES ASSUME Init PROVE IInv
  OBVIOUS
<1>1. TypeOK
  <2>1. /\ link \in BOOLEAN /\ closed \in BOOLEAN /\ overdue \in BOOLEAN
        /\ recording \in BOOLEAN /\ sealed \in BOOLEAN /\ crossed \in BOOLEAN
    BY DEF Init
  <2>2. /\ pc \in [Thread -> Label] /\ after \in [Thread -> Label]
        /\ back \in [Thread -> Label]
    BY DEF Init, Label
  <2>3. queue \in Seq(Request)
    BY DEF Init
  <2> QED BY <2>1, <2>2, <2>3 DEF Init, TypeOK
<1>2. FlowInv
  BY Threads DEF Init, FlowInv
<1>3. SlotInv
  BY Threads DEF Init, SlotInv
<1>4. DogInv
  BY Threads DEF Init, DogInv, Starting
<1>5. CaptureInv
  BY Threads DEF Init, CaptureInv, Opening, Recorded, Ended
<1> QED BY <1>1, <1>2, <1>3, <1>4, <1>5 DEF IInv

LEMMA StepInv == IInv /\ [Next]_vars => IInv'
<1> SUFFICES ASSUME IInv, [Next]_vars PROVE IInv'
  OBVIOUS
<1> USE DEF IInv
<1>1. CASE Work
  <2>1. CaptureInv'
    BY <1>1, WorkCapture, CrossedStays DEF CaptureInv
  <2> QED BY <1>1, <2>1, WorkType, WorkFlow, WorkSlot, WorkDog
<1>2. CASE ~Work
  <2>1. CaptureInv'
    BY <1>2, RestCapture, CrossedStays DEF CaptureInv
  <2> QED BY <1>2, <2>1, RestType, RestFlow, RestSlot, RestDog
<1> QED BY <1>1, <1>2

LEMMA Invariance == Spec => []IInv
  BY InitInv, StepInv, PTL DEF Spec

(* Every variable keeps its type (TypeOK), for any keys, and any number of    *)
(* recordings and requests.                                                  *)
THEOREM TypeCorrect == Spec => []TypeOK
<1>1. IInv => TypeOK
  BY DEF IInv
<1> QED BY <1>1, Invariance, PTL

(* A recording is stored in the slot it was started for, whichever request    *)
(* ends it and whatever aborts meanwhile: _finish reads the gesture after the *)
(* key has been given up, and no _start has come between (session.py).       *)
THEOREM StoredInItsSlot == Spec => []StoredWhereStarted
<1>1. IInv => StoredWhereStarted
  BY DEF IInv, SlotInv, StoredWhereStarted
<1> QED BY <1>1, Invariance, PTL

(* However many aborts, finishes and restarts cross, at most one watchdog     *)
(* still has its event clear: _start_watchdog gives every one its own.       *)
THEOREM NoSecondWatchdog == Spec => []OneWatchdog
<1>1. IInv => OneWatchdog
  <2>1. SUFFICES ASSUME IInv PROVE OneWatchdog
    OBVIOUS
  <2> DEFINE dogs == {n \in Number : pc[Watchdog(n)] \in {"wait", "look"} /\ n \notin stopped}
  <2>2. dogs \subseteq {watchStop}
    BY <2>1 DEF IInv, DogInv
  <2>3. IsFiniteSet({watchStop}) /\ Cardinality({watchStop}) = 1
    BY FS_Singleton
  <2>4. IsFiniteSet(dogs) /\ Cardinality(dogs) <= 1
    BY <2>2, <2>3, FS_Subset
  <2> QED BY <2>4 DEF OneWatchdog
<1> QED BY <1>1, Invariance, PTL

(* Unless a stop overlapped the start of another recording: once every start  *)
(* and stop is over, capture runs, and keeps what it is given, exactly while  *)
(* a key is being recorded, and the watchdog that can end it is that key's.  *)
THEOREM CaptureFollowsSession == Spec => []CaptureMatchesSession
<1>1. IInv => CaptureMatchesSession
  <2>1. SUFFICES ASSUME IInv PROVE CaptureMatchesSession
    OBVIOUS
  <2>2. StoredWhereStarted
    BY <2>1 DEF IInv, SlotInv, StoredWhereStarted
  <2>3. ASSUME Settled, ~crossed, activeKey = NoKey PROVE ~recording /\ running = {}
    BY <2>1, <2>3 DEF IInv, CaptureInv, Ended, Settled, Stopping
  <2>4. ASSUME Settled, ~crossed, activeKey # NoKey
        PROVE  /\ recording /\ ~sealed
               /\ running = {tape} /\ evdev = tape
               /\ watchStop = tape
    BY <2>1, <2>4 DEF IInv, CaptureInv, Recorded, CaptureOn, Settled, Early
  <2> QED BY <2>2, <2>3, <2>4 DEF CaptureMatchesSession
<1> QED BY <1>1, Invariance, PTL

=============================================================================
