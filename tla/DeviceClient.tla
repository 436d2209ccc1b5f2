---------------------------- MODULE DeviceClient ----------------------------
(***************************************************************************)
(* The host's end of the serial link (macrokey/device/client.py) against   *)
(* what it needs of the pad's end (SerialProtocol.cpp).  Four kinds of     *)
(* thread share one client: callers that write or read a profile or send a *)
(* single request; a connector; a window that disconnects; and a reader    *)
(* per link, whose thread bears the link's number.  An old reader can      *)
(* outlive its link.                                                       *)
(*                                                                         *)
(* Requests and answers are lines without a number.  A line is modelled by *)
(* its verb, its sequence number where it has one, and the profile it is   *)
(* about; a profile is named after the caller that wrote it, and stands    *)
(* for its own checksum.                                                   *)
(***************************************************************************)
EXTENDS Integers, Sequences, SequencesExt, FiniteSets

CONSTANTS
  CALLERS,    \* threads that use the client: the window's workers, the recorder
  CONNECTOR,  \* the thread inside connect()
  WINDOW,     \* the thread inside disconnect()
  NONE,
  KINDS,      \* the calls they make: a write, a read, a single request
  SESSIONS,   \* whether this is the editor, or a command without one
  CHUNKS,     \* data lines a profile takes
  MAX_LINKS,  \* bound: ports opened, or tried in vain
  MAX_CALLS,  \* bound: calls of the callers
  MAX_LATE,   \* bound: time-outs of the callers
  MAX_DISCONNECTS, \* bound: calls of disconnect()
  MAX_UNPLUGS, \* bound: times the cable goes
  MAX_EVENTS  \* bound: record requests the pad raises

ASSUME ClientAssumption ==
  /\ KINDS \subseteq {"write", "read", "request"}
  /\ SESSIONS \subseteq BOOLEAN
  /\ CHUNKS \in Nat \ {0}
  /\ MAX_LINKS \in Nat
  /\ MAX_CALLS \in Nat
  /\ MAX_LATE \in Nat
  /\ MAX_DISCONNECTS \in Nat
  /\ MAX_UNPLUGS \in Nat
  /\ MAX_EVENTS \in Nat
  /\ CALLERS \cap (1 .. MAX_LINKS) = {}
  /\ CONNECTOR \notin CALLERS \cup (1 .. MAX_LINKS)
  /\ WINDOW \notin CALLERS \cup (1 .. MAX_LINKS) \cup {CONNECTOR}
  /\ NONE \notin CALLERS \cup (1 .. MAX_LINKS) \cup {CONNECTOR, WINDOW}

Port == 1 .. MAX_LINKS
Thread == CALLERS \cup {CONNECTOR, WINDOW} \cup Port
Profile == CALLERS \cup {NONE}

Line(verb, seq, profile) == [verb |-> verb, seq |-> seq, profile |-> profile]
Word(verb) == Line(verb, 0, NONE)
LinkLost == Word("lost")

\* The lines of a write: begin, the chunks in order, commit.
WriteLines(t) ==
  <<Line("begin", 0, t)>>
    \o [i \in 1 .. CHUNKS |-> Line("data", i, t)]
    \o <<Line("commit", 0, t)>>

\* What the pad sends of the profile it stores.
ReadLines(profile) ==
  <<Line("begin", 0, profile)>>
    \o [i \in 1 .. CHUNKS |-> Line("data", i, profile)]
    \o <<Line("end", 0, profile)>>

\* What the app sends when a recording is dropped, and when nobody can record.
ReleaseLight == <<Word("led")>>
NobodyListens == <<Word("led"), Word("led")>>

VARIABLES
  session,     \* a recording session exists: this is the editor
  plugged,     \* the pad is there
  serial,      \* self._serial
  hello,       \* self.hello is set
  cancel,      \* self._connect_cancel
  opened,      \* how many ports were opened, or tried in vain
  broken,      \* the ports whose pad is gone
  stop,        \* the ports whose stop event is set; they are closed, too
  down,        \* lines on their way to the pad
  up,          \* lines of the pad no reader has read yet
  hand,        \* lines each reader has read and not dispatched
  responses,   \* self._responses
  lock,        \* the owner of self._request_lock, which is re-entrant
  profileLock, \* the owner of self._profile_lock
  pc,          \* where each thread is
  todo,        \* the lines each thread has yet to have answered
  begun,       \* how many calls the callers have begun
  late,        \* how many of them timed out
  sentOn,      \* the port each thread last wrote to
  drop,        \* the arguments of the _drop_link each thread runs
  nested,      \* the threads that run on_disconnect
  told,        \* the links reported lost
  blob,        \* reading a profile: what the lines so far are of
  want,        \*   and the chunk that comes next, 0 before the header
  stage,       \* the pad's staged profile: whose, and the chunks it holds
  turn,        \*   and whose line of a transfer it took last since it was plugged in
  stored,      \* the profile the pad stores
  kept,        \* the profiles the pad stored since the last write began
  crossed,     \* one of that write's lines went out with an older one still under way
  events,      \* how many record requests the pad has raised
  unplugs,     \* how often the cable went
  disconnects  \* how often disconnect() was called

link == <<plugged, opened, broken, unplugs>>
client == <<serial, hello, stop>>
wire == <<down, up, hand>>
counts == <<begun, late>>
calls == <<todo, counts, sentOn, nested>>
dropping == <<drop, told>>
transfer == <<profileLock, blob, want, kept, crossed>>
pad == <<stage, turn, stored, events>>
steady == <<session, cancel, disconnects>>
vars == <<steady, link, client, wire, responses, lock, pc, calls,
          dropping, transfer, pad>>

NoStage == [by |-> NONE, got |-> [i \in 1 .. CHUNKS |-> NONE]]
AnyPort == [port |-> NONE, notify |-> FALSE]
Lost(port) == [port |-> port, notify |-> TRUE]

Init ==
  /\ session \in SESSIONS
  /\ plugged = TRUE
  /\ serial = NONE
  /\ hello = FALSE
  /\ cancel = FALSE
  /\ opened = 0
  /\ broken = {}
  /\ stop = {}
  /\ down = <<>>
  /\ up = <<>>
  /\ hand = [g \in Port |-> <<>>]
  /\ responses = <<>>
  /\ lock = NONE
  /\ profileLock = NONE
  /\ pc = [t \in Thread |-> "idle"]
  /\ todo = [t \in Thread |-> <<>>]
  /\ begun = 0
  /\ late = 0
  /\ sentOn = [t \in Thread |-> NONE]
  /\ drop = [t \in Thread |-> AnyPort]
  /\ nested = {}
  /\ told = {}
  /\ blob = {}
  /\ want = 0
  /\ stage = NoStage
  /\ turn = NONE
  /\ stored = NONE
  /\ kept = {}
  /\ crossed = FALSE
  /\ events = 0
  /\ unplugs = 0
  /\ disconnects = 0

Goto(t, label) == pc' = [pc EXCEPT ![t] = label]
Closed(g) == g \in stop

-----------------------------------------------------------------------------
(* Requests *)

\* A caller that is not in a call begins one.
Begin(t, kind, lines) ==
  /\ kind \in KINDS
  /\ pc[t] = "idle"
  /\ begun < MAX_CALLS
  /\ begun' = begun + 1
  /\ UNCHANGED late
  /\ todo' = [todo EXCEPT ![t] = lines]
  /\ Goto(t, "send")

\* Mutant: a write does not wait for the transfer before it.
StartWriteUnlocked(t) ==
  /\ Begin(t, "write", WriteLines(t))
  /\ profileLock' = t
  /\ kept' = {}
  /\ crossed' = FALSE
  /\ blob' = {}
  /\ want' = 0
  /\ UNCHANGED <<steady, link, client, wire, responses, lock, sentOn, nested,
                 dropping, pad>>

StartWrite(t) ==
  /\ Begin(t, "write", WriteLines(t))
  /\ profileLock = NONE
  /\ profileLock' = t
  /\ kept' = {}
  /\ crossed' = FALSE
  /\ blob' = {}
  /\ want' = 0
  /\ UNCHANGED <<steady, link, client, wire, responses, lock, sentOn,
                 nested, dropping, pad>>

StartRead(t) ==
  /\ Begin(t, "read", <<Word("read")>>)
  /\ profileLock = NONE
  /\ profileLock' = t
  /\ blob' = {}
  /\ want' = 0
  /\ UNCHANGED <<steady, link, client, wire, responses, lock, sentOn,
                 nested, dropping, kept, crossed, pad>>

\* A light, a ping, a save: one line, answered by OK.
StartRequest(t) ==
  /\ Begin(t, "request", <<Word("led")>>)
  /\ UNCHANGED <<steady, link, client, wire, responses, lock, sentOn,
                 nested, dropping, transfer, pad>>

\* How a call ends: it leaves every lock on its way.  connect() cleans up after a
\* failure; the reader goes back to reading.
Leave(t, label) ==
  /\ lock' = IF lock = t THEN NONE ELSE lock
  /\ profileLock' = IF profileLock = t THEN NONE ELSE profileLock
  /\ todo' = [todo EXCEPT ![t] = <<>>]
  /\ sentOn' = [sentOn EXCEPT ![t] = NONE]
  /\ nested' = nested \ {t}
  /\ drop' = [drop EXCEPT ![t] = AnyPort]
  /\ Goto(t, label)

Raise(t) ==
  Leave(t, CASE t \in Port -> "read"
             [] t = CONNECTOR -> "detach"
             [] OTHER -> "idle")

\* A line that could be answered as the next one, or an answer that could be taken
\* for its answer, is somewhere between the pad and the queue of answers.
UnderWay ==
  \E line \in ToSet(down) \cup ToSet(up) \cup UNION {ToSet(hand[g]) : g \in Port} :
    line.verb \notin {"EV", "ident", "HELLO"}

\* The queue of answers is emptied and the line is sent: without a port send()
\* raises, and a write that fails loses the link.  What reaches the queue in between
\* could reach it just after, so this is one step.
FlushAndSend(t) ==
  /\ pc[t] = "send"
  /\ responses' = <<>>
  /\ crossed' = (crossed \/ (profileLock = t /\ UnderWay))
  /\ \/ /\ serial = NONE
        /\ Raise(t)
        /\ UNCHANGED down
     \/ /\ serial \in broken
        /\ lock' = t
        /\ drop' = [drop EXCEPT ![t] = Lost(serial)]
        /\ Goto(t, "detach")
        /\ UNCHANGED <<down, profileLock, todo, sentOn, nested>>
     \/ /\ serial \in Port \ broken
        /\ lock' = t
        /\ down' = Append(down, Head(todo[t]))
        /\ sentOn' = [sentOn EXCEPT ![t] = serial]
        /\ Goto(t, "wait")
        /\ UNCHANGED <<profileLock, todo, nested, drop>>
  /\ UNCHANGED <<steady, counts, link, client, up, hand, told, blob, want, kept, pad>>

\* Mutant: requests do not exclude each other.
SendUnlocked(t) == FlushAndSend(t)

\* Mutant: the lock is a plain one.
SendNotReentrant(t) == lock = NONE /\ FlushAndSend(t)

\* The request lock admits the thread that holds it already.
Send(t) == lock \in {NONE, t} /\ FlushAndSend(t)

Expected(line) == IF line.verb = "ident" THEN "HELLO" ELSE "OK"

\* A line is answered: the lock is free again, and the call goes on with its
\* next line if it has one.  on_disconnect runs inside the send that failed,
\* and once it is through, that raises.
Answered(t) ==
  \/ /\ t \in nested
     /\ Raise(t)
  \/ /\ t \notin nested
     /\ lock' = NONE
     /\ todo' = [todo EXCEPT ![t] = Tail(@)]
     /\ Goto(t, CASE Len(todo[t]) > 1 -> "send"
                  [] t = CONNECTOR -> "identified"
                  [] OTHER -> "done")
     /\ UNCHANGED <<profileLock, sentOn, nested, drop>>

\* The wait goes on: this was a stale reply of an earlier exchange.
Ignored == UNCHANGED <<lock, profileLock, todo, sentOn, nested, drop, pc>>

\* One turn of request()'s loop.
GetAnswer(t) ==
  /\ pc[t] = "wait"
  /\ Head(todo[t]).verb # "read"
  /\ responses # <<>>
  /\ responses' = Tail(responses)
  /\ LET answer == Head(responses).verb
         expected == Expected(Head(todo[t]))
     IN \/ answer \in {"lost", "ERR"} /\ Raise(t)
        \/ answer = expected /\ Answered(t)
        \/ answer \notin {"lost", "ERR", expected} /\ Ignored
  /\ UNCHANGED <<steady, counts, link, client, wire, told, blob, want, kept, crossed, pad>>

\* One turn of _read_profile_locked()'s loop: the header once and first, the
\* chunks in order, the checksum at the end; what is not of a profile is skipped,
\* a refusal included.
GetProfileLine(t) ==
  /\ pc[t] = "wait"
  /\ Head(todo[t]).verb = "read"
  /\ responses # <<>>
  /\ responses' = Tail(responses)
  /\ LET line == Head(responses)
         fits == CASE line.verb = "begin" -> want = 0
                   [] line.verb = "data" -> want > 0 /\ line.seq = want
                   [] line.verb = "end" -> want = CHUNKS + 1 /\ Cardinality(blob) = 1
                   [] OTHER -> FALSE
     IN \/ /\ line.verb \in {"begin", "data"} /\ fits
           /\ want' = want + 1
           /\ blob' = blob \cup {line.profile}
           /\ Ignored
        \/ /\ line.verb = "end" /\ fits
           /\ Answered(t)
           /\ UNCHANGED <<want, blob>>
        \/ /\ line.verb \in {"begin", "data", "end", "lost"} /\ ~fits
           /\ Raise(t)
           /\ UNCHANGED <<want, blob>>
        \/ /\ line.verb \in {"OK", "ERR", "HELLO"}
           /\ Ignored
           /\ UNCHANGED <<want, blob>>
  /\ UNCHANGED <<steady, counts, link, client, wire, told, kept, crossed, pad>>

\* The deadline is looked at before the queue is.
TimeOut(t) ==
  /\ pc[t] = "wait"
  /\ \/ t \in CALLERS /\ late < MAX_LATE /\ late' = late + 1
     \/ t \notin CALLERS /\ UNCHANGED late
  /\ Raise(t)
  /\ UNCHANGED <<steady, begun, link, client, wire, responses, told, blob, want,
                 kept, crossed, pad>>

Return(t) ==
  /\ pc[t] = "done"
  /\ Leave(t, IF t \in Port THEN "read" ELSE "idle")
  /\ UNCHANGED <<steady, counts, link, client, wire, responses, told, blob, want,
                 kept, crossed, pad>>

-----------------------------------------------------------------------------
(* Losing the link: _drop_link() *)

\* Mutant: a late failure takes down whatever link there is.
DetachWhatever(t) ==
  /\ pc[t] = "detach"
  /\ stop' = stop \cup ({opened} \cap Port)
  /\ serial' = NONE
  /\ hello' = FALSE
  /\ drop' = [drop EXCEPT ![t].notify = @ /\ hello]
  /\ Goto(t, "wake")
  /\ UNCHANGED <<lock, profileLock, todo, sentOn, nested>>
  /\ UNCHANGED <<steady, counts, link, wire, responses, told, blob, want, kept, crossed, pad>>

\* Under the state lock: nothing if another link has replaced the one that
\* failed, and the call that lost it raises; else the link is detached, and its
\* port closed.
Detach(t) ==
  /\ pc[t] = "detach"
  /\ \/ /\ drop[t].port \notin {NONE, serial}
        /\ Raise(t)
        /\ UNCHANGED client
     \/ /\ drop[t].port \in {NONE, serial}
        /\ stop' = stop \cup ({opened} \cap Port)
        /\ serial' = NONE
        /\ hello' = FALSE
        /\ drop' = [drop EXCEPT ![t].notify = @ /\ hello]
        /\ Goto(t, "wake")
        /\ UNCHANGED <<lock, profileLock, todo, sentOn, nested>>
  /\ UNCHANGED <<steady, counts, link, wire, responses, told, blob, want, kept, crossed, pad>>

\* Mutant: a request that waits is left to its time-out.
PutNothing == UNCHANGED responses

\* A request that waits is told, instead of waiting for its time-out.
PutMark == responses' = Append(responses, LinkLost)

\* The loss of an established link is reported, and on_disconnect runs on this
\* thread.  If it finds a recording to abort, it releases the light; there is
\* none to abort when it runs inside itself.
Report(t) ==
  /\ pc[t] = "wake"
  /\ drop[t].notify
  /\ PutMark
  /\ told' = told \cup {drop[t].port}
  /\ \/ Raise(t)
     \/ /\ session
        /\ t \notin nested
        /\ nested' = nested \cup {t}
        /\ todo' = [todo EXCEPT ![t] = ReleaseLight]
        /\ Goto(t, "send")
        /\ UNCHANGED <<lock, profileLock, sentOn, drop>>
  /\ UNCHANGED <<steady, counts, link, client, wire, blob, want, kept, crossed, pad>>

\* Nobody is told: the call that lost the link raises, disconnect() returns, and
\* connect() goes on to the next candidate, if there is one.
Wake(t) ==
  /\ pc[t] = "wake"
  /\ ~drop[t].notify
  /\ PutMark
  /\ \/ /\ drop[t] # AnyPort
        /\ Raise(t)
     \/ /\ drop[t] = AnyPort
        /\ \/ Goto(t, "idle")
           \/ t = CONNECTOR /\ ~cancel /\ opened < MAX_LINKS /\ Goto(t, "candidate")
        /\ UNCHANGED <<lock, profileLock, todo, sentOn, nested, drop>>
  /\ UNCHANGED <<steady, counts, link, client, wire, told, blob, want, kept, crossed, pad>>

Disconnect ==
  /\ pc[WINDOW] = "idle"
  /\ disconnects < MAX_DISCONNECTS
  /\ disconnects' = disconnects + 1
  /\ cancel' = TRUE
  /\ Goto(WINDOW, "detach")
  /\ UNCHANGED <<session, link, client, wire, responses, lock, calls, dropping,
                 transfer, pad>>

-----------------------------------------------------------------------------
(* Making the link: connect(), for one candidate at a time *)

StartConnect ==
  /\ pc[CONNECTOR] = "idle"
  /\ opened < MAX_LINKS
  /\ cancel' = FALSE
  /\ Goto(CONNECTOR, IF hello THEN "idle" ELSE "candidate")
  /\ UNCHANGED <<session, disconnects, link, client, wire, responses, lock, calls, dropping,
                 transfer, pad>>

NextCandidate ==
  /\ pc[CONNECTOR] = "candidate"
  /\ Goto(CONNECTOR, IF cancel THEN "idle" ELSE "open")
  /\ UNCHANGED <<steady, link, client, wire, responses, lock, calls,
                 dropping, transfer, pad>>

Open ==
  /\ pc[CONNECTOR] = "open"
  /\ opened' = opened + 1
  /\ IF plugged
     THEN serial' = opened + 1 /\ Goto(CONNECTOR, "settle")
     ELSE UNCHANGED serial /\ Goto(CONNECTOR, "detach")
  /\ UNCHANGED <<steady, plugged, broken, unplugs, hello, stop, wire, responses,
                 lock, calls, dropping, transfer, pad>>

\* The two seconds the pad takes; then the input that came in is thrown away, and
\* a reader is started.
Settle ==
  /\ pc[CONNECTOR] = "settle"
  /\ IF ~cancel /\ serial = opened /\ ~Closed(opened)
     THEN /\ up' = <<>>
          /\ pc' = [pc EXCEPT ![opened] = "read", ![CONNECTOR] = "send"]
          /\ todo' = [todo EXCEPT ![CONNECTOR] = <<Word("ident")>>]
     ELSE /\ Goto(CONNECTOR, "detach")
          /\ UNCHANGED <<up, todo>>
  /\ UNCHANGED <<steady, link, client, down, hand, responses, lock, counts, sentOn,
                 nested, dropping, transfer, pad>>

\* Mutant: whoever answered is the pad, though the link has gone.
IdentifiedUnchecked ==
  /\ pc[CONNECTOR] = "identified"
  /\ sentOn' = [sentOn EXCEPT ![CONNECTOR] = NONE]
  /\ hello' = TRUE
  /\ Goto(CONNECTOR, "idle")
  /\ UNCHANGED <<steady, counts, link, serial, stop, wire, responses, lock, todo,
                 nested, dropping, transfer, pad>>

\* The link may have gone while the pad introduced itself.
Identified ==
  /\ pc[CONNECTOR] = "identified"
  /\ sentOn' = [sentOn EXCEPT ![CONNECTOR] = NONE]
  /\ IF serial = opened
     THEN hello' = TRUE /\ Goto(CONNECTOR, "idle")
     ELSE UNCHANGED hello /\ Goto(CONNECTOR, "detach")
  /\ UNCHANGED <<steady, counts, link, serial, stop, wire, responses, lock, todo,
                 nested, dropping, transfer, pad>>

-----------------------------------------------------------------------------
(* The reader of link g *)

Read(g) ==
  /\ pc[g] = "read"
  /\ hand[g] = <<>>
  /\ ~Closed(g)
  /\ g \notin broken
  /\ up # <<>>
  /\ hand' = [hand EXCEPT ![g] = up]
  /\ up' = <<>>
  /\ UNCHANGED <<steady, link, client, down, responses, lock, pc, calls, dropping,
                 transfer, pad>>

\* Mutant: a reader whose read fails just ends.
ReadFailsQuietly(g) ==
  /\ pc[g] = "read"
  /\ hand[g] = <<>>
  /\ ~Closed(g)
  /\ g \in broken
  /\ Goto(g, "idle")
  /\ UNCHANGED <<steady, link, client, wire, responses, lock, calls, dropping,
                 transfer, pad>>

\* A read that fails loses the link, unless the link was closed meanwhile.
ReadFails(g) ==
  /\ pc[g] = "read"
  /\ hand[g] = <<>>
  /\ ~Closed(g)
  /\ g \in broken
  /\ drop' = [drop EXCEPT ![g] = Lost(g)]
  /\ Goto(g, "detach")
  /\ UNCHANGED <<steady, link, client, wire, responses, lock, calls, told,
                 transfer, pad>>

\* What was read is dispatched, whatever became of the link: answers go to the
\* queue.  A record request goes to the editor's worker; without an editor the
\* reader itself sets the light that says nobody listens.
Dispatch(g) ==
  /\ pc[g] = "read"
  /\ hand[g] # <<>>
  /\ hand' = [hand EXCEPT ![g] = Tail(@)]
  /\ LET line == Head(hand[g])
     IN \/ /\ line.verb # "EV" \/ session
           /\ responses' = IF line.verb = "EV" THEN responses ELSE Append(responses, line)
           /\ UNCHANGED <<pc, todo>>
        \/ /\ line.verb = "EV" /\ ~session
           /\ todo' = [todo EXCEPT ![g] = NobodyListens]
           /\ Goto(g, "send")
           /\ UNCHANGED responses
  /\ UNCHANGED <<steady, counts, link, client, down, up, lock, sentOn, nested,
                 dropping, transfer, pad>>

-----------------------------------------------------------------------------
(* The pad, and its cable *)

Reply(lines) ==
  /\ up' = up \o lines
  /\ down' = Tail(down)
  /\ UNCHANGED hand

AnswersWord(line) ==
  /\ line.verb \in {"ident", "led"}
  /\ Reply(<<Word(IF line.verb = "ident" THEN "HELLO" ELSE "OK")>>)
  /\ UNCHANGED <<stage, stored, kept>>

AnswersRead(line) ==
  /\ line.verb = "read"
  /\ Reply(ReadLines(stored))
  /\ UNCHANGED <<stage, stored, kept>>

AnswersBegin(line) ==
  /\ line.verb = "begin"
  /\ Reply(<<Word("OK")>>)
  /\ stage' = [NoStage EXCEPT !.by = line.profile]
  /\ UNCHANGED <<stored, kept>>

AnswersData(line) ==
  /\ line.verb = "data"
  /\ IF stage.by = NONE
     THEN Reply(<<Word("ERR")>>) /\ UNCHANGED stage
     ELSE /\ Reply(<<Word("OK")>>)
          /\ stage' = [stage EXCEPT !.got[line.seq] = line.profile]
  /\ UNCHANGED <<stored, kept>>

\* The checksum is the one begin announced; the stage is given up either way.
AnswersCommit(line) ==
  /\ line.verb = "commit"
  /\ stage' = NoStage
  /\ IF stage.by # NONE /\ \A i \in 1 .. CHUNKS : stage.got[i] = stage.by
     THEN /\ Reply(<<Word("OK")>>)
          /\ stored' = stage.by
          /\ kept' = kept \cup {stage.by}
     ELSE /\ Reply(<<Word("ERR")>>)
          /\ UNCHANGED <<stored, kept>>

\* While a macro runs the pad refuses what is not a question.
AnswersBusy(line) ==
  /\ line.verb # "ident"
  /\ Reply(<<Word("ERR")>>)
  /\ UNCHANGED <<stage, stored, kept>>

IsTransfer(line) == line.verb \in {"begin", "data", "commit"}

PadAnswers ==
  /\ plugged
  /\ down # <<>>
  /\ LET line == Head(down)
     IN \/ AnswersWord(line)
        \/ AnswersRead(line)
        \/ AnswersBegin(line)
        \/ AnswersData(line)
        \/ AnswersCommit(line)
        \/ AnswersBusy(line)
  /\ turn' = IF IsTransfer(Head(down)) THEN Head(down).profile ELSE turn
  /\ UNCHANGED <<steady, link, client, responses, lock, pc, calls,
                 dropping, profileLock, blob, want, crossed, events>>

\* A held key asks the host to record.
RecordRequest ==
  /\ plugged
  /\ events < MAX_EVENTS
  /\ events' = events + 1
  /\ up' = Append(up, Word("EV"))
  /\ UNCHANGED <<steady, link, client, down, hand, responses, lock, pc,
                 calls, dropping, transfer, stage, turn, stored>>

StageTick ==
  /\ stage # NoStage
  /\ stage' = NoStage
  /\ UNCHANGED <<steady, link, client, wire, responses, lock, pc, calls,
                 dropping, transfer, turn, stored, events>>

Unplug ==
  /\ plugged
  /\ unplugs < MAX_UNPLUGS
  /\ unplugs' = unplugs + 1
  /\ plugged' = FALSE
  /\ broken' = 1 .. opened
  /\ down' = <<>>
  /\ up' = <<>>
  /\ stage' = NoStage
  /\ turn' = NONE
  /\ UNCHANGED <<steady, opened, client, hand, responses, lock, pc,
                 calls, dropping, transfer, stored, events>>

Plug ==
  /\ ~plugged
  /\ plugged' = TRUE
  /\ UNCHANGED <<steady, opened, broken, unplugs, client, wire, responses, lock,
                 pc, calls, dropping, transfer, pad>>

-----------------------------------------------------------------------------
\* What a thread does once it is under way, as long as it is scheduled.
Proceed(t) ==
  \/ Send(t) \/ GetAnswer(t) \/ GetProfileLine(t) \/ TimeOut(t)
  \/ Return(t) \/ Detach(t) \/ Report(t) \/ Wake(t)

ConnectorProceeds ==
  \/ Proceed(CONNECTOR)
  \/ NextCandidate \/ Open \/ Settle \/ Identified

ReaderProceeds(g) ==
  \/ Proceed(g)
  \/ Read(g) \/ ReadFails(g) \/ Dispatch(g)

Next ==
  \/ \E t \in CALLERS : StartWrite(t) \/ StartRead(t) \/ StartRequest(t) \/ Proceed(t)
  \/ StartConnect \/ ConnectorProceeds
  \/ Disconnect \/ Proceed(WINDOW)
  \/ \E g \in Port : ReaderProceeds(g)
  \/ PadAnswers \/ RecordRequest \/ StageTick \/ Unplug \/ Plug

Spec == Init /\ [][Next]_vars

FairSpec ==
  /\ Spec
  /\ \A t \in CALLERS : WF_vars(Proceed(t))
  /\ WF_vars(ConnectorProceeds)
  /\ WF_vars(Proceed(WINDOW))
  /\ \A g \in Port : WF_vars(ReaderProceeds(g))

-----------------------------------------------------------------------------
Verb == {"begin", "data", "commit", "end", "read", "led", "ident",
         "OK", "ERR", "HELLO", "EV", "lost"}
Lines == [verb : Verb, seq : 0 .. CHUNKS, profile : Profile]
Label == {"idle", "send", "wait", "done", "detach", "wake",
          "candidate", "open", "settle", "identified", "read"}

TypeOK ==
  /\ {session, plugged, hello, cancel} \subseteq BOOLEAN
  /\ serial \in Port \cup {NONE}
  /\ opened \in 0 .. MAX_LINKS
  /\ broken \subseteq 1 .. opened
  /\ stop \subseteq 1 .. opened
  /\ {down, up, responses} \subseteq Seq(Lines)
  /\ hand \in [Port -> Seq(Lines)]
  /\ {lock, profileLock} \subseteq Thread \cup {NONE}
  /\ pc \in [Thread -> Label]
  /\ todo \in [Thread -> Seq(Lines)]
  /\ begun \in 0 .. MAX_CALLS
  /\ late \in 0 .. MAX_LATE
  /\ sentOn \in [Thread -> Port \cup {NONE}]
  /\ drop \in [Thread -> [port : Port \cup {NONE}, notify : BOOLEAN]]
  /\ nested \subseteq Thread
  /\ told \subseteq Port
  /\ blob \subseteq Profile
  /\ want \in 0 .. CHUNKS + 1
  /\ stage \in [by : Profile, got : [1 .. CHUNKS -> Profile]]
  /\ turn \in Profile
  /\ stored \in Profile
  /\ kept \subseteq Profile
  /\ crossed \in BOOLEAN
  /\ events \in 0 .. MAX_EVENTS
  /\ unplugs \in 0 .. MAX_UNPLUGS
  /\ disconnects \in 0 .. MAX_DISCONNECTS

\* Two transfers never interleave on their way to the pad, whatever timed out, was
\* refused or answered late, and whenever the cable went: a chunk or a commit follows
\* a line of its own transfer, unless the lines before it went with the cable.
\* (client.py:78, the profile lock.)
TransfersInTurn ==
  down # <<>> /\ Head(down).verb \in {"data", "commit"} =>
    turn \in {NONE, Head(down).profile}

\* What PROTOCOL.md says OK means after a commit: the pad took the profile.
\* (docs/PROTOCOL.md:158.)
ConfirmedIsStored ==
  \A t \in CALLERS :
    pc[t] = "done" /\ profileLock = t /\ want = 0 => t \in kept

\* An answer belongs to the request that waits for it: a write that reports success
\* was stored, whatever the other threads ask meanwhile, whatever the pad refuses and
\* whichever link it is, as long as each of its lines found nothing under way that an
\* earlier call had given up.  After that ConfirmedIsStored fails (README, known
\* disagreements).  (client.py:71, 348.)
ConfirmedUnlessCrossed == ~crossed => ConfirmedIsStored

\* Once disconnect() has returned, a connect() it overlapped does not bring the
\* link back.
DisconnectSticks == pc[WINDOW] = "idle" /\ cancel => ~hello

\* A working link goes only when someone asks for it: a late reader, or a write
\* that failed on an older port, leaves it alone.
OnlyBrokenLinksDropped ==
  [][hello /\ ~hello' /\ serial \notin broken => pc[WINDOW] = "detach"]_vars

\* A request whose link is gone does not wait for its time-out.
WaiterIsWoken ==
  \A t \in Thread :
    /\ pc[t] = "wait"
    /\ serial # sentOn[t]
    /\ \A u \in Thread : pc[u] # "wake"
    => LinkLost \in ToSet(responses)

\* Every request ends, and leaves the lock to the next: nobody waits for ever for
\* an answer, or for a lock it holds itself.
RequestsEnd == []<>(lock = NONE)

\* The loss of an established link is noticed though nobody uses it, and reported,
\* unless a disconnect() is at work on the same link.
LossIsReported ==
  hello /\ serial \in broken
    ~> told \cap broken # {} \/ pc[WINDOW] # "idle"

\* What the comment on requests says of the record worker: the reader does not
\* wait for an answer only it can deliver.  (app.py:176.) Not kept without a session
\* (README, known disagreements).
ReaderNeverWaitsForItself == \A g \in Port : pc[g] = "wait" => sentOn[g] # g

=============================================================================
