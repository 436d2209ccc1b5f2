------------------------- MODULE DeviceClientProofs -------------------------
(* What the client keeps for any number of callers, links, chunks and calls,  *)
(* with every thread at once and the cable pulled at any moment: the runs     *)
(* have two callers on one link, or one on two.                              *)
EXTENDS DeviceClient, TLAPS

(* Where each kind of thread can be.                                         *)
Ways(t) ==
  CASE t = WINDOW -> {"idle", "detach", "wake"}
    [] t = CONNECTOR -> Label \ {"done", "read"}
    [] OTHER -> {"idle", "send", "wait", "done", "detach", "wake", "read"}

ThreadInv ==
  /\ \A t \in Thread : pc[t] \in Ways(t)
  /\ \A t \in Thread : pc[t] \in {"send", "wait"} => todo[t] # <<>>
  /\ \A t \in Thread : pc[t] = "wait" => lock = t /\ sentOn[t] # NONE
  /\ drop[WINDOW] = AnyPort
  /\ pc[CONNECTOR] \in {"candidate", "open"} => opened < MAX_LINKS
  /\ pc[CONNECTOR] \in {"settle", "send", "wait", "identified"} => opened \in Port
  /\ \A g \in Port : g > opened => pc[g] = "idle"
  /\ pc[CONNECTOR] = "settle" => pc[opened] = "idle"

(* A thread that names the link it lost has seen it broken; only connect()    *)
(* and disconnect() take down whatever link there is.                        *)
DropInv ==
  /\ \A t \in Thread : drop[t].port # NONE => drop[t].port \in broken
  /\ \A t \in Thread : drop[t].notify => drop[t].port # NONE
  /\ \A t \in CALLERS \cup Port : pc[t] \in {"detach", "wake"} => drop[t].port # NONE
  /\ pc[CONNECTOR] = "wake" => ~drop[CONNECTOR].notify

(* There is a port while connect() works on it and as long as it is           *)
(* established, and after a disconnect() only until connect() notices.        *)
LinkInv ==
  /\ hello => pc[CONNECTOR] = "idle"
  /\ serial # NONE =>
       hello \/ pc[CONNECTOR] \in {"settle", "send", "wait", "identified", "detach"}
  /\ cancel /\ pc[WINDOW] # "detach" =>
       ~hello /\ (serial # NONE => pc[CONNECTOR] \in {"settle", "detach"})

(* The lines of a transfer belong to the caller that holds the profile lock.  *)
TodoInv ==
  \A t \in Thread : \A i \in DOMAIN todo[t] :
    IsTransfer(todo[t][i]) =>
      /\ profileLock = t
      /\ todo[t][i].profile = t
      /\ i > 1 => todo[t][i].verb # "begin" /\ IsTransfer(todo[t][i - 1])

(* Of the first n of these lines the last one of a transfer is of p's, or, if *)
(* there is none, the last the pad took was.                                 *)
Fits(lines, last, p, n) ==
  /\ \A j \in 1 .. n :
       IsTransfer(lines[j]) /\ (\A k \in j + 1 .. n : ~IsTransfer(lines[k]))
         => lines[j].profile = p
  /\ (\A j \in 1 .. n : ~IsTransfer(lines[j])) => last \in {NONE, p}

TurnInv ==
  /\ \A i \in 1 .. Len(down) :
       down[i].verb \in {"data", "commit"} => Fits(down, turn, down[i].profile, i - 1)
  /\ \A t \in Thread :
       todo[t] # <<>> /\ IsTransfer(todo[t][1])
         /\ (pc[t] = "wait" \/ todo[t][1].verb # "begin")
       => Fits(down, turn, t, Len(down))

IInv == TypeOK /\ ThreadInv /\ DropInv /\ LinkInv /\ WaiterIsWoken /\ TodoInv /\ TurnInv

---------------------------------------------------------------------------
(* Threads and lines                                                         *)

LEMMA Threads ==
  /\ CONNECTOR \in Thread /\ WINDOW \in Thread /\ CONNECTOR # WINDOW
  /\ NONE \notin Thread
  /\ \A t \in CALLERS \cup Port : t \in Thread /\ t # CONNECTOR /\ t # WINDOW
  /\ \A t \in CALLERS : t \notin Port /\ t \in Profile
  /\ \A t \in Thread : t \in CALLERS \cup Port \/ t = CONNECTOR \/ t = WINDOW
  /\ NONE \notin Port /\ NONE \in Profile
  BY ClientAssumption DEF Thread, Port, Profile

LEMMA Ports ==
  /\ MAX_LINKS \in Nat /\ CHUNKS \in Nat \ {0}
  /\ \A g \in Port : g \in Int /\ 1 <= g /\ g <= MAX_LINKS
  /\ \A n \in Int : 1 <= n /\ n <= MAX_LINKS => n \in Port
  BY ClientAssumption DEF Port

LEMMA LineTypes ==
  /\ \A v \in Verb : Word(v) \in Lines
  /\ \A t \in CALLERS : WriteLines(t) \in Seq(Lines)
  /\ \A p \in Profile : ReadLines(p) \in Seq(Lines)
  /\ ReleaseLight \in Seq(Lines) /\ NobodyListens \in Seq(Lines) /\ LinkLost \in Lines
<1>1. ASSUME NEW v \in Verb, NEW s \in 0 .. CHUNKS, NEW p \in Profile PROVE Line(v, s, p) \in Lines
  BY DEF Line, Lines
<1>2. 0 \in 0 .. CHUNKS /\ \A i \in 1 .. CHUNKS : i \in 0 .. CHUNKS
  BY ClientAssumption
<1>3. \A v \in Verb : Word(v) \in Lines
  BY <1>1, <1>2, Threads DEF Word
<1>4. ASSUME NEW p \in Profile, NEW v \in Verb
      PROVE  /\ <<Line("begin", 0, p)>> \in Seq(Lines)
             /\ [i \in 1 .. CHUNKS |-> Line("data", i, p)] \in Seq(Lines)
             /\ <<Line(v, 0, p)>> \in Seq(Lines)
  <2>1. "begin" \in Verb /\ "data" \in Verb
    BY DEF Verb
  <2>2. [i \in 1 .. CHUNKS |-> Line("data", i, p)] \in [1 .. CHUNKS -> Lines]
    BY <1>1, <1>2, <2>1
  <2> QED BY <1>1, <1>2, <2>1, <2>2, ClientAssumption
<1>5. \A t \in CALLERS : WriteLines(t) \in Seq(Lines)
  BY <1>4, Threads DEF WriteLines, Verb
<1>6. \A p \in Profile : ReadLines(p) \in Seq(Lines)
  BY <1>4 DEF ReadLines, Verb
<1>7. "led" \in Verb /\ "lost" \in Verb
  BY DEF Verb
<1> QED BY <1>3, <1>5, <1>6, <1>7 DEF ReleaseLight, NobodyListens, LinkLost

(* The lines of a write, by their place.                                     *)
LEMMA WriteLine ==
  ASSUME NEW t \in CALLERS
  PROVE  /\ WriteLines(t) # <<>>
         /\ WriteLines(t)[1].verb = "begin"
         /\ WriteLines(t)[Len(WriteLines(t))].verb = "commit"
         /\ \A i \in DOMAIN WriteLines(t) :
              /\ WriteLines(t)[i].profile = t
              /\ i > 1 => /\ WriteLines(t)[i].verb # "begin"
                          /\ IsTransfer(WriteLines(t)[i - 1])
<1> DEFINE first == <<Line("begin", 0, t)>>
           chunks == [i \in 1 .. CHUNKS |-> Line("data", i, t)]
           last == <<Line("commit", 0, t)>>
           L == [verb : {"begin", "data", "commit"}, seq : 0 .. CHUNKS, profile : {t}]
<1>1. first \in Seq(L) /\ last \in Seq(L)
  BY ClientAssumption DEF Line
<1>2. chunks \in Seq(L) /\ Len(chunks) = CHUNKS
  <2>1. chunks \in [1 .. CHUNKS -> L]
    BY ClientAssumption DEF Line
  <2> QED BY <2>1, ClientAssumption
<1>3. WriteLines(t) = (first \o chunks) \o last
  BY DEF WriteLines
<1>4. WriteLines(t) \in Seq(L) /\ Len(WriteLines(t)) = CHUNKS + 2
  BY <1>1, <1>2, <1>3, ClientAssumption
<1>5. /\ WriteLines(t)[1] = first[1]
      /\ \A i \in 2 .. CHUNKS + 1 : WriteLines(t)[i] = chunks[i - 1]
      /\ WriteLines(t)[CHUNKS + 2] = last[1]
  BY <1>1, <1>2, <1>3, ClientAssumption
<1>6. /\ \A i \in 2 .. CHUNKS + 1 : WriteLines(t)[i].verb = "data"
      /\ WriteLines(t)[CHUNKS + 2].verb = "commit" /\ WriteLines(t)[1].verb = "begin"
  <2>1. ASSUME NEW i \in 2 .. CHUNKS + 1 PROVE WriteLines(t)[i].verb = "data"
    <3>1. i - 1 \in 1 .. CHUNKS
      BY ClientAssumption
    <3>2. chunks[i - 1] = Line("data", i - 1, t)
      BY <3>1
    <3> QED BY <1>5, <3>2 DEF Line
  <2>2. first[1].verb = "begin" /\ last[1].verb = "commit"
    BY DEF Line
  <2> QED BY <1>5, <2>1, <2>2
<1>7. \A i \in DOMAIN WriteLines(t) : i \in Int /\ 1 <= i /\ i <= CHUNKS + 2
  BY <1>4
<1>8. \A i \in DOMAIN WriteLines(t) : WriteLines(t)[i].profile = t
  <2>1. \A l \in L : l.profile = t
    OBVIOUS
  <2> HIDE DEF L
  <2>2. \A i \in DOMAIN WriteLines(t) : WriteLines(t)[i] \in L
    BY <1>4
  <2> QED BY <2>1, <2>2
<1>9. \A i \in DOMAIN WriteLines(t) : i > 1 => WriteLines(t)[i].verb # "begin"
  BY <1>6, <1>7, ClientAssumption
<1>10. \A i \in DOMAIN WriteLines(t) : IsTransfer(WriteLines(t)[i])
  <2>1. \A l \in L : IsTransfer(l)
    BY DEF IsTransfer
  <2> HIDE DEF L
  <2>2. \A i \in DOMAIN WriteLines(t) : WriteLines(t)[i] \in L
    BY <1>4
  <2> QED BY <2>1, <2>2
<1>11. \A i \in DOMAIN WriteLines(t) : i > 1 => i - 1 \in DOMAIN WriteLines(t)
  BY <1>4
<1> QED BY <1>4, <1>6, <1>8, <1>9, <1>10, <1>11, ClientAssumption

---------------------------------------------------------------------------
(* One thread moves: where it is, what it drops, what it has yet to send, and *)
(* where it last sent.                                                       *)
MoveType ==
  /\ pc \in [Thread -> Label]
  /\ drop \in [Thread -> [port : Port \cup {NONE}, notify : BOOLEAN]]
  /\ todo \in [Thread -> Seq(Lines)]
  /\ sentOn \in [Thread -> Port \cup {NONE}]

Moves(t, l, d, td, s) ==
  /\ MoveType'
  /\ pc'[t] = l /\ drop'[t] = d /\ todo'[t] = td /\ sentOn'[t] = s
  /\ \A u \in Thread \ {t} : /\ pc'[u] = pc[u] /\ drop'[u] = drop[u]
                              /\ todo'[u] = todo[u] /\ sentOn'[u] = sentOn[u]

(* The type invariant in four parts.                                         *)
CallType ==
  /\ lock \in Thread \cup {NONE} /\ profileLock \in Thread \cup {NONE}
  /\ begun \in 0 .. MAX_CALLS /\ late \in 0 .. MAX_LATE
  /\ nested \subseteq Thread /\ told \subseteq Port
  /\ blob \subseteq Profile /\ want \in 0 .. CHUNKS + 1 /\ kept \subseteq Profile
  /\ crossed \in BOOLEAN
LinkType ==
  /\ session \in BOOLEAN /\ plugged \in BOOLEAN /\ hello \in BOOLEAN /\ cancel \in BOOLEAN
  /\ serial \in Port \cup {NONE} /\ opened \in 0 .. MAX_LINKS
  /\ broken \subseteq 1 .. opened /\ stop \subseteq 1 .. opened
  /\ unplugs \in 0 .. MAX_UNPLUGS /\ disconnects \in 0 .. MAX_DISCONNECTS
WireType ==
  /\ down \in Seq(Lines) /\ up \in Seq(Lines) /\ responses \in Seq(Lines)
  /\ hand \in [Port -> Seq(Lines)]
PadType ==
  /\ stage \in [by : Profile, got : [1 .. CHUNKS -> Profile]]
  /\ turn \in Profile /\ stored \in Profile /\ events \in 0 .. MAX_EVENTS

LEMMA Types == TypeOK <=> MoveType /\ CallType /\ LinkType /\ WireType /\ PadType
<1>1. TypeOK => MoveType /\ CallType
  BY DEF TypeOK, MoveType, CallType
<1>2. TypeOK => LinkType /\ WireType /\ PadType
  BY DEF TypeOK, LinkType, WireType, PadType
<1>3. MoveType /\ CallType /\ LinkType /\ WireType /\ PadType => TypeOK
  <2>1. LinkType => {session, plugged, hello, cancel} \subseteq BOOLEAN
    BY DEF LinkType
  <2>2. WireType => {down, up, responses} \subseteq Seq(Lines)
    BY DEF WireType
  <2>3. CallType => {lock, profileLock} \subseteq Thread \cup {NONE}
    BY DEF CallType
  <2> QED BY <2>1, <2>2, <2>3 DEF TypeOK, MoveType, CallType, LinkType, WireType, PadType
<1> QED BY <1>1, <1>2, <1>3

LEMMA TypesNext ==
  ASSUME MoveType', CallType', LinkType', WireType', PadType'
  PROVE  TypeOK'
  BY Types, PTL

RaiseTo(t) == IF t \in Port THEN "read" ELSE IF t = CONNECTOR THEN "detach" ELSE "idle"

Frees(t) ==
  /\ lock' = IF lock = t THEN NONE ELSE lock
  /\ profileLock' = IF profileLock = t THEN NONE ELSE profileLock
  /\ nested' \subseteq Thread

LEMMA LeaveMoves ==
  ASSUME TypeOK, NEW t \in Thread, NEW l \in Label, Leave(t, l)
  PROVE  Moves(t, l, AnyPort, <<>>, NONE) /\ Frees(t)
<1>1. <<>> \in Seq(Lines) /\ AnyPort \in [port : Port \cup {NONE}, notify : BOOLEAN]
  BY DEF AnyPort
<1> HIDE DEF AnyPort
<1>2. /\ pc' = [pc EXCEPT ![t] = l] /\ drop' = [drop EXCEPT ![t] = AnyPort]
      /\ todo' = [todo EXCEPT ![t] = <<>>] /\ sentOn' = [sentOn EXCEPT ![t] = NONE]
  BY DEF Leave, Goto
<1>3. MoveType'
  BY <1>1, <1>2 DEF TypeOK, MoveType
<1>4. Frees(t)
  BY DEF Leave, Frees, TypeOK
<1> QED BY <1>2, <1>3, <1>4 DEF Moves, TypeOK

LEMMA RaiseMoves ==
  ASSUME TypeOK, NEW t \in Thread, Raise(t)
  PROVE  Moves(t, RaiseTo(t), AnyPort, <<>>, NONE) /\ Frees(t)
<1>1. Leave(t, RaiseTo(t))
  BY Threads DEF Raise, RaiseTo
<1>2. RaiseTo(t) \in Label
  BY DEF RaiseTo, Label
<1> QED BY <1>1, <1>2, LeaveMoves

LEMMA ThreadKeeps ==
  ASSUME TypeOK, ThreadInv, DropInv, NEW t \in Thread, NEW l, NEW d, NEW td, NEW s,
         Moves(t, l, d, td, s), UNCHANGED <<opened, broken>>,
         l \in Ways(t), l \in {"send", "wait"} => td # <<>>,
         l = "wait" => lock' = t /\ s # NONE, lock \notin {t, NONE} => lock' = lock,
         t = WINDOW => d = AnyPort,
         t = CONNECTOR =>
           /\ l \in {"candidate", "open"} => opened < MAX_LINKS
           /\ l \in {"send", "wait", "identified"} => opened \in Port
           /\ l = "wake" => ~d.notify
           /\ l # "settle",
         t \in Port => pc[t] # "idle",
         d.port # NONE => d.port \in broken, d.notify => d.port # NONE,
         t \in CALLERS \cup Port /\ l \in {"detach", "wake"} => d.port # NONE
  PROVE  ThreadInv' /\ DropInv'
<1> USE Threads
<1>1. /\ pc'[t] = l /\ drop'[t] = d /\ todo'[t] = td /\ sentOn'[t] = s
      /\ \A u \in Thread : u # t =>
           /\ pc'[u] = pc[u] /\ drop'[u] = drop[u] /\ todo'[u] = todo[u]
           /\ sentOn'[u] = sentOn[u]
  BY DEF Moves
<1>2. \A u \in Thread : pc'[u] \in Ways(u)
  BY <1>1 DEF ThreadInv
<1>3. \A u \in Thread : pc'[u] \in {"send", "wait"} => todo'[u] # <<>>
  BY <1>1 DEF ThreadInv
<1>4. \A u \in Thread : pc'[u] = "wait" => lock' = u /\ sentOn'[u] # NONE
  BY <1>1 DEF ThreadInv
<1>5. drop'[WINDOW] = AnyPort
  BY <1>1 DEF ThreadInv
<1>6. /\ pc'[CONNECTOR] \in {"candidate", "open"} => opened < MAX_LINKS
      /\ pc'[CONNECTOR] \in {"settle", "send", "wait", "identified"} => opened \in Port
      /\ \A g \in Port : g > opened => pc'[g] = "idle"
      /\ pc'[CONNECTOR] = "settle" => pc'[opened] = "idle"
  BY <1>1 DEF ThreadInv
<1>7. ThreadInv'
  BY <1>2, <1>3, <1>4, <1>5, <1>6 DEF ThreadInv, Ways
<1>8. DropInv'
  BY <1>1 DEF DropInv
<1> QED BY <1>7, <1>8

LEMMA MoveKeeps ==
  ASSUME TypeOK, ThreadInv, DropInv, LinkInv, NEW t \in Thread, NEW l, NEW d, NEW td, NEW s,
         Moves(t, l, d, td, s), UNCHANGED <<serial, hello, opened, cancel, broken>>,
         l \in Ways(t), l \in {"send", "wait"} => td # <<>>,
         l = "wait" => lock' = t /\ s # NONE, lock \notin {t, NONE} => lock' = lock,
         t = WINDOW => d = AnyPort /\ (l # "detach" => pc[t] # "detach"),
         t = CONNECTOR =>
           /\ l \in {"candidate", "open"} => opened < MAX_LINKS
           /\ l \in {"send", "wait", "identified"} => opened \in Port
           /\ l \notin {"settle", "wake"}
           /\ hello => l = "idle"
           /\ serial # NONE => hello \/ l \in {"send", "wait", "identified", "detach"}
           /\ cancel /\ pc[WINDOW] # "detach" /\ serial # NONE => l = "detach",
         t \in Port => pc[t] # "idle",
         d.port # NONE => d.port \in broken, d.notify => d.port # NONE,
         t \in CALLERS \cup Port /\ l \in {"detach", "wake"} => d.port # NONE
  PROVE  ThreadInv' /\ DropInv' /\ LinkInv'
<1> USE Threads
<1>1. /\ pc'[t] = l
      /\ \A u \in Thread : u # t => pc'[u] = pc[u]
  BY DEF Moves
<1>2. ThreadInv' /\ DropInv'
  BY ThreadKeeps
<1>3. LinkInv'
  BY <1>1 DEF LinkInv
<1> QED BY <1>2, <1>3

LEMMA WokenKeeps ==
  ASSUME TypeOK, ThreadInv, WaiterIsWoken, NEW t \in Thread, NEW l, NEW d, NEW td, NEW s,
         Moves(t, l, d, td, s), serial' = serial, l = "wait" => s = serial,
         pc[t] = "wake" /\ l # "wake" => LinkLost \in ToSet(responses'),
         lock \notin {NONE, t} /\ LinkLost \in ToSet(responses)
           => LinkLost \in ToSet(responses')
  PROVE  WaiterIsWoken'
<1>1. /\ pc'[t] = l /\ sentOn'[t] = s
      /\ \A u \in Thread : u # t => pc'[u] = pc[u] /\ sentOn'[u] = sentOn[u]
  BY DEF Moves
<1>2. SUFFICES ASSUME NEW u \in Thread, pc'[u] = "wait", serial # sentOn'[u],
                      \A v \in Thread : pc'[v] # "wake"
               PROVE  LinkLost \in ToSet(responses')
  BY DEF WaiterIsWoken
<1>3. u # t /\ pc[u] = "wait" /\ serial # sentOn[u]
  BY <1>1, <1>2
<1>4. lock = u /\ lock \notin {NONE, t}
  BY <1>3, Threads DEF ThreadInv
<1>5. CASE pc[t] = "wake"
  BY <1>1, <1>2, <1>5
<1>6. CASE pc[t] # "wake"
  <2>1. \A v \in Thread : pc[v] # "wake"
    BY <1>1, <1>2, <1>6
  <2> QED BY <1>3, <1>4, <2>1 DEF WaiterIsWoken
<1> QED BY <1>5, <1>6

LEMMA TodoKeeps ==
  ASSUME TodoInv, NEW t \in Thread, NEW l, NEW d, NEW td, NEW s, Moves(t, l, d, td, s),
         profileLock \notin {NONE, t} => profileLock' = profileLock,
         \A i \in DOMAIN td : IsTransfer(td[i]) =>
           /\ profileLock' = t /\ td[i].profile = t
           /\ i > 1 => td[i].verb # "begin" /\ IsTransfer(td[i - 1])
  PROVE  TodoInv'
<1>1. todo'[t] = td /\ \A u \in Thread : u # t => todo'[u] = todo[u]
  BY DEF Moves
<1> QED BY <1>1, Threads DEF TodoInv, IsTransfer

LEMMA TurnKeeps ==
  ASSUME TurnInv, NEW t \in Thread, NEW l, NEW d, NEW td, NEW s, Moves(t, l, d, td, s),
         UNCHANGED <<down, turn>>,
         td # <<>> /\ IsTransfer(td[1]) /\ (l = "wait" \/ td[1].verb # "begin")
           => Fits(down, turn, t, Len(down))
  PROVE  TurnInv'
<1>1. /\ pc'[t] = l /\ todo'[t] = td
      /\ \A u \in Thread : u # t => pc'[u] = pc[u] /\ todo'[u] = todo[u]
  BY DEF Moves
<1> QED BY <1>1 DEF TurnInv, IsTransfer

---------------------------------------------------------------------------
(* A call ends                                                               *)

Inv == ThreadInv /\ DropInv /\ LinkInv /\ WaiterIsWoken /\ TodoInv /\ TurnInv

LEMMA RaiseKeeps ==
  ASSUME IInv, NEW t \in Thread, Raise(t), t # WINDOW, pc[t] # "idle",
         UNCHANGED <<serial, hello, opened, cancel, broken, down, turn>>,
         pc[t] = "wake" => LinkLost \in ToSet(responses'),
         lock \notin {NONE, t} /\ LinkLost \in ToSet(responses)
           => LinkLost \in ToSet(responses')
  PROVE  Inv' /\ Frees(t) /\ MoveType'
<1> USE Threads DEF IInv
<1>1. Moves(t, RaiseTo(t), AnyPort, <<>>, NONE) /\ Frees(t)
  BY RaiseMoves
<1>2. /\ RaiseTo(t) \in Ways(t)
      /\ RaiseTo(t) \notin {"send", "wait", "wake", "candidate", "open", "settle", "identified"}
      /\ t \in CALLERS \cup Port => RaiseTo(t) \in {"idle", "read"}
      /\ t = CONNECTOR => RaiseTo(t) = "detach" /\ ~hello
  BY DEF RaiseTo, Ways, Label, LinkInv
<1>3. /\ lock \notin {NONE, t} => lock' = lock
      /\ profileLock \notin {NONE, t} => profileLock' = profileLock
  BY <1>1 DEF Frees
<1>4. AnyPort.port = NONE /\ ~AnyPort.notify
  BY DEF AnyPort
<1>5. ThreadInv' /\ DropInv' /\ LinkInv'
  BY <1>1, <1>2, <1>3, <1>4, MoveKeeps
<1>6. WaiterIsWoken'
  BY <1>1, <1>2, WokenKeeps
<1>7. TodoInv' /\ TurnInv'
  BY <1>1, <1>3, TodoKeeps, TurnKeeps
<1> QED BY <1>1, <1>5, <1>6, <1>7 DEF Inv, Moves

LEMMA FreesType ==
  ASSUME TypeOK, NEW t \in Thread, Frees(t)
  PROVE  {lock', profileLock'} \subseteq Thread \cup {NONE} /\ nested' \subseteq Thread
  BY DEF TypeOK, Frees

---------------------------------------------------------------------------
(* What a thread sends                                                       *)

LEMMA FitsAppend ==
  ASSUME NEW lines \in Seq(Lines), NEW line \in Lines, NEW last, NEW p, NEW n \in 0 .. Len(lines),
         Fits(lines, last, p, n)
  PROVE  Fits(Append(lines, line), last, p, n)
<1>1. \A j \in 1 .. n : Append(lines, line)[j] = lines[j]
  OBVIOUS
<1>2. ASSUME NEW j \in 1 .. n, NEW k \in j + 1 .. n PROVE k \in 1 .. n
  OBVIOUS
<1> QED BY <1>1, <1>2 DEF Fits

LEMMA FitsSent ==
  ASSUME NEW lines \in Seq(Lines), NEW line \in Lines, NEW last, NEW p,
         IsTransfer(line) => line.profile = p,
         ~IsTransfer(line) => Fits(lines, last, p, Len(lines))
  PROVE  Fits(Append(lines, line), last, p, Len(Append(lines, line)))
<1> DEFINE m == Len(lines)
<1>1. /\ m \in Nat /\ Len(Append(lines, line)) = m + 1
      /\ Append(lines, line)[m + 1] = line
      /\ \A j \in 1 .. m : Append(lines, line)[j] = lines[j]
  OBVIOUS
<1>2. CASE IsTransfer(line)
  <2>1. ASSUME NEW j \in 1 .. m + 1, j # m + 1 PROVE m + 1 \in j + 1 .. m + 1
    BY <1>1, <2>1
  <2>2. m + 1 \in 1 .. m + 1
    BY <1>1
  <2> HIDE DEF m
  <2> QED BY <1>1, <1>2, <2>1, <2>2 DEF Fits
<1>3. CASE ~IsTransfer(line)
  <2>1. ASSUME NEW j \in 1 .. m + 1 PROVE j = m + 1 \/ j \in 1 .. m
    BY <1>1
  <2>2. ASSUME NEW j \in 1 .. m, NEW k \in j + 1 .. m
        PROVE  k \in 1 .. m /\ k \in j + 1 .. m + 1
    BY <1>1
  <2>3. \A j \in 1 .. m : j \in 1 .. m + 1
    BY <1>1
  <2>4. Fits(lines, last, p, m)
    BY <1>3
  <2> HIDE DEF m
  <2> QED BY <1>1, <1>3, <2>1, <2>2, <2>3, <2>4 DEF Fits
<1> QED BY <1>2, <1>3

LEMMA SentKeepsTurn ==
  ASSUME TypeOK, TodoInv, TurnInv, NEW t \in Thread, todo[t] # <<>>,
         pc[t] = "send", pc' = [pc EXCEPT ![t] = "wait"], todo' = todo,
         down' = Append(down, todo[t][1]), turn' = turn
  PROVE  TurnInv'
<1> DEFINE line == todo[t][1]
<1>1. down \in Seq(Lines) /\ line \in Lines /\ 1 \in DOMAIN todo[t]
  BY DEF TypeOK
<1>2. IsTransfer(line) => profileLock = t /\ line.profile = t
  BY <1>1 DEF TodoInv
<1>3. line.verb \in {"data", "commit"} => Fits(down, turn, t, Len(down))
  BY DEF TurnInv, IsTransfer
<1>4. /\ Len(down') = Len(down) + 1 /\ down'[Len(down) + 1] = line
      /\ Len(down) \in Nat /\ \A i \in 1 .. Len(down) : down'[i] = down[i]
  BY <1>1
<1>5. ASSUME NEW i \in 1 .. Len(down'), down'[i].verb \in {"data", "commit"}
      PROVE  Fits(down', turn', down'[i].profile, i - 1)
  <2>1. CASE i = Len(down) + 1
    <3>1. Fits(down, turn, t, Len(down)) /\ line.profile = t
      BY <1>2, <1>3, <1>4, <1>5, <2>1 DEF IsTransfer
    <3>2. Len(down) \in 0 .. Len(down) /\ i - 1 = Len(down)
      BY <1>4, <2>1
    <3> QED BY <1>1, <1>4, <2>1, <3>1, <3>2, FitsAppend
  <2>2. CASE i # Len(down) + 1
    <3>1. i \in 1 .. Len(down) /\ i - 1 \in 0 .. Len(down) /\ down'[i] = down[i]
      BY <1>4, <2>2
    <3>2. Fits(down, turn, down[i].profile, i - 1)
      BY <1>5, <3>1 DEF TurnInv
    <3> QED BY <1>1, <3>1, <3>2, FitsAppend
  <2> QED BY <2>1, <2>2
<1>6. ASSUME NEW u \in Thread, todo[u] # <<>>, IsTransfer(todo[u][1]),
             pc'[u] = "wait" \/ todo[u][1].verb # "begin"
      PROVE  Fits(down', turn', u, Len(down'))
  <2>1. CASE u = t
    BY <1>1, <1>2, <1>6, <2>1, FitsSent
  <2>2. CASE u # t
    <3>1. pc'[u] = pc[u]
      BY <2>2
    <3>2. Fits(down, turn, u, Len(down))
      BY <1>6, <3>1 DEF TurnInv
    <3>3. 1 \in DOMAIN todo[u]
      BY <1>6 DEF TypeOK
    <3>4. profileLock = u /\ ~IsTransfer(line)
      BY <1>2, <1>6, <2>2, <3>3 DEF TodoInv
    <3> QED BY <1>1, <3>2, <3>4, FitsSent
  <2> QED BY <2>1, <2>2
<1> QED BY <1>5, <1>6 DEF TurnInv

---------------------------------------------------------------------------
(* Calls                                                                     *)

LEMMA BeginKeeps ==
  ASSUME IInv, NEW t \in CALLERS, NEW kind, NEW lines \in Seq(Lines), lines # <<>>,
         Begin(t, kind, lines),
         UNCHANGED <<steady, link, client, wire, responses, lock, sentOn, nested, dropping, pad>>,
         profileLock' \in {t, profileLock}, profileLock' = t => profileLock \in {NONE, t},
         blob' \subseteq Profile, want' \in 0 .. CHUNKS + 1, kept' \subseteq Profile,
         crossed' \in BOOLEAN,
         lines[1].verb = "begin" \/ ~IsTransfer(lines[1]),
         \A i \in DOMAIN lines : IsTransfer(lines[i]) =>
           /\ profileLock' = t /\ lines[i].profile = t
           /\ i > 1 => lines[i].verb # "begin" /\ IsTransfer(lines[i - 1])
  PROVE  IInv'
<1> USE Threads DEF IInv
<1>1. /\ pc[t] = "idle" /\ begun < MAX_CALLS /\ begun' = begun + 1 /\ late' = late
      /\ todo' = [todo EXCEPT ![t] = lines] /\ pc' = [pc EXCEPT ![t] = "send"]
  BY DEF Begin, Goto
<1>2. /\ UNCHANGED <<session, cancel, disconnects, plugged, opened, broken, unplugs>>
      /\ UNCHANGED <<serial, hello, stop, down, up, hand, responses, lock, sentOn, nested>>
      /\ UNCHANGED <<drop, told, stage, turn, stored, events>>
  BY DEF steady, link, client, wire, dropping, pad
<1>3. "send" \in Label /\ "send" \in Ways(t)
  BY DEF Label, Ways
<1>4. Moves(t, "send", drop[t], lines, sentOn[t])
  BY <1>1, <1>2, <1>3 DEF Moves, MoveType, TypeOK
<1>5. ThreadInv' /\ DropInv' /\ LinkInv'
  BY <1>1, <1>2, <1>3, <1>4, MoveKeeps DEF DropInv
<1>6. WaiterIsWoken'
  BY <1>1, <1>2, <1>4, WokenKeeps
<1>7. TodoInv'
  BY <1>4, TodoKeeps
<1>8. TurnInv'
  BY <1>2, <1>4, TurnKeeps
<1>9. TypeOK'
  <2>1. begun' \in 0 .. MAX_CALLS /\ profileLock' \in Thread \cup {NONE}
    BY <1>1, ClientAssumption DEF TypeOK
  <2>2. CallType'
    BY <1>1, <1>2, <2>1, Types DEF CallType
  <2>3. LinkType' /\ WireType' /\ PadType'
    BY <1>2, Types DEF LinkType, WireType, PadType
  <2> QED BY <1>4, <2>2, <2>3, TypesNext DEF Moves
<1> QED BY <1>5, <1>6, <1>7, <1>8, <1>9

LEMMA StartKeeps ==
  ASSUME IInv, NEW t \in CALLERS, StartWrite(t) \/ StartRead(t) \/ StartRequest(t)
  PROVE  IInv'
<1>1. /\ blob \subseteq Profile /\ want \in 0 .. CHUNKS + 1 /\ kept \subseteq Profile
      /\ crossed \in BOOLEAN /\ 0 \in 0 .. CHUNKS + 1
  BY ClientAssumption DEF IInv, TypeOK
<1>2. CASE StartWrite(t)
  <2>1. crossed' \in BOOLEAN
    BY <1>2 DEF StartWrite
  <2> QED BY <1>1, <1>2, <2>1, LineTypes, WriteLine, BeginKeeps DEF StartWrite
<1>3. ASSUME NEW verb \in {"read", "led"}
      PROVE  /\ <<Word(verb)>> \in Seq(Lines) /\ <<Word(verb)>> # <<>>
             /\ \A i \in DOMAIN <<Word(verb)>> : ~IsTransfer(<<Word(verb)>>[i])
             /\ ~IsTransfer(<<Word(verb)>>[1])
  <2>1. Word(verb) \in Lines
    BY LineTypes DEF Verb
  <2>2. ~IsTransfer(Word(verb))
    BY DEF IsTransfer, Word, Line
  <2> HIDE DEF IsTransfer
  <2> QED BY <2>1, <2>2
<1>4. CASE StartRead(t)
  BY <1>1, <1>3, <1>4, BeginKeeps DEF StartRead, transfer
<1>5. CASE StartRequest(t)
  BY <1>1, <1>3, <1>5, BeginKeeps DEF StartRequest, transfer
<1> QED BY <1>2, <1>4, <1>5

LEMMA SendKeeps ==
  ASSUME IInv, NEW t \in Thread, Send(t)
  PROVE  IInv'
<1> USE Threads DEF IInv
<1>1. /\ lock \in {NONE, t} /\ pc[t] = "send" /\ responses' = <<>>
      /\ UNCHANGED <<session, cancel, disconnects, begun, late, plugged, opened, broken, unplugs>>
      /\ UNCHANGED <<serial, hello, stop, up, hand, told, blob, want, kept>>
      /\ UNCHANGED <<stage, turn, stored, events>>
  BY DEF Send, FlushAndSend, steady, counts, link, client, pad
<1>2. t # WINDOW /\ todo[t] # <<>> /\ pc[t] # "wake"
  BY <1>1 DEF ThreadInv, Ways
<1>3. LinkType' /\ PadType'
  BY <1>1, Types DEF LinkType, PadType
<1>4. responses' \in Seq(Lines)
  BY <1>1
<1>5. crossed' \in BOOLEAN
  <2>1. crossed' = (crossed \/ (profileLock = t /\ UnderWay))
    BY DEF Send, FlushAndSend
  <2> QED BY <2>1, Zenon
<1>6. CASE serial = NONE /\ Raise(t) /\ down' = down
  <2>1. Inv' /\ Frees(t) /\ MoveType'
    BY <1>1, <1>2, <1>6, RaiseKeeps
  <2>2. CallType' /\ WireType'
    BY <1>1, <1>4, <1>5, <1>6, <2>1, FreesType, Types DEF CallType, WireType
  <2> QED BY <1>3, <2>1, <2>2, TypesNext DEF Inv
<1>7. CASE /\ serial \in broken
           /\ lock' = t
           /\ drop' = [drop EXCEPT ![t] = Lost(serial)]
           /\ Goto(t, "detach")
           /\ UNCHANGED <<down, profileLock, todo, sentOn, nested>>
  <2>1. "detach" \in Label /\ "detach" \in Ways(t)
    BY DEF Label, Ways
  <2>2. /\ Lost(serial) \in [port : Port \cup {NONE}, notify : BOOLEAN]
        /\ Lost(serial).port = serial /\ Lost(serial).notify
    BY DEF Lost, TypeOK
  <2>3. serial # NONE
    BY <1>7, Ports DEF TypeOK, Port
  <2>4. Moves(t, "detach", Lost(serial), todo[t], sentOn[t])
    <3> HIDE DEF Lost
    <3> QED BY <1>7, <2>1, <2>2 DEF Goto, Moves, MoveType, TypeOK
  <2>5. t = CONNECTOR => ~hello
    BY <1>1 DEF LinkInv
  <2>6. ThreadInv' /\ DropInv' /\ LinkInv'
    <3> HIDE DEF Lost
    <3> QED BY <1>1, <1>2, <1>7, <2>1, <2>2, <2>3, <2>4, <2>5, MoveKeeps
  <2>7. WaiterIsWoken'
    BY <1>1, <2>4, WokenKeeps
  <2>8. TodoInv'
    BY <1>7, <2>4, TodoKeeps DEF TodoInv
  <2>9. TurnInv'
    BY <1>1, <1>7, <2>4, TurnKeeps DEF TurnInv
  <2>10. CallType' /\ WireType'
    BY <1>1, <1>4, <1>5, <1>7, Types DEF CallType, WireType
  <2> QED BY <1>3, <2>4, <2>6, <2>7, <2>8, <2>9, <2>10, TypesNext DEF Moves
<1>8. CASE /\ serial \in Port \ broken
           /\ lock' = t
           /\ down' = Append(down, Head(todo[t]))
           /\ sentOn' = [sentOn EXCEPT ![t] = serial]
           /\ Goto(t, "wait")
           /\ UNCHANGED <<profileLock, todo, nested, drop>>
  <2>1. "wait" \in Label /\ "wait" \in Ways(t)
    BY <1>2 DEF Label, Ways
  <2>2. Moves(t, "wait", drop[t], todo[t], serial)
    BY <1>8, <2>1 DEF Goto, Moves, MoveType, TypeOK
  <2>3. t = CONNECTOR => /\ opened \in Port /\ ~hello
                         /\ ~(cancel /\ pc[WINDOW] # "detach" /\ serial # NONE)
    BY <1>1 DEF ThreadInv, LinkInv
  <2>4. ThreadInv' /\ DropInv' /\ LinkInv'
    BY <1>1, <1>2, <1>8, <2>1, <2>2, <2>3, MoveKeeps DEF DropInv
  <2>5. WaiterIsWoken'
    BY <1>1, <2>2, WokenKeeps
  <2>6. TodoInv'
    BY <1>8, <2>2, TodoKeeps DEF TodoInv
  <2>7. Head(todo[t]) = todo[t][1] /\ Head(todo[t]) \in Lines
    BY <1>2 DEF TypeOK
  <2>8. TurnInv'
    BY <1>1, <1>2, <1>8, <2>7, SentKeepsTurn DEF Goto
  <2>9. CallType' /\ WireType'
    BY <1>1, <1>4, <1>5, <1>8, <2>7, Types DEF CallType, WireType
  <2> QED BY <1>3, <2>2, <2>4, <2>5, <2>6, <2>8, <2>9, TypesNext DEF Moves
<1> QED BY <1>6, <1>7, <1>8 DEF Send, FlushAndSend

LEMMA AnsweredKeeps ==
  ASSUME IInv, NEW t \in Thread, Answered(t), pc[t] = "wait",
         UNCHANGED <<serial, hello, opened, cancel, broken, down, turn>>
  PROVE  /\ Inv' /\ MoveType' /\ nested' \subseteq Thread
         /\ lock' \in Thread \cup {NONE} /\ profileLock' \in Thread \cup {NONE}
<1> USE Threads DEF IInv
<1>1. t # WINDOW /\ todo[t] # <<>> /\ lock = t
  BY DEF ThreadInv, Ways
<1>2. CASE t \in nested
  <2>1. Raise(t)
    BY <1>2 DEF Answered
  <2> QED BY <1>1, <2>1, RaiseKeeps, FreesType
<1>3. CASE t \notin nested
  <2> DEFINE l == CASE Len(todo[t]) > 1 -> "send"
                    [] t = CONNECTOR -> "identified"
                    [] OTHER -> "done"
             td == Tail(todo[t])
  <2>1. /\ lock' = NONE /\ pc' = [pc EXCEPT ![t] = l]
        /\ todo' = [todo EXCEPT ![t] = td]
        /\ UNCHANGED <<profileLock, sentOn, nested, drop>>
    BY <1>3 DEF Answered, Goto
  <2>2. /\ todo[t] \in Seq(Lines) /\ td \in Seq(Lines) /\ Len(todo[t]) \in Nat
        /\ Len(td) = Len(todo[t]) - 1
        /\ \A i \in 1 .. Len(td) :
             /\ td[i] = todo[t][i + 1] /\ i + 1 \in 1 .. Len(todo[t])
             /\ i > 1 => i - 1 \in 1 .. Len(td)
    BY <1>1 DEF TypeOK
  <2>3. /\ l \in Label /\ l \in Ways(t) /\ l \in {"send", "identified", "done"}
        /\ l = "send" => td # <<>>
        /\ t = CONNECTOR => l \in {"send", "identified"}
    <3> HIDE DEF td
    <3>1. Len(todo[t]) > 1 => td # <<>>
      BY <2>2
    <3>2. l \in {"send", "identified", "done"} /\ (l = "send" => Len(todo[t]) > 1)
      OBVIOUS
    <3>3. t = CONNECTOR => l \in {"send", "identified"}
      OBVIOUS
    <3>4. t # CONNECTOR => l \in {"send", "done"}
      OBVIOUS
    <3> HIDE DEF l
    <3> QED BY <1>1, <3>1, <3>2, <3>3, <3>4 DEF Label, Ways
  <2> HIDE DEF l, td
  <2>4. Moves(t, l, drop[t], td, sentOn[t])
    BY <2>1, <2>2, <2>3 DEF Moves, MoveType, TypeOK
  <2>5. t = CONNECTOR => /\ opened \in Port /\ ~hello
                         /\ ~(cancel /\ pc[WINDOW] # "detach" /\ serial # NONE)
    BY DEF ThreadInv, LinkInv
  <2>6. ThreadInv' /\ DropInv' /\ LinkInv'
    BY <1>1, <2>1, <2>3, <2>4, <2>5, MoveKeeps DEF DropInv
  <2>7. WaiterIsWoken'
    BY <1>1, <2>3, <2>4, WokenKeeps
  <2>8. ASSUME NEW i \in 1 .. Len(td), IsTransfer(td[i])
        PROVE  /\ profileLock = t /\ td[i].profile = t /\ td[i].verb # "begin"
               /\ IsTransfer(todo[t][i])
    <3>1. i + 1 \in DOMAIN todo[t] /\ td[i] = todo[t][i + 1] /\ i + 1 > 1 /\ (i + 1) - 1 = i
      BY <2>2
    <3> QED BY <2>8, <3>1 DEF TodoInv
  <2>9. TodoInv'
    <3>1. \A i \in 1 .. Len(td) : IsTransfer(td[i]) /\ i > 1 => IsTransfer(td[i - 1])
      <4>1. ASSUME NEW i \in 1 .. Len(td), IsTransfer(td[i]), i > 1 PROVE IsTransfer(td[i - 1])
        <5>1. i - 1 \in 1 .. Len(td) /\ (i - 1) + 1 = i
          BY <2>2, <4>1
        <5>2. td[i - 1] = todo[t][i]
          BY <2>2, <5>1
        <5> QED BY <2>8, <4>1, <5>2
      <4> QED BY <4>1
    <3>2. DOMAIN td = 1 .. Len(td)
      BY <2>2
    <3> QED BY <2>1, <2>4, <2>8, <3>1, <3>2, TodoKeeps
  <2>10. TurnInv'
    <3>1. ASSUME td # <<>>, IsTransfer(td[1]) PROVE Fits(down, turn, t, Len(down))
      <4>1. 1 \in 1 .. Len(td)
        BY <2>2, <3>1
      <4> QED BY <1>1, <2>8, <3>1, <4>1 DEF TurnInv
    <3> QED BY <2>4, <3>1, TurnKeeps
  <2> QED BY <2>1, <2>4, <2>6, <2>7, <2>9, <2>10, Types DEF Inv, Moves, CallType
<1> QED BY <1>2, <1>3

LEMMA IgnoredKeeps ==
  ASSUME IInv, NEW t \in Thread, pc[t] = "wait", Ignored,
         UNCHANGED <<serial, hello, opened, cancel, broken, down, turn>>,
         responses # <<>>, responses' = Tail(responses), Head(responses) # LinkLost
  PROVE  /\ Inv' /\ MoveType' /\ nested' \subseteq Thread
         /\ lock' \in Thread \cup {NONE} /\ profileLock' \in Thread \cup {NONE}
<1> USE DEF IInv, Ignored
<1>1. Moves(t, "wait", drop[t], todo[t], sentOn[t])
  BY DEF Moves, MoveType, TypeOK
<1>2. ThreadInv' /\ DropInv' /\ LinkInv'
  BY DEF ThreadInv, DropInv, LinkInv
<1>3. LinkLost \in ToSet(responses) => LinkLost \in ToSet(responses')
  <2>1. responses \in Seq(Lines)
    BY DEF TypeOK
  <2>2. \A i \in DOMAIN responses : i # 1 =>
          i - 1 \in DOMAIN Tail(responses) /\ Tail(responses)[i - 1] = responses[i]
    BY <2>1
  <2>3. Head(responses) = responses[1]
    BY <2>1
  <2> QED BY <2>2, <2>3 DEF ToSet
<1>4. WaiterIsWoken'
  BY <1>3 DEF WaiterIsWoken
<1>5. TodoInv' /\ TurnInv'
  BY DEF TodoInv, TurnInv
<1> QED BY <1>1, <1>2, <1>4, <1>5, Types DEF Inv, Moves, CallType

LEMMA WaitKeeps ==
  ASSUME IInv, NEW t \in Thread, GetAnswer(t) \/ GetProfileLine(t)
  PROVE  IInv'
<1> USE Threads DEF IInv
<1>1. /\ pc[t] = "wait" /\ responses # <<>> /\ responses' = Tail(responses)
      /\ UNCHANGED <<session, cancel, disconnects, begun, late, plugged, opened, broken, unplugs>>
      /\ UNCHANGED <<serial, hello, stop, down, up, hand, told, kept, crossed>>
      /\ UNCHANGED <<stage, turn, stored, events>>
  BY DEF GetAnswer, GetProfileLine, steady, counts, link, client, wire, pad
<1>2. t # WINDOW /\ lock = t
  BY <1>1 DEF ThreadInv, Ways
<1>3. Head(responses) \in Lines /\ responses' \in Seq(Lines)
  BY <1>1 DEF TypeOK
<1>4. LinkLost.verb = "lost"
  BY DEF LinkLost, Word, Line
<1>5. \/ Raise(t) \/ Answered(t)
      \/ Ignored /\ Head(responses) # LinkLost
  BY <1>4 DEF GetAnswer, GetProfileLine
<1>6. /\ Inv' /\ MoveType' /\ nested' \subseteq Thread
      /\ lock' \in Thread \cup {NONE} /\ profileLock' \in Thread \cup {NONE}
  <2>1. CASE Raise(t)
    BY <1>1, <1>2, <2>1, RaiseKeeps, FreesType
  <2> QED BY <1>1, <1>5, <2>1, AnsweredKeeps, IgnoredKeeps
<1>7. blob' \subseteq Profile /\ want' \in 0 .. CHUNKS + 1
  <2>1. CASE UNCHANGED <<blob, want>>
    BY <2>1 DEF TypeOK
  <2>2. CASE /\ GetProfileLine(t)
             /\ want' = want + 1 /\ blob' = blob \cup {Head(responses).profile}
             /\ \/ Head(responses).verb = "begin" /\ want = 0
                \/ Head(responses).verb = "data" /\ want > 0 /\ Head(responses).seq = want
    <3>1. Head(responses).profile \in Profile /\ Head(responses).seq \in 0 .. CHUNKS
      BY <1>3 DEF Lines
    <3> QED BY <2>2, <3>1, ClientAssumption DEF TypeOK
  <2>3. GetAnswer(t) => UNCHANGED <<blob, want>>
    BY DEF GetAnswer
  <2>4. ASSUME GetProfileLine(t), ~UNCHANGED <<blob, want>>
        PROVE  /\ want' = want + 1 /\ blob' = blob \cup {Head(responses).profile}
               /\ \/ Head(responses).verb = "begin" /\ want = 0
                  \/ Head(responses).verb = "data" /\ want > 0 /\ Head(responses).seq = want
    <3> DEFINE line == Head(responses)
               fits == CASE line.verb = "begin" -> want = 0
                         [] line.verb = "data" -> want > 0 /\ line.seq = want
                         [] line.verb = "end" -> want = CHUNKS + 1 /\ Cardinality(blob) = 1
                         [] OTHER -> FALSE
    <3>1. /\ line.verb \in {"begin", "data"} /\ fits
          /\ want' = want + 1 /\ blob' = blob \cup {line.profile}
      BY <2>4 DEF GetProfileLine
    <3>2. fits /\ line.verb = "begin" => want = 0
      BY Zenon
    <3>3. fits /\ line.verb = "data" => want > 0 /\ line.seq = want
      <4>1. line.verb = "data" => line.verb # "begin"
        OBVIOUS
      <4> QED BY <4>1
    <3> HIDE DEF fits
    <3> QED BY <3>1, <3>2, <3>3
  <2> QED BY <2>1, <2>2, <2>3, <2>4
<1>8. CallType' /\ LinkType' /\ WireType' /\ PadType'
  BY <1>1, <1>3, <1>6, <1>7, Types DEF CallType, LinkType, WireType, PadType
<1> QED BY <1>6, <1>8, TypesNext DEF Inv

LEMMA EndKeeps ==
  ASSUME IInv, NEW t \in Thread, TimeOut(t) \/ Return(t)
  PROVE  IInv'
<1> USE Threads DEF IInv
<1>1. /\ pc[t] \in {"wait", "done"}
      /\ UNCHANGED <<session, cancel, disconnects, begun, plugged, opened, broken, unplugs>>
      /\ UNCHANGED <<serial, hello, stop, down, up, hand, responses, told, blob, want, kept, crossed>>
      /\ UNCHANGED <<stage, turn, stored, events>>
  BY DEF TimeOut, Return, steady, counts, link, client, wire, pad
<1>2. t # WINDOW /\ (pc[t] = "done" => t # CONNECTOR)
  BY <1>1 DEF ThreadInv, Ways
<1>3. Raise(t)
  <2>1. CASE Return(t)
    <3>1. pc[t] = "done" /\ Leave(t, IF t \in Port THEN "read" ELSE "idle")
      BY <2>1 DEF Return
    <3> QED BY <1>2, <3>1 DEF Raise
  <2> QED BY <2>1 DEF TimeOut
<1>4. Inv' /\ Frees(t) /\ MoveType'
  BY <1>1, <1>2, <1>3, RaiseKeeps
<1>5. late' \in 0 .. MAX_LATE
  BY ClientAssumption DEF TimeOut, Return, TypeOK, counts
<1>6. CallType' /\ LinkType' /\ WireType' /\ PadType'
  BY <1>1, <1>4, <1>5, FreesType, Types DEF CallType, LinkType, WireType, PadType
<1> QED BY <1>4, <1>6, TypesNext DEF Inv

---------------------------------------------------------------------------
(* Losing the link                                                           *)

LEMMA DetachKeeps ==
  ASSUME IInv, NEW t \in Thread, Detach(t)
  PROVE  IInv'
<1> USE Threads DEF IInv
<1>1. /\ pc[t] = "detach"
      /\ UNCHANGED <<session, cancel, disconnects, begun, late, plugged, opened, broken, unplugs>>
      /\ UNCHANGED <<down, up, hand, responses, told, blob, want, kept, crossed>>
      /\ UNCHANGED <<stage, turn, stored, events>>
  BY DEF Detach, steady, counts, link, wire, pad
<1>2. WireType' /\ PadType'
  BY <1>1, Types DEF WireType, PadType
<1>3. CASE drop[t].port \notin {NONE, serial} /\ Raise(t) /\ UNCHANGED client
  <2>1. t # WINDOW
    BY <1>3 DEF ThreadInv, AnyPort
  <2>2. Inv' /\ Frees(t) /\ MoveType'
    BY <1>1, <1>3, <2>1, RaiseKeeps DEF client
  <2>3. CallType' /\ LinkType'
    BY <1>1, <1>3, <2>2, FreesType, Types DEF CallType, LinkType, client
  <2> QED BY <1>2, <2>2, <2>3, TypesNext DEF Inv
<1>4. CASE /\ drop[t].port \in {NONE, serial}
           /\ stop' = stop \cup ({opened} \cap Port)
           /\ serial' = NONE
           /\ hello' = FALSE
           /\ drop' = [drop EXCEPT ![t].notify = @ /\ hello]
           /\ Goto(t, "wake")
           /\ UNCHANGED <<lock, profileLock, todo, sentOn, nested>>
  <2> DEFINE n == drop[t].notify /\ hello
             d == [drop[t] EXCEPT !.notify = n]
  <2>1. drop' = [drop EXCEPT ![t] = d]
    BY <1>4
  <2>2. /\ d \in [port : Port \cup {NONE}, notify : BOOLEAN]
        /\ d.port = drop[t].port
    <3>1. drop[t] \in [port : Port \cup {NONE}, notify : BOOLEAN]
      BY DEF TypeOK
    <3>2. n \in BOOLEAN
      OBVIOUS
    <3> HIDE DEF n
    <3> QED BY <3>1, <3>2
  <2>3. (d.notify => drop[t].notify /\ hello) /\ (drop[t] = AnyPort => d = AnyPort)
    <3>1. drop[t] \in [port : Port \cup {NONE}, notify : BOOLEAN]
      BY DEF TypeOK
    <3>2. d.notify = (drop[t].notify /\ hello)
      BY <3>1, Zenon
    <3>3. drop[t] = AnyPort => ~d.notify /\ d.port = NONE
      BY <2>2, <3>2 DEF AnyPort
    <3> HIDE DEF d
    <3> QED BY <2>2, <3>2, <3>3 DEF AnyPort
  <2> HIDE DEF d
  <2>4. "wake" \in Label /\ "wake" \in Ways(t)
    BY DEF Label, Ways
  <2>5. Moves(t, "wake", d, todo[t], sentOn[t])
    <3>1. pc' = [pc EXCEPT ![t] = "wake"] /\ UNCHANGED <<todo, sentOn>>
      BY <1>4 DEF Goto
    <3> QED BY <2>1, <2>2, <2>4, <3>1 DEF Moves, MoveType, TypeOK
  <2>6. t = CONNECTOR => ~hello
    BY <1>1 DEF LinkInv
  <2>7. /\ drop[t].port # NONE => drop[t].port \in broken
        /\ drop[t].notify => drop[t].port # NONE
        /\ t \in CALLERS \cup Port => drop[t].port # NONE
        /\ t = WINDOW => drop[t] = AnyPort
    BY <1>1 DEF DropInv, ThreadInv
  <2>8. ThreadInv' /\ DropInv'
    BY <1>1, <1>4, <2>2, <2>3, <2>4, <2>5, <2>6, <2>7, ThreadKeeps
  <2>9. LinkInv'
    BY <1>4 DEF LinkInv
  <2>10. WaiterIsWoken'
    BY <1>4, <2>5 DEF WaiterIsWoken, Moves
  <2>11. TodoInv' /\ TurnInv'
    BY <1>1, <1>4, <2>5, TodoKeeps, TurnKeeps DEF TodoInv, TurnInv
  <2>12. CallType'
    BY <1>1, <1>4, Types DEF CallType
  <2>13. LinkType'
    <3>1. stop' \subseteq 1 .. opened
      BY <1>4, Types, Ports DEF LinkType
    <3> QED BY <1>1, <1>4, <3>1, Types DEF LinkType
  <2> QED BY <1>2, <2>5, <2>8, <2>9, <2>10, <2>11, <2>12, <2>13, TypesNext DEF Moves
<1> QED BY <1>3, <1>4 DEF Detach

LEMMA Marked ==
  ASSUME TypeOK, PutMark
  PROVE  responses' \in Seq(Lines) /\ LinkLost \in ToSet(responses')
<1>1. responses \in Seq(Lines) /\ LinkLost \in Lines
  BY LineTypes DEF TypeOK
<1>2. /\ Append(responses, LinkLost) \in Seq(Lines)
      /\ Len(responses) + 1 \in DOMAIN Append(responses, LinkLost)
      /\ Append(responses, LinkLost)[Len(responses) + 1] = LinkLost
  BY <1>1
<1> QED BY <1>2 DEF PutMark, ToSet

LEMMA ReportKeeps ==
  ASSUME IInv, NEW t \in Thread, Report(t)
  PROVE  IInv'
<1> USE Threads DEF IInv
<1>1. /\ pc[t] = "wake" /\ drop[t].notify /\ PutMark
      /\ told' = told \cup {drop[t].port}
      /\ UNCHANGED <<session, cancel, disconnects, begun, late, plugged, opened, broken, unplugs>>
      /\ UNCHANGED <<serial, hello, stop, down, up, hand, blob, want, kept, crossed>>
      /\ UNCHANGED <<stage, turn, stored, events>>
  BY DEF Report, steady, counts, link, client, wire, pad
<1>2. t \notin {WINDOW, CONNECTOR} /\ drop[t].port \in Port
  <2>1. t # WINDOW
    BY <1>1 DEF ThreadInv, AnyPort
  <2>2. t # CONNECTOR /\ drop[t].port # NONE
    BY <1>1 DEF DropInv
  <2>3. drop[t] \in [port : Port \cup {NONE}, notify : BOOLEAN]
    BY DEF TypeOK
  <2> QED BY <2>1, <2>2, <2>3
<1>3. responses' \in Seq(Lines) /\ LinkLost \in ToSet(responses')
  BY <1>1, Marked
<1>4. LinkType' /\ PadType' /\ WireType'
  BY <1>1, <1>3, Types DEF LinkType, PadType, WireType
<1>5. CASE Raise(t)
  <2>1. Inv' /\ Frees(t) /\ MoveType'
    BY <1>1, <1>2, <1>3, <1>5, RaiseKeeps
  <2>2. CallType'
    BY <1>1, <1>2, <2>1, FreesType, Types DEF CallType
  <2> QED BY <1>4, <2>1, <2>2, TypesNext DEF Inv
<1>6. CASE /\ nested' = nested \cup {t}
           /\ todo' = [todo EXCEPT ![t] = ReleaseLight]
           /\ Goto(t, "send")
           /\ UNCHANGED <<lock, profileLock, sentOn, drop>>
  <2>1. "send" \in Label /\ "send" \in Ways(t)
    BY <1>2 DEF Label, Ways
  <2>2. ReleaseLight \in Seq(Lines) /\ ReleaseLight # <<>>
    BY LineTypes DEF ReleaseLight
  <2>3. \A i \in DOMAIN ReleaseLight : ~IsTransfer(ReleaseLight[i])
    BY DEF ReleaseLight, IsTransfer, Word, Line
  <2>4. 1 \in DOMAIN ReleaseLight
    BY DEF ReleaseLight
  <2> HIDE DEF ReleaseLight
  <2>5. Moves(t, "send", drop[t], ReleaseLight, sentOn[t])
    BY <1>6, <2>1, <2>2 DEF Moves, MoveType, TypeOK, Goto
  <2>6. ThreadInv' /\ DropInv' /\ LinkInv'
    BY <1>1, <1>2, <1>6, <2>1, <2>2, <2>5, MoveKeeps DEF DropInv
  <2>7. WaiterIsWoken'
    BY <1>1, <1>3, <2>5, WokenKeeps
  <2>8. TodoInv' /\ TurnInv'
    BY <1>1, <1>6, <2>3, <2>4, <2>5, TodoKeeps, TurnKeeps
  <2>9. CallType'
    BY <1>1, <1>2, <1>6, Types DEF CallType
  <2> QED BY <1>4, <2>5, <2>6, <2>7, <2>8, <2>9, TypesNext DEF Moves
<1> QED BY <1>5, <1>6 DEF Report

LEMMA WakeKeeps ==
  ASSUME IInv, NEW t \in Thread, Wake(t)
  PROVE  IInv'
<1> USE Threads DEF IInv
<1>1. /\ pc[t] = "wake" /\ ~drop[t].notify /\ PutMark
      /\ UNCHANGED <<session, cancel, disconnects, begun, late, plugged, opened, broken, unplugs>>
      /\ UNCHANGED <<serial, hello, stop, down, up, hand, told, blob, want, kept, crossed>>
      /\ UNCHANGED <<stage, turn, stored, events>>
  BY DEF Wake, steady, counts, link, client, wire, pad
<1>2. responses' \in Seq(Lines) /\ LinkLost \in ToSet(responses')
  BY <1>1, Marked
<1>3. LinkType' /\ PadType' /\ WireType'
  BY <1>1, <1>2, Types DEF LinkType, PadType, WireType
<1>4. CASE drop[t] # AnyPort /\ Raise(t)
  <2>1. t # WINDOW
    BY <1>4 DEF ThreadInv
  <2>2. Inv' /\ Frees(t) /\ MoveType'
    BY <1>1, <1>2, <1>4, <2>1, RaiseKeeps
  <2>3. CallType'
    BY <1>1, <2>2, FreesType, Types DEF CallType
  <2> QED BY <1>3, <2>2, <2>3, TypesNext DEF Inv
<1>5. CASE /\ drop[t] = AnyPort
           /\ \/ Goto(t, "idle")
              \/ t = CONNECTOR /\ ~cancel /\ opened < MAX_LINKS /\ Goto(t, "candidate")
           /\ UNCHANGED <<lock, profileLock, todo, sentOn, nested, drop>>
  <2>1. PICK l \in {"idle", "candidate"} :
          Goto(t, l) /\ (l = "candidate" => t = CONNECTOR /\ opened < MAX_LINKS)
    BY <1>5
  <2>2. l \in Label /\ l \in Ways(t)
    BY <2>1 DEF Label, Ways
  <2>3. AnyPort.port = NONE /\ ~AnyPort.notify
    BY DEF AnyPort
  <2>4. t = CONNECTOR => ~hello /\ serial = NONE
    BY <1>1 DEF LinkInv
  <2>5. t \notin CALLERS \cup Port
    BY <1>1, <1>5, <2>3 DEF DropInv
  <2>6. Moves(t, l, drop[t], todo[t], sentOn[t])
    BY <1>5, <2>1, <2>2 DEF Moves, MoveType, TypeOK, Goto
  <2>7. ThreadInv' /\ DropInv' /\ LinkInv'
    BY <1>1, <1>5, <2>1, <2>2, <2>3, <2>4, <2>5, <2>6, MoveKeeps
  <2>8. WaiterIsWoken'
    BY <1>1, <1>2, <2>6, WokenKeeps
  <2>9. TodoInv' /\ TurnInv'
    BY <1>1, <1>5, <2>6, TodoKeeps, TurnKeeps DEF TodoInv, TurnInv
  <2>10. CallType'
    BY <1>1, <1>5, Types DEF CallType
  <2> QED BY <1>3, <2>6, <2>7, <2>8, <2>9, <2>10, TypesNext DEF Moves
<1> QED BY <1>4, <1>5 DEF Wake

---------------------------------------------------------------------------
(* Making the link                                                           *)

LEMMA DisconnectKeeps ==
  ASSUME IInv, Disconnect
  PROVE  IInv'
<1> USE Threads DEF IInv
<1>1. /\ disconnects' \in 0 .. MAX_DISCONNECTS /\ cancel' = TRUE /\ Goto(WINDOW, "detach")
      /\ UNCHANGED <<session, plugged, opened, broken, unplugs, begun, late, nested>>
      /\ UNCHANGED <<serial, hello, stop, down, up, hand, responses, told, blob, want, kept, crossed>>
      /\ UNCHANGED <<lock, profileLock, todo, sentOn, drop, stage, turn, stored, events>>
      /\ pc[WINDOW] = "idle"
  BY ClientAssumption
     DEF Disconnect, TypeOK, link, client, wire, calls, counts, dropping, transfer, pad
<1>2. "detach" \in Label /\ "detach" \in Ways(WINDOW)
  BY DEF Label, Ways
<1>3. Moves(WINDOW, "detach", AnyPort, todo[WINDOW], sentOn[WINDOW])
  BY <1>1, <1>2 DEF Moves, MoveType, TypeOK, Goto, ThreadInv
<1>4. ThreadInv' /\ DropInv'
  <2>1. AnyPort.port = NONE /\ ~AnyPort.notify
    BY DEF AnyPort
  <2> QED BY <1>1, <1>2, <1>3, <2>1, ThreadKeeps
<1>5. LinkInv'
  BY <1>1, <1>3 DEF LinkInv, Moves
<1>6. WaiterIsWoken'
  BY <1>1, <1>3, WokenKeeps
<1>7. TodoInv' /\ TurnInv'
  BY <1>1, <1>3, TodoKeeps, TurnKeeps DEF TodoInv, TurnInv
<1>8. CallType' /\ LinkType' /\ WireType' /\ PadType'
  BY <1>1, Types DEF CallType, LinkType, WireType, PadType
<1> QED BY <1>3, <1>4, <1>5, <1>6, <1>7, <1>8, TypesNext DEF Moves

LEMMA StartConnectKeeps ==
  ASSUME IInv, StartConnect \/ NextCandidate
  PROVE  IInv'
<1> USE Threads DEF IInv
<1>1. PICK l \in {"idle", "candidate", "open"} :
        /\ Goto(CONNECTOR, l)
        /\ l # "idle" => ~hello /\ opened < MAX_LINKS
        /\ \/ StartConnect /\ ~cancel' /\ pc[CONNECTOR] = "idle"
           \/ cancel' = cancel /\ pc[CONNECTOR] = "candidate"
  <2>1. CASE StartConnect
    BY <2>1 DEF StartConnect
  <2>2. CASE NextCandidate
    BY <2>2 DEF NextCandidate, ThreadInv, LinkInv, steady
  <2> QED BY <2>1, <2>2
<1>2. /\ UNCHANGED <<session, disconnects, plugged, opened, broken, unplugs, begun, late, nested>>
      /\ UNCHANGED <<serial, hello, stop, down, up, hand, responses, told, blob, want, kept, crossed>>
      /\ UNCHANGED <<lock, profileLock, todo, sentOn, drop, stage, turn, stored, events>>
  BY DEF StartConnect, NextCandidate, steady, link, client, wire, calls, counts, dropping,
         transfer, pad
<1>3. l \in Label /\ l \in Ways(CONNECTOR)
  BY DEF Label, Ways
<1>4. Moves(CONNECTOR, l, drop[CONNECTOR], todo[CONNECTOR], sentOn[CONNECTOR])
  BY <1>1, <1>2, <1>3 DEF Moves, MoveType, TypeOK, Goto
<1>5. ThreadInv' /\ DropInv'
  BY <1>1, <1>2, <1>3, <1>4, ThreadKeeps DEF DropInv
<1>6. LinkInv'
  BY <1>1, <1>2, <1>4 DEF LinkInv, Moves
<1>7. WaiterIsWoken'
  BY <1>1, <1>2, <1>4, WokenKeeps
<1>8. TodoInv' /\ TurnInv'
  BY <1>1, <1>2, <1>4, TodoKeeps, TurnKeeps DEF TodoInv, TurnInv
<1>9. cancel' \in BOOLEAN
  BY <1>1 DEF TypeOK, StartConnect
<1>10. CallType' /\ LinkType' /\ WireType' /\ PadType'
  BY <1>2, <1>9, Types DEF CallType, LinkType, WireType, PadType
<1> QED BY <1>4, <1>5, <1>6, <1>7, <1>8, <1>10, TypesNext DEF Moves

LEMMA OpenKeeps ==
  ASSUME IInv, Open
  PROVE  IInv'
<1> USE Threads DEF IInv
<1>1. /\ pc[CONNECTOR] = "open" /\ opened' = opened + 1
      /\ \/ serial' = opened + 1 /\ Goto(CONNECTOR, "settle")
         \/ serial' = serial /\ Goto(CONNECTOR, "detach")
      /\ UNCHANGED <<session, disconnects, cancel, plugged, broken, unplugs, begun, late, nested>>
      /\ UNCHANGED <<hello, stop, down, up, hand, responses, told, blob, want, kept, crossed>>
      /\ UNCHANGED <<lock, profileLock, todo, sentOn, drop, stage, turn, stored, events>>
  BY DEF Open, steady, wire, calls, counts, dropping, transfer, pad
<1>2. PICK l \in {"settle", "detach"} :
        Goto(CONNECTOR, l) /\ (l = "settle" => serial' = opened + 1)
                           /\ (l = "detach" => serial' = serial)
  BY <1>1
<1>3. l \in Label /\ l \in Ways(CONNECTOR)
  BY DEF Label, Ways
<1>4. Moves(CONNECTOR, l, drop[CONNECTOR], todo[CONNECTOR], sentOn[CONNECTOR])
  BY <1>1, <1>2, <1>3 DEF Moves, MoveType, TypeOK, Goto
<1>5. opened \in 0 .. MAX_LINKS /\ opened + 1 \in Port /\ opened' \in 0 .. MAX_LINKS
  BY <1>1, Ports DEF TypeOK, ThreadInv
<1>6. ~hello /\ serial = NONE
  BY <1>1 DEF LinkInv
<1>7. /\ pc'[CONNECTOR] = l
      /\ \A u \in Thread : u # CONNECTOR => pc'[u] = pc[u]
      /\ UNCHANGED <<drop, todo, lock, sentOn, responses, hello, cancel, broken>>
  BY <1>1, <1>4 DEF Moves
<1>8. ThreadInv'
  <2>1. \A g \in Port : g > opened + 1 => pc'[g] = "idle"
    BY <1>5, <1>7, Ports DEF ThreadInv
  <2>2. pc'[opened + 1] = "idle"
    BY <1>5, <1>7, Ports DEF ThreadInv
  <2>3. \A u \in Thread : pc'[u] \in Ways(u)
    BY <1>3, <1>7 DEF ThreadInv
  <2>4. /\ \A u \in Thread : pc'[u] \in {"send", "wait"} => todo'[u] # <<>>
        /\ \A u \in Thread : pc'[u] = "wait" => lock' = u /\ sentOn'[u] # NONE
        /\ drop'[WINDOW] = AnyPort
    BY <1>7 DEF ThreadInv
  <2> QED BY <1>1, <1>5, <1>7, <2>1, <2>2, <2>3, <2>4 DEF ThreadInv, Ways
<1>9. DropInv'
  BY <1>7 DEF DropInv
<1>10. LinkInv'
  BY <1>2, <1>6, <1>7 DEF LinkInv
<1>11. WaiterIsWoken'
  <2>1. \A u \in Thread : pc'[u] = "wait" => u # CONNECTOR /\ pc[u] = "wait"
    BY <1>7
  <2>2. \A u \in Thread : pc[u] = "wake" => pc'[u] = "wake"
    BY <1>1, <1>7
  <2>3. ASSUME NEW u \in Thread, pc'[u] = "wait", serial' # sentOn'[u],
               \A v \in Thread : pc'[v] # "wake"
        PROVE  LinkLost \in ToSet(responses')
    <3>1. CASE serial # sentOn[u]
      BY <1>7, <2>1, <2>2, <2>3, <3>1 DEF WaiterIsWoken
    <3>2. CASE serial = sentOn[u]
      BY <1>6, <2>1, <2>3, <3>2 DEF ThreadInv
    <3> QED BY <3>1, <3>2
  <2> QED BY <2>3 DEF WaiterIsWoken
<1>12. TodoInv' /\ TurnInv'
  BY <1>1, <1>2, <1>4, TodoKeeps, TurnKeeps DEF TodoInv, TurnInv
<1>13. CallType' /\ WireType' /\ PadType'
  BY <1>1, Types DEF CallType, WireType, PadType
<1>14. LinkType'
  <2>1. serial' \in Port \cup {NONE}
    BY <1>1, <1>5, Types DEF LinkType
  <2>2. broken' \subseteq 1 .. opened' /\ stop' \subseteq 1 .. opened'
    BY <1>1, <1>5, Types DEF LinkType
  <2> QED BY <1>1, <1>5, <2>1, <2>2, Types DEF LinkType
<1> QED BY <1>4, <1>8, <1>9, <1>10, <1>11, <1>12, <1>13, <1>14, TypesNext DEF Moves

LEMMA SettleKeeps ==
  ASSUME IInv, Settle
  PROVE  IInv'
<1> USE Threads DEF IInv
<1>1. /\ pc[CONNECTOR] = "settle"
      /\ UNCHANGED <<session, disconnects, cancel, plugged, opened, broken, unplugs, begun, late>>
      /\ UNCHANGED <<serial, hello, stop, down, hand, responses, told, blob, want, kept, crossed, nested>>
      /\ UNCHANGED <<lock, profileLock, sentOn, drop, stage, turn, stored, events>>
  BY DEF Settle, steady, link, client, counts, dropping, transfer, pad
<1>2. CallType' /\ LinkType' /\ PadType'
  BY <1>1, Types DEF CallType, LinkType, PadType
<1>3. CASE Goto(CONNECTOR, "detach") /\ UNCHANGED <<up, todo>>
  <2>1. "detach" \in Label /\ "detach" \in Ways(CONNECTOR)
    BY DEF Label, Ways
  <2>2. Moves(CONNECTOR, "detach", drop[CONNECTOR], todo[CONNECTOR], sentOn[CONNECTOR])
    BY <1>1, <1>3, <2>1 DEF Moves, MoveType, TypeOK, Goto
  <2>3. ThreadInv' /\ DropInv' /\ LinkInv'
    BY <1>1, <2>1, <2>2, MoveKeeps DEF DropInv, LinkInv
  <2>4. WaiterIsWoken'
    BY <1>1, <2>2, WokenKeeps
  <2>5. TodoInv' /\ TurnInv'
    BY <1>1, <1>3, <2>2, TodoKeeps, TurnKeeps DEF TodoInv, TurnInv
  <2>6. WireType'
    BY <1>1, <1>3, Types DEF WireType
  <2> QED BY <1>2, <2>2, <2>3, <2>4, <2>5, <2>6, TypesNext DEF Moves
<1>4. CASE /\ ~cancel /\ serial = opened
           /\ up' = <<>>
           /\ pc' = [pc EXCEPT ![opened] = "read", ![CONNECTOR] = "send"]
           /\ todo' = [todo EXCEPT ![CONNECTOR] = <<Word("ident")>>]
  <2>1. opened \in Port /\ opened \in Thread /\ opened # CONNECTOR /\ opened # WINDOW
    BY <1>1 DEF ThreadInv
  <2>2. <<Word("ident")>> \in Seq(Lines) /\ ~IsTransfer(Word("ident"))
    BY LineTypes DEF Verb, IsTransfer, Word, Line
  <2>3. /\ pc'[CONNECTOR] = "send" /\ pc'[opened] = "read"
        /\ \A u \in Thread \ {CONNECTOR, opened} : pc'[u] = pc[u]
        /\ todo'[CONNECTOR] = <<Word("ident")>>
        /\ \A u \in Thread \ {CONNECTOR} : todo'[u] = todo[u]
        /\ pc[opened] = "idle"
    BY <1>1, <1>4, <2>1 DEF TypeOK, ThreadInv
  <2>4. MoveType'
    BY <1>1, <1>4, <2>2 DEF MoveType, TypeOK, Label
  <2>5. ThreadInv'
    <3>1. \A u \in Thread : pc'[u] \in Ways(u)
      BY <2>1, <2>3 DEF ThreadInv, Ways, Label
    <3>2. \A u \in Thread : pc'[u] \in {"send", "wait"} => todo'[u] # <<>>
      BY <2>1, <2>3 DEF ThreadInv
    <3>3. \A g \in Port : g > opened => pc'[g] = "idle"
      BY <2>1, <2>3, Ports DEF ThreadInv
    <3>4. \A u \in Thread : pc'[u] = "wait" => lock' = u /\ sentOn'[u] # NONE
      BY <1>1, <2>1, <2>3 DEF ThreadInv
    <3> QED BY <1>1, <2>1, <2>3, <3>1, <3>2, <3>3, <3>4 DEF ThreadInv, Ways
  <2>6. DropInv'
    BY <1>1, <2>1, <2>3 DEF DropInv
  <2>7. LinkInv'
    BY <1>1, <1>4, <2>1, <2>3 DEF LinkInv
  <2>8. WaiterIsWoken'
    <3>1. \A u \in Thread : pc'[u] = "wait" => pc[u] = "wait"
      BY <2>1, <2>3
    <3>2. \A u \in Thread : pc[u] = "wake" => pc'[u] = "wake"
      BY <1>1, <2>1, <2>3
    <3> QED BY <1>1, <3>1, <3>2 DEF WaiterIsWoken
  <2>9. TodoInv'
    <3>1. \A i \in DOMAIN todo'[CONNECTOR] : ~IsTransfer(todo'[CONNECTOR][i])
      BY <2>2, <2>3 DEF IsTransfer
    <3> QED BY <1>1, <2>3, <3>1 DEF TodoInv, IsTransfer
  <2>10. TurnInv'
    <3>1. ~IsTransfer(todo'[CONNECTOR][1])
      BY <2>2, <2>3
    <3>2. \A u \in Thread : pc'[u] = "wait" => pc[u] = "wait"
      BY <2>1, <2>3
    <3> QED BY <1>1, <2>3, <3>1, <3>2 DEF TurnInv, IsTransfer
  <2>11. WireType'
    BY <1>1, <1>4, Types DEF WireType
  <2> QED BY <1>2, <2>4, <2>5, <2>6, <2>7, <2>8, <2>9, <2>10, <2>11, TypesNext
<1> QED BY <1>3, <1>4 DEF Settle

LEMMA IdentifiedKeeps ==
  ASSUME IInv, Identified
  PROVE  IInv'
<1> USE Threads DEF IInv
<1>1. /\ pc[CONNECTOR] = "identified" /\ sentOn' = [sentOn EXCEPT ![CONNECTOR] = NONE]
      /\ UNCHANGED <<session, disconnects, cancel, plugged, opened, broken, unplugs, begun, late>>
      /\ UNCHANGED <<serial, stop, down, up, hand, responses, told, blob, want, kept, crossed, nested>>
      /\ UNCHANGED <<todo, lock, profileLock, drop, stage, turn, stored, events>>
  BY DEF Identified, steady, link, wire, counts, dropping, transfer, pad
<1>2. PICK l \in {"idle", "detach"} :
        /\ Goto(CONNECTOR, l)
        /\ l = "idle" => serial = opened /\ hello' = TRUE
        /\ l = "detach" => hello' = hello
  BY DEF Identified
<1>3. l \in Label /\ l \in Ways(CONNECTOR)
  BY DEF Label, Ways
<1>4. Moves(CONNECTOR, l, drop[CONNECTOR], todo[CONNECTOR], NONE)
  BY <1>1, <1>2, <1>3 DEF Moves, MoveType, TypeOK, Goto
<1>5. opened \in Port /\ ~hello
  BY <1>1 DEF ThreadInv, LinkInv
<1>6. ThreadInv' /\ DropInv'
  BY <1>1, <1>2, <1>3, <1>4, ThreadKeeps DEF DropInv
<1>7. LinkInv'
  <2>1. pc'[CONNECTOR] = l /\ pc'[WINDOW] = pc[WINDOW]
    BY <1>4 DEF Moves
  <2> QED BY <1>1, <1>2, <1>5, <2>1 DEF LinkInv
<1>8. WaiterIsWoken'
  BY <1>1, <1>2, <1>4, WokenKeeps
<1>9. TodoInv' /\ TurnInv'
  BY <1>1, <1>2, <1>4, TodoKeeps, TurnKeeps DEF TodoInv, TurnInv
<1>10. CallType' /\ WireType' /\ PadType'
  BY <1>1, Types DEF CallType, WireType, PadType
<1>11. LinkType'
  <2>1. hello' \in BOOLEAN
    BY <1>2, Types DEF LinkType
  <2> QED BY <1>1, <2>1, Types DEF LinkType
<1> QED BY <1>4, <1>6, <1>7, <1>8, <1>9, <1>10, <1>11, TypesNext DEF Moves

---------------------------------------------------------------------------
(* The readers, the pad and the cable                                        *)

(* No thread moves, and what changes of the link only breaks it.             *)
LEMMA StillKeeps ==
  ASSUME TypeOK, ThreadInv, DropInv, LinkInv, WaiterIsWoken, TodoInv,
         UNCHANGED <<pc, todo, sentOn, drop, nested, lock, profileLock>>,
         UNCHANGED <<serial, hello, cancel, opened>>, broken \subseteq broken',
         LinkLost \in ToSet(responses) => LinkLost \in ToSet(responses')
  PROVE  ThreadInv' /\ DropInv' /\ LinkInv' /\ WaiterIsWoken' /\ TodoInv' /\ MoveType'
<1>1. ThreadInv' /\ LinkInv'
  BY DEF ThreadInv, LinkInv
<1>2. DropInv'
  BY DEF DropInv
<1>3. WaiterIsWoken' /\ TodoInv'
  BY DEF WaiterIsWoken, TodoInv
<1>4. MoveType'
  BY Types DEF MoveType
<1> QED BY <1>1, <1>2, <1>3, <1>4

LEMMA ReadKeeps ==
  ASSUME IInv, NEW g \in Port, Read(g)
  PROVE  IInv'
<1> USE Threads DEF IInv
<1>1. /\ hand' = [hand EXCEPT ![g] = up] /\ up' = <<>>
      /\ UNCHANGED <<pc, todo, sentOn, drop, nested, lock, profileLock>>
      /\ UNCHANGED <<session, disconnects, cancel, plugged, opened, broken, unplugs, begun, late>>
      /\ UNCHANGED <<serial, hello, stop, down, responses, told, blob, want, kept, crossed>>
      /\ UNCHANGED <<stage, turn, stored, events>>
  BY DEF Read, steady, link, client, calls, counts, dropping, transfer, pad
<1>2. ThreadInv' /\ DropInv' /\ LinkInv' /\ WaiterIsWoken' /\ TodoInv' /\ MoveType'
  BY <1>1, StillKeeps
<1>3. TurnInv'
  BY <1>1 DEF TurnInv
<1>4. CallType' /\ LinkType' /\ PadType'
  BY <1>1, Types DEF CallType, LinkType, PadType
<1>5. WireType'
  BY <1>1, Types DEF WireType
<1> QED BY <1>2, <1>3, <1>4, <1>5, TypesNext

LEMMA ReadFailsKeeps ==
  ASSUME IInv, NEW g \in Port, ReadFails(g)
  PROVE  IInv'
<1> USE Threads DEF IInv
<1>1. /\ pc[g] = "read" /\ g \in broken
      /\ drop' = [drop EXCEPT ![g] = Lost(g)] /\ Goto(g, "detach")
      /\ UNCHANGED <<todo, sentOn, nested, lock, profileLock>>
      /\ UNCHANGED <<session, disconnects, cancel, plugged, opened, broken, unplugs, begun, late>>
      /\ UNCHANGED <<serial, hello, stop, down, up, hand, responses, told, blob, want, kept, crossed>>
      /\ UNCHANGED <<stage, turn, stored, events>>
  BY DEF ReadFails, steady, link, client, wire, calls, counts, transfer, pad
<1>2. "detach" \in Label /\ "detach" \in Ways(g)
  BY DEF Label, Ways
<1>3. /\ Lost(g) \in [port : Port \cup {NONE}, notify : BOOLEAN]
      /\ Lost(g).port = g /\ Lost(g).notify
  BY DEF Lost
<1> HIDE DEF Lost
<1>4. Moves(g, "detach", Lost(g), todo[g], sentOn[g])
  BY <1>1, <1>2, <1>3 DEF Moves, MoveType, TypeOK, Goto
<1>5. ThreadInv' /\ DropInv' /\ LinkInv'
  BY <1>1, <1>2, <1>3, <1>4, MoveKeeps
<1>6. WaiterIsWoken'
  BY <1>1, <1>4, WokenKeeps
<1>7. TodoInv' /\ TurnInv'
  BY <1>1, <1>4, TodoKeeps, TurnKeeps DEF TodoInv, TurnInv
<1>8. CallType' /\ LinkType' /\ WireType' /\ PadType'
  BY <1>1, Types DEF CallType, LinkType, WireType, PadType
<1> QED BY <1>4, <1>5, <1>6, <1>7, <1>8, TypesNext DEF Moves

LEMMA DispatchKeeps ==
  ASSUME IInv, NEW g \in Port, Dispatch(g)
  PROVE  IInv'
<1> USE Threads DEF IInv
<1>1. /\ pc[g] = "read" /\ hand[g] # <<>> /\ hand' = [hand EXCEPT ![g] = Tail(hand[g])]
      /\ UNCHANGED <<sentOn, drop, nested, lock, profileLock>>
      /\ UNCHANGED <<session, disconnects, cancel, plugged, opened, broken, unplugs, begun, late>>
      /\ UNCHANGED <<serial, hello, stop, down, up, told, blob, want, kept, crossed>>
      /\ UNCHANGED <<stage, turn, stored, events>>
  BY DEF Dispatch, steady, link, client, counts, dropping, transfer, pad
<1>2. CallType' /\ LinkType' /\ PadType'
  BY <1>1, Types DEF CallType, LinkType, PadType
<1>3. hand' \in [Port -> Seq(Lines)] /\ Head(hand[g]) \in Lines
  <2>1. hand \in [Port -> Seq(Lines)] /\ hand[g] \in Seq(Lines)
    BY Types DEF WireType
  <2>2. Tail(hand[g]) \in Seq(Lines) /\ Head(hand[g]) \in Lines
    BY <1>1, <2>1
  <2> QED BY <1>1, <2>1, <2>2
<1>4. CASE /\ responses' \in {responses, Append(responses, Head(hand[g]))}
           /\ UNCHANGED <<pc, todo>>
  <2>1. responses' \in Seq(Lines)
    <3>1. responses \in Seq(Lines)
      BY Types DEF WireType
    <3>2. Append(responses, Head(hand[g])) \in Seq(Lines)
      BY <1>3, <3>1
    <3> QED BY <1>4, <3>1, <3>2
  <2>2. LinkLost \in ToSet(responses) => LinkLost \in ToSet(responses')
    <3>1. responses \in Seq(Lines)
      BY DEF TypeOK
    <3>2. \A i \in DOMAIN responses :
            /\ i \in DOMAIN Append(responses, Head(hand[g]))
            /\ Append(responses, Head(hand[g]))[i] = responses[i]
      BY <3>1
    <3> QED BY <1>4, <3>2 DEF ToSet
  <2>3. ThreadInv' /\ DropInv' /\ LinkInv' /\ WaiterIsWoken' /\ TodoInv' /\ MoveType'
    BY <1>1, <1>4, <2>2, StillKeeps
  <2>4. TurnInv'
    BY <1>1, <1>4 DEF TurnInv
  <2>5. WireType'
    BY <1>1, <1>3, <2>1, Types DEF WireType
  <2> QED BY <1>2, <2>3, <2>4, <2>5, TypesNext
<1>5. CASE /\ todo' = [todo EXCEPT ![g] = NobodyListens]
           /\ Goto(g, "send")
           /\ UNCHANGED responses
  <2>1. "send" \in Label /\ "send" \in Ways(g)
    BY DEF Label, Ways
  <2>2. NobodyListens \in Seq(Lines) /\ NobodyListens # <<>>
    BY LineTypes DEF NobodyListens
  <2>3. \A i \in DOMAIN NobodyListens : ~IsTransfer(NobodyListens[i])
    BY DEF NobodyListens, IsTransfer, Word, Line
  <2>4. 1 \in DOMAIN NobodyListens
    BY DEF NobodyListens
  <2> HIDE DEF NobodyListens
  <2>5. Moves(g, "send", drop[g], NobodyListens, sentOn[g])
    BY <1>1, <1>5, <2>1, <2>2 DEF Moves, MoveType, TypeOK, Goto
  <2>6. ThreadInv' /\ DropInv' /\ LinkInv'
    BY <1>1, <2>1, <2>2, <2>5, MoveKeeps DEF DropInv
  <2>7. WaiterIsWoken'
    BY <1>1, <1>5, <2>5, WokenKeeps
  <2>8. TodoInv' /\ TurnInv'
    BY <1>1, <2>3, <2>4, <2>5, TodoKeeps, TurnKeeps
  <2>9. WireType'
    BY <1>1, <1>3, <1>5, Types DEF WireType
  <2> QED BY <1>2, <2>5, <2>6, <2>7, <2>8, <2>9, TypesNext DEF Moves
<1> QED BY <1>4, <1>5 DEF Dispatch

(* The pad has taken the first line.                                         *)
LEMMA FitsTaken ==
  ASSUME NEW lines \in Seq(Lines), lines # <<>>, NEW last, NEW p, NEW n \in 1 .. Len(lines),
         Fits(lines, last, p, n)
  PROVE  Fits(Tail(lines), IF IsTransfer(Head(lines)) THEN Head(lines).profile ELSE last, p, n - 1)
<1> DEFINE rest == Tail(lines)
           now == IF IsTransfer(Head(lines)) THEN Head(lines).profile ELSE last
<1>1. /\ rest \in Seq(Lines) /\ Len(rest) = Len(lines) - 1 /\ Len(lines) \in Nat
      /\ n - 1 \in 0 .. Len(rest)
      /\ \A j \in 1 .. n - 1 : rest[j] = lines[j + 1] /\ j + 1 \in 1 .. n
      /\ Head(lines) = lines[1] /\ 1 \in 1 .. n
  OBVIOUS
<1>2. ASSUME NEW j \in 1 .. n - 1, IsTransfer(rest[j]),
             \A k \in j + 1 .. n - 1 : ~IsTransfer(rest[k])
      PROVE  rest[j].profile = p
  <2>1. ASSUME NEW k \in j + 2 .. n PROVE ~IsTransfer(lines[k])
    <3>1. k - 1 \in j + 1 .. n - 1 /\ k - 1 \in 1 .. n - 1 /\ (k - 1) + 1 = k
      BY <1>1, <2>1
    <3>2. rest[k - 1] = lines[k]
      BY <1>1, <3>1
    <3> QED BY <1>2, <3>1, <3>2
  <2>2. j + 1 \in 1 .. n /\ (j + 1) + 1 = j + 2 /\ rest[j] = lines[j + 1]
    BY <1>1
  <2> HIDE DEF rest
  <2> QED BY <1>2, <2>1, <2>2 DEF Fits
<1>3. ASSUME \A j \in 1 .. n - 1 : ~IsTransfer(rest[j])
      PROVE  now \in {NONE, p}
  <2>1. ASSUME NEW k \in 2 .. n PROVE ~IsTransfer(lines[k])
    <3>1. k - 1 \in 1 .. n - 1 /\ (k - 1) + 1 = k
      BY <1>1, <2>1
    <3>2. rest[k - 1] = lines[k]
      BY <1>1, <3>1
    <3> QED BY <1>3, <3>1, <3>2
  <2>2. CASE IsTransfer(lines[1])
    <3>1. lines[1].profile = p
      <4>1. 1 + 1 = 2 /\ 1 \in 1 .. n
        BY <1>1
      <4> QED BY <2>1, <2>2, <4>1 DEF Fits
    <3> QED BY <1>1, <2>2, <3>1
  <2>3. CASE ~IsTransfer(lines[1])
    <3>1. \A j \in 1 .. n : ~IsTransfer(lines[j])
      <4>1. \A j \in 1 .. n : j = 1 \/ j \in 2 .. n
        BY <1>1
      <4> QED BY <2>1, <2>3, <4>1
    <3> QED BY <1>1, <2>3, <3>1 DEF Fits
  <2> QED BY <2>2, <2>3
<1> QED BY <1>2, <1>3 DEF Fits

LEMMA PadKeeps ==
  ASSUME IInv, PadAnswers
  PROVE  IInv'
<1> USE Threads DEF IInv
<1> DEFINE line == Head(down)
<1>1. /\ down # <<>> /\ down' = Tail(down) /\ UNCHANGED hand
      /\ turn' = IF IsTransfer(line) THEN line.profile ELSE turn
      /\ UNCHANGED <<pc, todo, sentOn, drop, nested, lock, profileLock>>
      /\ UNCHANGED <<session, disconnects, cancel, plugged, opened, broken, unplugs, begun, late>>
      /\ UNCHANGED <<serial, hello, stop, responses, told, blob, want, crossed, events>>
  BY DEF PadAnswers, AnswersWord, AnswersRead, AnswersBegin, AnswersData, AnswersCommit,
         AnswersBusy, Reply, steady, link, client, calls, counts, dropping
<1>2. down \in Seq(Lines) /\ line \in Lines /\ down' \in Seq(Lines) /\ up \in Seq(Lines)
  BY <1>1 DEF TypeOK
<1>3. PICK reply \in Seq(Lines) : up' = up \o reply
  <2>1. /\ <<Word("HELLO")>> \in Seq(Lines) /\ <<Word("OK")>> \in Seq(Lines)
        /\ <<Word("ERR")>> \in Seq(Lines) /\ ReadLines(stored) \in Seq(Lines)
    BY LineTypes DEF Verb, TypeOK
  <2>2. \/ up' = up \o <<Word("HELLO")>> \/ up' = up \o <<Word("OK")>>
        \/ up' = up \o <<Word("ERR")>> \/ up' = up \o ReadLines(stored)
    BY DEF PadAnswers, AnswersWord, AnswersRead, AnswersBegin, AnswersData, AnswersCommit,
           AnswersBusy, Reply
  <2> QED BY <2>1, <2>2
<1>4. WireType'
  BY <1>1, <1>2, <1>3, Types DEF WireType
<1>5. ThreadInv' /\ DropInv' /\ LinkInv' /\ WaiterIsWoken' /\ TodoInv' /\ MoveType'
  BY <1>1, StillKeeps
<1>6. TurnInv'
  <2>1. Len(down') = Len(down) - 1 /\ Len(down) \in 1 .. Len(down)
        /\ \A i \in 1 .. Len(down') : down'[i] = down[i + 1] /\ i + 1 \in 1 .. Len(down)
    BY <1>1, <1>2
  <2>2. ASSUME NEW i \in 1 .. Len(down'), down'[i].verb \in {"data", "commit"}
        PROVE  Fits(down', turn', down'[i].profile, i - 1)
    <3>1. Fits(down, turn, down[i + 1].profile, (i + 1) - 1)
      BY <2>1, <2>2 DEF TurnInv
    <3>2. (i + 1) - 1 = i /\ i \in 1 .. Len(down)
      BY <1>2, <2>1
    <3> QED BY <1>1, <1>2, <2>1, <3>1, <3>2, FitsTaken
  <2>3. ASSUME NEW u \in Thread, todo[u] # <<>>, IsTransfer(todo[u][1]),
               pc[u] = "wait" \/ todo[u][1].verb # "begin"
        PROVE  Fits(down', turn', u, Len(down'))
    <3>1. Fits(down, turn, u, Len(down))
      BY <2>3 DEF TurnInv
    <3> QED BY <1>1, <1>2, <2>1, <3>1, FitsTaken
  <2> QED BY <1>1, <2>2, <2>3 DEF TurnInv
<1>7. line.profile \in Profile /\ line.seq \in 0 .. CHUNKS
  BY <1>2 DEF Lines
<1>8. NoStage \in [by : Profile, got : [1 .. CHUNKS -> Profile]]
  BY DEF NoStage
<1>9. stage' \in [by : Profile, got : [1 .. CHUNKS -> Profile]]
  <2>1. stage \in [by : Profile, got : [1 .. CHUNKS -> Profile]]
    BY Types DEF PadType
  <2>2. CASE AnswersBegin(line)
    <3> HIDE DEF NoStage, line
    <3> QED BY <1>7, <1>8, <2>2 DEF AnswersBegin
  <2>3. CASE AnswersData(line)
    <3>1. stage' = stage \/ stage' = [stage EXCEPT !.got[line.seq] = line.profile]
      BY <2>3 DEF AnswersData
    <3> DEFINE g == [stage.got EXCEPT ![line.seq] = line.profile]
    <3>2. g \in [1 .. CHUNKS -> Profile]
      BY <1>7, <2>1
    <3>3. [stage EXCEPT !.got[line.seq] = line.profile] = [stage EXCEPT !.got = g]
      OBVIOUS
    <3> HIDE DEF g
    <3>4. [stage EXCEPT !.got = g] \in [by : Profile, got : [1 .. CHUNKS -> Profile]]
      BY <2>1, <3>2
    <3> QED BY <2>1, <3>1, <3>3, <3>4, Zenon
  <2>4. CASE AnswersCommit(line)
    BY <1>8, <2>4 DEF AnswersCommit
  <2>5. CASE AnswersWord(line) \/ AnswersRead(line) \/ AnswersBusy(line)
    BY <2>1, <2>5 DEF AnswersWord, AnswersRead, AnswersBusy
  <2> QED BY <2>2, <2>3, <2>4, <2>5 DEF PadAnswers
<1>10. stored' \in Profile /\ kept' \subseteq Profile
  <2>1. stage.by \in Profile /\ stored \in Profile /\ kept \subseteq Profile
    BY Types DEF PadType, CallType
  <2>2. stored' \in {stored, stage.by} /\ kept' \subseteq kept \cup {stage.by}
    BY DEF PadAnswers, AnswersWord, AnswersRead, AnswersBegin, AnswersData, AnswersCommit,
           AnswersBusy
  <2> QED BY <2>1, <2>2
<1>11. CallType' /\ LinkType'
  BY <1>1, <1>10, Types DEF CallType, LinkType
<1>12. PadType'
  BY <1>1, <1>7, <1>9, <1>10, Types DEF PadType
<1> QED BY <1>4, <1>5, <1>6, <1>11, <1>12, TypesNext

LEMMA OutsideKeeps ==
  ASSUME IInv, RecordRequest \/ StageTick \/ Unplug \/ Plug
  PROVE  IInv'
<1> USE Threads DEF IInv
<1>1. /\ UNCHANGED <<pc, todo, sentOn, drop, nested, lock, profileLock>>
      /\ UNCHANGED <<session, disconnects, cancel, opened, begun, late>>
      /\ UNCHANGED <<serial, hello, stop, hand, responses, told, blob, want, kept, crossed, stored>>
      /\ \/ down' = down /\ turn' = turn
         \/ down' = <<>> /\ turn' = NONE
  BY DEF RecordRequest, StageTick, Unplug, Plug, steady, link, client, wire, calls, counts,
         dropping, transfer, pad
<1>2. broken \subseteq broken' /\ broken' \subseteq 1 .. opened
  BY DEF RecordRequest, StageTick, Unplug, Plug, link, TypeOK
<1>3. ThreadInv' /\ DropInv' /\ LinkInv' /\ WaiterIsWoken' /\ TodoInv' /\ MoveType'
  BY <1>1, <1>2, StillKeeps
<1>4. TurnInv'
  <2>1. CASE down' = down /\ turn' = turn
    BY <1>1, <2>1 DEF TurnInv
  <2>2. CASE down' = <<>> /\ turn' = NONE
    <3>1. Len(down') = 0 /\ \A p : Fits(<<>>, NONE, p, 0)
      BY <2>2 DEF Fits
    <3> QED BY <2>2, <3>1 DEF TurnInv
  <2> QED BY <1>1, <2>1, <2>2
<1>5. CallType'
  BY <1>1, Types DEF CallType
<1>6. LinkType'
  <2>1. plugged' \in BOOLEAN /\ unplugs' \in 0 .. MAX_UNPLUGS
    <3>1. plugged \in BOOLEAN /\ unplugs \in 0 .. MAX_UNPLUGS /\ MAX_UNPLUGS \in Nat
      BY Types, ClientAssumption DEF LinkType
    <3>2. plugged' \in {plugged, TRUE, FALSE}
      BY DEF RecordRequest, StageTick, Unplug, Plug, link
    <3>3. unplugs' = unplugs \/ (unplugs < MAX_UNPLUGS /\ unplugs' = unplugs + 1)
      BY DEF RecordRequest, StageTick, Unplug, Plug, link
    <3>4. plugged' \in BOOLEAN
      BY <3>1, <3>2, Zenon
    <3>5. unplugs' \in 0 .. MAX_UNPLUGS
      BY <3>1, <3>3
    <3> QED BY <3>4, <3>5
  <2> QED BY <1>1, <1>2, <2>1, Types DEF LinkType
<1>7. WireType'
  <2>1. up' \in {up, <<>>, Append(up, Word("EV"))}
    BY DEF RecordRequest, StageTick, Unplug, Plug, wire
  <2>2. up \in Seq(Lines) /\ Word("EV") \in Lines
    BY LineTypes, Types DEF WireType, Verb
  <2>3. up' \in Seq(Lines)
    <3>1. Append(up, Word("EV")) \in Seq(Lines) /\ <<>> \in Seq(Lines)
      BY <2>2
    <3> QED BY <2>1, <2>2, <3>1, Zenon
  <2>4. down' \in Seq(Lines)
    <3>1. down \in Seq(Lines)
      BY Types DEF WireType
    <3>2. <<>> \in Seq(Lines)
      OBVIOUS
    <3> QED BY <1>1, <3>1, <3>2, Zenon
  <2> QED BY <1>1, <2>3, <2>4, Types DEF WireType
<1>8. PadType'
  <2>1. stage' \in {stage, NoStage} /\ events' \in 0 .. MAX_EVENTS
    BY ClientAssumption DEF RecordRequest, StageTick, Unplug, Plug, pad, TypeOK
  <2>2. NoStage \in [by : Profile, got : [1 .. CHUNKS -> Profile]]
    BY DEF NoStage
  <2> QED BY <1>1, <2>1, <2>2, Types DEF PadType
<1> QED BY <1>3, <1>4, <1>5, <1>6, <1>7, <1>8, TypesNext

---------------------------------------------------------------------------
(* The invariant                                                             *)

LEMMA InitInv == Init => IInv
<1> SUFFICES ASSUME Init PROVE IInv
  OBVIOUS
<1> USE Threads, Ports, ClientAssumption
<1>1. MoveType
  <2>1. <<>> \in Seq(Lines) /\ "idle" \in Label
    BY DEF Label
  <2>2. AnyPort \in [port : Port \cup {NONE}, notify : BOOLEAN]
    BY DEF AnyPort
  <2>3. pc \in [Thread -> Label] /\ todo \in [Thread -> Seq(Lines)]
    BY <2>1 DEF Init
  <2>4. drop \in [Thread -> [port : Port \cup {NONE}, notify : BOOLEAN]]
    <3>1. drop = [t \in Thread |-> AnyPort]
      BY DEF Init
    <3> QED BY <2>2, <3>1, Zenon
  <2>5. sentOn \in [Thread -> Port \cup {NONE}]
    BY DEF Init
  <2> QED BY <2>3, <2>4, <2>5 DEF MoveType
<1>2. CallType
  <2>1. crossed \in BOOLEAN
    BY DEF Init
  <2> QED BY <2>1 DEF Init, CallType
<1>3. LinkType
  <2>1. session \in BOOLEAN /\ plugged \in BOOLEAN /\ hello \in BOOLEAN /\ cancel \in BOOLEAN
    BY DEF Init
  <2>2. opened \in 0 .. MAX_LINKS /\ unplugs \in 0 .. MAX_UNPLUGS
        /\ disconnects \in 0 .. MAX_DISCONNECTS
    BY DEF Init
  <2>3. serial \in Port \cup {NONE} /\ broken \subseteq 1 .. opened /\ stop \subseteq 1 .. opened
    BY DEF Init
  <2> QED BY <2>1, <2>2, <2>3 DEF LinkType
<1>4. WireType
  <2>1. <<>> \in Seq(Lines)
    OBVIOUS
  <2> QED BY <2>1 DEF Init, WireType
<1>5. PadType
  <2>1. NoStage \in [by : Profile, got : [1 .. CHUNKS -> Profile]]
    BY DEF NoStage
  <2> QED BY <2>1 DEF Init, PadType
<1>6. TypeOK
  BY <1>1, <1>2, <1>3, <1>4, <1>5, Types
<1>7. \A t \in Thread : pc[t] = "idle" /\ todo[t] = <<>> /\ drop[t] = AnyPort
  BY DEF Init
<1>8. opened = 0 /\ ~hello /\ serial = NONE /\ ~cancel /\ down = <<>>
  BY DEF Init
<1>9. ThreadInv
  <2>1. \A t \in Thread : "idle" \in Ways(t)
    BY DEF Ways, Label
  <2>2. \A g \in Port : pc[g] = "idle"
    BY <1>7 DEF Thread
  <2> QED BY <1>7, <1>8, <2>1, <2>2 DEF ThreadInv
<1>10. DropInv
  <2>1. AnyPort.port = NONE /\ AnyPort.notify = FALSE
    BY DEF AnyPort
  <2> QED BY <1>7, <2>1 DEF DropInv
<1>11. LinkInv /\ WaiterIsWoken
  BY <1>7, <1>8 DEF LinkInv, WaiterIsWoken
<1>12. TodoInv
  BY <1>7 DEF TodoInv
<1>13. TurnInv
  BY <1>7, <1>8 DEF TurnInv
<1> QED BY <1>6, <1>9, <1>10, <1>11, <1>12, <1>13 DEF IInv

LEMMA ProceedKeeps ==
  ASSUME IInv, NEW t \in Thread, Proceed(t)
  PROVE  IInv'
  BY SendKeeps, WaitKeeps, EndKeeps, DetachKeeps, ReportKeeps, WakeKeeps DEF Proceed

LEMMA SameInv == ASSUME IInv, UNCHANGED vars PROVE IInv'
<1>1. UNCHANGED <<steady, link, client, wire, responses, lock, pc, calls, dropping,
                  transfer, pad>>
  BY DEF vars
<1>2. MoveType' /\ CallType'
  BY <1>1, Types DEF IInv, MoveType, CallType, calls, counts, dropping, transfer
<1>3. LinkType' /\ WireType'
  BY <1>1, Types DEF IInv, LinkType, WireType, steady, link, client, wire
<1>4. PadType'
  BY <1>1, Types DEF IInv, PadType, pad
<1>5. TypeOK'
  BY <1>2, <1>3, <1>4, TypesNext
<1>6. ThreadInv' /\ DropInv' /\ LinkInv'
  BY <1>1 DEF IInv, ThreadInv, DropInv, LinkInv, steady, link, client, calls, dropping
<1>7. WaiterIsWoken' /\ TodoInv' /\ TurnInv'
  BY <1>1 DEF IInv, WaiterIsWoken, TodoInv, TurnInv, client, wire, calls, transfer, pad
<1> QED BY <1>5, <1>6, <1>7 DEF IInv

LEMMA StepInv == IInv /\ [Next]_vars => IInv'
<1> SUFFICES ASSUME IInv, [Next]_vars PROVE IInv'
  OBVIOUS
<1>1. CASE UNCHANGED vars
  BY <1>1, SameInv
<1>2. ASSUME NEW t \in CALLERS,
             StartWrite(t) \/ StartRead(t) \/ StartRequest(t) \/ Proceed(t)
      PROVE  IInv'
  BY <1>2, Threads, StartKeeps, ProceedKeeps
<1>3. CASE StartConnect \/ ConnectorProceeds
  BY <1>3, Threads, StartConnectKeeps, ProceedKeeps, OpenKeeps, SettleKeeps, IdentifiedKeeps
  DEF ConnectorProceeds
<1>4. CASE Disconnect \/ Proceed(WINDOW)
  BY <1>4, Threads, DisconnectKeeps, ProceedKeeps
<1>5. ASSUME NEW g \in Port, ReaderProceeds(g) PROVE IInv'
  BY <1>5, Threads, ProceedKeeps, ReadKeeps, ReadFailsKeeps, DispatchKeeps
  DEF ReaderProceeds
<1>6. CASE PadAnswers \/ RecordRequest \/ StageTick \/ Unplug \/ Plug
  BY <1>6, PadKeeps, OutsideKeeps
<1> QED BY <1>1, <1>2, <1>3, <1>4, <1>5, <1>6 DEF Next

LEMMA Invariance == Spec => []IInv
  BY InitInv, StepInv, PTL DEF Spec

(* Only _drop_link() forgets that the pad introduced itself.                 *)
LEMMA HelloGoes ==
  ASSUME [Next]_vars, hello, ~hello'
  PROVE  \E t \in Thread : Detach(t)
<1>1. \/ Next
      \/ UNCHANGED client
  BY DEF vars
<1>2. ASSUME NEW t \in Thread, Proceed(t) PROVE Detach(t) \/ hello' = hello
  BY <1>2 DEF Proceed, Send, FlushAndSend, GetAnswer, GetProfileLine, TimeOut, Return,
              Report, Wake, client
<1>3. ASSUME NEW t \in CALLERS, StartWrite(t) \/ StartRead(t) \/ StartRequest(t)
      PROVE  hello' = hello
  BY <1>3 DEF StartWrite, StartRead, StartRequest, client
<1>4. StartConnect \/ NextCandidate \/ Open \/ Settle \/ Disconnect => hello' = hello
  BY DEF StartConnect, NextCandidate, Open, Settle, Disconnect, client
<1>5. Identified => hello' = hello \/ hello'
  BY DEF Identified
<1>6. ASSUME NEW g \in Port, Read(g) \/ ReadFails(g) \/ Dispatch(g) PROVE hello' = hello
  BY <1>6 DEF Read, ReadFails, Dispatch, client
<1>7. PadAnswers \/ RecordRequest \/ StageTick \/ Unplug \/ Plug => hello' = hello
  BY DEF PadAnswers, RecordRequest, StageTick, Unplug, Plug, client
<1>8. UNCHANGED client => hello' = hello
  BY DEF client
<1> QED BY <1>1, <1>2, <1>3, <1>4, <1>5, <1>6, <1>7, <1>8, Threads
        DEF Next, ConnectorProceeds, ReaderProceeds

---------------------------------------------------------------------------
(* What a write that reports success was told                                *)

(* Only callers hold the profile lock, and only in a call; what such a call   *)
(* is about to have answered ends in a commit, unless it is a read.          *)
HolderInv ==
  /\ profileLock \in CALLERS \cup {NONE}
  /\ \A t \in CALLERS : profileLock = t => pc[t] # "idle"
  /\ \A t \in CALLERS :
       profileLock = t /\ t \notin nested /\ pc[t] \in {"send", "wait"}
         => todo[t][Len(todo[t])].verb \in {"commit", "read"}

Asks(line) == line.verb \notin {"EV", "ident", "HELLO"}
NoOK(lines) == \A i \in 1 .. Len(lines) : lines[i].verb # "OK"
NoneConfirmed == NoOK(up) /\ NoOK(responses) /\ \A g \in Port : NoOK(hand[g])

(* While t writes: nothing but its own line is on its way to the pad when it  *)
(* waits, the stage is its own from its begin on, and an OK to the commit it  *)
(* waits for was given after the pad had stored its profile.                 *)
Honest(t) ==
  /\ pc[t] = "wait" /\ IsTransfer(todo[t][1]) =>
       /\ \A i \in 1 .. Len(down) : Asks(down[i]) => down[i] = todo[t][1]
       /\ todo[t][1].verb = "begin" => NoneConfirmed \/ stage.by \in {NONE, t}
       /\ todo[t][1].verb = "commit" => NoneConfirmed \/ t \in kept
  /\ pc[t] \in {"send", "wait"} /\ todo[t][1].verb \in {"data", "commit"} =>
       /\ stage.by \in {NONE, t}
       /\ \A i \in 1 .. Len(down) : down[i].verb = "begin" => down[i].profile = t
  /\ pc[t] = "done" /\ want = 0 => t \in kept

HonestInv == ~crossed => \A t \in CALLERS : profileLock = t => Honest(t)

FullInv == IInv /\ HolderInv /\ HonestInv

(* A step that confirms nothing, sends nothing and stores nothing.           *)
Calm ==
  /\ crossed => crossed'
  /\ kept' = kept
  /\ stage' \in {stage, NoStage}
  /\ down' \in {down, <<>>}
  /\ NoneConfirmed => NoneConfirmed'
  /\ want' = want \/ want' # 0

(* Whoever then holds the profile lock held it before, and is where it was,   *)
(* or does not go on with what it transfers.                                 *)
Stays(t) ==
  /\ profileLock = t
  /\ \/ pc'[t] = pc[t] /\ todo'[t] = todo[t] /\ (t \in nested => t \in nested')
     \/ pc'[t] \in {"detach", "wake"}
     \/ pc'[t] = "done" /\ want' # 0
     \/ pc'[t] = "send" /\ t \in nested' /\ todo'[t] = ReleaseLight

LEMMA StaysHonest ==
  ASSUME Calm, NEW t, Honest(t), Stays(t)
  PROVE  Honest(t)'
<1>1. ReleaseLight[1].verb = "led"
  BY DEF ReleaseLight, Word, Line
<1>2. stage'.by = stage.by \/ stage'.by = NONE
  BY DEF Calm, NoStage
<1>3. \A i \in 1 .. Len(down') : i \in 1 .. Len(down) /\ down'[i] = down[i]
  BY DEF Calm
<1>4. CASE pc'[t] = pc[t] /\ todo'[t] = todo[t]
  BY <1>2, <1>3, <1>4 DEF Honest, Calm
<1>5. CASE pc'[t] \in {"detach", "wake"} \/ (pc'[t] = "done" /\ want' # 0)
  BY <1>5 DEF Honest
<1>6. CASE pc'[t] = "send" /\ todo'[t] = ReleaseLight
  BY <1>1, <1>6 DEF Honest
<1> QED BY <1>4, <1>5, <1>6 DEF Stays

LEMMA CalmKeeps ==
  ASSUME HolderInv, HonestInv, Calm, profileLock' \in {profileLock, NONE},
         \A t \in CALLERS : profileLock' = t => Stays(t)
  PROVE  HolderInv' /\ HonestInv'
<1>1. HolderInv'
  BY DEF HolderInv, Stays
<1>2. ASSUME ~crossed', NEW t \in CALLERS, profileLock' = t
      PROVE  Honest(t)'
  <2>1. Honest(t) /\ Stays(t)
    BY <1>2 DEF Calm, HonestInv, Stays
  <2> QED BY <2>1, StaysHonest
<1> QED BY <1>1, <1>2 DEF HonestInv

(* One thread moves, and the others stay where they are.                     *)
LEMMA OneMoves ==
  ASSUME HolderInv, HonestInv, Calm, NEW u \in Thread, profileLock' \in {profileLock, NONE},
         \A t \in Thread : t # u =>
           pc'[t] = pc[t] /\ todo'[t] = todo[t] /\ (t \in nested => t \in nested'),
         u \in CALLERS /\ profileLock' = u => Stays(u)
  PROVE  HolderInv' /\ HonestInv'
<1>1. \A t \in CALLERS : profileLock' = t => Stays(t)
  BY Threads DEF Stays
<1> QED BY <1>1, CalmKeeps

LEMMA LeaveIsHonest ==
  ASSUME TypeOK, HolderInv, HonestInv, Calm, NEW u \in Thread, NEW l, Leave(u, l)
  PROVE  HolderInv' /\ HonestInv'
<1>1. /\ profileLock' \in {profileLock, NONE} /\ profileLock' # u
      /\ \A t \in Thread : t # u =>
           pc'[t] = pc[t] /\ todo'[t] = todo[t] /\ (t \in nested => t \in nested')
  BY Threads DEF Leave, Goto, TypeOK
<1> QED BY <1>1, OneMoves

LEMMA RaiseIsHonest ==
  ASSUME TypeOK, HolderInv, HonestInv, Calm, NEW u \in Thread, Raise(u)
  PROVE  HolderInv' /\ HonestInv'
  BY LeaveIsHonest DEF Raise

(* No OK comes into a queue of lines that is emptied, shortened or gets a    *)
(* line that is none.                                                        *)
LEMMA NoOKEmpty == NoOK(<<>>)
  BY DEF NoOK

LEMMA NoOKTail ==
  ASSUME NEW lines \in Seq(Lines), lines # <<>>, NoOK(lines)
  PROVE  NoOK(Tail(lines))
<1>1. \A i \in 1 .. Len(Tail(lines)) : i + 1 \in 1 .. Len(lines) /\ Tail(lines)[i] = lines[i + 1]
  OBVIOUS
<1> QED BY <1>1 DEF NoOK

LEMMA NoOKAppend ==
  ASSUME NEW lines \in Seq(Lines), NoOK(lines), NEW line \in Lines, line.verb # "OK"
  PROVE  NoOK(Append(lines, line))
<1>1. \A i \in 1 .. Len(Append(lines, line)) :
        \/ i \in 1 .. Len(lines) /\ Append(lines, line)[i] = lines[i]
        \/ Append(lines, line)[i] = line
  OBVIOUS
<1> QED BY <1>1 DEF NoOK

LEMMA NoOKHead ==
  ASSUME NEW lines \in Seq(Lines), lines # <<>>, NoOK(lines)
  PROVE  Head(lines).verb # "OK" /\ Head(lines) \in Lines
  BY DEF NoOK

---------------------------------------------------------------------------
(* Steps that are calm                                                       *)

LEMMA QueuesKeep ==
  ASSUME NoneConfirmed, UNCHANGED <<up, hand>>, NoOK(responses) => NoOK(responses')
  PROVE  NoneConfirmed'
  BY DEF NoneConfirmed

LEMMA EndIsHonest ==
  ASSUME FullInv, NEW t \in Thread, TimeOut(t) \/ Return(t)
  PROVE  HolderInv' /\ HonestInv'
<1>1. UNCHANGED <<crossed, kept, stage, down, up, hand, responses, want>>
  BY DEF TimeOut, Return, wire, pad
<1>2. Calm
  BY <1>1, QueuesKeep DEF Calm
<1> QED BY <1>2, LeaveIsHonest, RaiseIsHonest DEF TimeOut, Return, FullInv, IInv

LEMMA DetachIsHonest ==
  ASSUME FullInv, NEW t \in Thread, Detach(t)
  PROVE  HolderInv' /\ HonestInv'
<1>1. UNCHANGED <<crossed, kept, stage, down, up, hand, responses, want>>
  BY DEF Detach, wire, pad
<1>2. Calm
  BY <1>1, QueuesKeep DEF Calm
<1>3. CASE Raise(t)
  BY <1>2, <1>3, RaiseIsHonest DEF FullInv, IInv
<1>4. CASE Goto(t, "wake") /\ UNCHANGED <<lock, profileLock, todo, sentOn, nested>>
  <2>1. pc'[t] = "wake" /\ \A u \in Thread : u # t => pc'[u] = pc[u]
    BY <1>4 DEF Goto, FullInv, IInv, TypeOK
  <2> QED BY <1>2, <1>4, <2>1, OneMoves DEF FullInv, Stays
<1> QED BY <1>3, <1>4 DEF Detach

LEMMA MarkIsCalm ==
  ASSUME TypeOK, PutMark, UNCHANGED <<crossed, kept, stage, down, up, hand, want>>
  PROVE  Calm
<1>1. LinkLost.verb # "OK" /\ LinkLost \in Lines
  BY LineTypes DEF LinkLost, Word, Line
<1>2. NoOK(responses) => NoOK(responses')
  BY <1>1, NoOKAppend, Types DEF PutMark, WireType
<1> QED BY <1>2, QueuesKeep DEF Calm

LEMMA ReportIsHonest ==
  ASSUME FullInv, NEW t \in Thread, Report(t)
  PROVE  HolderInv' /\ HonestInv'
<1>1. Calm
  BY MarkIsCalm DEF Report, wire, pad, FullInv, IInv
<1>2. CASE Raise(t)
  BY <1>1, <1>2, RaiseIsHonest DEF FullInv, IInv
<1>3. CASE /\ nested' = nested \cup {t}
           /\ todo' = [todo EXCEPT ![t] = ReleaseLight]
           /\ Goto(t, "send")
           /\ UNCHANGED <<lock, profileLock, sentOn, drop>>
  <2>1. /\ pc'[t] = "send" /\ todo'[t] = ReleaseLight /\ t \in nested'
        /\ \A u \in Thread : u # t =>
             pc'[u] = pc[u] /\ todo'[u] = todo[u] /\ (u \in nested => u \in nested')
    BY <1>3 DEF Goto, FullInv, IInv, TypeOK
  <2> QED BY <1>1, <1>3, <2>1, OneMoves DEF FullInv, Stays
<1> QED BY <1>2, <1>3 DEF Report

LEMMA WakeIsHonest ==
  ASSUME FullInv, NEW t \in Thread, Wake(t)
  PROVE  HolderInv' /\ HonestInv'
<1>1. Calm
  BY MarkIsCalm DEF Wake, wire, pad, FullInv, IInv
<1>2. CASE Raise(t)
  BY <1>1, <1>2, RaiseIsHonest DEF FullInv, IInv
<1>3. CASE /\ drop[t] = AnyPort
           /\ UNCHANGED <<lock, profileLock, todo, sentOn, nested, drop>>
           /\ \E l : Goto(t, l)
  <2>1. t \notin CALLERS
    <3>1. pc[t] = "wake" /\ drop[t].port = NONE
      BY <1>3 DEF Wake, AnyPort
    <3> QED BY <3>1 DEF FullInv, IInv, DropInv
  <2>2. \A u \in Thread : u # t => pc'[u] = pc[u]
    BY <1>3 DEF Goto, FullInv, IInv, TypeOK
  <2> QED BY <1>1, <1>3, <2>1, <2>2, OneMoves DEF FullInv
<1> QED BY <1>2, <1>3 DEF Wake

LEMMA ConnectorIsHonest ==
  ASSUME FullInv, Disconnect \/ StartConnect \/ NextCandidate \/ Open \/ Settle \/ Identified
  PROVE  HolderInv' /\ HonestInv'
<1>1. UNCHANGED <<crossed, kept, stage, down, hand, responses, want, profileLock, nested>>
  BY DEF Disconnect, StartConnect, NextCandidate, Open, Settle, Identified, wire, pad, transfer,
         calls
<1>2. up' = up \/ up' = <<>>
  BY DEF Disconnect, StartConnect, NextCandidate, Open, Settle, Identified, wire
<1>3. Calm
  BY <1>1, <1>2, NoOKEmpty DEF Calm, NoneConfirmed
<1>4. \A t \in CALLERS : pc'[t] = pc[t] /\ todo'[t] = todo[t]
  <2> SUFFICES ASSUME NEW t \in CALLERS PROVE pc'[t] = pc[t] /\ todo'[t] = todo[t]
    OBVIOUS
  <2>1. /\ t \in Thread /\ t \notin Port /\ t # CONNECTOR /\ t # WINDOW
        /\ pc \in [Thread -> Label] /\ todo \in [Thread -> Seq(Lines)]
    BY Threads DEF FullInv, IInv, TypeOK
  <2>2. CASE Disconnect \/ StartConnect \/ NextCandidate \/ Open \/ Identified
    BY <2>1, <2>2 DEF Disconnect, StartConnect, NextCandidate, Open, Identified, Goto, calls
  <2>3. CASE Settle
    <3>1. CASE ~cancel /\ serial = opened /\ ~Closed(opened)
      <4>1. opened \in Port
        BY <2>3, Threads DEF Settle, FullInv, IInv, ThreadInv
      <4>2. opened # t
        BY <2>1, <4>1
      <4> QED BY <2>1, <2>3, <3>1, <4>2 DEF Settle
    <3>2. CASE ~(~cancel /\ serial = opened /\ ~Closed(opened))
      BY <2>1, <2>3, <3>2 DEF Settle, Goto
    <3> QED BY <3>1, <3>2
  <2> QED BY <2>2, <2>3
<1> QED BY <1>1, <1>3, <1>4, CalmKeeps DEF FullInv, Stays

LEMMA ReaderIsHonest ==
  ASSUME FullInv, NEW g \in Port, Read(g) \/ ReadFails(g) \/ Dispatch(g)
  PROVE  HolderInv' /\ HonestInv'
<1>1. UNCHANGED <<crossed, kept, stage, down, want, profileLock, nested>>
  BY DEF Read, ReadFails, Dispatch, wire, pad, transfer, calls
<1>2. up \in Seq(Lines) /\ responses \in Seq(Lines) /\ hand \in [Port -> Seq(Lines)]
  BY Types DEF FullInv, IInv, WireType
<1>3. NoneConfirmed => NoneConfirmed'
  <2> SUFFICES ASSUME NoneConfirmed PROVE NoneConfirmed'
    OBVIOUS
  <2>1. CASE ReadFails(g)
    BY <2>1 DEF ReadFails, wire, NoneConfirmed
  <2>2. CASE Read(g)
    <3>1. up' = <<>> /\ responses' = responses /\ hand' = [hand EXCEPT ![g] = up]
      BY <2>2 DEF Read
    <3> QED BY <1>2, <3>1, NoOKEmpty DEF NoneConfirmed
  <2>3. CASE Dispatch(g)
    <3>1. /\ up' = up /\ hand[g] # <<>> /\ hand' = [hand EXCEPT ![g] = Tail(hand[g])]
          /\ responses' \in {responses, Append(responses, Head(hand[g]))}
      BY <2>3 DEF Dispatch
    <3>2. NoOK(hand[g]) /\ hand[g] \in Seq(Lines) /\ NoOK(responses)
      BY <1>2 DEF NoneConfirmed
    <3>3. NoOK(Tail(hand[g])) /\ NoOK(responses')
      BY <1>2, <3>1, <3>2, NoOKTail, NoOKHead, NoOKAppend
    <3> QED BY <1>2, <3>1, <3>3 DEF NoneConfirmed
  <2> QED BY <2>1, <2>2, <2>3
<1>4. Calm
  BY <1>1, <1>3 DEF Calm
<1>5. \A t \in CALLERS : pc'[t] = pc[t] /\ todo'[t] = todo[t]
  <2>1. \A t \in CALLERS : t # g /\ t \in Thread
    BY Threads
  <2> QED BY <2>1 DEF Read, ReadFails, Dispatch, Goto, calls, FullInv, IInv, TypeOK
<1> QED BY <1>1, <1>4, <1>5, CalmKeeps DEF FullInv, Stays

LEMMA OutsideIsHonest ==
  ASSUME FullInv, RecordRequest \/ StageTick \/ Unplug \/ Plug \/ UNCHANGED vars
  PROVE  HolderInv' /\ HonestInv'
<1>1. /\ UNCHANGED <<crossed, kept, want, profileLock, nested, pc, todo, responses, hand>>
      /\ stage' \in {stage, NoStage} /\ down' \in {down, <<>>}
      /\ up' \in {up, <<>>, Append(up, Word("EV"))}
  BY DEF RecordRequest, StageTick, Unplug, Plug, vars, wire, pad, transfer, calls
<1>2. NoOK(up) => NoOK(up')
  <2>1. Word("EV") \in Lines /\ Word("EV").verb # "OK"
    BY LineTypes DEF Verb, Word, Line
  <2>2. up \in Seq(Lines)
    BY Types DEF FullInv, IInv, WireType
  <2> QED BY <1>1, <2>1, <2>2, NoOKEmpty, NoOKAppend
<1>3. Calm
  BY <1>1, <1>2 DEF Calm, NoneConfirmed
<1> QED BY <1>1, <1>3, CalmKeeps DEF FullInv, Stays

---------------------------------------------------------------------------
(* Calls begin                                                               *)

LEMMA StartIsHonest ==
  ASSUME FullInv, NEW t \in CALLERS, StartWrite(t) \/ StartRead(t) \/ StartRequest(t)
  PROVE  HolderInv' /\ HonestInv'
<1>1. /\ t \in Thread /\ t # NONE /\ pc \in [Thread -> Label] /\ todo \in [Thread -> Seq(Lines)]
      /\ \A u \in CALLERS : u \in Thread
  BY Threads DEF FullInv, IInv, TypeOK
<1>2. pc[t] = "idle" /\ profileLock # t
  BY DEF StartWrite, StartRead, StartRequest, Begin, FullInv, HolderInv
<1>3. CASE StartRequest(t)
  <2>1. UNCHANGED <<crossed, kept, stage, down, up, hand, responses, want, profileLock, nested>>
    BY <1>3 DEF StartRequest, wire, pad, transfer
  <2>2. Calm
    BY <2>1, QueuesKeep DEF Calm
  <2>3. \A u \in Thread : u # t => pc'[u] = pc[u] /\ todo'[u] = todo[u]
    BY <1>1, <1>3 DEF StartRequest, Begin, Goto
  <2> QED BY <1>1, <1>2, <2>1, <2>2, <2>3, OneMoves DEF FullInv
<1>4. ASSUME NEW lines \in Seq(Lines), profileLock' = t, pc' = [pc EXCEPT ![t] = "send"],
             todo' = [todo EXCEPT ![t] = lines], nested' = nested,
             lines[1].verb \notin {"data", "commit"},
             lines[Len(lines)].verb \in {"commit", "read"}
      PROVE  HolderInv' /\ HonestInv'
  <2>1. pc'[t] = "send" /\ todo'[t] = lines
    BY <1>1, <1>4
  <2>2. HolderInv'
    BY <1>4, <2>1 DEF HolderInv
  <2>3. Honest(t)'
    BY <1>4, <2>1 DEF Honest
  <2> QED BY <1>4, <2>2, <2>3 DEF HonestInv
<1>5. CASE StartWrite(t)
  <2>1. /\ profileLock' = t /\ pc' = [pc EXCEPT ![t] = "send"]
        /\ todo' = [todo EXCEPT ![t] = WriteLines(t)] /\ nested' = nested
    BY <1>5 DEF StartWrite, Begin, Goto
  <2> QED BY <1>4, <2>1, WriteLine, LineTypes
<1>6. CASE StartRead(t)
  <2>1. /\ profileLock' = t /\ pc' = [pc EXCEPT ![t] = "send"]
        /\ todo' = [todo EXCEPT ![t] = <<Word("read")>>] /\ nested' = nested
    BY <1>6 DEF StartRead, Begin, Goto
  <2>2. Word("read") \in Lines /\ Word("read").verb = "read"
    BY LineTypes DEF Verb, Word, Line
  <2>3. /\ <<Word("read")>> \in Seq(Lines) /\ <<Word("read")>>[1] = Word("read")
        /\ <<Word("read")>>[Len(<<Word("read")>>)] = Word("read")
    BY <2>2
  <2> QED BY <1>4, <2>1, <2>2, <2>3
<1> QED BY <1>3, <1>5, <1>6

---------------------------------------------------------------------------
(* A line is sent                                                            *)

LEMMA QuietWire ==
  ASSUME TypeOK, ~UnderWay
  PROVE  /\ \A i \in 1 .. Len(down) : ~Asks(down[i])
         /\ NoOK(up) /\ \A g \in Port : NoOK(hand[g])
<1>1. /\ \A line \in ToSet(down) : ~Asks(line)
      /\ \A line \in ToSet(up) : ~Asks(line)
      /\ \A g \in Port : \A line \in ToSet(hand[g]) : ~Asks(line)
  BY DEF UnderWay, Asks
<1>2. down \in Seq(Lines) /\ up \in Seq(Lines) /\ \A g \in Port : hand[g] \in Seq(Lines)
  BY Types DEF WireType
<1>3. \A lines \in Seq(Lines) : \A i \in 1 .. Len(lines) : lines[i] \in ToSet(lines)
  BY DEF ToSet
<1>4. ASSUME NEW lines \in Seq(Lines), \A line \in ToSet(lines) : ~Asks(line)
      PROVE  NoOK(lines)
  BY <1>3, <1>4 DEF NoOK, Asks
<1> QED BY <1>1, <1>2, <1>3, <1>4

LEMMA SendIsHonest ==
  ASSUME FullInv, NEW u \in Thread, Send(u)
  PROVE  HolderInv' /\ HonestInv'
<1>1. /\ lock \in {NONE, u} /\ pc[u] = "send" /\ responses' = <<>>
      /\ crossed' = (crossed \/ (profileLock = u /\ UnderWay))
      /\ UNCHANGED <<up, hand, want, kept, stage>>
  BY DEF Send, FlushAndSend, pad
<1>2. down' = down => Calm
  BY <1>1, NoOKEmpty DEF Calm, NoneConfirmed
<1>3. CASE Raise(u) /\ down' = down
  BY <1>2, <1>3, RaiseIsHonest DEF FullInv, IInv
<1>4. CASE Goto(u, "detach") /\ UNCHANGED <<down, profileLock, todo, nested>>
  <2>1. pc'[u] = "detach" /\ \A t \in Thread : t # u => pc'[t] = pc[t]
    BY <1>4 DEF Goto, FullInv, IInv, TypeOK
  <2> QED BY <1>2, <1>4, <2>1, OneMoves DEF FullInv, Stays
<1>5. CASE /\ down' = Append(down, Head(todo[u]))
           /\ Goto(u, "wait")
           /\ UNCHANGED <<profileLock, todo, nested>>
  <2>1. pc'[u] = "wait" /\ \A t \in Thread : t # u => pc'[t] = pc[t]
    BY <1>5 DEF Goto, FullInv, IInv, TypeOK
  <2>2. /\ todo[u] # <<>> /\ todo[u] \in Seq(Lines) /\ Head(todo[u]) = todo[u][1]
        /\ todo[u][1] \in Lines /\ 1 \in DOMAIN todo[u]
    BY <1>1 DEF FullInv, IInv, ThreadInv, TypeOK
  <2>3. down \in Seq(Lines)
    BY Types DEF FullInv, IInv, WireType
  <2>4. \A i \in 1 .. Len(down') :
          \/ i \in 1 .. Len(down) /\ down'[i] = down[i]
          \/ down'[i] = todo[u][1]
    BY <1>5, <2>2, <2>3
  <2>5. \A t \in CALLERS : t \in Thread
    BY Threads
  <2>6. HolderInv'
    BY <1>1, <1>5, <2>1, <2>5 DEF FullInv, HolderInv
  <2>7. ASSUME ~crossed', NEW t \in CALLERS, profileLock' = t
        PROVE  Honest(t)'
    <3>1. Honest(t) /\ profileLock = t
      BY <1>1, <1>5, <2>7 DEF FullInv, HonestInv
    <3>2. CASE t = u
      <4>1. ~UnderWay
        BY <1>1, <2>7, <3>1, <3>2
      <4>2. /\ \A i \in 1 .. Len(down) : ~Asks(down[i])
            /\ NoOK(up) /\ \A g \in Port : NoOK(hand[g])
        BY <4>1, QuietWire DEF FullInv, IInv
      <4>3. NoneConfirmed'
        BY <1>1, <4>2, NoOKEmpty DEF NoneConfirmed
      <4>4. \A i \in 1 .. Len(down') : Asks(down'[i]) => down'[i] = todo[u][1]
        BY <2>4, <4>2
      <4>5. \A i \in 1 .. Len(down') : down'[i].verb = "begin" => todo[u][1].verb = "begin"
        BY <4>4 DEF Asks
      <4>6. todo[u][1].verb \in {"data", "commit"} => stage'.by \in {NONE, u}
        BY <1>1, <3>1, <3>2 DEF Honest
      <4> QED BY <1>5, <2>1, <3>2, <4>3, <4>4, <4>5, <4>6 DEF Honest
    <3>3. CASE t # u
      <4>1. pc'[t] = pc[t] /\ todo'[t] = todo[t] /\ pc[t] # "wait"
        BY <1>1, <1>5, <2>1, <2>5, <3>3, Threads DEF FullInv, IInv, ThreadInv
      <4>2. todo[u][1].verb # "begin"
        BY <2>2, <3>1, <3>3 DEF FullInv, IInv, TodoInv, IsTransfer
      <4>3. \A i \in 1 .. Len(down') : down'[i].verb = "begin" =>
              i \in 1 .. Len(down) /\ down'[i] = down[i]
        BY <2>4, <4>2
      <4> QED BY <1>1, <3>1, <4>1, <4>3 DEF Honest
    <3> QED BY <3>2, <3>3
  <2> QED BY <2>6, <2>7 DEF HonestInv
<1> QED BY <1>3, <1>4, <1>5 DEF Send, FlushAndSend

---------------------------------------------------------------------------
(* Answers are taken                                                         *)

LEMMA TakenAnswer ==
  ASSUME TypeOK, responses # <<>>, responses' = Tail(responses),
         UNCHANGED <<crossed, kept, stage, down, up, hand>>, want' = want \/ want' # 0
  PROVE  Calm
<1>1. NoOK(responses) => NoOK(responses')
  BY NoOKTail, Types DEF WireType
<1> QED BY <1>1, QueuesKeep DEF Calm

(* A call goes on with its next line, or is through.                         *)
LEMMA GoesOn ==
  ASSUME FullInv, NEW t \in Thread, pc[t] = "wait", Calm, UNCHANGED <<profileLock, nested>>,
         todo' = [todo EXCEPT ![t] = Tail(todo[t])],
         NEW l \in {"send", "identified", "done"}, pc' = [pc EXCEPT ![t] = l],
         l = "send" => Len(todo[t]) > 1,
         t \in CALLERS /\ l # "send" => ~(Len(todo[t]) > 1) /\ l = "done",
         t \notin nested,
         IsTransfer(todo[t][1]) => ~NoneConfirmed,
         ~IsTransfer(todo[t][1]) => want' # 0 \/ todo[t][1].verb \notin {"commit", "read"}
  PROVE  HolderInv' /\ HonestInv'
<1>1. /\ todo[t] # <<>> /\ todo[t] \in Seq(Lines) /\ Len(todo[t]) \in Nat \ {0}
      /\ pc \in [Thread -> Label] /\ todo \in [Thread -> Seq(Lines)]
  BY DEF FullInv, IInv, ThreadInv, TypeOK
<1>2. /\ pc'[t] = l /\ todo'[t] = Tail(todo[t])
      /\ \A u \in Thread : u # t => pc'[u] = pc[u] /\ todo'[u] = todo[u]
  BY <1>1
<1>3. \A u \in CALLERS : u \in Thread
  BY Threads
<1>4. t \in CALLERS /\ profileLock = t =>
        todo[t][Len(todo[t])].verb \in {"commit", "read"}
  BY DEF FullInv, HolderInv
<1>5. l = "send" => /\ Tail(todo[t])[1] = todo[t][2] /\ 2 \in DOMAIN todo[t]
                    /\ Tail(todo[t])[Len(Tail(todo[t]))] = todo[t][Len(todo[t])]
  BY <1>1
<1>6. HolderInv'
  BY <1>2, <1>3, <1>4, <1>5 DEF FullInv, HolderInv
<1>7. ASSUME ~crossed', NEW u \in CALLERS, profileLock' = u
      PROVE  Honest(u)'
  <2>1. Honest(u) /\ profileLock = u /\ kept' = kept
    BY <1>7 DEF FullInv, HonestInv, Calm
  <2>2. CASE u # t
    BY <1>2, <1>3, <2>1, <2>2, StaysHonest DEF Stays
  <2>3. CASE u = t /\ l = "done"
    <3>1. todo[t][1].verb \in {"commit", "read"}
      <4>1. ~(Len(todo[t]) > 1)
        BY <2>3
      <4>2. \A n \in Nat \ {0} : ~(n > 1) => n = 1
        OBVIOUS
      <4>3. Len(todo[t]) = 1
        BY <1>1, <4>1, <4>2, Zenon
      <4> QED BY <1>4, <2>1, <2>3, <4>3
    <3>2. want' = 0 => IsTransfer(todo[t][1]) /\ todo[t][1].verb = "commit"
      BY <3>1 DEF IsTransfer
    <3>3. want' = 0 => t \in kept
      BY <2>1, <2>3, <3>2 DEF Honest
    <3> QED BY <1>2, <2>1, <2>3, <3>3 DEF Honest
  <2>4. CASE u = t /\ l = "send"
    <3>1. SUFFICES ASSUME todo[t][2].verb \in {"data", "commit"}
                   PROVE  /\ stage'.by \in {NONE, t}
                          /\ \A i \in 1 .. Len(down') :
                               down'[i].verb = "begin" => down'[i].profile = t
      BY <1>2, <1>5, <2>4 DEF Honest
    <3>2. IsTransfer(todo[t][1]) /\ todo[t][1].profile = t /\ todo[t][1].verb # "read"
      <4>1. IsTransfer(todo[t][2])
        BY <3>1 DEF IsTransfer
      <4>2. IsTransfer(todo[t][2 - 1]) /\ 1 \in DOMAIN todo[t]
        BY <1>1, <1>5, <2>4, <4>1 DEF FullInv, IInv, TodoInv
      <4> QED BY <4>2 DEF FullInv, IInv, TodoInv, IsTransfer
    <3>3. stage.by \in {NONE, t}
      BY <2>1, <2>4, <3>2 DEF Honest, IsTransfer
    <3>4. \A i \in 1 .. Len(down) : down[i].verb = "begin" => down[i].profile = t
      BY <2>1, <2>4, <3>2 DEF Honest, Asks
    <3>5. stage'.by = stage.by \/ stage'.by = NONE
      BY DEF Calm, NoStage
    <3>6. \A i \in 1 .. Len(down') : i \in 1 .. Len(down) /\ down'[i] = down[i]
      BY DEF Calm
    <3> QED BY <3>3, <3>4, <3>5, <3>6
  <2> QED BY <1>7, <2>1, <2>2, <2>3, <2>4
<1> QED BY <1>6, <1>7 DEF HonestInv

LEMMA AnsweredIsHonest ==
  ASSUME FullInv, NEW t \in Thread, pc[t] = "wait", Calm, Answered(t),
         IsTransfer(todo[t][1]) => ~NoneConfirmed,
         ~IsTransfer(todo[t][1]) => want' # 0 \/ todo[t][1].verb \notin {"commit", "read"}
  PROVE  HolderInv' /\ HonestInv'
<1>1. CASE t \in nested
  BY <1>1, RaiseIsHonest DEF Answered, FullInv, IInv
<1>2. CASE t \notin nested
  <2> DEFINE l == CASE Len(todo[t]) > 1 -> "send"
                    [] t = CONNECTOR -> "identified"
                    [] OTHER -> "done"
  <2>1. /\ todo' = [todo EXCEPT ![t] = Tail(todo[t])] /\ pc' = [pc EXCEPT ![t] = l]
        /\ UNCHANGED <<profileLock, nested>>
    BY <1>2 DEF Answered, Goto
  <2>2. t \in CALLERS => t # CONNECTOR
    BY Threads
  <2>3. /\ l \in {"send", "identified", "done"}
        /\ l = "send" => Len(todo[t]) > 1
    OBVIOUS
  <2>4. t # CONNECTOR => l \in {"send", "done"}
    OBVIOUS
  <2>5. t # CONNECTOR /\ Len(todo[t]) > 1 => l = "send"
    OBVIOUS
  <2> HIDE DEF l
  <2>6. t \in CALLERS /\ l # "send" => ~(Len(todo[t]) > 1) /\ l = "done"
    BY <2>2, <2>4, <2>5, Zenon
  <2> QED BY <1>2, <2>1, <2>3, <2>6, GoesOn
<1> QED BY <1>1, <1>2

LEMMA GetProfileLineIsHonest ==
  ASSUME FullInv, NEW t \in Thread, GetProfileLine(t)
  PROVE  HolderInv' /\ HonestInv'
<1>1. /\ responses # <<>> /\ responses' = Tail(responses) /\ pc[t] = "wait"
      /\ UNCHANGED <<crossed, kept, stage, down, up, hand>>
      /\ Head(todo[t]).verb = "read"
  BY DEF GetProfileLine, wire, pad
<1>2. want \in Nat /\ CHUNKS \in Nat
  BY Types, ClientAssumption DEF FullInv, IInv, CallType
<1>3. CASE want' = want + 1 /\ Ignored
  <2>1. Calm
    BY <1>1, <1>2, <1>3, TakenAnswer DEF FullInv, IInv
  <2> QED BY <1>3, <2>1, OneMoves DEF Ignored, FullInv, Stays
<1>4. CASE Ignored /\ UNCHANGED <<want, blob>>
  <2>1. Calm
    BY <1>1, <1>4, TakenAnswer DEF FullInv, IInv
  <2> QED BY <1>4, <2>1, OneMoves DEF Ignored, FullInv, Stays
<1>5. CASE Raise(t) /\ UNCHANGED <<want, blob>>
  <2>1. Calm
    BY <1>1, <1>5, TakenAnswer DEF FullInv, IInv
  <2> QED BY <1>5, <2>1, RaiseIsHonest DEF FullInv, IInv
<1>6. CASE want = CHUNKS + 1 /\ Answered(t) /\ UNCHANGED <<want, blob>>
  <2>1. Calm
    BY <1>1, <1>6, TakenAnswer DEF FullInv, IInv
  <2>2. want' # 0
    BY <1>2, <1>6
  <2>3. ~IsTransfer(todo[t][1])
    <3>1. Head(todo[t]) = todo[t][1]
      BY <1>1 DEF FullInv, IInv, ThreadInv, TypeOK
    <3> QED BY <1>1, <3>1 DEF IsTransfer
  <2> QED BY <1>1, <1>6, <2>1, <2>2, <2>3, AnsweredIsHonest
<1> QED BY <1>3, <1>4, <1>5, <1>6 DEF GetProfileLine

LEMMA GetAnswerIsHonest ==
  ASSUME FullInv, NEW t \in Thread, GetAnswer(t)
  PROVE  HolderInv' /\ HonestInv'
<1>1. /\ responses # <<>> /\ responses' = Tail(responses) /\ pc[t] = "wait"
      /\ UNCHANGED <<crossed, kept, stage, down, up, hand, want>>
      /\ Head(todo[t]).verb # "read"
  BY DEF GetAnswer, wire, pad
<1>2. Calm
  BY <1>1, TakenAnswer DEF FullInv, IInv
<1>3. CASE Raise(t)
  BY <1>2, <1>3, RaiseIsHonest DEF FullInv, IInv
<1>4. CASE Ignored
  BY <1>2, <1>4, OneMoves DEF Ignored, FullInv, Stays
<1>5. CASE Answered(t) /\ Head(responses).verb = Expected(Head(todo[t]))
  <2>1. Head(todo[t]) = todo[t][1]
    BY <1>1 DEF FullInv, IInv, ThreadInv, TypeOK
  <2>2. IsTransfer(todo[t][1]) => Head(responses).verb = "OK"
    BY <1>5, <2>1 DEF IsTransfer, Expected
  <2>3. NoneConfirmed => Head(responses).verb # "OK"
    BY <1>1, NoOKHead, Types DEF NoneConfirmed, FullInv, IInv, WireType
  <2>4. ~IsTransfer(todo[t][1]) => todo[t][1].verb \notin {"commit", "read"}
    BY <1>1, <2>1 DEF IsTransfer
  <2> QED BY <1>1, <1>2, <1>5, <2>2, <2>3, <2>4, AnsweredIsHonest
<1> QED BY <1>3, <1>4, <1>5 DEF GetAnswer

---------------------------------------------------------------------------
(* The pad answers                                                           *)

LEMMA NoOKJoin ==
  ASSUME NEW lines \in Seq(Lines), NoOK(lines), NEW line \in Lines, line.verb # "OK"
  PROVE  NoOK(lines \o <<line>>)
<1>1. \A i \in 1 .. Len(lines \o <<line>>) :
        \/ i \in 1 .. Len(lines) /\ (lines \o <<line>>)[i] = lines[i]
        \/ (lines \o <<line>>)[i] = line
  OBVIOUS
<1> QED BY <1>1 DEF NoOK

(* What an answer that is no OK leaves unconfirmed.                          *)
LEMMA RefusedOnly ==
  ASSUME TypeOK, NoneConfirmed, UNCHANGED <<responses, hand>>,
         NEW v \in {"HELLO", "ERR"}, up' = up \o <<Word(v)>>
  PROVE  NoneConfirmed'
<1>1. Word(v) \in Lines /\ Word(v).verb # "OK"
  BY LineTypes DEF Verb, Word, Line
<1>2. NoOK(up')
  BY <1>1, NoOKJoin, Types DEF WireType, NoneConfirmed
<1> QED BY <1>2 DEF NoneConfirmed

LEMMA PadIsHonest ==
  ASSUME FullInv, PadAnswers
  PROVE  HolderInv' /\ HonestInv'
<1> DEFINE line == Head(down)
<1>1. /\ UNCHANGED <<responses, hand, pc, todo, nested, profileLock, want, crossed>>
      /\ down # <<>> /\ down' = Tail(down)
      /\ \/ AnswersWord(line) \/ AnswersRead(line) \/ AnswersBegin(line)
         \/ AnswersData(line) \/ AnswersCommit(line) \/ AnswersBusy(line)
  BY DEF PadAnswers, calls, AnswersWord, AnswersRead, AnswersBegin, AnswersData, AnswersCommit,
         AnswersBusy, Reply
<1>2. /\ down \in Seq(Lines) /\ line = down[1] /\ 1 \in 1 .. Len(down)
      /\ \A i \in 1 .. Len(down') : i + 1 \in 1 .. Len(down) /\ down'[i] = down[i + 1]
  BY <1>1, Types DEF FullInv, IInv, WireType
<1>3. HolderInv'
  BY <1>1 DEF FullInv, HolderInv
<1>4. stage.by \in Profile /\ kept \subseteq kept'
  <2>1. stage \in [by : Profile, got : [1 .. CHUNKS -> Profile]]
    BY Types DEF FullInv, IInv, PadType
  <2> QED BY <1>1, <2>1 DEF AnswersWord, AnswersRead, AnswersBegin, AnswersData,
                          AnswersCommit, AnswersBusy
<1>5. /\ AnswersBegin(line) => stage'.by = line.profile
      /\ ~AnswersBegin(line) => stage'.by \in {NONE, stage.by}
  <2>1. NoStage.by = NONE /\ \A p : [NoStage EXCEPT !.by = p].by = p
    BY DEF NoStage
  <2>2. stage \in [by : Profile, got : [1 .. CHUNKS -> Profile]]
    BY Types DEF FullInv, IInv, PadType
  <2>3. AnswersBegin(line) => stage'.by = line.profile
    <3> HIDE DEF NoStage, line
    <3> QED BY <2>1 DEF AnswersBegin
  <2>4. AnswersData(line) => stage'.by = stage.by
    <3>1. AnswersData(line) =>
            stage' = stage \/ stage' = [stage EXCEPT !.got[line.seq] = line.profile]
      BY DEF AnswersData
    <3> QED BY <2>2, <3>1
  <2>5. AnswersCommit(line) => stage'.by = NONE
    <3> HIDE DEF NoStage, line
    <3> QED BY <2>1 DEF AnswersCommit
  <2>6. AnswersWord(line) \/ AnswersRead(line) \/ AnswersBusy(line) => stage'.by = stage.by
    BY DEF AnswersWord, AnswersRead, AnswersBusy
  <2> QED BY <1>1, <2>3, <2>4, <2>5, <2>6, Zenon
<1> HIDE DEF line
<1>6. ASSUME ~crossed', NEW t \in CALLERS, profileLock' = t
      PROVE  Honest(t)'
  <2>1. Honest(t) /\ profileLock = t /\ t \in Thread
    BY <1>1, <1>6, Threads DEF FullInv, HonestInv
  <2>2. pc[t] = "done" /\ want = 0 => t \in kept'
    BY <1>4, <2>1 DEF Honest
  <2>3. ASSUME pc[t] = "wait", IsTransfer(todo[t][1])
        PROVE  /\ \A i \in 1 .. Len(down') : Asks(down'[i]) => down'[i] = todo[t][1]
               /\ Asks(line) => line = todo[t][1] /\ line.profile = t
    <3>1. \A i \in 1 .. Len(down) : Asks(down[i]) => down[i] = todo[t][1]
      BY <2>1, <2>3 DEF Honest
    <3>2. todo[t][1].profile = t
      <4>1. 1 \in DOMAIN todo[t]
        BY <2>1, <2>3 DEF FullInv, IInv, ThreadInv, TypeOK
      <4> QED BY <2>1, <2>3, <4>1 DEF FullInv, IInv, TodoInv
    <3> QED BY <1>2, <3>1, <3>2
  <2>4. ASSUME pc[t] \in {"send", "wait"}, todo[t][1].verb \in {"data", "commit"}
        PROVE  /\ stage'.by \in {NONE, t}
               /\ \A i \in 1 .. Len(down') : down'[i].verb = "begin" => down'[i].profile = t
    <3>1. /\ stage.by \in {NONE, t}
          /\ \A i \in 1 .. Len(down) : down[i].verb = "begin" => down[i].profile = t
      BY <2>1, <2>4 DEF Honest
    <3>2. AnswersBegin(line) => line.profile = t
      BY <1>2, <3>1 DEF AnswersBegin
    <3> QED BY <1>2, <1>5, <3>1, <3>2
  <2>5. ASSUME pc[t] = "wait", IsTransfer(todo[t][1]), todo[t][1].verb = "begin"
        PROVE  NoneConfirmed' \/ stage'.by \in {NONE, t}
    <3>1. NoneConfirmed \/ stage.by \in {NONE, t}
      BY <2>1, <2>5 DEF Honest
    <3>2. CASE AnswersBegin(line)
      <4>1. line.profile = t
        BY <2>3, <2>5, <3>2 DEF AnswersBegin, Asks
      <4> QED BY <1>5, <3>1, <3>2, <4>1
    <3>3. CASE AnswersBusy(line)
      BY <1>1, <1>5, <3>1, <3>3, RefusedOnly DEF AnswersBusy, Reply, FullInv, IInv
    <3>4. CASE AnswersWord(line)
      <4>1. line.verb = "ident"
        BY <2>3, <2>5, <3>4 DEF AnswersWord, Asks
      <4> QED BY <1>1, <3>1, <3>4, <4>1, RefusedOnly DEF AnswersWord, Reply, FullInv, IInv
    <3>5. ~AnswersRead(line) /\ ~AnswersData(line) /\ ~AnswersCommit(line)
      BY <2>3, <2>5 DEF AnswersRead, AnswersData, AnswersCommit, Asks
    <3> QED BY <1>1, <3>2, <3>3, <3>4, <3>5
  <2>6. ASSUME pc[t] = "wait", IsTransfer(todo[t][1]), todo[t][1].verb = "commit"
        PROVE  NoneConfirmed' \/ t \in kept'
    <3>1. (NoneConfirmed \/ t \in kept) /\ stage.by \in {NONE, t}
      BY <2>1, <2>6 DEF Honest
    <3>2. CASE AnswersCommit(line)
      <4>1. CASE Reply(<<Word("OK")>>) /\ stage.by # NONE /\ kept' = kept \cup {stage.by}
        BY <3>1, <4>1
      <4>2. CASE Reply(<<Word("ERR")>>)
        BY <1>1, <1>4, <3>1, <4>2, RefusedOnly DEF Reply, FullInv, IInv
      <4> QED BY <3>2, <4>1, <4>2 DEF AnswersCommit
    <3>3. CASE AnswersBusy(line)
      BY <1>1, <1>4, <3>1, <3>3, RefusedOnly DEF AnswersBusy, Reply, FullInv, IInv
    <3>4. CASE AnswersWord(line)
      <4>1. line.verb = "ident"
        BY <2>3, <2>6, <3>4 DEF AnswersWord, Asks
      <4> QED BY <1>1, <1>4, <3>1, <3>4, <4>1, RefusedOnly DEF AnswersWord, Reply, FullInv, IInv
    <3>5. ~AnswersRead(line) /\ ~AnswersData(line) /\ ~AnswersBegin(line)
      BY <2>3, <2>6 DEF AnswersRead, AnswersData, AnswersBegin, Asks
    <3> QED BY <1>1, <3>2, <3>3, <3>4, <3>5
  <2> QED BY <1>1, <2>2, <2>3, <2>4, <2>5, <2>6 DEF Honest
<1> QED BY <1>3, <1>6 DEF HonestInv

---------------------------------------------------------------------------
LEMMA FullStep == FullInv /\ [Next]_vars => FullInv'
<1> SUFFICES ASSUME FullInv, [Next]_vars PROVE HolderInv' /\ HonestInv'
  BY StepInv DEF FullInv
<1>1. CASE UNCHANGED vars
  BY <1>1, OutsideIsHonest
<1>2. ASSUME NEW t \in Thread, Proceed(t) PROVE HolderInv' /\ HonestInv'
  BY <1>2, SendIsHonest, GetAnswerIsHonest, GetProfileLineIsHonest, EndIsHonest,
     DetachIsHonest, ReportIsHonest, WakeIsHonest DEF Proceed
<1>3. ASSUME NEW t \in CALLERS,
             StartWrite(t) \/ StartRead(t) \/ StartRequest(t) \/ Proceed(t)
      PROVE  HolderInv' /\ HonestInv'
  BY <1>2, <1>3, Threads, StartIsHonest
<1>4. CASE StartConnect \/ ConnectorProceeds \/ Disconnect \/ Proceed(WINDOW)
  BY <1>2, <1>4, Threads, ConnectorIsHonest DEF ConnectorProceeds
<1>5. ASSUME NEW g \in Port, ReaderProceeds(g) PROVE HolderInv' /\ HonestInv'
  BY <1>2, <1>5, Threads, ReaderIsHonest DEF ReaderProceeds
<1>6. CASE PadAnswers \/ RecordRequest \/ StageTick \/ Unplug \/ Plug
  BY <1>6, PadIsHonest, OutsideIsHonest
<1> QED BY <1>1, <1>3, <1>4, <1>5, <1>6 DEF Next

LEMMA FullInvariance == Spec => []FullInv
<1>1. Init => FullInv
  <2> SUFFICES ASSUME Init PROVE HolderInv /\ HonestInv
    BY InitInv DEF FullInv
  <2>1. profileLock = NONE /\ NONE \notin CALLERS
    BY Threads DEF Init
  <2> QED BY <2>1 DEF HolderInv, HonestInv
<1> QED BY <1>1, FullStep, PTL DEF Spec

---------------------------------------------------------------------------
(* What the client keeps                                                     *)

(* Every variable stays in its type: in particular a thread is always at one *)
(* of its own places, and only ports that were opened break or are closed.   *)
THEOREM TypeCorrect == Spec => []TypeOK
<1>1. IInv => TypeOK
  BY DEF IInv
<1> QED BY <1>1, Invariance, PTL

(* Transfers of several threads never interleave on their way to the pad:    *)
(* the profile lock of device/client.py:78 is enough, whatever timed out,    *)
(* was refused, failed to be sent or was answered late, for any number of    *)
(* callers and links.                                                        *)
THEOREM TransfersNeverInterleave == Spec => []TransfersInTurn
<1>1. IInv => TransfersInTurn
  <2> SUFFICES ASSUME IInv, down # <<>>, Head(down).verb \in {"data", "commit"}
               PROVE  turn \in {NONE, Head(down).profile}
    BY DEF TransfersInTurn
  <2>1. Len(down) \in Nat /\ 1 \in 1 .. Len(down) /\ Head(down) = down[1]
    BY Types DEF IInv, WireType
  <2>2. Fits(down, turn, down[1].profile, 0)
    BY <2>1 DEF IInv, TurnInv
  <2> QED BY <2>1, <2>2 DEF Fits
<1> QED BY <1>1, Invariance, PTL

(* Once disconnect() has returned, a connect() it overlapped does not bring  *)
(* the link back, at whatever step of connect() it came.                     *)
THEOREM DisconnectsForGood == Spec => []DisconnectSticks
<1>1. IInv => DisconnectSticks
  BY DEF IInv, LinkInv, DisconnectSticks
<1> QED BY <1>1, Invariance, PTL

(* A request whose link is gone finds the mark of the loss in the queue, or  *)
(* somebody is about to put it there: it does not wait for its time-out.     *)
THEOREM EveryWaiterIsWoken == Spec => []WaiterIsWoken
<1>1. IInv => WaiterIsWoken
  BY DEF IInv
<1> QED BY <1>1, Invariance, PTL

(* A working link goes only when someone asks for it: a reader that outlived *)
(* its link, or a write that failed on an older port, leaves it alone.       *)
THEOREM LateFailuresSpareTheLink == Spec => OnlyBrokenLinksDropped
<1>1. ASSUME IInv, [Next]_vars, hello, ~hello', serial \notin broken
      PROVE  pc[WINDOW] = "detach"
  <2>1. PICK t \in Thread : Detach(t)
    BY <1>1, HelloGoes
  <2>2. pc[t] = "detach" /\ drop[t].port \in {NONE, serial}
    BY <1>1, <2>1 DEF Detach, client
  <2>3. drop[t].port = NONE
    BY <1>1, <2>2 DEF IInv, DropInv
  <2>4. t \notin CALLERS \cup Port
    BY <1>1, <2>2, <2>3 DEF IInv, DropInv
  <2>5. t # CONNECTOR
    BY <1>1, <2>2 DEF IInv, LinkInv
  <2> QED BY <2>2, <2>4, <2>5, Threads
<1>2. IInv /\ [Next]_vars =>
        [hello /\ ~hello' /\ serial \notin broken => pc[WINDOW] = "detach"]_vars
  BY <1>1
<1> QED BY <1>2, Invariance, PTL DEF Spec, OnlyBrokenLinksDropped

(* A write that reports success was stored: with every thread at once, on any *)
(* link, with the cable pulled, calls given up and answers late, whatever the *)
(* pad refuses.  A confirmation can be another line's only if a line of the   *)
(* write went out while an older one, given up by its caller, was still under *)
(* way: requests carry no number (client.py:71, 348).                        *)
THEOREM ConfirmationsAreTrue == Spec => []ConfirmedUnlessCrossed
<1>1. FullInv => ConfirmedUnlessCrossed
  BY DEF FullInv, HonestInv, Honest, ConfirmedUnlessCrossed, ConfirmedIsStored
<1> QED BY <1>1, FullInvariance, PTL

=============================================================================
