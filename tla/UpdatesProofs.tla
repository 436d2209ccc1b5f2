----------------------------- MODULE UpdatesProofs -----------------------------
(* What the updates keep for any boards, any number of troubles and of uses,  *)
(* with the process ended at any step: the run has three boards, one trouble  *)
(* and one use.                                                              *)
EXTENDS Updates, TLAPS

Images == {OldImage, NewImage}

(* The jobs that wait, and how far the one that was taken can be.             *)
Queued == {ConnectJob, AppJob}
            \cup {Job("check", "seen", r, 0) : r \in Versions}
            \cup {Job("update", "best", r, 0) : r \in Versions}
            \cup {Job("install", "find", 0, i) : i \in Images}
AppStages == {"ask", "clear", "retire", "place", "undo", "sweep", "installed"}
WriteStages == {"find", "touch", "write", "writing", "verify image", "flashed"}
Told == {"seen", "best", "fetch", "load", "verify", "fetched", "unfetched", "decided"}
Stages == {"over", "open", "seen", "best", "fetch", "load", "verify", "fetched", "unfetched",
           "decided", "nothing", "failed"} \cup AppStages \cup WriteStages
Kinds == {"none", "connect", "app", "check", "update", "install"}

FileType == file \in [Files -> Contents] /\ version \in Whole
JobRecords == [kind : Kinds, at : Stages, running : Versions \cup {0}, image : Images \cup {0}]
JobType == job \in JobRecords
PadType == pad \in [board : {"avr109", "uf2"}, fw : Versions, torn : BOOLEAN,
                    mode : {"run", "boot", "away"}]
Boxes == [what : {"update"}, running : Versions] \cup [what : {"install"}, running : {0}]
Window ==
    [link : BOOLEAN, flags : SUBSET {"connecting", "flashing"},
     busy : {"none", "recording", "syncing"}, boxes : SUBSET Boxes,
     held : BOOLEAN, offered : BOOLEAN, checked : SUBSET Versions,
     looks : [Versions -> Nat], wanted : BOOLEAN, ready : BOOLEAN, swept : BOOLEAN,
     missed : BOOLEAN, unlooked : BOOLEAN]
Signals == [kind : {"ready", "offer", "flashed"}, running : {0}]
             \cup [kind : {"found"}, running : Versions]
QueueType == waiting \in Seq(Queued) /\ signals \in Seq(Signals)
TypeOK ==
    /\ FileType /\ JobType /\ PadType /\ window \in Window /\ QueueType
    /\ stranded \in BOOLEAN /\ lifted \in BOOLEAN /\ up \in BOOLEAN /\ auto \in BOOLEAN
    /\ troubles \in Nat /\ used \in Nat

(* A job is only ever at the steps of its kind; what the pad runs was told to *)
(* the one that looks for something newer, and what it will write is decided. *)
JobInv ==
    /\ job.at \in AppStages => job.kind = "app"
    /\ job.kind \in Deciders /\ job.at \in Told => job.running \in Versions
    /\ job.at \in WriteStages => job.kind \in Writers
    /\ job.at \in WriteStages \cup {"decided"} => job.image \in Images
    /\ job.kind = "none" => job.at = "over"

(* While a board is being written it waits for that, and it has what was      *)
(* written once that is to be verified; unless it was unplugged.              *)
WriteInv ==
    /\ At(Writers, "writing") => lifted \/ pad.mode = "boot"
    /\ At(Writers, "verify image") => lifted \/ pad.fw = job.image
    /\ SuccessMeansWritten

(* The new build was announced, or is about to be.                           *)
Announced ==
    \/ window.ready \/ job.at \in {"sweep", "installed"}
    \/ \E i \in 1 .. Len(signals) : signals[i].kind = "ready"

(* What is swapped in is the new build; jobs of an update of the program wait *)
(* for the first check; and a process that is not there is at nothing.        *)
StageInv ==
    job.kind = "app" /\ job.at \in {"fetched", "clear", "retire", "place"} => file.staged = "new"
SweptInv ==
    ~window.swept /\ up => job.kind # "app" /\ \A i \in 1 .. Len(waiting) : waiting[i].kind # "app"
DownInv == ~up => job = NoJob /\ signals = <<>> /\ waiting = <<>> /\ ~window.ready

(* The program is at its path, or beside it in a swap, or in one that the end *)
(* of the process cut short; and it is the new one once that was announced.   *)
BinInv ==
    ~stranded =>
      \/ file.bin \in {version, "new"} /\ (Announced => file.bin = "new")
      \/ /\ file.bin = "none" /\ file.retired \in {version, "new"}
         /\ Announced => file.retired = "new"
         /\ Swapping \/ ~up

SwapInv == StageInv /\ SweptInv /\ DownInv /\ BinInv

IInv == TypeOK /\ NeverUnchecked /\ JobInv /\ WriteInv /\ SwapInv

---------------------------------------------------------------------------
(* The window's record, field by field                                       *)

LEMMA Numbers ==
  /\ Images \subseteq Nat /\ Versions \subseteq Nat /\ Images \subseteq Versions
  /\ OldImage \in Images /\ NewImage \in Images /\ Bundled \in Images
  BY ImageAssumption, BoardAssumption DEF Images, Versions, Bundled

(* What the window knows of updates of the program stays as it is.           *)
Alike(v, w) == v \in Window /\ v.ready = w.ready /\ v.swept = w.swept

LEMMA SetFields ==
  ASSUME NEW w \in Window
  PROVE  /\ \A x \in BOOLEAN : /\ Alike([w EXCEPT !.link = x], w)
                               /\ Alike([w EXCEPT !.offered = x], w)
                               /\ Alike([w EXCEPT !.wanted = x], w)
         /\ \A x \in {"none", "recording", "syncing"} : Alike([w EXCEPT !.busy = x], w)
         /\ \A x \in SUBSET {"connecting", "flashing"} : Alike([w EXCEPT !.flags = x], w)
         /\ \A x \in SUBSET Versions : Alike([w EXCEPT !.checked = x], w)
         /\ \A x \in [Versions -> Nat] : Alike([w EXCEPT !.looks = x], w)
         /\ \A x \in SUBSET Boxes, y \in BOOLEAN : Alike([w EXCEPT !.boxes = x, !.held = y], w)
         /\ \A x, y \in BOOLEAN : Alike([w EXCEPT !.link = x, !.unlooked = y], w)
         /\ Alike(Disconnected(w), w)
  BY DEF Window, Alike, Disconnected

LEMMA FieldTypes ==
  ASSUME NEW w \in Window
  PROVE  /\ w.flags \subseteq {"connecting", "flashing"} /\ w.boxes \subseteq Boxes
         /\ w.checked \subseteq Versions /\ w.looks \in [Versions -> Nat]
         /\ w.link \in BOOLEAN /\ w.ready \in BOOLEAN /\ w.swept \in BOOLEAN
  BY DEF Window

LEMMA Boxed ==
  ASSUME NEW w \in Window, NEW what, NEW r, [what |-> what, running |-> r] \in Boxes
  PROVE  Alike(Box(w, what, r), w)
<1>1. w.boxes \cup {[what |-> what, running |-> r]} \in SUBSET Boxes
  BY FieldTypes
<1> QED BY <1>1, SetFields DEF Box

LEMMA LooksChange ==
  ASSUME NEW w \in Window, NEW r \in Versions
  PROVE  /\ Alike([w EXCEPT !.looks[r] = @ + 1], w)
         /\ w.looks[r] > 0 => Alike([w EXCEPT !.looks[r] = @ - 1], w)
<1>1. Alike([w EXCEPT !.looks[r] = @ + 1], w)
  BY DEF Window, Alike
<1>2. ASSUME w.looks[r] > 0 PROVE Alike([w EXCEPT !.looks[r] = @ - 1], w)
  <2>1. [w.looks EXCEPT ![r] = @ - 1] \in [Versions -> Nat]
    BY <1>2, FieldTypes
  <2> QED BY <2>1 DEF Window, Alike
<1> QED BY <1>1, <1>2

LEMMA AlikeTwice ==
  ASSUME NEW u, NEW v, NEW w, Alike(u, v), Alike(v, w)
  PROVE  Alike(u, w)
  BY DEF Alike

LEMMA FreshType ==
  /\ Fresh \in Window /\ [Fresh EXCEPT !.flags = {}] \in Window
  /\ ~Fresh.ready /\ ~Fresh.swept /\ ~[Fresh EXCEPT !.flags = {}].ready
<1>1. [v \in Versions |-> 0] \in [Versions -> Nat]
  OBVIOUS
<1>2. Fresh \in Window /\ ~Fresh.ready /\ ~Fresh.swept
  BY <1>1 DEF Fresh, Window
<1>3. {} \in SUBSET {"connecting", "flashing"}
  OBVIOUS
<1>4. Alike([Fresh EXCEPT !.flags = {}], Fresh)
  BY <1>2, <1>3, SetFields
<1> QED BY <1>2, <1>4 DEF Alike

---------------------------------------------------------------------------
(* The queues                                                                *)

LEMMA Queue ==
  /\ ConnectJob \in Queued /\ AppJob \in Queued /\ ConnectJob.kind # "app"
  /\ \A r \in Versions : /\ Job("check", "seen", r, 0) \in Queued
                         /\ Job("update", "best", r, 0) \in Queued
                         /\ Job("check", "seen", r, 0).kind # "app"
                         /\ Job("update", "best", r, 0).kind # "app"
  /\ \A i \in Images : /\ Job("install", "find", 0, i) \in Queued
                       /\ Job("install", "find", 0, i).kind # "app"
  BY DEF Queued, Job, ConnectJob

(* A handler of the window: what it leaves alone, and what it may add.       *)
LEMMA HandlerKeeps ==
  ASSUME IInv, up, up' = up, auto' = auto, used' \in Nat,
         UNCHANGED <<version, stranded, job, troubles, board>>,
         window' \in Window, window.swept => window'.swept, window'.ready => Announced,
         NEW more \in Seq(Queued), waiting' = waiting \o more,
         window'.swept \/ \A i \in 1 .. Len(more) : more[i].kind # "app",
         signals' \in Seq(Signals),
         \A i \in 1 .. Len(signals') : \E k \in 1 .. Len(signals) : signals'[i] = signals[k],
         \/ file' = file
         \/ ~window.swept /\ \E left \in {"none", file.retired} :
                               file' = [file EXCEPT !.retired = left]
  PROVE  IInv'
<1> USE DEF IInv, board
<1>1. file' \in [Files -> Contents] /\ NeverUnchecked'
  BY DEF TypeOK, FileType, Files, Contents, NeverUnchecked
<1>2. waiting' \in Seq(Queued)
  BY DEF TypeOK, QueueType
<1>3. TypeOK'
  BY <1>1, <1>2 DEF TypeOK, FileType, JobType, PadType, QueueType
<1>4. JobInv' /\ WriteInv'
  BY DEF JobInv, WriteInv, SuccessMeansWritten, At
<1>5. Announced' => Announced
  BY DEF Announced
<1>6. file'.bin = file.bin /\ file'.staged = file.staged
      /\ (file' = file \/ (job.kind # "app" /\ file'.retired \in {"none", file.retired}))
  BY DEF TypeOK, FileType, Files, SwapInv, SweptInv
<1>7. SwapInv'
  <2>1. StageInv'
    BY <1>6 DEF SwapInv, StageInv
  <2>2. SweptInv'
    <3> SUFFICES ASSUME ~window'.swept
                 PROVE  job.kind # "app"
                        /\ \A i \in 1 .. Len(waiting') : waiting'[i].kind # "app"
      BY DEF SweptInv
    <3>1. job.kind # "app" /\ \A i \in 1 .. Len(waiting) : waiting[i].kind # "app"
      BY DEF SwapInv, SweptInv
    <3>2. waiting \in Seq(Queued)
      BY DEF TypeOK, QueueType
    <3>3. ASSUME NEW i \in 1 .. Len(waiting') PROVE waiting'[i].kind # "app"
      <4>1. CASE i <= Len(waiting)
        BY <3>1, <3>2, <4>1
      <4>2. CASE i > Len(waiting)
        <5>1. i - Len(waiting) \in 1 .. Len(more) /\ waiting'[i] = more[i - Len(waiting)]
          BY <3>2, <4>2
        <5>2. more[i - Len(waiting)].kind # "app"
          BY <5>1
        <5> QED BY <5>1, <5>2
      <4> QED BY <3>2, <4>1, <4>2
    <3> QED BY <3>1, <3>3
  <2>3. DownInv'
    BY DEF DownInv
  <2>4. BinInv'
    BY <1>5, <1>6 DEF SwapInv, BinInv, Swapping
  <2> QED BY <2>1, <2>2, <2>3, <2>4 DEF SwapInv
<1> QED BY <1>1, <1>3, <1>4, <1>7

---------------------------------------------------------------------------
(* The handlers of the window                                                *)

(* Most handlers leave the world alone, and queue one job for the pad or none. *)
LEMMA Handled ==
  ASSUME IInv, up, UNCHANGED world, used' \in Nat,
         window' \in Window, window'.swept = window.swept, window'.ready => Announced,
         waiting' = waiting
           \/ \E x \in Queued : x.kind # "app" /\ waiting' = Append(waiting, x),
         signals' = signals \/ (signals # <<>> /\ signals' = Tail(signals))
  PROVE  IInv'
<1> waiting \in Seq(Queued) /\ signals \in Seq(Signals)
  BY DEF IInv, TypeOK, QueueType
<1>1. PICK more \in Seq(Queued) :
           waiting' = waiting \o more /\ \A i \in 1 .. Len(more) : more[i].kind # "app"
  <2>1. CASE waiting' = waiting
    <3>1. PICK none \in Seq(Queued) : Len(none) = 0 /\ waiting' = waiting \o none
      <4>1. <<>> \in Seq(Queued) /\ Len(<<>>) = 0 /\ waiting' = waiting \o <<>>
        BY <2>1
      <4> QED BY <4>1
    <3>2. 1 .. Len(none) = {}
      BY <3>1
    <3> QED BY <3>1, <3>2, Zenon
  <2>2. ASSUME NEW x \in Queued, x.kind # "app", waiting' = Append(waiting, x)
        PROVE  \E more \in Seq(Queued) :
                 waiting' = waiting \o more /\ \A i \in 1 .. Len(more) : more[i].kind # "app"
    <3>1. <<x>> \in Seq(Queued) /\ waiting' = waiting \o <<x>>
          /\ \A i \in 1 .. Len(<<x>>) : <<x>>[i].kind # "app"
      BY <2>2
    <3> QED BY <3>1
  <2> QED BY <2>1, <2>2
<1>2. signals' \in Seq(Signals)
      /\ \A i \in 1 .. Len(signals') : \E k \in 1 .. Len(signals) : signals'[i] = signals[k]
  <2>1. CASE signals' = signals
    BY <2>1
  <2>2. CASE signals # <<>> /\ signals' = Tail(signals)
    <3>1. signals' \in Seq(Signals) /\ Len(signals') = Len(signals) - 1
          /\ \A i \in 1 .. Len(signals') : signals'[i] = signals[i + 1]
      BY <2>2
    <3>2. \A i \in 1 .. Len(signals') : i + 1 \in 1 .. Len(signals)
      BY <3>1
    <3> QED BY <3>1, <3>2
  <2> QED BY <2>1, <2>2
<1> QED BY <1>1, <1>2, HandlerKeeps DEF world, disk

LEMMA Knows ==
  ASSUME IInv
  PROVE  /\ window \in Window /\ pad.fw \in Versions /\ used \in Nat
         /\ window.ready => Announced
  BY DEF IInv, TypeOK, PadType, Announced

(* Toggle, as Click, Reconnect and a flash that succeeded use it.            *)
LEMMA ToggleKeeps ==
  ASSUME IInv, up, UNCHANGED world, used' \in Nat, NEW w, Alike(w, window), Toggle(w),
         signals' = signals \/ (signals # <<>> /\ signals' = Tail(signals))
  PROVE  IInv'
<1>1. Alike(Disconnected(w), w) /\ Alike(Connected(w), w) /\ Alike(w, w)
  <2>1. w.flags \cup {"connecting"} \in SUBSET {"connecting", "flashing"}
    BY FieldTypes DEF Alike
  <2> QED BY <2>1, SetFields DEF Connected, Alike
<1>2. window' \in {w, Disconnected(w), Connected(w)}
  BY DEF Toggle
<1>3. w \in Window /\ window' \in Window /\ window'.ready = w.ready /\ window'.swept = w.swept
  <2>1. w \in Window /\ Disconnected(w) \in Window /\ Connected(w) \in Window
    BY <1>1, SetFields, FieldTypes DEF Alike, Connected, Window
  <2> QED BY <1>1, <1>2, <2>1 DEF Alike
<1>4. waiting' = waiting \/ waiting' = Append(waiting, ConnectJob)
  BY DEF Toggle
<1> QED BY <1>3, <1>4, Handled, Knows, Queue DEF Alike

LEMMA UpdateFirmwareKeeps ==
  ASSUME IInv, up, UNCHANGED world, used' \in Nat, NEW w \in Window, NEW r \in Versions,
         w.ready = window.ready, w.swept = window.swept, UpdateFirmware(w, r),
         signals' = signals \/ (signals # <<>> /\ signals' = Tail(signals))
  PROVE  IInv'
<1> DEFINE d == Disconnected(w)
<1>1. Alike(d, w)
  BY SetFields
<1>2. \A x \in SUBSET {"connecting", "flashing"} : Alike([d EXCEPT !.flags = x], w)
  BY DEF Window, Alike, Disconnected
<1>3. d.flags \cup {"flashing"} \in SUBSET {"connecting", "flashing"}
  BY FieldTypes DEF Disconnected, Window
<1>4. Alike(window', w)
  BY <1>2, <1>3 DEF UpdateFirmware
<1>5. window' \in Window
  BY <1>3 DEF UpdateFirmware, Disconnected, Window
<1>6. Job("update", "best", r, 0) \in Queued /\ Job("update", "best", r, 0).kind # "app"
  BY Queue
<1> QED BY <1>4, <1>5, <1>6, Handled, Knows DEF UpdateFirmware, Alike

(* A change of the window that queues nothing.                               *)
LEMMA WindowOnly ==
  ASSUME IInv, up, UNCHANGED <<world, waiting>>, used' \in Nat,
         window' \in Window, window'.swept = window.swept, window'.ready => Announced,
         signals' = signals \/ (signals # <<>> /\ signals' = Tail(signals))
  PROVE  IInv'
  BY Handled

LEMMA BoxKeeps ==
  ASSUME IInv, up, UNCHANGED <<world, waiting>>, used' \in Nat, NEW w \in Window,
         w.ready = window.ready, w.swept = window.swept,
         NEW what, NEW r, [what |-> what, running |-> r] \in Boxes,
         \/ window' = Box(w, what, r)
         \/ window' = [Box(w, what, r) EXCEPT !.offered = TRUE],
         signals' = signals \/ (signals # <<>> /\ signals' = Tail(signals))
  PROVE  IInv'
<1>1. Alike(Box(w, what, r), w) /\ Box(w, what, r) \in Window
  BY Boxed DEF Alike
<1>2. Alike([Box(w, what, r) EXCEPT !.offered = TRUE], Box(w, what, r))
  BY <1>1, SetFields
<1>3. window' \in Window /\ window'.ready = w.ready /\ window'.swept = w.swept
  <2>1. \A v \in Window : [v EXCEPT !.offered = TRUE] \in Window
    BY DEF Window
  <2> QED BY <1>1, <1>2, <2>1 DEF Alike
<1> QED BY <1>3, WindowOnly, Knows

LEMMA FoundKeeps ==
  ASSUME IInv, up, UNCHANGED world, used' \in Nat, NEW w \in Window, NEW r \in Versions,
         w.ready = window.ready, w.swept = window.swept, Found(w, r),
         signals' = signals \/ (signals # <<>> /\ signals' = Tail(signals))
  PROVE  IInv'
<1>1. CASE window' = [w EXCEPT !.checked = @ \ {r}] /\ UNCHANGED waiting
  <2>1. w.checked \ {r} \in SUBSET Versions
    BY FieldTypes
  <2>2. \A x \in SUBSET Versions : [w EXCEPT !.checked = x] \in Window
    BY DEF Window
  <2>3. window' \in Window /\ window'.ready = w.ready /\ window'.swept = w.swept
    BY <1>1, <2>1, <2>2, SetFields DEF Alike
  <2> QED BY <1>1, <2>3, WindowOnly, Knows
<1>2. CASE window' = [w EXCEPT !.looks[r] = @ + 1] /\ UNCHANGED waiting
  <2>1. window' \in Window /\ window'.ready = w.ready /\ window'.swept = w.swept
    BY <1>2, LooksChange DEF Alike
  <2> QED BY <1>2, <2>1, WindowOnly, Knows
<1>3. CASE UpdateFirmware(w, r)
  BY <1>3, UpdateFirmwareKeeps
<1>4. CASE window' = Box(w, "update", r) /\ UNCHANGED waiting
  <2>1. [what |-> "update", running |-> r] \in Boxes
    BY DEF Boxes
  <2> QED BY <1>4, <2>1, BoxKeeps
<1> QED BY <1>1, <1>2, <1>3, <1>4 DEF Found

LEMMA ConnectingKeeps ==
  ASSUME IInv, Click \/ PollSeesLink \/ Reconnect \/ StartBusy \/ EndBusy
  PROVE  IInv'
<1> USE Knows
<1>1. Alike(window, window)
  BY DEF Alike
<1>2. CASE Click
  <2>1. used' \in Nat
    BY <1>2 DEF Click, Use
  <2> QED BY <1>1, <1>2, <2>1, ToggleKeeps DEF Click, Caught
<1>3. CASE PollSeesLink
  <2>1. window' \in Window /\ window'.ready = window.ready /\ window'.swept = window.swept
    BY <1>3 DEF PollSeesLink, Window
  <2> QED BY <1>3, <2>1, WindowOnly DEF PollSeesLink, queues
<1>4. CASE Reconnect
  BY <1>1, <1>4, ToggleKeeps DEF Reconnect, Caught
<1>5. CASE StartBusy
  <2>1. window' \in Window /\ window'.ready = window.ready /\ window'.swept = window.swept
    BY <1>5 DEF StartBusy, Window
  <2> QED BY <1>5, <2>1, WindowOnly DEF StartBusy, queues, Use
<1>6. CASE EndBusy
  <2>1. window' \in Window /\ window'.ready = window.ready /\ window'.swept = window.swept
    BY <1>6 DEF EndBusy, Window
  <2> QED BY <1>6, <2>1, WindowOnly DEF EndBusy, queues
<1> QED BY <1>2, <1>3, <1>4, <1>5, <1>6

LEMMA StartUpdateChecksKeeps ==
  ASSUME IInv, StartUpdateChecks
  PROVE  IInv'
<1>1. window' \in Window /\ window'.swept /\ window'.ready = window.ready
  BY Knows DEF StartUpdateChecks, Window
<1>2. CheckApp \in Seq(Queued)
  BY Queue DEF CheckApp
<1>3. signals' \in Seq(Signals)
      /\ \A i \in 1 .. Len(signals') : \E k \in 1 .. Len(signals) : signals'[i] = signals[k]
  BY DEF StartUpdateChecks, IInv, TypeOK, QueueType
<1>4. PICK more \in Seq(Queued) : waiting' = waiting \o more
  BY <1>2 DEF StartUpdateChecks
<1> QED
  BY <1>1, <1>3, <1>4, Knows, HandlerKeeps DEF StartUpdateChecks

LEMMA CheckUpdatesNowKeeps ==
  ASSUME IInv, CheckUpdatesNow
  PROVE  IInv'
<1>1. window' \in Window /\ window'.swept /\ window'.ready = window.ready
  BY Knows DEF CheckUpdatesNow, Window
<1>2. CheckApp \in Seq(Queued)
  BY Queue DEF CheckApp
<1>3. (IF Link THEN <<Job("check", "seen", pad.fw, 0)>> ELSE <<>>) \in Seq(Queued)
  <2>1. \A x \in Queued : <<x>> \in Seq(Queued)
    OBVIOUS
  <2>2. <<Job("check", "seen", pad.fw, 0)>> \in Seq(Queued)
    BY <2>1, Queue, Knows
  <2> QED BY <2>2
<1>4. signals' \in Seq(Signals)
      /\ \A i \in 1 .. Len(signals') : \E k \in 1 .. Len(signals) : signals'[i] = signals[k]
  BY DEF CheckUpdatesNow, IInv, TypeOK, QueueType
<1>5. PICK more \in Seq(Queued) : waiting' = waiting \o more
  <2>1. \A s, t, u \in Seq(Queued) : t \o u \in Seq(Queued) /\ (s \o t) \o u = s \o (t \o u)
    OBVIOUS
  <2>2. waiting \in Seq(Queued)
    BY DEF IInv, TypeOK, QueueType
  <2> HIDE DEF Queued
  <2>3. PICK t, u \in Seq(Queued) : waiting' = (waiting \o t) \o u
    BY <1>2, <1>3, <2>2, Zenon DEF CheckUpdatesNow
  <2>4. waiting' = waiting \o (t \o u) /\ t \o u \in Seq(Queued)
    BY <2>1, <2>2, <2>3
  <2> QED BY <2>4
<1>6. used' \in Nat
  BY Knows DEF CheckUpdatesNow, Use
<1> QED
  BY <1>1, <1>4, <1>5, <1>6, Knows, HandlerKeeps DEF CheckUpdatesNow, world, disk

LEMMA LookAgainKeeps ==
  ASSUME IInv, NEW r \in Versions, LookAgain(r)
  PROVE  IInv'
<1> DEFINE w == [window EXCEPT !.looks[r] = @ - 1]
<1>1. w \in Window /\ w.ready = window.ready /\ w.swept = window.swept
  <2>1. [window.looks EXCEPT ![r] = @ - 1] \in [Versions -> Nat]
    BY Knows, FieldTypes DEF LookAgain
  <2> QED BY <2>1, Knows DEF Window
<1> HIDE DEF w
<1>2. Found(w, r)
  BY DEF LookAgain, w
<1> QED BY <1>1, <1>2, Knows, FoundKeeps DEF LookAgain

LEMMA AnswerKeeps ==
  ASSUME IInv, NEW box \in window.boxes, Answer(box)
  PROVE  IInv'
<1> DEFINE w == [window EXCEPT !.boxes = @ \ {box}, !.held = FALSE]
<1>1. w \in Window /\ w.ready = window.ready /\ w.swept = window.swept
  BY Knows DEF Window
<1>2. box.what = "update" => box.running \in Versions
  BY Knows, FieldTypes DEF Boxes
<1>3. [w EXCEPT !.flags = @ \cup {"flashing"}] \in Window
      /\ [w EXCEPT !.flags = @ \cup {"flashing"}].ready = window.ready
      /\ [w EXCEPT !.flags = @ \cup {"flashing"}].swept = window.swept
  BY <1>1 DEF Window
<1>4. Job("install", "find", 0, Bundled) \in Queued
      /\ Job("install", "find", 0, Bundled).kind # "app"
  BY Queue, Numbers
<1> HIDE DEF w
<1>5. CASE window' = w /\ UNCHANGED waiting
  BY <1>1, <1>5, Knows, WindowOnly DEF Answer
<1>6. CASE box.what = "update" /\ UpdateFirmware(w, box.running)
  BY <1>1, <1>2, <1>6, Knows, UpdateFirmwareKeeps DEF Answer
<1>7. CASE /\ window' = [w EXCEPT !.flags = @ \cup {"flashing"}]
           /\ waiting' = Append(waiting, Job("install", "find", 0, Bundled))
  BY <1>3, <1>4, <1>7, Knows, Handled DEF Answer
<1> QED BY <1>5, <1>6, <1>7 DEF Answer, w

LEMMA DeliverKeeps ==
  ASSUME IInv, Deliver
  PROVE  IInv'
<1> DEFINE s == Head(signals)
<1>1. signals \in Seq(Signals) /\ s \in Signals /\ s = signals[1] /\ 1 \in 1 .. Len(signals)
  BY DEF Deliver, IInv, TypeOK, QueueType
<1>2. s.kind = "found" => s.running \in Versions
  BY <1>1 DEF Signals
<1>3. s.kind = "ready" => Announced
  BY <1>1 DEF Announced
<1>4. Alike(window, window) /\ up /\ UNCHANGED world /\ used' \in Nat
      /\ signals # <<>> /\ signals' = Tail(signals)
  BY Knows DEF Alike, Deliver
<1>5. CASE s.kind = "ready" /\ window' = [window EXCEPT !.ready = TRUE] /\ UNCHANGED waiting
  <2>1. window' \in Window /\ window'.swept = window.swept
    BY <1>5, Knows DEF Window
  <2> QED BY <1>3, <1>4, <1>5, <2>1, WindowOnly
<1>6. CASE s.kind = "found" /\ Found(window, s.running)
  BY <1>2, <1>4, <1>6, Knows, FoundKeeps
<1>7. CASE window' = Offer(window) /\ UNCHANGED waiting
  <2>1. [what |-> "install", running |-> 0] \in Boxes
    BY DEF Boxes
  <2>2. CASE window' = window
    BY <1>4, <1>7, <2>2, Knows, WindowOnly
  <2>3. CASE window' = [Box(window, "install", 0) EXCEPT !.offered = TRUE]
    BY <1>4, <1>7, <2>1, <2>3, Knows, BoxKeeps
  <2> QED BY <1>7, <2>2, <2>3 DEF Offer
<1>8. CASE Flashed(window)
  <2>1. Alike([window EXCEPT !.offered = FALSE], window)
    BY Knows, SetFields
  <2> QED BY <1>4, <1>8, <2>1, ToggleKeeps DEF Flashed
<1> QED BY <1>5, <1>6, <1>7, <1>8 DEF Deliver

---------------------------------------------------------------------------
(* The io worker                                                             *)

LEMMA GoesTo ==
  ASSUME JobType, NEW at \in Stages, Go(at)
  PROVE  /\ JobType' /\ job'.kind = job.kind /\ job'.at = at
         /\ job'.running = job.running /\ job'.image = job.image
  BY DEF JobType, JobRecords, Go

(* A step of the worker that only moves what is fetched, or the program.     *)
LEMMA DiskStep ==
  ASSUME IInv, up, UNCHANGED <<version, board, window, waiting, signals, up, auto, used>>,
         NEW at \in Stages \ (WriteStages \cup {"decided"}), Go(at),
         at \in AppStages => job.kind = "app",
         job.kind # "none",
         at \in Told => job.at \in Told \/ job.kind = "app",
         troubles' \in Nat, stranded' \in BOOLEAN, file' \in [Files -> Contents],
         NeverUnchecked', StageInv', BinInv'
  PROVE  IInv'
<1> USE DEF IInv, board
<1>1. JobType' /\ job'.kind = job.kind /\ job'.at = at /\ job'.running = job.running
  BY GoesTo DEF TypeOK
<1>2. TypeOK'
  BY <1>1 DEF TypeOK, FileType, PadType, QueueType
<1>3. JobInv'
  BY <1>1 DEF JobInv, Deciders
<1>4. WriteInv'
  BY <1>1 DEF WriteInv, WriteStages, At, SuccessMeansWritten
<1>5. SweptInv' /\ DownInv'
  BY <1>1 DEF SwapInv, SweptInv, DownInv
<1> QED BY <1>2, <1>3, <1>4, <1>5 DEF SwapInv

(* One that leaves the program where it is, and takes the swap no further.   *)
LEMMA BinStays ==
  ASSUME BinInv, UNCHANGED <<version, stranded, window, signals, up>>,
         file'.bin = file.bin, file'.retired = file.retired,
         job'.at \in {"sweep", "installed"} => job.at \in {"sweep", "installed"},
         Swapping => Swapping'
  PROVE  BinInv'
  BY DEF BinInv, Announced

LEMMA FetchKeeps ==
  ASSUME IInv, up, Fetch, UNCHANGED <<board, window, signals, up, auto, waiting, used>>
  PROVE  IInv'
<1> DEFINE At3 == {"unfetched", "load", "verify", "fetched", "failed"}
<1>1. PICK at \in At3 : Go(at)
  BY DEF Fetch, Load, Loaded, Verify
<1>2. job.at \in {"fetch", "load", "verify"} /\ job.kind \in Fetchers
  BY DEF Fetch, Load, Loaded, Verify, At
<1>3. at \in Stages \ (WriteStages \cup {"decided"}) /\ at \notin AppStages /\ job.kind # "none"
  BY <1>2 DEF Stages, WriteStages, AppStages, Fetchers
<1>4. JobType' /\ job'.kind = job.kind /\ job'.at = at /\ \A x : Go(x) => at = x
  <2>1. JobType' /\ job'.kind = job.kind /\ job'.at = at
    BY <1>1, <1>3, GoesTo DEF IInv, TypeOK
  <2>2. \A x : Go(x) => job'.at = x
    BY DEF Go, IInv, TypeOK, JobType, JobRecords
  <2> QED BY <2>1, <2>2
<1>5. file \in [Files -> Contents] /\ Part \in {"part", "imagePart"} /\ Target \in {"staged", "image"}
      /\ (job.kind = "app" => Target = "staged")
  BY DEF IInv, TypeOK, FileType, Part, Target
<1>6. /\ file' \in [Files -> Contents] /\ file'.bin = file.bin /\ file'.retired = file.retired
      /\ file'.staged \in {file.staged, "new"} /\ file'.image \in {file.image, "new"}
      /\ job.kind = "app" /\ at = "fetched" => file'.staged = "new"
  <2> USE DEF Files, Contents
  <2>1. PICK part \in {"part", "imagePart"}, target \in {"staged", "image"} :
             part = Part /\ target = Target /\ (job.kind = "app" => target = "staged")
    BY <1>5
  <2> DEFINE
        Kept == /\ file' \in [Files -> Contents] /\ file'.bin = file.bin
                /\ file'.retired = file.retired /\ file'.staged \in {file.staged, "new"}
                /\ file'.image \in {file.image, "new"}
  <2>2. ASSUME \E c \in {"none", "torn", "new", "wrong"} : file' = [file EXCEPT ![part] = c]
        PROVE  Kept
    BY <1>5, <2>2
  <2>3. ASSUME file' = [file EXCEPT ![part] = "none", ![target] = "new"]
        PROVE  Kept /\ (job.kind = "app" => file'.staged = "new")
    BY <1>5, <2>1, <2>3
  <2>4. ASSUME file' = file PROVE Kept
    BY <1>5, <2>4
  <2> HIDE DEF Kept
  <2>5. ASSUME Load PROVE Kept /\ at # "fetched"
    BY <1>4, <2>1, <2>2, <2>4, <2>5 DEF Load
  <2>6. ASSUME Loaded PROVE Kept /\ at # "fetched"
    BY <1>4, <2>1, <2>2, <2>4, <2>6 DEF Loaded
  <2>7. ASSUME Verify
        PROVE  Kept /\ (job.kind = "app" /\ at = "fetched" => file'.staged = "new")
    BY <1>4, <2>1, <2>2, <2>3, <2>7 DEF Verify
  <2> QED BY <2>5, <2>6, <2>7 DEF Fetch, Kept
<1>7. NeverUnchecked'
  BY <1>6 DEF IInv, NeverUnchecked, Whole
<1>8. StageInv'
  BY <1>4, <1>6 DEF StageInv
<1>9. version' = version /\ stranded' = stranded /\ troubles' \in Nat
  BY DEF Fetch, Load, Loaded, Verify, Keeps, Goes, Trouble, IInv, TypeOK
<1>10. BinInv'
  BY <1>2, <1>4, <1>6, <1>9, BinStays DEF IInv, SwapInv, Swapping
<1> QED
  BY <1>1, <1>2, <1>3, <1>6, <1>7, <1>8, <1>9, <1>10, DiskStep DEF IInv, TypeOK, Told

LEMMA ApplyKeeps ==
  ASSUME IInv, up, Apply, UNCHANGED <<board, window, signals, up, auto, waiting, used>>
  PROVE  IInv'
<1> DEFINE Ats == {"nothing", "fetch", "clear", "retire", "place", "undo", "sweep", "installed", "failed"}
<1>1. PICK at \in Ats : Go(at)
  BY DEF Apply, Ask, Prepare, Clear, Retire, Place, Undo, Sweep
<1>2. job.kind = "app"
  BY DEF Apply, Ask, Prepare, Clear, Retire, Place, Undo, Sweep, At
<1>3. at \in Stages \ (WriteStages \cup {"decided"})
  BY DEF Stages, WriteStages, AppStages
<1>4. job'.kind = job.kind /\ job'.at = at /\ \A x : Go(x) => at = x
  <2>1. JobType' /\ job'.kind = job.kind /\ job'.at = at
    BY <1>1, <1>3, GoesTo DEF IInv, TypeOK
  <2>2. \A x : Go(x) => job'.at = x
    BY DEF Go, IInv, TypeOK, JobType, JobRecords
  <2> QED BY <2>1, <2>2
<1>5. file \in [Files -> Contents] /\ NeverUnchecked /\ StageInv /\ BinInv
  BY DEF IInv, TypeOK, FileType, SwapInv
<1>6. version' = version /\ troubles' \in Nat /\ stranded' \in BOOLEAN
  <2>1. version' = version /\ (stranded' = stranded \/ stranded' = TRUE)
    BY DEF Apply, Ask, Prepare, Clear, Retire, Place, Undo, Sweep, Keeps
  <2>2. troubles' = troubles \/ troubles' = troubles + 1
    BY DEF Apply, Ask, Prepare, Clear, Retire, Place, Undo, Sweep, Goes, Trouble
  <2>3. troubles' \in Nat
    BY <2>2 DEF IInv, TypeOK
  <2>4. stranded \in BOOLEAN
    BY DEF IInv, TypeOK
  <2>5. stranded' \in BOOLEAN
    BY <2>1, <2>4, Zenon
  <2> QED BY <2>1, <2>3, <2>5
<1>7. ASSUME file' \in [Files -> Contents], NeverUnchecked', StageInv', BinInv'
      PROVE  IInv'
  BY <1>1, <1>2, <1>3, <1>6, <1>7, DiskStep
<1> USE DEF Files, Contents
<1>8. ASSUME \/ file' = [file EXCEPT !.staged = "none"] /\ at \notin {"clear", "retire", "place"}
             \/ file' = file,
             version' = version, stranded' = stranded,
             at \notin {"sweep", "installed"}, Swapping => Swapping',
             at \in {"clear", "retire", "place"} => job.at \in {"fetched", "clear", "retire"}
      PROVE  IInv'
  <2>1. file' \in [Files -> Contents] /\ file'.bin = file.bin /\ file'.retired = file.retired
    BY <1>5, <1>8
  <2>2. NeverUnchecked'
    BY <1>5, <1>8 DEF NeverUnchecked
  <2>3. StageInv'
    BY <1>2, <1>4, <1>5, <1>8 DEF StageInv
  <2>4. BinInv'
    BY <1>4, <1>5, <1>8, <2>1, BinStays
  <2> QED BY <1>7, <2>1, <2>2, <2>3, <2>4
<1>9. CASE Ask
  BY <1>4, <1>8, <1>9 DEF Ask, At, Keeps, Swapping
<1>10. CASE Prepare
  BY <1>4, <1>8, <1>10 DEF Prepare, At, Keeps, Swapping
<1>11. ASSUME job'.at \notin {"installed"}, UNCHANGED <<window, signals>>
       PROVE  Announced' => Announced \/ job'.at = "sweep"
  BY <1>11 DEF Announced
<1>12. CASE Clear
  <2>1. CASE Go("undo") /\ UNCHANGED file
    BY <1>4, <1>8, <1>12, <2>1 DEF Clear, At, Keeps, Swapping
  <2>2. CASE Go("retire") /\ file' = [file EXCEPT !.retired = "none"]
    <3>1. at = "retire" /\ job.at = "clear" /\ ~Swapping /\ Keeps
      BY <1>4, <1>12, <2>2 DEF Clear, At, Swapping
    <3>2. file' \in [Files -> Contents] /\ file'.bin = file.bin /\ file'.staged = file.staged
      BY <1>5, <2>2
    <3>3. NeverUnchecked'
      BY <1>5, <2>2 DEF NeverUnchecked
    <3>4. StageInv'
      BY <1>2, <1>5, <3>1, <3>2 DEF StageInv
    <3>5. Announced' => Announced
      BY <1>4, <1>11, <3>1
    <3>6. BinInv'
      BY <1>5, <3>1, <3>2, <3>5 DEF BinInv, Keeps
    <3> QED BY <1>7, <3>2, <3>3, <3>4, <3>6
  <2> QED BY <1>12, <2>1, <2>2 DEF Clear
<1>13. CASE Retire
  <2>1. CASE Go("undo") /\ UNCHANGED file
    BY <1>4, <1>8, <1>13, <2>1 DEF Retire, At, Keeps, Swapping
  <2>2. CASE /\ Go("place")
             /\ file' = IF file.bin = "none" THEN file
                        ELSE [file EXCEPT !.retired = file.bin, !.bin = "none"]
    <3>1. at = "place" /\ job.at = "retire" /\ ~Swapping /\ Swapping' /\ Keeps
      BY <1>2, <1>4, <1>13, <2>2 DEF Retire, At, Swapping
    <3>2. /\ file' \in [Files -> Contents] /\ file'.bin = "none" /\ file'.staged = file.staged
          /\ file.bin # "none" => file'.retired = file.bin
      BY <1>5, <2>2
    <3>3. NeverUnchecked'
      BY <1>5, <2>2 DEF NeverUnchecked
    <3>4. StageInv'
      BY <1>2, <1>5, <3>1, <3>2 DEF StageInv
    <3>5. Announced' => Announced
      BY <1>4, <1>11, <3>1
    <3>6. version \in Whole
      BY DEF IInv, TypeOK, FileType
    <3>7. BinInv'
      BY <1>5, <3>1, <3>2, <3>5, <3>6 DEF BinInv, Keeps, Whole
    <3> QED BY <1>7, <3>2, <3>3, <3>4, <3>7
  <2> QED BY <1>13, <2>1, <2>2 DEF Retire
<1>14. CASE Place
  <2>1. CASE Go("undo") /\ UNCHANGED file
    BY <1>4, <1>8, <1>14, <2>1 DEF Place, At, Keeps, Swapping
  <2>2. CASE Go("sweep") /\ file' = [file EXCEPT !.bin = file.staged, !.staged = "none"]
    <3>1. at = "sweep" /\ file.staged = "new" /\ Keeps
      BY <1>2, <1>4, <1>5, <1>14, <2>2 DEF Place, At, StageInv
    <3>2. file' \in [Files -> Contents] /\ file'.bin = "new"
      BY <1>5, <2>2, <3>1
    <3>3. NeverUnchecked'
      BY <1>5, <2>2 DEF NeverUnchecked
    <3>4. StageInv'
      BY <1>4, <3>1 DEF StageInv
    <3>5. BinInv'
      BY <3>2 DEF BinInv
    <3> QED BY <1>7, <3>2, <3>3, <3>4, <3>5
  <2> QED BY <1>14, <2>1, <2>2 DEF Place
<1>15. CASE Undo
  <2>1. at = "failed" /\ job.at = "undo"
    BY <1>4, <1>15 DEF Undo, At
  <2> DEFINE rest == [file EXCEPT !.staged = "none"]
  <2>2. \/ /\ file.bin = "none" /\ stranded' = stranded
           /\ file' = [rest EXCEPT !.bin = file.retired, !.retired = "none"]
        \/ stranded' = TRUE /\ file' = rest
        \/ /\ file.bin # "none" \/ file.retired = "none"
           /\ stranded' = stranded /\ file' = rest
    BY <1>15, Zenon DEF Undo
  <2>3. file' \in [Files -> Contents] /\ NeverUnchecked'
    <3>1. rest \in [Files -> Contents] /\ rest.bin = file.bin /\ rest.retired = file.retired
          /\ rest.image = file.image /\ rest.staged = "none"
      BY <1>5
    <3>2. file.bin \in Whole \cup {"none"} /\ file.retired \in Whole \cup {"none"}
          /\ file.image \in Whole \cup {"none"}
      BY <1>5 DEF NeverUnchecked
    <3> HIDE DEF rest
    <3>3. CASE file' = rest
      BY <3>1, <3>2, <3>3 DEF NeverUnchecked
    <3>4. CASE file' = [rest EXCEPT !.bin = file.retired, !.retired = "none"]
      BY <3>1, <3>2, <3>4 DEF NeverUnchecked, Whole
    <3> QED BY <2>2, <3>3, <3>4
  <2>4. StageInv'
    BY <1>4, <2>1 DEF StageInv
  <2>5. Announced' => Announced
    BY <1>4, <1>11, <2>1
  <2>6. version \in Whole /\ version' = version
    BY <1>6 DEF IInv, TypeOK, FileType
  <2>7. BinInv'
    <3>1. ASSUME file' = [rest EXCEPT !.bin = file.retired, !.retired = "none"]
          PROVE  file'.bin = file.retired
      BY <1>5, <3>1
    <3>2. ASSUME file' = rest
          PROVE  file'.bin = file.bin /\ file'.retired = file.retired
      BY <1>5, <3>2
    <3>3. BinInv /\ version \in {"old", "new"}
      BY <1>5, <2>6 DEF Whole
    <3> HIDE DEF rest
    <3>4. CASE stranded'
      BY <3>4 DEF BinInv
    <3>5. CASE stranded' = stranded
      BY <2>2, <2>5, <2>6, <3>1, <3>2, <3>3, <3>5 DEF BinInv
    <3> QED BY <2>2, <3>4, <3>5
  <2> QED BY <1>7, <2>3, <2>4, <2>7
<1>16. CASE Sweep
  <2>1. at = "installed" /\ job.at = "sweep" /\ ~Swapping /\ Announced /\ Keeps
    BY <1>4, <1>16 DEF Sweep, At, Swapping, Announced
  <2>2. file' \in [Files -> Contents] /\ file'.bin = file.bin
    BY <1>5, <1>16 DEF Sweep
  <2>3. NeverUnchecked'
    BY <1>5, <1>16 DEF NeverUnchecked, Sweep, Whole
  <2>4. StageInv'
    BY <1>4, <2>1 DEF StageInv
  <2>5. BinInv'
    BY <1>5, <2>1, <2>2 DEF BinInv, Keeps
  <2> QED BY <1>7, <2>2, <2>3, <2>4, <2>5
<1> QED BY <1>9, <1>10, <1>12, <1>13, <1>14, <1>15, <1>16 DEF Apply

(* Posting a signal other than the one that announces a new build.           *)
LEMMA Posted ==
  ASSUME QueueType, NEW s \in Signals, s.kind # "ready", window'.ready = window.ready,
         signals' = Append(signals, s), job'.at \notin {"sweep", "installed"}
  PROVE  signals' \in Seq(Signals) /\ (Announced' => Announced)
<1>1. signals' \in Seq(Signals) /\ Len(signals') = Len(signals) + 1
      /\ \A i \in 1 .. Len(signals) : signals'[i] = signals[i]
  BY DEF QueueType
<1>2. signals'[Len(signals')] = s
  BY DEF QueueType
<1>3. Len(signals) \in Nat
  BY DEF QueueType
<1>4. ASSUME NEW i \in 1 .. Len(signals'), signals'[i].kind = "ready" PROVE Announced
  <2>1. i \in 1 .. Len(signals) \/ i = Len(signals')
    BY <1>1, <1>3
  <2> QED BY <1>1, <1>2, <1>4, <2>1 DEF Announced
<1> QED BY <1>1, <1>4 DEF Announced

(* A step of the worker at the pad: connecting, looking for firmware, writing. *)
LEMMA PadStep ==
  ASSUME IInv, up, UNCHANGED <<disk, up, auto, waiting, used>>,
         window' \in Window, window'.ready = window.ready, window'.swept = window.swept,
         job.kind # "app", job'.kind = job.kind, JobType', JobInv',
         job'.at \notin {"sweep", "installed"},
         signals' \in Seq(Signals), Announced' => Announced,
         troubles' \in Nat, lifted' \in BOOLEAN, PadType', WriteInv'
  PROVE  IInv'
<1> USE DEF IInv, disk
<1>1. TypeOK' /\ NeverUnchecked'
  BY DEF TypeOK, FileType, QueueType, NeverUnchecked
<1>2. StageInv' /\ SweptInv' /\ DownInv'
  BY DEF SwapInv, StageInv, SweptInv, DownInv
<1>3. BinInv'
  BY DEF SwapInv, BinInv, Swapping
<1> QED BY <1>1, <1>2, <1>3 DEF SwapInv

LEMMA Boards ==
  ASSUME IInv
  PROVE  /\ PadType /\ lifted \in BOOLEAN /\ troubles \in Nat /\ JobType /\ WriteInv /\ JobInv
         /\ QueueType /\ up \in BOOLEAN
  BY DEF IInv, TypeOK

LEMMA OneMore ==
  ASSUME IInv, troubles' = troubles \/ troubles' = troubles + 1
  PROVE  troubles' \in Nat
  BY Boards

LEMMA DecidingKeeps ==
  ASSUME IInv, up, Best \/ Published \/ Unpublished,
         UNCHANGED <<window, signals, up, auto, waiting, used>>
  PROVE  IInv'
<1> USE Boards, Knows, Numbers
<1>1. job.kind \in Deciders /\ job.kind # "app" /\ job.kind # "none" /\ job.at \in Told
  BY DEF Best, Published, Unpublished, At, Deciders, Told
<1>2. UNCHANGED <<disk, pad, lifted, troubles>>
  BY DEF Best, Published, Unpublished, Goes
<1>3. \/ \E at \in {"nothing", "failed", "fetch", "fetched"} : Go(at)
      \/ \E image \in Images : Decide(image)
  BY DEF Best, Published, Unpublished
<1>4. JobType' /\ job'.kind = job.kind /\ job'.at \in {"nothing", "failed", "fetch", "fetched", "decided"}
      /\ (job'.at = "decided" => job'.image \in Images) /\ job'.running = job.running
  <2>1. CASE \E at \in {"nothing", "failed", "fetch", "fetched"} : Go(at)
    <3>1. PICK at \in {"nothing", "failed", "fetch", "fetched"} : Go(at)
      BY <2>1
    <3> QED BY <3>1, GoesTo DEF Stages
  <2>2. CASE \E image \in Images : Decide(image)
    <3>1. PICK image \in Images : Decide(image)
      BY <2>2
    <3>2. "decided" \in Stages
      BY DEF Stages
    <3> QED BY <3>1, <3>2 DEF Decide, JobType, JobRecords
  <2> QED BY <1>3, <2>1, <2>2
<1>5. JobInv' /\ WriteInv'
  BY <1>1, <1>2, <1>4 DEF JobInv, WriteInv, SuccessMeansWritten, At, AppStages, WriteStages, Deciders
<1>6. Announced' => Announced
  BY <1>4 DEF Announced
<1>7. PadType' /\ signals' \in Seq(Signals)
  BY <1>2 DEF PadType, QueueType
<1> QED BY <1>1, <1>2, <1>4, <1>5, <1>6, <1>7, PadStep

LEMMA FlashKeeps ==
  ASSUME IInv, up, Flash, UNCHANGED <<signals, up, auto, waiting, used>>,
         window' \in Window, window'.ready = window.ready, window'.swept = window.swept
  PROVE  IInv'
<1> USE Boards
<1>1. /\ job.at \in WriteStages /\ job.kind \in Writers
      /\ job.kind # "app" /\ job.kind # "none" /\ job.image \in Images
      /\ UNCHANGED disk
      /\ \E at \in {"failed", "write", "touch", "writing", "verify image", "flashed"} : Go(at)
  <2>1. job.at \in WriteStages /\ job.kind \in Writers
        /\ \E at \in {"failed", "write", "touch", "writing", "verify image", "flashed"} : Go(at)
    BY DEF Flash, Find, Touch, Write, Written, WriteBreaks, Verified, At, WriteStages
  <2>2. UNCHANGED disk
    BY DEF Flash, Find, Touch, Write, Written, WriteBreaks, Verified
  <2> QED BY <2>1, <2>2 DEF JobInv, Writers
<1>2. PICK at \in {"failed", "write", "touch", "writing", "verify image", "flashed"} : Go(at)
  BY <1>1
<1>3. /\ JobType' /\ job'.kind = job.kind /\ job'.at = at /\ job'.image = job.image
      /\ \A x : Go(x) => at = x
  <2>1. at \in Stages
    BY <1>2 DEF Stages, WriteStages
  <2>2. \A x : Go(x) => job'.at = x
    BY DEF Go, JobType, JobRecords
  <2> QED BY <1>2, <2>1, <2>2, GoesTo
<1>4. troubles' \in Nat
  <2>1. troubles' = troubles \/ troubles' = troubles + 1
    BY DEF Flash, Find, Touch, Write, Written, WriteBreaks, Verified, Goes, Trouble
  <2> QED BY <2>1, OneMore
<1>6. JobInv'
  BY <1>1, <1>3 DEF JobInv, AppStages, Told
<1>7. job.image \in Versions
  BY <1>1, Numbers
<1>8. ASSUME PadType', lifted' \in BOOLEAN, WriteInv'
      PROVE  IInv'
  <2>1. Announced' => Announced
    BY <1>3 DEF Announced
  <2> QED BY <1>1, <1>3, <1>4, <1>6, <1>8, <2>1, PadStep DEF QueueType
<1> USE DEF At
<1>9. CASE Find
  <2>1. at \in {"failed", "write", "touch"} /\ UNCHANGED <<pad, lifted>>
    BY <1>3, <1>9 DEF Find
  <2> QED BY <1>3, <1>8, <2>1 DEF PadType, WriteInv, SuccessMeansWritten
<1>10. CASE Touch
  <2>1. at \in {"failed", "write"} /\ UNCHANGED lifted /\ PadType'
    BY <1>3, <1>10 DEF Touch, PadType
  <2> QED BY <1>3, <1>8, <2>1 DEF WriteInv, SuccessMeansWritten
<1>11. CASE Write
  <2>1. /\ lifted' \in BOOLEAN /\ PadType'
        /\ at = "failed" \/ (at = "writing" /\ pad'.mode = "boot")
    BY <1>3, <1>11 DEF Write, PadType
  <2> QED BY <1>3, <1>8, <2>1 DEF WriteInv, SuccessMeansWritten
<1>12. CASE Written
  <2>1. /\ lifted' \in BOOLEAN /\ PadType' /\ pad'.fw = job.image
        /\ at = "verify image" \/ (at = "flashed" /\ ~pad'.torn)
    BY <1>3, <1>7, <1>12 DEF Written, Program, PadType
  <2> QED BY <1>3, <1>8, <2>1 DEF WriteInv, SuccessMeansWritten
<1>13. CASE WriteBreaks
  <2>1. /\ UNCHANGED <<pad, lifted>>
        /\ at = "failed" \/ (at = "flashed" /\ pad.mode # "boot" /\ job.at = "writing")
    BY <1>3, <1>13 DEF WriteBreaks
  <2> QED BY <1>1, <1>3, <1>8, <2>1 DEF PadType, WriteInv, SuccessMeansWritten
<1>14. CASE Verified
  <2>1. /\ UNCHANGED lifted /\ PadType' /\ pad'.fw = pad.fw /\ pad'.torn = pad.torn
        /\ at = "failed" \/ (at = "flashed" /\ ~pad.torn /\ job.at = "verify image")
    BY <1>3, <1>14 DEF Verified, PadType
  <2> QED BY <1>1, <1>3, <1>8, <2>1 DEF WriteInv, SuccessMeansWritten
<1> QED BY <1>9, <1>10, <1>11, <1>12, <1>13, <1>14 DEF Flash

(* Only its link changes, as Flash, a connect and the cable do to the window. *)
LEMMA LinkOnly ==
  ASSUME IInv, NEW x \in BOOLEAN, NEW y \in BOOLEAN,
         \/ window' = [window EXCEPT !.link = x]
         \/ window' = [window EXCEPT !.link = x, !.unlooked = y]
  PROVE  window' \in Window /\ window'.ready = window.ready /\ window'.swept = window.swept
<1>1. CASE window' = [window EXCEPT !.link = x]
  BY <1>1, Knows, SetFields DEF Alike
<1>2. CASE window' = [window EXCEPT !.link = x, !.unlooked = y]
  BY <1>2, Knows DEF Window
<1> QED BY <1>1, <1>2

(* The check of a connected pad's firmware.                                  *)
LEMMA CheckKeeps ==
  ASSUME IInv, up, UNCHANGED <<disk, up, auto, waiting, used, signals, board, troubles>>,
         job.kind \in {"connect", "check"},
         NEW w \in Window, w.ready = window.ready, w.swept = window.swept,
         NEW r \in Versions, NEW on, Check(w, r, on)
  PROVE  IInv'
<1> USE Boards DEF board
<1>1. /\ window' \in Window /\ window'.ready = window.ready /\ window'.swept = window.swept
  <2>1. w.checked \cup {r} \in SUBSET Versions
    BY FieldTypes
  <2>2. [w EXCEPT !.checked = @ \cup {r}] \in Window
    BY <2>1 DEF Window
  <2>3. Alike([w EXCEPT !.checked = @ \cup {r}], w)
    BY <2>1, SetFields
  <2> QED BY <2>2, <2>3 DEF Check, Alike
<1>2. JobType' /\ job'.kind = job.kind
      /\ (job'.at = "nothing" \/ (job'.at = "best" /\ job'.running = r))
  <2>1. CASE Go("nothing")
    BY <2>1, GoesTo DEF Stages
  <2>2. CASE job' = [job EXCEPT !.at = "best", !.running = r]
    BY <2>2 DEF JobType, JobRecords, Stages
  <2> QED BY <2>1, <2>2 DEF Check
<1>3. JobInv' /\ WriteInv'
  BY <1>2 DEF JobInv, WriteInv, SuccessMeansWritten, At, AppStages, WriteStages, Told
<1>4. Announced' => Announced
  BY <1>1, <1>2 DEF Announced
<1>5. PadType' /\ signals' \in Seq(Signals)
  BY DEF PadType, QueueType
<1> QED BY <1>1, <1>2, <1>3, <1>4, <1>5, PadStep

LEMMA OpeningKeeps ==
  ASSUME IInv, up, Open \/ OpenUnlooked \/ OpenFails \/ CheckAsked \/ Decided,
         UNCHANGED <<disk, board, up, auto, waiting, used>>
  PROVE  IInv'
<1> USE Boards DEF board
<1>1. CASE Open
  <2>1. PICK w \in Window : w.ready = window.ready /\ w.swept = window.swept
                             /\ Check(w, pad.fw, auto)
    <3>1. Alike([window EXCEPT !.link = TRUE, !.unlooked = FALSE], window)
      BY Knows, SetFields
    <3> QED BY <1>1, <3>1 DEF Open, Alike
  <2> QED BY <1>1, <2>1, Knows, CheckKeeps DEF Open, At, Goes
<1>2. CASE CheckAsked
  <2>1. job.running \in Versions
    BY <1>2 DEF CheckAsked, At, JobInv, Told, Deciders
  <2> QED BY <1>2, <2>1, Knows, CheckKeeps DEF CheckAsked, At, Goes
<1> SUFFICES ASSUME OpenUnlooked \/ OpenFails \/ Decided PROVE IInv'
  BY <1>1, <1>2
<1>3. /\ job.kind \in Deciders /\ job.kind # "app" /\ job.kind # "none"
      /\ \E at \in {"nothing", "find"} : Go(at) /\ (at = "find" => Decided /\ job.kind = "update")
  BY DEF OpenUnlooked, OpenFails, Decided, At, Deciders
<1>4. PICK at \in {"nothing", "find"} : Go(at) /\ (at = "find" => Decided /\ job.kind = "update")
  BY <1>3
<1>5. JobType' /\ job'.kind = job.kind /\ job'.at = at /\ job'.image = job.image
  BY <1>4, GoesTo DEF Stages, WriteStages
<1>6. at = "find" => job.image \in Images
  BY <1>4 DEF Decided, At, JobInv
<1>7. JobInv' /\ WriteInv'
  BY <1>3, <1>4, <1>5, <1>6
     DEF JobInv, WriteInv, SuccessMeansWritten, At, AppStages, WriteStages, Told, Writers
<1>8. troubles' \in Nat
  <2>1. troubles' = troubles \/ troubles' = troubles + 1
    BY DEF OpenUnlooked, OpenFails, Decided, Goes, Trouble
  <2> QED BY <2>1, OneMore
<1>9. window' \in Window /\ window'.ready = window.ready /\ window'.swept = window.swept
  BY LinkOnly, Knows DEF OpenUnlooked, OpenFails, Decided
<1>10. signals' = signals \/ \E s \in Signals : s.kind # "ready" /\ signals' = Append(signals, s)
  <2>1. ASSUME Decided, job.kind # "update" PROVE job.running \in Versions
    BY <2>1 DEF Decided, At, JobInv, Told
  <2>2. CASE OpenFails
    <3>1. [kind |-> "offer", running |-> 0] \in Signals
      BY DEF Signals
    <3> QED BY <2>2, <3>1 DEF OpenFails, Emit
  <2>3. CASE Decided /\ job.kind = "update"
    BY <2>3 DEF Decided
  <2>4. CASE Decided /\ job.kind # "update"
    <3>1. [kind |-> "found", running |-> job.running] \in Signals
      BY <2>1, <2>4 DEF Signals
    <3> QED BY <2>4, <3>1 DEF Decided, Emit
  <2> QED BY <2>2, <2>3, <2>4 DEF OpenUnlooked
<1>11. signals' \in Seq(Signals) /\ (Announced' => Announced)
  <2>1. CASE signals' = signals
    BY <1>4, <1>5, <1>9, <2>1 DEF Announced, QueueType
  <2>2. CASE \E s \in Signals : s.kind # "ready" /\ signals' = Append(signals, s)
    BY <1>4, <1>5, <1>9, <2>2, Posted
  <2> QED BY <1>10, <2>1, <2>2
<1>12. PadType'
  BY DEF PadType
<1> QED BY <1>3, <1>4, <1>5, <1>7, <1>8, <1>9, <1>11, <1>12, Knows, PadStep

LEMMA Jobs ==
  /\ \A j \in Queued :
       /\ j \in JobRecords /\ j.kind # "none"
       /\ j.at \in AppStages => j.kind = "app"
       /\ j.at \notin {"place", "undo", "fetched", "clear", "retire"}
       /\ j.at \notin {"sweep", "installed", "decided", "writing", "verify image", "flashed"}
       /\ j.at \in WriteStages => j.kind \in Writers /\ j.image \in Images
       /\ j.kind \in Deciders /\ j.at \in Told => j.running \in Versions
  /\ NoJob \in JobRecords /\ NoJob.kind = "none" /\ NoJob.at = "over"
<1> USE DEF Kinds, Stages, AppStages, WriteStages, Writers, Deciders, Told, Job, JobRecords
<1>1. NoJob \in JobRecords /\ NoJob.kind = "none" /\ NoJob.at = "over"
  BY DEF NoJob
<1> DEFINE Well(j) ==
       /\ j \in JobRecords /\ j.kind # "none"
       /\ j.at \in AppStages => j.kind = "app"
       /\ j.at \notin {"place", "undo", "fetched", "clear", "retire"}
       /\ j.at \notin {"sweep", "installed", "decided", "writing", "verify image", "flashed"}
       /\ j.at \in WriteStages => j.kind \in Writers /\ j.image \in Images
       /\ j.kind \in Deciders /\ j.at \in Told => j.running \in Versions
<1>2. Well(ConnectJob) /\ Well(AppJob)
  BY DEF ConnectJob, AppJob
<1>3. ASSUME NEW r \in Versions
      PROVE  Well(Job("check", "seen", r, 0)) /\ Well(Job("update", "best", r, 0))
  OBVIOUS
<1>4. ASSUME NEW i \in Images PROVE Well(Job("install", "find", 0, i))
  OBVIOUS
<1> HIDE DEF Well, Job
<1>5. \A j \in Queued : Well(j)
  BY <1>2, <1>3, <1>4 DEF Queued
<1> QED BY <1>1, <1>5 DEF Well

LEMMA TakeKeeps ==
  ASSUME IInv, Take
  PROVE  IInv'
<1> USE DEF IInv, board, disk
<1>1. /\ job' \in Queued /\ job = NoJob /\ up /\ waiting' \in Seq(Queued)
      /\ job' = waiting[1] /\ 1 \in 1 .. Len(waiting)
      /\ \A i \in 1 .. Len(waiting') : i + 1 \in 1 .. Len(waiting) /\ waiting'[i] = waiting[i + 1]
  BY DEF Take, TypeOK, QueueType
<1>2. UNCHANGED <<file, version, stranded, troubles, pad, lifted, up, auto, window, signals, used>>
  BY DEF Take
<1>3. TypeOK' /\ NeverUnchecked'
  BY <1>1, <1>2, Jobs DEF TypeOK, FileType, JobType, PadType, QueueType, NeverUnchecked
<1>4. JobInv'
  BY <1>1, Jobs DEF JobInv
<1>5. WriteInv' /\ StageInv'
  BY <1>1, Jobs DEF WriteInv, StageInv, SuccessMeansWritten, At
<1>6. SweptInv'
  BY <1>1, <1>2 DEF SwapInv, SweptInv
<1>7. DownInv'
  BY <1>1, <1>2 DEF DownInv
<1>8. BinInv'
  <2>1. Announced' => Announced
    BY <1>1, <1>2, Jobs DEF Announced
  <2>2. ~Swapping
    BY <1>1, Jobs DEF Swapping
  <2> QED BY <1>1, <1>2, <2>1, <2>2 DEF SwapInv, BinInv
<1> QED BY <1>3, <1>4, <1>5, <1>6, <1>7, <1>8 DEF SwapInv

(* A job ends; the one that put a new build in place announces it.           *)
LEMMA FinishKeeps ==
  ASSUME IInv, up, Finish, lifted' = FALSE, UNCHANGED <<disk, pad, up, auto, waiting, used>>
  PROVE  IInv'
<1> USE DEF IInv, disk
<1>1. job' = NoJob /\ job'.kind = "none" /\ job'.at = "over" /\ troubles' = troubles
  BY Jobs DEF Finish, Goes
<1>2. window' \in Window /\ window'.ready = window.ready /\ window'.swept = window.swept
  <2>1. PICK down \in SUBSET {"connecting", "flashing"}, m \in BOOLEAN :
             window' = [window EXCEPT !.flags = @ \ down, !.missed = m]
    <3>1. (window.missed \/ (job.kind = "update" /\ job.at # "flashed")) \in BOOLEAN
      BY Knows DEF Window
    <3>2. (CASE job.kind = "connect" -> {"connecting"} [] job.kind \in Writers -> {"flashing"}
             [] OTHER -> {}) \in SUBSET {"connecting", "flashing"}
      OBVIOUS
    <3> QED BY <3>1, <3>2, Zenon DEF Finish
  <2>2. window.flags \ down \in SUBSET {"connecting", "flashing"}
    BY Knows, FieldTypes
  <2> QED BY <2>1, <2>2, Knows DEF Window
<1>3. signals' = signals \/ \E s \in Signals : signals' = Append(signals, s)
                                               /\ (s.kind = "ready" => job.at = "installed")
  <2>1. [kind |-> "ready", running |-> 0] \in Signals /\ [kind |-> "flashed", running |-> 0] \in Signals
    BY DEF Signals
  <2>2. \/ job.at = "installed" /\ signals' = Append(signals, [kind |-> "ready", running |-> 0])
        \/ signals' = Append(signals, [kind |-> "flashed", running |-> 0])
        \/ signals' = signals
    BY DEF Finish, Emit, At
  <2> QED BY <2>1, <2>2
<1>4. signals' \in Seq(Signals) /\ (Announced' => Announced)
  <2>1. CASE signals' = signals
    BY <1>1, <1>2, <2>1 DEF Announced, TypeOK, QueueType
  <2>2. ASSUME NEW s \in Signals, signals' = Append(signals, s), s.kind = "ready" => job.at = "installed"
        PROVE  signals' \in Seq(Signals) /\ (Announced' => Announced)
    <3>1. signals' \in Seq(Signals) /\ Len(signals') = Len(signals) + 1 /\ Len(signals) \in Nat
          /\ \A i \in 1 .. Len(signals) : signals'[i] = signals[i]
          /\ signals'[Len(signals')] = s
      BY <2>2 DEF TypeOK, QueueType
    <3>2. ASSUME NEW i \in 1 .. Len(signals'), signals'[i].kind = "ready" PROVE Announced
      <4>1. i \in 1 .. Len(signals) \/ i = Len(signals')
        BY <3>1
      <4> QED BY <2>2, <3>1, <3>2, <4>1 DEF Announced
    <3> QED BY <1>1, <1>2, <3>1, <3>2 DEF Announced
  <2> QED BY <1>3, <2>1, <2>2
<1>5. TypeOK' /\ NeverUnchecked'
  BY <1>1, <1>2, <1>4, Jobs DEF TypeOK, FileType, JobType, PadType, QueueType, NeverUnchecked
<1>6. JobInv' /\ WriteInv' /\ StageInv' /\ SweptInv' /\ DownInv'
  BY <1>1, <1>2 DEF JobInv, WriteInv, StageInv, SwapInv, SweptInv, DownInv, SuccessMeansWritten, At,
                    AppStages, WriteStages, Told
<1>7. BinInv'
  <2>1. ~Swapping
    BY DEF Finish, Swapping, At
  <2> QED BY <1>4, <2>1 DEF SwapInv, BinInv
<1> QED BY <1>5, <1>6, <1>7 DEF SwapInv

LEMMA WorkingKeeps ==
  ASSUME IInv, Working
  PROVE  IInv'
<1> USE DEF board, disk
<1>1. up /\ UNCHANGED <<up, auto, waiting, used>>
  BY DEF Working
<1>2. CASE (Apply \/ Fetch) /\ UNCHANGED <<board, window, signals>>
  BY <1>1, <1>2, ApplyKeeps, FetchKeeps
<1>3. CASE (Best \/ Published \/ Unpublished) /\ UNCHANGED <<window, signals>>
  BY <1>1, <1>3, DecidingKeeps
<1>4. CASE /\ Flash /\ UNCHANGED signals
           /\ window' = [window EXCEPT !.link = @ /\ pad'.mode = "run"]
  <2>1. PICK x \in BOOLEAN : x = (window.link /\ pad'.mode = "run")
    OBVIOUS
  <2>2. window' = [window EXCEPT !.link = x]
    BY <1>4, <2>1
  <2>3. window' \in Window /\ window'.ready = window.ready /\ window'.swept = window.swept
    BY <2>2, LinkOnly
  <2> QED BY <1>1, <1>4, <2>3, FlashKeeps
<1>5. CASE (Open \/ OpenUnlooked \/ OpenFails \/ CheckAsked \/ Decided) /\ UNCHANGED <<disk, board>>
  BY <1>1, <1>5, OpeningKeeps
<1>6. CASE Finish /\ lifted' = FALSE /\ UNCHANGED <<disk, pad>>
  BY <1>1, <1>6, FinishKeeps
<1> QED BY <1>2, <1>3, <1>4, <1>5, <1>6 DEF Working

---------------------------------------------------------------------------
(* Around it                                                                 *)

(* The board changes, or the link does: jobs, queues and files stay.         *)
LEMMA BoardMoves ==
  ASSUME IInv, UNCHANGED <<disk, job, up, auto, waiting, signals, used>>,
         window' \in Window, window'.ready = window.ready, window'.swept = window.swept,
         troubles' \in Nat, lifted' \in BOOLEAN, PadType', WriteInv'
  PROVE  IInv'
<1> USE DEF IInv, disk
<1>1. TypeOK' /\ NeverUnchecked'
  BY DEF TypeOK, FileType, JobType, QueueType, NeverUnchecked
<1>2. JobInv' /\ StageInv' /\ SweptInv' /\ DownInv'
  BY DEF SwapInv, StageInv, SweptInv, DownInv, JobInv
<1>3. BinInv'
  BY DEF SwapInv, BinInv, Swapping, Announced
<1> QED BY <1>1, <1>2, <1>3 DEF SwapInv

LEMMA CableKeeps ==
  ASSUME IInv, Unplug \/ Plug \/ BootloaderEnds
  PROVE  IInv'
<1> USE Boards DEF board, disk
<1>1. CASE Unplug
  <2>1. pad' = [pad EXCEPT !.mode = "away"] /\ lifted' = (job.kind \in Writers) /\ lifted' \in BOOLEAN
    BY <1>1 DEF Unplug
  <2>2. window' \in Window /\ window'.ready = window.ready /\ window'.swept = window.swept
    BY <1>1, LinkOnly DEF Unplug, Drop
  <2>3. UNCHANGED <<job, file, version, stranded, up, auto, waiting, signals, used>>
    BY <1>1 DEF Unplug, Drop, queues
  <2>4. PadType'
    BY <2>1 DEF PadType
  <2>5. job.at \in WriteStages => lifted'
    BY <2>1 DEF JobInv
  <2>6. WriteInv'
    BY <2>3, <2>5 DEF WriteInv, At, WriteStages, SuccessMeansWritten
  <2>7. troubles' \in Nat
    BY <1>1, OneMore DEF Unplug, Trouble
  <2> QED BY <2>1, <2>2, <2>3, <2>4, <2>6, <2>7, BoardMoves
<1>2. CASE Plug
  <2>1. PICK mode \in {"run", "boot"} : pad' = [pad EXCEPT !.mode = mode]
    BY <1>2 DEF Plug
  <2>2. PadType' /\ pad'.fw = pad.fw /\ pad'.torn = pad.torn /\ pad.mode = "away"
    BY <1>2, <2>1 DEF PadType, Plug
  <2>3. UNCHANGED <<job, file, version, stranded, troubles, lifted, up, auto, window, waiting, signals, used>>
    BY <1>2 DEF Plug, queues
  <2>4. WriteInv'
    BY <2>2, <2>3 DEF WriteInv, At, SuccessMeansWritten
  <2> QED BY <2>2, <2>3, <2>4, Knows, BoardMoves
<1>3. CASE BootloaderEnds
  <2>1. PadType' /\ pad'.fw = pad.fw /\ pad'.torn = pad.torn /\ ~Writing
    BY <1>3 DEF PadType, BootloaderEnds, BootloaderGivesUp
  <2>2. UNCHANGED <<job, file, version, stranded, lifted, up, auto, window, waiting, signals, used>>
    BY <1>3 DEF BootloaderEnds, BootloaderGivesUp, queues
  <2>3. WriteInv'
    BY <2>1, <2>2 DEF WriteInv, Writing, At, SuccessMeansWritten
  <2>4. troubles' \in Nat
    BY <1>3, OneMore DEF BootloaderEnds, BootloaderGivesUp, Trouble, Goes
  <2> QED BY <2>1, <2>2, <2>3, <2>4, Knows, BoardMoves
<1> QED BY <1>1, <1>2, <1>3

(* The process ends at whatever it was at, and is started again.             *)
LEMMA QuitKeeps ==
  ASSUME IInv, Quit
  PROVE  IInv'
<1> USE DEF IInv, disk
<1>1. /\ up /\ ~up' /\ up' = FALSE /\ job' = NoJob /\ waiting' = <<>> /\ signals' = <<>> /\ lifted' = FALSE
      /\ UNCHANGED <<file, version, stranded, pad, auto, used>>
      /\ window' \in Window /\ ~window'.ready
  BY FreshType DEF Quit
<1>2. troubles' \in Nat
  BY OneMore DEF Quit, Trouble
<1>3. waiting' \in Seq(Queued) /\ signals' \in Seq(Signals)
  BY <1>1
<1>4. job'.kind = "none" /\ job'.at = "over" /\ JobType'
  BY <1>1, Jobs DEF JobType
<1>5. TypeOK' /\ NeverUnchecked'
  BY <1>1, <1>2, <1>3, <1>4 DEF TypeOK, FileType, PadType, QueueType, NeverUnchecked
<1>6. JobInv' /\ WriteInv' /\ StageInv' /\ SweptInv' /\ DownInv'
  BY <1>1, <1>4 DEF JobInv, WriteInv, StageInv, SweptInv, DownInv, SuccessMeansWritten, At,
                    AppStages, WriteStages, Told
<1>7. ~Announced'
  BY <1>1, <1>4 DEF Announced
<1>8. BinInv'
  BY <1>1, <1>7 DEF SwapInv, BinInv
<1> QED BY <1>5, <1>6, <1>8 DEF SwapInv

LEMMA LaunchKeeps ==
  ASSUME IInv, Launch
  PROVE  IInv'
<1> USE DEF IInv, disk, board
<1>1. /\ ~up /\ up' /\ file.bin \in Whole /\ version' = file.bin /\ waiting' = <<ConnectJob>>
      /\ UNCHANGED <<file, stranded, job, troubles, pad, lifted, auto, signals, used>>
      /\ window' \in Window /\ ~window'.ready /\ up' = TRUE
      /\ job = NoJob /\ signals = <<>>
  BY FreshType DEF Launch, SwapInv, DownInv
<1>2. waiting' \in Seq(Queued) /\ \A i \in 1 .. Len(waiting') : waiting'[i].kind # "app"
  <2>1. \A x \in Queued : <<x>> \in Seq(Queued) /\ Len(<<x>>) = 1 /\ <<x>>[1] = x
    OBVIOUS
  <2> QED BY <1>1, <2>1, Queue
<1>3. job'.kind = "none" /\ job'.at = "over"
  BY <1>1, Jobs
<1>4. TypeOK' /\ NeverUnchecked'
  BY <1>1, <1>2 DEF TypeOK, FileType, JobType, PadType, QueueType, NeverUnchecked
<1>5. JobInv' /\ WriteInv' /\ StageInv' /\ SweptInv' /\ DownInv'
  BY <1>1, <1>2, <1>3 DEF JobInv, WriteInv, StageInv, SweptInv, DownInv, SuccessMeansWritten, At,
                          AppStages, WriteStages, Told
<1>6. ~Announced'
  BY <1>1, <1>3 DEF Announced
<1>7. BinInv'
  BY <1>1, <1>6 DEF BinInv
<1> QED BY <1>4, <1>5, <1>7 DEF SwapInv

---------------------------------------------------------------------------
(* Every state a run of the program reaches                                  *)

LEMMA InitInv == Init => IInv
<1> SUFFICES ASSUME Init PROVE IInv
  OBVIOUS
<1> USE DEF Init
<1>1. job.kind = "none" /\ job.at = "over" /\ JobType
  BY Jobs DEF JobType
<1>2. file \in [Files -> Contents] /\ file.bin = "old" /\ NeverUnchecked
  BY DEF Files, Contents, NeverUnchecked, Whole
<1>3. pad \in [board : {"avr109", "uf2"}, fw : Nat, torn : BOOLEAN, mode : {"run", "boot"}]
      /\ pad.fw \in Versions
  BY BoardAssumption DEF Versions
<1>4. PadType
  BY <1>3 DEF PadType
<1>5. waiting \in Seq(Queued) /\ \A i \in 1 .. Len(waiting) : waiting[i].kind # "app"
  <2>1. \A x \in Queued : <<x>> \in Seq(Queued) /\ Len(<<x>>) = 1 /\ <<x>>[1] = x
    OBVIOUS
  <2> QED BY <2>1, Queue
<1>6. window \in Window /\ ~window.ready
  BY FreshType
<1>7. TypeOK
  <2>1. FileType /\ JobType /\ PadType /\ window \in Window
    BY <1>1, <1>2, <1>4, <1>6 DEF FileType, Whole
  <2>2. QueueType
    BY <1>5 DEF QueueType
  <2>3. stranded \in BOOLEAN /\ lifted \in BOOLEAN /\ up \in BOOLEAN /\ auto \in BOOLEAN
    BY Zenon
  <2> QED BY <2>1, <2>2, <2>3 DEF TypeOK
<1>8. JobInv /\ WriteInv /\ StageInv /\ SweptInv /\ DownInv
  BY <1>1, <1>5 DEF JobInv, WriteInv, StageInv, SweptInv, DownInv, SuccessMeansWritten, At,
                    AppStages, WriteStages, Told
<1>9. ~Announced
  BY <1>1, <1>6 DEF Announced
<1>10. BinInv
  BY <1>2, <1>9 DEF BinInv
<1> QED BY <1>2, <1>7, <1>8, <1>10 DEF IInv, SwapInv

LEMMA NextInv == IInv /\ [Next]_vars => IInv'
<1> SUFFICES ASSUME IInv, [Next]_vars PROVE IInv'
  OBVIOUS
<1>1. CASE Click \/ PollSeesLink \/ Reconnect \/ StartBusy \/ EndBusy
  BY <1>1, ConnectingKeeps
<1>2. CASE StartUpdateChecks
  BY <1>2, StartUpdateChecksKeeps
<1>3. CASE CheckUpdatesNow
  BY <1>3, CheckUpdatesNowKeeps
<1>4. ASSUME NEW r \in Versions, LookAgain(r) PROVE IInv'
  BY <1>4, LookAgainKeeps
<1>5. ASSUME NEW box \in window.boxes, Answer(box) PROVE IInv'
  BY <1>5, AnswerKeeps
<1>6. CASE Deliver
  BY <1>6, DeliverKeeps
<1>7. CASE Take
  BY <1>7, TakeKeeps
<1>8. CASE Working
  BY <1>8, WorkingKeeps
<1>9. CASE Unplug \/ Plug \/ BootloaderEnds
  BY <1>9, CableKeeps
<1>10. CASE Quit
  BY <1>10, QuitKeeps
<1>11. CASE Launch
  BY <1>11, LaunchKeeps
<1>12. CASE UNCHANGED vars
  <2> USE DEF vars, world, disk, board, queues, IInv
  <2>1. TypeOK' /\ NeverUnchecked'
    BY <1>12 DEF TypeOK, FileType, JobType, PadType, QueueType, NeverUnchecked
  <2>2. JobInv' /\ WriteInv'
    BY <1>12 DEF JobInv, WriteInv, At, SuccessMeansWritten
  <2>3. StageInv' /\ SweptInv' /\ DownInv' /\ BinInv'
    BY <1>12 DEF SwapInv, StageInv, SweptInv, DownInv, BinInv, Announced, Swapping
  <2> QED BY <2>1, <2>2, <2>3 DEF SwapInv
<1> QED
  BY <1>1, <1>2, <1>3, <1>4, <1>5, <1>6, <1>7, <1>8, <1>9, <1>10, <1>11, <1>12 DEF Next

LEMMA Invariance == Spec => []IInv
  BY InitInv, NextInv, PTL DEF Spec

(* Every file, job, board, window and queue is one of those the code names,   *)
(* for any boards and any number of troubles and uses.                       *)
THEOREM TypeCorrect == Spec => []TypeOK
<1>1. IInv => TypeOK
  BY DEF IInv
<1> QED BY <1>1, Invariance, PTL

(* A file that is run, swapped in or written to a pad is whole and is what    *)
(* was published, or is not there, wherever in a download, a check or a swap  *)
(* the process ends (download, fetch_asset, apply).                          *)
THEOREM OnlyPublishedFiles == Spec => []NeverUnchecked
<1>1. IInv => NeverUnchecked
  BY DEF IInv
<1> QED BY <1>1, Invariance, PTL

(* The program stays at its path, outside the two renames of a swap, whatever *)
(* of it fails, unless putting it back failed too; after the notice of a new  *)
(* build it is that build that a restart starts (apply, _app_update_ready).  *)
THEOREM ProgramStaysInPlace == Spec => []BinaryInPlace
<1>1. IInv => BinaryInPlace
  <2> SUFFICES ASSUME IInv, ~stranded
               PROVE  /\ \/ file.bin \in {version, "new"}
                         \/ file.retired \in Whole /\ (Swapping \/ ~up)
                      /\ window.ready /\ ~Swapping => file.bin = "new"
    BY DEF BinaryInPlace
  <2>1. version \in Whole /\ BinInv /\ DownInv
    BY DEF IInv, TypeOK, FileType, SwapInv
  <2>2. CASE file.bin \in {version, "new"} /\ (Announced => file.bin = "new")
    BY <2>2 DEF Announced
  <2>3. CASE file.bin = "none" /\ file.retired \in {version, "new"} /\ (Swapping \/ ~up)
    BY <2>1, <2>3 DEF Whole, DownInv
  <2> QED BY <2>1, <2>2, <2>3 DEF BinInv
<1> QED BY <1>1, Invariance, PTL

(* A write that ends as a success left the image on the pad, whole, unless    *)
(* the pad was unplugged meanwhile (Avr109.flash and verify, Uf2.flash).     *)
THEOREM SuccessIsOnThePad == Spec => []SuccessMeansWritten
<1>1. IInv => SuccessMeansWritten
  BY DEF IInv, WriteInv
<1> QED BY <1>1, Invariance, PTL

================================================================================
