-------------------------------- MODULE Updates --------------------------------
(***************************************************************************)
(* Keeping the program and the keypad current, unattended: the window      *)
(* (ui/app.py) that checks, offers, updates and reconnects, its one io     *)
(* worker, the files on disk and the board on the cable.                   *)
(* Handlers of the window are atomic; jobs and signals queue between the   *)
(* threads.  The process may end at any step and be started again.         *)
(***************************************************************************)
EXTENDS Flashing, Sequences

CONSTANTS
    MaxUses         \* bound: recordings, syncs, disconnects, and update checks asked for

VARIABLES
    up,             \* is the program running?
    auto,           \* auto_update_firmware
    window,         \* what the window remembers: see Fresh
    waiting,        \* _io_queue
    signals,        \* signals queued for the window
    used            \* what was spent of MaxUses
board == <<pad, lifted>>
queues == <<waiting, signals>>
world == <<disk, job, troubles, board, up, auto>>
vars == <<world, window, queues, used>>

Fresh ==
    [link    |-> FALSE,             \* device.connected
     flags   |-> {"connecting"},    \* and "flashing"
     busy    |-> "none",            \* or "recording", also a prompt; or "syncing", also a reset
     boxes   |-> {},                \* questions on screen
     held    |-> FALSE,             \* _open_question
     offered |-> FALSE,             \* _flash_offered
     checked |-> {},                \* _firmware_checked
     looks   |-> [v \in Versions |-> 0],    \* updates found that wait for the retry timer
     wanted  |-> FALSE,             \* _reconnect_allowed
     ready   |-> FALSE,             \* _app_update_staged
     swept   |-> FALSE,             \* _start_update_checks ran
     missed  |-> FALSE,             \* history: an update ended without success
     unlooked |-> FALSE]            \* history: this link came up, but nobody looked for one

ConnectJob == Job("connect", "open", 0, 0)
AppJob == Job("app", "ask", 0, 0)
Emit(kind, running) == signals' = Append(signals, [kind |-> kind, running |-> running])
Link == window.link
Quiet == window.flags = {} /\ window.busy # "syncing"
\* Clicks and the poll timer come after the signals that were posted before them.
Caught == up /\ signals = <<>>

Use == used < MaxUses /\ used' = used + 1

Init ==
    /\ file = [f \in Files |-> IF f = "bin" THEN "old" ELSE "none"]
    /\ version = "old" /\ stranded = FALSE /\ job = NoJob /\ troubles = 0
    /\ pad \in Arriving /\ lifted = FALSE
    /\ up = TRUE /\ auto \in BOOLEAN /\ window = Fresh          \* _autoconnect
    /\ waiting = <<ConnectJob>> /\ signals = <<>>
    /\ used = 0

(***************************************************************************)
(* The window: connecting                                                  *)
(***************************************************************************)
Connected(w) == [w EXCEPT !.flags = @ \cup {"connecting"}]
Disconnected(w) == [w EXCEPT !.link = FALSE, !.wanted = FALSE, !.unlooked = FALSE]

\* _toggle_connection: nothing at all while one of its flags is up.
Toggle(w) ==
    /\ window' = IF ~Quiet THEN w ELSE IF w.link THEN Disconnected(w) ELSE Connected(w)
    /\ waiting' = IF Quiet /\ ~w.link THEN Append(waiting, ConnectJob) ELSE waiting

Click ==
    /\ Caught /\ Quiet /\ window.busy = "none" /\ window.boxes = {}
    /\ Toggle(window) /\ IF Link THEN Use ELSE UNCHANGED used
    /\ UNCHANGED <<world, signals>>

PollSeesLink ==
    /\ up /\ Link /\ ~window.wanted /\ window' = [window EXCEPT !.wanted = TRUE]
    /\ UNCHANGED <<world, queues, used>>

Reconnect ==
    /\ Caught /\ Quiet /\ window.busy = "none" /\ window.wanted /\ ~Link
    /\ Toggle(window)
    /\ UNCHANGED <<world, signals, used>>

StartBusy ==
    /\ up /\ Link /\ "connecting" \notin window.flags /\ window.busy = "none"
    /\ Use
    /\ \E what \in {"recording", "syncing"} : window' = [window EXCEPT !.busy = what]
    /\ UNCHANGED <<world, queues>>

EndBusy ==
    /\ up /\ window.busy # "none" /\ window' = [window EXCEPT !.busy = "none"]
    /\ UNCHANGED <<world, queues, used>>

(***************************************************************************)
(* The window: updates of the program                                      *)
(***************************************************************************)
\* _check_app_update: what is in place already is only told again.
CheckApp == IF window.ready THEN <<>> ELSE <<AppJob>>

\* _start_update_checks: cleanup, which may fail, then the first check.
StartUpdateChecks ==
    /\ up /\ ~window.swept /\ window' = [window EXCEPT !.swept = TRUE]
    /\ \E left \in {"none", file.retired} : file' = [file EXCEPT !.retired = left]
    /\ waiting' = waiting \o CheckApp
    /\ UNCHANGED <<version, stranded, job, troubles, board, up, auto, signals, used>>

CheckUpdatesNow ==
    /\ up /\ window.swept /\ Use
    /\ window' = [window EXCEPT !.checked = {}]
    /\ waiting' = waiting \o CheckApp
                  \o IF Link THEN <<Job("check", "seen", pad.fw, 0)>> ELSE <<>>
    /\ UNCHANGED <<world, signals>>

(***************************************************************************)
(* The window: updates of the firmware                                     *)
(***************************************************************************)
\* _update_firmware: let go of the port, then write.
UpdateFirmware(w, r) ==
    /\ window' = [Disconnected(w) EXCEPT !.flags = @ \cup {"flashing"}]
    /\ waiting' = Append(waiting, Job("update", "best", r, 0))

Box(w, what, r) ==
    [w EXCEPT !.boxes = @ \cup {[what |-> what, running |-> r]}, !.held = TRUE]

Settled == window.flags = {} /\ window.busy = "none" /\ ~window.held

\* mutant: a window in use gives the update up
FoundOnce(w, r) ==
    \/ ~w.link /\ window' = [w EXCEPT !.checked = @ \ {r}] /\ UNCHANGED waiting
    \/ w.link /\ ~Settled /\ window' = w /\ UNCHANGED waiting
    \/ w.link /\ Settled /\ auto /\ UpdateFirmware(w, r)
    \/ w.link /\ Settled /\ ~auto /\ window' = Box(w, "update", r) /\ UNCHANGED waiting

\* _firmware_update_found, with an update found for a pad that runs r.
Found(w, r) ==
    \/ ~w.link /\ window' = [w EXCEPT !.checked = @ \ {r}] /\ UNCHANGED waiting
    \/ w.link /\ ~Settled /\ window' = [w EXCEPT !.looks[r] = @ + 1] /\ UNCHANGED waiting
    \/ w.link /\ Settled /\ auto /\ UpdateFirmware(w, r)
    \/ w.link /\ Settled /\ ~auto /\ window' = Box(w, "update", r) /\ UNCHANGED waiting

\* The retry timer; it changes nothing before the window has settled.
LookAgain(r) ==
    /\ up /\ window.looks[r] > 0 /\ (Link => Settled)
    /\ Found([window EXCEPT !.looks[r] = @ - 1], r)
    /\ UNCHANGED <<world, signals, used>>

\* _offer_flash: once per board and session.
Offer(w) ==
    IF w.flags = {} /\ ~w.offered THEN [Box(w, "install", 0) EXCEPT !.offered = TRUE] ELSE w

\* finished: the answer is taken at its word, whatever has happened since it was asked.
Answer(box) ==
    /\ up /\ box \in window.boxes
    /\ LET w == [window EXCEPT !.boxes = @ \ {box}, !.held = FALSE] IN
         \/ window' = w /\ UNCHANGED waiting
         \/ box.what = "update" /\ UpdateFirmware(w, box.running)
         \/ /\ box.what = "install" /\ window' = [w EXCEPT !.flags = @ \cup {"flashing"}]
            /\ waiting' = Append(waiting, Job("install", "find", 0, Bundled))
    /\ UNCHANGED <<world, signals, used>>

\* mutant: nobody reconnects
FlashedQuietly(w) == window' = [w EXCEPT !.offered = FALSE] /\ UNCHANGED waiting

\* _flash_succeeded and _firmware_update_finished
Flashed(w) == Toggle([w EXCEPT !.offered = FALSE])

Deliver ==
    /\ up /\ signals # <<>> /\ signals' = Tail(signals)
    /\ LET s == Head(signals) IN
         \/ s.kind = "ready" /\ window' = [window EXCEPT !.ready = TRUE] /\ UNCHANGED waiting
         \/ s.kind = "found" /\ Found(window, s.running)
         \/ s.kind = "offer" /\ window' = Offer(window) /\ UNCHANGED waiting
         \/ s.kind = "flashed" /\ Flashed(window)
    /\ UNCHANGED <<world, used>>

(***************************************************************************)
(* The io worker.  Syncs and resets occupy it too.                         *)
(***************************************************************************)
Take ==
    /\ up /\ job = NoJob /\ waiting # <<>> /\ window.busy # "syncing"
    /\ job' = Head(waiting) /\ waiting' = Tail(waiting)
    /\ UNCHANGED <<disk, troubles, board, up, auto, window, signals, used>>

\* _check_firmware_update: once per version and session.
Check(w, r, on) ==
    IF on /\ r \notin w.checked
    THEN /\ window' = [w EXCEPT !.checked = @ \cup {r}]
         /\ job' = [job EXCEPT !.at = "best", !.running = r]
    ELSE window' = w /\ Go("nothing")

Open ==
    /\ At({"connect"}, "open") /\ Answers /\ Goes
    /\ Check([window EXCEPT !.link = TRUE, !.unlooked = FALSE], pad.fw, auto)
    /\ UNCHANGED signals

\* The settings cannot be saved: the link stays, and the job ends before the check.
OpenUnlooked ==
    /\ At({"connect"}, "open") /\ Answers /\ Trouble /\ Go("nothing")
    /\ window' = [window EXCEPT !.link = TRUE, !.unlooked = TRUE]
    /\ UNCHANGED signals

\* A board that is there and does not answer is offered firmware.
OpenFails ==
    /\ At({"connect"}, "open") /\ Go("nothing")
    /\ IF Answers THEN Trouble ELSE Goes
    /\ IF Attached THEN Emit("offer", 0) ELSE UNCHANGED signals
    /\ UNCHANGED window

CheckAsked ==
    /\ At({"check"}, "seen") /\ Goes /\ Check(window, job.running, TRUE)
    /\ UNCHANGED signals

\* An update was found: told, or written.
Decided ==
    /\ At(Deciders, "decided") /\ Goes
    /\ IF job.kind = "update" THEN Go("find") /\ UNCHANGED signals
       ELSE Go("nothing") /\ Emit("found", job.running)
    /\ UNCHANGED window

\* The job ends: its flag goes down on every way out, then its result is told.  "failed" is
\* shown at most, and nothing follows it.
Finish ==
    /\ job.at \in {"nothing", "failed", "installed", "flashed"} \/ At({"app"}, "unfetched")
    /\ job' = NoJob /\ Goes
    /\ window' = [window EXCEPT !.flags = @ \ CASE job.kind = "connect" -> {"connecting"}
                                                [] job.kind \in Writers -> {"flashing"}
                                                [] OTHER -> {},
                              !.missed = @ \/ (job.kind = "update" /\ job.at # "flashed")]
    /\ CASE job.at = "installed" -> Emit("ready", 0)
         [] job.at = "flashed" \/ At({"update"}, "nothing") -> Emit("flashed", 0)
         [] OTHER -> UNCHANGED signals

Working ==
    /\ up
    /\ \/ (Apply \/ Fetch) /\ UNCHANGED <<board, window, signals>>
       \/ (Best \/ Published \/ Unpublished) /\ UNCHANGED <<window, signals>>
       \/ Flash /\ UNCHANGED signals        \* a board that restarts ends its link
          /\ window' = [window EXCEPT !.link = @ /\ pad'.mode = "run"]
       \/ (Open \/ OpenUnlooked \/ OpenFails \/ CheckAsked \/ Decided) /\ UNCHANGED <<disk, board>>
       \/ Finish /\ lifted' = FALSE /\ UNCHANGED <<disk, pad>>
    /\ UNCHANGED <<up, auto, waiting, used>>

(***************************************************************************)
(* Around it                                                               *)
(***************************************************************************)
Drop ==
    /\ window' = [window EXCEPT !.link = FALSE, !.unlooked = FALSE]
    /\ UNCHANGED <<disk, job, up, auto, queues, used>>

Unplug ==
    /\ pad.mode # "away" /\ Trouble /\ Drop
    /\ pad' = [pad EXCEPT !.mode = "away"] /\ lifted' = (job.kind \in Writers)

\* The same board again, perhaps with its button held.
Plug ==
    /\ pad.mode = "away"
    /\ \E mode \in {"run", "boot"} : pad' = [pad EXCEPT !.mode = mode]
    /\ UNCHANGED <<disk, job, troubles, lifted, up, auto, window, queues, used>>

BootloaderEnds == BootloaderGivesUp /\ UNCHANGED <<up, auto, window, queues, used>>

\* The program is closed, or killed, whatever its worker was at.
Quit ==
    /\ up /\ Trouble /\ up' = FALSE /\ job' = NoJob
    /\ window' = [Fresh EXCEPT !.flags = {}] /\ waiting' = <<>> /\ signals' = <<>>
    /\ lifted' = FALSE /\ UNCHANGED <<disk, pad, auto, used>>

Launch ==
    /\ ~up /\ file.bin \in Whole /\ up' = TRUE /\ version' = file.bin
    /\ window' = Fresh /\ waiting' = <<ConnectJob>>
    /\ UNCHANGED <<file, stranded, job, troubles, board, auto, signals, used>>

Next ==
    \/ Click \/ PollSeesLink \/ Reconnect \/ StartBusy \/ EndBusy
    \/ StartUpdateChecks \/ CheckUpdatesNow
    \/ \E r \in Versions : LookAgain(r)
    \/ \E box \in window.boxes : Answer(box)
    \/ Deliver \/ Take \/ Working
    \/ Unplug \/ Plug \/ BootloaderEnds \/ Quit \/ Launch

\* The threads run, timers fire, recordings and syncs end, questions get answered.
Fairness ==
    /\ WF_vars(Take) /\ WF_vars(Working) /\ WF_vars(Deliver) /\ WF_vars(EndBusy)
    /\ WF_vars(Reconnect) /\ WF_vars(\E r \in Versions : LookAgain(r))
    /\ WF_vars(\E box \in window.boxes : Answer(box))

Spec == Init /\ [][Next]_vars /\ Fairness

(***************************************************************************)
(* Properties                                                              *)
(***************************************************************************)
\* Nothing torn, and nothing that is not what was published, is ever found under a name
\* that is run, swapped in or written to a pad (download, fetch_asset), wherever the
\* process ends.
NeverUnchecked ==
    \A f \in {"bin", "staged", "retired", "image"} : file[f] \in Whole \cup {"none"}

\* The program is at its path except inside the swap, and then whole beside it; a failed
\* update leaves the build that runs or the new one, and a restart after the notice
\* starts the new one (apply, _app_update_ready).
BinaryInPlace ==
    ~stranded =>
        /\ file.bin \in {version, "new"} \/ (file.retired \in Whole /\ (Swapping \/ ~up))
        /\ window.ready /\ ~Swapping => file.bin = "new"

\* What the window is told was written is on the pad, unless the cable was touched.
SuccessMeansWritten ==
    job.at = "flashed" => lifted \/ (pad.fw = job.image /\ ~pad.torn)

\* A connected pad that is behind gets its update, unless one was tried already and ended
\* badly, or the connect ended before the check, however the link, recordings, questions and
\* the retry timer interleave.
Behind == up /\ auto /\ Link /\ Bundled > pad.fw
UpdateGetsThrough == Behind ~> (~Behind \/ window.missed \/ window.unlooked)

\* A pad taken away for flashing is connected again afterwards, or the window is on its way
\* to it, whether anything was written or not, and with the cable pulled meanwhile: only a
\* job that ends with an exception leaves it disconnected, and a window that is closed.
LinkReturns ==
    (up /\ "flashing" \in window.flags)
        ~> \/ "flashing" \notin window.flags /\ (Link \/ "connecting" \in window.flags)
           \/ At(Writers, "failed")
           \/ ~up
=============================================================================
