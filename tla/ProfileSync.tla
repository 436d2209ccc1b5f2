----------------------------- MODULE ProfileSync -----------------------------
(***************************************************************************)
(* The profile in the editor, in the file and on the pad, and who changes  *)
(* them: the window (ui/app.py), its one worker for device work, and the   *)
(* worker that stores recordings (session.py, app.py).                     *)
(* The window's handlers are atomic; jobs and signals queue between the    *)
(* threads.  Connecting, transfers and the file are single steps here:     *)
(* DeviceClient and ConfigStore open them.                                 *)
(***************************************************************************)
EXTENDS MacroSlots, Sequences

CONSTANTS
    MaxChanges,     \* bound: edits, recordings and imports
    MaxOps,         \* bound: connects, syncs and resets asked for
    MaxTroubles     \* bound: saves and transfers that fail, and times the cable goes

VARIABLES
    mem,            \* app.profile
    disk,           \* the profile file
    pad,            \* the profile on the pad
    link,           \* device.connected
    plugged,        \* is there a pad on the cable?
    strange,        \* history: the pad's profile was never seen by this computer
    uncompared,     \* history: the link came up, but the compare was not reached
    flags,          \* what the window is in the middle of
    diverged,       \* _profiles_diverged
    wanted,         \* _reconnect_allowed
    dialog,         \* a dialog over the window: "none", "edit", "file", "reset", "sync"
    settling,       \* the slider was moved, its timer runs
    jobs,           \* _io_queue, the job under way first
    signals,        \* signals queued for the window
    recording,      \* the key recorded into, or NoKey
    keeper,         \* the record worker: where it is with what
    used,           \* what was spent of the bounds
    meant,          \* history: what each key was last given
    behind,         \* history: a change is known not to get through
    unsaved,        \* history: the last save failed
    crossed         \* history: a recording was stored amid window work
profiles == <<mem, disk, pad>>
cable == <<link, plugged, strange, uncompared>>
window == <<flags, diverged, wanted, dialog, settling>>
recorder == <<recording, keeper>>
history == <<meant, behind, unsaved, crossed>>
vars == <<profiles, cable, window, jobs, signals, recorder, used, history>>

NoKey == "no key"
Idle == [at |-> "idle", key |-> NoKey, id |-> 0, slot |-> NoSlot]
Default == [keys |-> [k \in Keys |-> Shortcut(<<"hyper", k>>)],
            macros |-> [s \in MacroSlot |-> NoMacro], light |-> 0]
Other(s) == [Default EXCEPT !.keys = [k \in Keys |-> Shortcut(<<s, k>>)]]
Foreign == Other("theirs")      \* what the pad holds after another computer had it
Imported == Other("imported")   \* what a file or a backup holds

Job(kind) == [kind |-> kind, blob |-> Default]
WriteJob(p) == [kind |-> "write", blob |-> p]

Busy == flags # {} \/ recording # NoKey
Enabled == ~Busy /\ dialog = "none"             \* _set_editing_enabled
Keeping == keeper.at # "idle"
Spend(what) == used' = [used EXCEPT ![what] = @ + 1]
MayChange == used.changes < MaxChanges
MayFail == used.troubles < MaxTroubles
Meanings(p) == [k \in Keys |-> Meaning(p, k)]
Note(p) == IF ~Keeping THEN meant' = Meanings(p) ELSE UNCHANGED meant

Init ==
    /\ mem = Default /\ disk = Default /\ pad \in {Default, Foreign}
    /\ link = FALSE /\ plugged = TRUE /\ strange = (pad = Foreign) /\ uncompared = FALSE
    /\ \/ flags = {} /\ jobs = <<>>
       \/ flags = {"connecting"} /\ jobs = <<Job("connect")>>        \* _autoconnect
    /\ diverged = FALSE /\ wanted = FALSE
    /\ dialog = "none" /\ settling = FALSE /\ signals = <<>>
    /\ recording = NoKey /\ keeper = Idle
    /\ used = [changes |-> 0, ops |-> 0, troubles |-> 0]
    /\ meant = Meanings(Default) /\ behind = FALSE /\ unsaved = FALSE /\ crossed = FALSE

(***************************************************************************)
(* The window: edits.                                                      *)
(***************************************************************************)
\* mutant: the flag is not asked
PushesBlindly(p) == link /\ ~Busy

\* What _apply may put on the pad without asking.
Pushes(p) == link /\ ~Busy /\ ~diverged

\* _apply: save, then push unless something forbids; `behind` when nothing will.
Apply(p, paid) ==
    \/ /\ disk' = p /\ unsaved' = FALSE /\ used' = paid
       /\ jobs' = IF Pushes(p) THEN Append(jobs, WriteJob(p)) ELSE jobs
       /\ behind' = (behind \/ (link /\ Busy))
    \/ /\ MayFail /\ used' = [paid EXCEPT !.troubles = @ + 1]
       /\ unsaved' = TRUE /\ behind' = TRUE /\ UNCHANGED <<disk, jobs>>

OpenDialog(what) ==
    /\ Enabled
    /\ IF what = "reset" THEN used.ops < MaxOps ELSE MayChange
    /\ dialog' = what
    /\ UNCHANGED <<profiles, cable, flags, diverged, wanted, settling, jobs, signals, recorder,
                   used, history>>

\* _edit, with a shortcut, a number of passes, or nothing; and what was asked for.
Edited(k) ==
    {<<Reclaim(SetAction(mem, k, b)), <<b.kind, b.shortcut, 1>>>> :
        b \in {Shortcut(<<"new", k>>), Nothing}}
    \cup {<<Reclaim(SetRepeat(mem, k, n)), <<meant[k][1], meant[k][2], n>>>> : n \in {1, 2}}

Edit(k) ==
    /\ dialog = "edit" /\ MayChange /\ dialog' = "none"
    /\ \E e \in Edited(k) :
          /\ e[1] # mem /\ mem' = e[1]
          /\ meant' = IF Keeping THEN meant ELSE [meant EXCEPT ![k] = e[2]]
          /\ Apply(e[1], [used EXCEPT !.changes = @ + 1])
    /\ crossed' = (crossed \/ Keeping)
    /\ UNCHANGED <<pad, cable, flags, diverged, wanted, settling, signals, recorder>>

Cancel ==
    /\ dialog \in {"edit", "file", "reset"} /\ dialog' = "none"
    /\ UNCHANGED <<profiles, cable, flags, diverged, wanted, settling, jobs, signals, recorder,
                   used, history>>

\* A slider changes the profile at once and saves when it has come to rest.
Drag ==
    /\ Enabled /\ MayChange /\ ~settling /\ Spend("changes")
    /\ mem' = [mem EXCEPT !.light = used.changes + 1] /\ settling' = TRUE
    /\ crossed' = (crossed \/ Keeping)
    /\ UNCHANGED <<disk, pad, cable, flags, diverged, wanted, dialog, jobs, signals, recorder,
                   meant, behind, unsaved>>

Settle ==
    /\ settling /\ settling' = FALSE
    /\ Apply(mem, used)
    /\ crossed' = (crossed \/ Keeping)
    /\ UNCHANGED <<mem, pad, cable, flags, diverged, wanted, dialog, signals, recorder, meant>>

\* _adopt_local_profile: imported, or restored from a backup.
AdoptLocal ==
    /\ dialog = "file" /\ MayChange /\ dialog' = "none"
    /\ \/ /\ mem' = Imported /\ disk' = Imported /\ Note(Imported)
          /\ diverged' = link /\ unsaved' = FALSE /\ Spend("changes")
       \/ /\ MayFail /\ Spend("troubles") /\ UNCHANGED <<mem, disk, meant, diverged, unsaved>>
    /\ crossed' = (crossed \/ Keeping)
    /\ UNCHANGED <<pad, cable, flags, wanted, settling, jobs, signals, recorder, behind>>

(***************************************************************************)
(* The window: connecting, choosing a side, resetting.                     *)
(***************************************************************************)
Begin(flag, kind) == flags' = flags \cup {flag} /\ jobs' = Append(jobs, Job(kind))

\* The button, or the poll after a link that was not given up on purpose.
Connect ==
    /\ ~link /\ flags = {}
    /\ \/ Enabled /\ used.ops < MaxOps /\ Spend("ops")
       \/ wanted /\ dialog # "sync" /\ recording = NoKey /\ UNCHANGED used
    /\ Begin("connecting", "connect")
    /\ UNCHANGED <<profiles, cable, diverged, wanted, dialog, settling, signals, recorder, history>>

PollSeesLink ==
    /\ link /\ ~wanted /\ wanted' = TRUE
    /\ UNCHANGED <<profiles, cable, flags, diverged, dialog, settling, jobs, signals, recorder,
                   used, history>>

Disconnect ==
    /\ link /\ Enabled /\ link' = FALSE /\ wanted' = FALSE
    /\ UNCHANGED <<profiles, plugged, strange, uncompared, flags, diverged, dialog, settling, jobs,
                   signals, recorder, used, history>>

\* _resolve_profile_mismatch asks, from the button or the connect's signal, over
\* whatever dialog is open, ...
AskSide ==
    /\ link /\ ~Busy /\ dialog # "sync"
    /\ \/ Enabled /\ used.ops < MaxOps /\ Spend("ops") /\ UNCHANGED signals
       \/ signals # <<>> /\ Head(signals).kind = "mismatch" /\ signals' = Tail(signals)
          /\ UNCHANGED used
    /\ dialog' = "sync"
    /\ UNCHANGED <<profiles, cable, flags, diverged, wanted, settling, jobs, recorder, history>>

\* ... or not at all: something else has begun meanwhile.
AskNot ==
    /\ ~link \/ Busy
    /\ signals # <<>> /\ Head(signals).kind = "mismatch" /\ signals' = Tail(signals)
    /\ UNCHANGED <<profiles, cable, window, jobs, recorder, used, history>>

Answer ==
    /\ dialog = "sync" /\ dialog' = "none"
    /\ IF recording # NoKey THEN UNCHANGED <<flags, jobs>>
       ELSE \E side \in {"pull", "push"} : Begin("syncing", side)
    /\ UNCHANGED <<profiles, cable, diverged, wanted, settling, signals, recorder, used, history>>

LeaveBoth ==
    /\ dialog = "sync" /\ dialog' = "none" /\ diverged' = TRUE
    /\ UNCHANGED <<profiles, cable, flags, wanted, settling, jobs, signals, recorder, used, history>>

\* A reconnect may have begun under the question, so `flags` need not be empty.
Reset ==
    /\ dialog = "reset" /\ dialog' = "none" /\ recording = NoKey /\ link /\ Spend("ops")
    /\ Begin("resetting", "reset")
    /\ UNCHANGED <<profiles, cable, diverged, wanted, settling, signals, recorder, history>>

\* mutant: saved before the defaults are in place
FinishResetTooSoon(paid) ==
    /\ flags' = flags \ {"resetting"}
    /\ mem' = Default /\ Note(Default)
    /\ disk' = mem /\ diverged' = FALSE /\ unsaved' = FALSE /\ used' = paid
    /\ crossed' = (crossed \/ Keeping)

\* _finish_reset: after the pad's, or at once without a pad.
FinishReset(paid) ==
    /\ flags' = flags \ {"resetting"}
    /\ mem' = Default /\ Note(Default)
    /\ \/ disk' = Default /\ diverged' = FALSE /\ unsaved' = FALSE /\ used' = paid
       \/ /\ MayFail /\ used' = [paid EXCEPT !.troubles = @ + 1]
          /\ unsaved' = TRUE /\ UNCHANGED <<disk, diverged>>
    /\ crossed' = (crossed \/ Keeping)

ResetAlone ==
    /\ dialog = "reset" /\ dialog' = "none" /\ recording = NoKey /\ ~link
    /\ FinishReset([used EXCEPT !.ops = @ + 1])
    /\ UNCHANGED <<pad, cable, wanted, settling, jobs, signals, recorder, behind>>

(***************************************************************************)
(* The window: what its worker reports.                                    *)
(***************************************************************************)
Reported(kind) == signals # <<>> /\ Head(signals).kind = kind /\ signals' = Tail(signals)

ResetReady ==
    /\ Reported("reset") /\ FinishReset(used)
    /\ UNCHANGED <<pad, cable, wanted, dialog, settling, jobs, recorder, behind>>

ResetFailed ==
    /\ Reported("resetFailed") /\ flags' = flags \ {"resetting"}
    /\ UNCHANGED <<profiles, cable, diverged, wanted, dialog, settling, jobs, recorder, used, history>>

\* mutant: a profile that cannot be saved leaves the window locked
AdoptOrHang ==
    /\ Reported("adopt") /\ mem' = Head(signals).blob /\ Note(Head(signals).blob)
    /\ \/ disk' = mem' /\ diverged' = FALSE /\ unsaved' = FALSE /\ UNCHANGED used
          /\ flags' = flags \ {"syncing"}
       \/ MayFail /\ Spend("troubles") /\ unsaved' = TRUE /\ UNCHANGED <<disk, diverged, flags>>
    /\ crossed' = (crossed \/ Keeping)
    /\ UNCHANGED <<pad, cable, wanted, dialog, settling, jobs, recorder, behind>>

\* _adopt_profile, _finish_sync
Adopt ==
    /\ Reported("adopt") /\ mem' = Head(signals).blob /\ Note(Head(signals).blob)
    /\ flags' = flags \ {"syncing"}
    /\ \/ disk' = mem' /\ diverged' = FALSE /\ unsaved' = FALSE /\ UNCHANGED used
       \/ MayFail /\ Spend("troubles") /\ diverged' = TRUE /\ unsaved' = TRUE /\ UNCHANGED disk
    /\ crossed' = (crossed \/ Keeping)
    /\ UNCHANGED <<pad, cable, wanted, dialog, settling, jobs, recorder, behind>>

Synced ==
    /\ Reported("synced") /\ flags' = flags \ {"syncing"} /\ diverged' = FALSE
    /\ UNCHANGED <<profiles, cable, wanted, dialog, settling, jobs, recorder, used, history>>

SyncFailed ==
    /\ Reported("syncFailed") /\ flags' = flags \ {"syncing"} /\ diverged' = TRUE
    /\ UNCHANGED <<profiles, cable, wanted, dialog, settling, jobs, recorder, used, history>>

(***************************************************************************)
(* The window's worker: one job at a time, in the order they were queued.  *)
(***************************************************************************)
Working(kind) == jobs # <<>> /\ Head(jobs).kind = kind
Done == jobs' = Tail(jobs)
Writes(queue) == {i \in DOMAIN queue : queue[i].kind = "write"}
Tell(kind, p) == signals' = Append(signals, [kind |-> kind, blob |-> p])
Broken == ~link \/ MayFail
PayFault == IF link THEN Spend("troubles") ELSE UNCHANGED used

Write ==
    /\ Working("write") /\ link /\ Done /\ pad' = Head(jobs).blob
    /\ behind' = (behind /\ (Head(jobs).blob # mem \/ Writes(jobs) # {1}))
    /\ crossed' = (crossed \/ Keeping)
    /\ strange' = FALSE
    /\ UNCHANGED <<mem, disk, link, plugged, uncompared, window, signals, recorder, used, meant, unsaved>>

WriteFails ==
    /\ Working("write") /\ Broken /\ PayFault /\ Done /\ behind' = TRUE
    /\ UNCHANGED <<profiles, cable, window, signals, recorder, meant, unsaved, crossed>>

Open ==
    /\ Working("connect") /\ ~link /\ plugged /\ link' = TRUE /\ uncompared' = FALSE
    /\ jobs' = <<Job("compare")>> \o Tail(jobs)
    /\ UNCHANGED <<profiles, plugged, strange, window, signals, recorder, used, history>>

\* The link is up, but the settings, with the port in them, cannot be saved: the status line
\* says so, and the job ends there, nothing compared.
OpenUncompared ==
    /\ Working("connect") /\ ~link /\ plugged /\ link' = TRUE /\ uncompared' = TRUE
    /\ MayFail /\ Spend("troubles") /\ Done
    /\ flags' = flags \ {"connecting"} /\ behind' = TRUE
    /\ UNCHANGED <<profiles, plugged, strange, diverged, wanted, dialog, settling, signals,
                   recorder, meant, unsaved, crossed>>

OpenFails ==
    /\ Working("connect") /\ (~plugged \/ link) /\ Done
    /\ flags' = flags \ {"connecting"}
    /\ UNCHANGED <<profiles, cable, diverged, wanted, dialog, settling, signals, recorder, used,
                   history>>

\* mutant: a profile that differs is not noted
CompareLater ==
    /\ Working("compare") /\ jobs' = <<Job("connected")>> \o Tail(jobs)
    /\ diverged' = FALSE /\ behind' = FALSE
    /\ UNCHANGED <<profiles, cable, flags, wanted, dialog, settling, signals, recorder, used,
                   meant, unsaved, crossed>>

\* compare_with_device: a read that fails counts as a difference.
Compare ==
    /\ Working("compare") /\ jobs' = <<Job("connected")>> \o Tail(jobs)
    /\ \/ link /\ diverged' = (pad # mem) /\ UNCHANGED used
       \/ Broken /\ PayFault /\ diverged' = TRUE
    /\ strange' = (strange /\ pad # mem)
    /\ behind' = FALSE /\ crossed' = (crossed \/ Keeping)
    /\ UNCHANGED <<profiles, link, plugged, uncompared, flags, wanted, dialog, settling, signals,
                   recorder, meant, unsaved>>

\* A look at the firmware's version lies between, which may take its time.
Connected ==
    /\ Working("connected") /\ Done /\ flags' = flags \ {"connecting"}
    /\ IF diverged /\ link THEN Tell("mismatch", Default) ELSE UNCHANGED signals
    /\ UNCHANGED <<profiles, cable, diverged, wanted, dialog, settling, recorder, used, history>>

Pull ==
    /\ Working("pull") /\ link /\ Done /\ Tell("adopt", pad) /\ crossed' = (crossed \/ Keeping)
    /\ strange' = FALSE
    /\ UNCHANGED <<profiles, link, plugged, uncompared, window, recorder, used, meant, behind, unsaved>>

Push ==
    /\ Working("push") /\ link /\ Done /\ pad' = mem /\ Tell("synced", Default)
    /\ behind' = FALSE /\ crossed' = (crossed \/ Keeping)
    /\ strange' = FALSE
    /\ UNCHANGED <<mem, disk, link, plugged, uncompared, window, recorder, used, meant, unsaved>>

SyncBreaks ==
    /\ Working("pull") \/ Working("push")
    /\ Broken /\ PayFault /\ Done /\ Tell("syncFailed", Default)
    /\ UNCHANGED <<profiles, cable, window, recorder, history>>

ResetPad ==
    /\ Working("reset") /\ link /\ Done /\ pad' = Default /\ Tell("reset", Default)
    /\ behind' = FALSE /\ crossed' = (crossed \/ Keeping)
    /\ strange' = FALSE
    /\ UNCHANGED <<mem, disk, link, plugged, uncompared, window, recorder, used, meant, unsaved>>

\* The pad may have obeyed and only its answer be late.
ResetBreaks ==
    /\ Working("reset") /\ Broken /\ PayFault /\ Done /\ Tell("resetFailed", Default)
    /\ pad' \in IF link THEN {pad, Default} ELSE {pad}
    /\ behind' = (behind \/ pad' # pad)
    /\ strange' = (strange /\ pad' = pad)
    /\ UNCHANGED <<mem, disk, link, plugged, uncompared, window, recorder, meant, unsaved, crossed>>

(***************************************************************************)
(* Recordings: begun at the pad, stored and pushed by the record worker.   *)
(***************************************************************************)
Record(k) ==
    /\ link /\ recording = NoKey /\ ~Keeping /\ MayChange /\ Spend("changes")
    /\ recording' = k
    /\ UNCHANGED <<profiles, cable, window, jobs, signals, keeper, history>>

\* _refresh_recording: the dialogs make room.
Dismiss ==
    /\ recording # NoKey /\ dialog # "none" /\ dialog' = "none"
    /\ diverged' = (diverged \/ dialog = "sync")        \* as a Cancel
    /\ UNCHANGED <<profiles, cable, flags, wanted, settling, jobs, signals, recorder, used, history>>

Finish ==
    /\ recording # NoKey /\ recording' = NoKey
    /\ keeper' = [Idle EXCEPT !.at = "find", !.key = recording, !.id = used.changes]
    /\ crossed' = (crossed \/ flags # {} \/ jobs # <<>> \/ signals # <<>>)
    /\ UNCHANGED <<profiles, cable, window, jobs, signals, used, meant, behind, unsaved>>

Abort ==
    /\ recording # NoKey /\ recording' = NoKey
    /\ UNCHANGED <<profiles, cable, window, jobs, signals, keeper, used, history>>

Keeps(at, next) == keeper.at = at /\ keeper' = next

\* assign_recording, statement by statement: find a slot or refuse, ...
Find ==
    LET slot == FindSlot(mem, Recorded(keeper.id), Owned(mem, keeper.key))
    IN  /\ Keeps("find", IF slot = NoSlot THEN Idle
                         ELSE [at |-> "place", key |-> keeper.key, id |-> keeper.id, slot |-> slot])
        /\ UNCHANGED <<profiles, cable, window, jobs, signals, recording, used, history>>

\* A recording that is one shortcut takes no slot.
BindShortcut ==
    /\ Keeps("find", [keeper EXCEPT !.at = "save"])
    /\ mem' = Reclaim(SetAction(mem, keeper.key, Shortcut(<<"played", keeper.id>>)))
    /\ meant' = [meant EXCEPT ![keeper.key] = <<"key", <<"played", keeper.id>>, 1>>]
    /\ UNCHANGED <<disk, pad, cable, window, jobs, signals, recording, used,
                   behind, unsaved, crossed>>

\* ... put the macro there, ...
Place ==
    /\ Keeps("place", [keeper EXCEPT !.at = "bind"])
    /\ mem' = Placed(mem, keeper.key, keeper.slot, Recorded(keeper.id))
    /\ UNCHANGED <<disk, pad, cable, window, jobs, signals, recording, used, history>>

\* ... and point the key at it.
Bind ==
    /\ Keeps("bind", [keeper EXCEPT !.at = "save"])
    /\ mem' = Reclaim(SetAction(mem, keeper.key, Sequence(keeper.slot, 1)))
    /\ meant' = [meant EXCEPT ![keeper.key] = <<"sequence", Recorded(keeper.id), 1>>]
    /\ UNCHANGED <<disk, pad, cable, window, jobs, signals, recording, used,
                   behind, unsaved, crossed>>

KeepSave ==
    /\ Keeps("save", [keeper EXCEPT !.at = "push"])
    /\ disk' = mem /\ unsaved' = FALSE
    /\ UNCHANGED <<mem, pad, cable, window, jobs, signals, recording, used, meant, behind, crossed>>

KeepPush ==
    /\ Keeps("push", Idle) /\ link /\ pad' = mem /\ behind' = FALSE
    /\ strange' = FALSE
    /\ UNCHANGED <<mem, disk, link, plugged, uncompared, window, jobs, signals, recording, used,
                   meant, unsaved, crossed>>

\* Kept in the editor, but not in the file, or not on the pad.
KeepFails ==
    /\ \/ Keeps("save", Idle) /\ MayFail /\ Spend("troubles") /\ unsaved' = TRUE
       \/ Keeps("push", Idle) /\ Broken /\ PayFault /\ UNCHANGED unsaved
    /\ behind' = TRUE
    /\ UNCHANGED <<profiles, cable, window, jobs, signals, recording, meant, crossed>>

(***************************************************************************)
(* The cable.  Meanwhile another computer may give the pad its profile.    *)
(***************************************************************************)
Unplug ==
    /\ plugged /\ MayFail /\ Spend("troubles")
    /\ plugged' = FALSE /\ link' = FALSE /\ recording' = NoKey
    /\ UNCHANGED <<profiles, strange, uncompared, window, jobs, signals, keeper, history>>

Plug ==
    /\ ~plugged /\ plugged' = TRUE /\ pad' \in {pad, Foreign}
    /\ strange' = (strange \/ pad' # pad)
    /\ UNCHANGED <<mem, disk, link, uncompared, window, jobs, signals, recorder, used, history>>

WindowActs == AskNot \/ ResetReady \/ ResetFailed \/ Adopt \/ Synced \/ SyncFailed
WorkerActs == \/ Write \/ WriteFails \/ Open \/ OpenUncompared \/ OpenFails \/ Compare \/ Connected
              \/ Pull \/ Push \/ SyncBreaks \/ ResetPad \/ ResetBreaks
KeeperActs == Find \/ BindShortcut \/ Place \/ Bind \/ KeepSave \/ KeepPush \/ KeepFails

Next ==
    \/ \E what \in {"edit", "file", "reset"} : OpenDialog(what)
    \/ \E k \in Keys : Edit(k)
    \/ Cancel \/ Drag \/ Settle \/ AdoptLocal
    \/ Connect \/ PollSeesLink \/ Disconnect \/ AskSide \/ Answer \/ LeaveBoth
    \/ Reset \/ ResetAlone
    \/ WindowActs \/ WorkerActs
    \/ \E k \in Keys : Record(k)
    \/ Dismiss \/ Finish \/ Abort \/ KeeperActs
    \/ Unplug \/ Plug

Spec == Init /\ [][Next]_vars

(***************************************************************************)
(* Properties                                                              *)
(***************************************************************************)
Quiet == /\ jobs = <<>> /\ signals = <<>> /\ flags = {} /\ ~Keeping /\ ~settling

TypeOK ==
    /\ \A p \in {mem, disk, pad} :
          /\ DOMAIN p.keys = Keys /\ DOMAIN p.macros = MacroSlot
          /\ \A k \in Keys : p.keys[k].kind = "sequence" => p.keys[k].slot \in MacroSlot
    /\ flags \subseteq {"connecting", "syncing", "resetting"}
    /\ dialog \in {"none", "edit", "file", "reset", "sync"}
    /\ recording \in Keys \cup {NoKey} /\ keeper.slot \in MacroSlot \cup {NoSlot}

\* With nothing under way and no difference shown, the pad runs what the editor
\* shows: every edit, slider, sync, reset, import and recording got there, or its
\* failure was told (_apply, _finish_sync, _finish_reset, the compare on connect).
MatchShown == Quiet /\ link /\ ~diverged /\ ~behind /\ ~crossed => pad = mem

\* Nor does the file lag behind the editor once all is quiet.
FileKeepsUp == Quiet /\ ~unsaved => disk = mem

\* A profile this computer never saw is only replaced on the pad by a choice: an edit
\* never does it, however the cable, the queue and the compare interleave. (The record
\* worker's push does: see NeverSilently. So does an edit on a link that came up without
\* the compare: README, known disagreements.)
AskedFirst ==
    [][strange /\ ~uncompared /\ pad' # pad
         => Working("push") \/ Working("reset") \/ keeper.at = "push" \/ ~plugged]_vars

\* "Never silent-overwrite": once the compare has shown the difference, nothing but a choice
\* replaces such a profile.
NeverSilently ==
    [][strange /\ ~uncompared /\ diverged /\ jobs = <<>> /\ signals = <<>>
         => pad' = pad \/ Working("push") \/ Working("reset") \/ ~plugged]_vars

\* A key does what it was last given: no recording, number of passes or clearing of
\* another key empties or reuses its slot, and what the slots hold fits the pad
\* (_find_macro_slot, set_repeat, assign_recording, reclaim_storage).
KeysKeepTheirs ==
    ~crossed => /\ keeper.at # "bind" => Meanings(mem) = meant
                /\ UsedRecords(mem, NoSlot) <= PoolRecords

\* What locks the editor is under way or about to be reported: no failure, and no end of
\* the link at the wrong moment, leaves it locked for good.
LocksAreOwned ==
    \A f \in flags :
        \/ \E i \in DOMAIN jobs : jobs[i].kind \in
              CASE f = "connecting" -> {"connect", "compare", "connected"}
                [] f = "syncing"    -> {"pull", "push"}
                [] f = "resetting"  -> {"reset"}
        \/ \E i \in DOMAIN signals : signals[i].kind \in
              CASE f = "connecting" -> {}
                [] f = "syncing"    -> {"adopt", "synced", "syncFailed"}
                [] f = "resetting"  -> {"reset", "resetFailed"}
=============================================================================
