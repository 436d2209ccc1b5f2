# macroKey: a verification project

macroKey is a programmable keypad of eight keys and the desktop application
that programs it. The firmware (`src/firmware`, C++ for an ATmega32u4 and an
RP2040) turns presses into gestures and replays macros; the application
(`src/macrokey`, Python) records macros from the computer's own input devices,
keeps the profile and writes it to the pad over a serial link. This directory
holds TLA+ models of the parts where order, failure and time matter, the TLC
runs that check them and the TLAPS proofs about them.

    tlc -workers 2 -config KeyEngine.cfg MCKeyEngine      # a run
    tlapm KeyEngineProofs.tla                             # a proof module

`PROJECT.json` lists components, runs, the line of code each definition
stands for, the hazards and the theorems.

## 1. Inventory

| Component | State | Operations | Talks to | What is hard | What makes it right |
|---|---|---|---|---|---|
| Button scanner `ButtonInput.cpp` | a phase, flags and time stamps per key; gesture queue; one record request | `update`, `suppressUntilRelease`, `nextEvent`, `takeRecordRequest` | polled by the engine, also from inside a macro | debounce, two thresholds and a double-tap window that overlap; claims | every gesture answers its own presses; a deferred tap settles in time |
| Key engine `KeyEngine.cpp` | cached double-tap mask, the macro on the stack | `update`, `handleEvent`, `runMacro`, `macroPump` | scanner, profile, lights, and serial through `macroYield` | a macro blocks `loop()` for as long as it was recorded, times its loops, and re-enters scanner and serial | only a fresh press stops a macro; records do not change under it but at the wrap of the clock; the cache is current |
| Profile and storage `Profile.cpp`, `Storage.cpp` | EEPROM or a flash file, staged transfer, header tunables | `begin`, `writeDefaults`, `saveHeader`, `stage*`, `mkStore*` | serial verbs | power loss between any two writes; flash failures | what boots is one profile, whole, and the one acknowledged |
| Serial protocol `SerialProtocol.cpp` | a line buffer | one handler per verb | all of the above | runs inside a macro too | writes are refused while a macro's deadline is not 0 |
| Lights `LedController.cpp` | host mode and its watchdog, cues, copy of the brightness | `set*`, `note*`, `update` | serial, engine | stale clock, copies of the profile | the pixel follows the profile; host mode ends when the host is silent, and only then |
| Recording session `session.py`, `app.py` | key and gesture being recorded, watchdog event, request queue | `handle_request`, `abort`, `_start`, `_finish`, `_watch` | recorder, device client, profile | four kinds of thread, no common lock | capture is on exactly while a key is recorded, and always ends |
| Recorder `recorder/recorder.py`, `evdev_source.py` | backend, events, stop time | `start`, `stop`, `_record` | session, input devices | started on one thread, stopped on any | nothing reads the input devices once stopped |
| Device client `device/client.py` | port, reader thread, reply queue, locks | `connect`, `request`, `read_profile`, `write_profile`, `_drop_link` | pad, session, window | answers carry no request number; links come and go under a call | an answer belongs to its request; no deadlock |
| Profile model `config/model.py`, allocation in `app.py` | actions, macro slots | `assign_recording`, `set_repeat`, `reclaim_storage` | session and window, two threads | slots are shared and reclaimed | no key loses its macro to another |
| Profile files `config/store.py` | profile, ten backups, quarantine | load, save, rotate | the file system | a crash between two renames | one good copy at every moment |
| Editor and sync `ui/app.py` | busy flags, `_profiles_diverged` | connect, apply, sync, reset | client, session, files | background work against clicks | neither side is overwritten unasked |
| Compiling recordings `recorder/normalize.py`, `config/binary.py` | none | pure functions | | limits of width and size | the pad replays what was recorded |
| Updates `update/*.py`, `ui/app.py` | files staged beside the program; what was checked, offered, is on screen | check, download, `apply`, `_firmware_update_found`, `_update_firmware` | the network, the disk, the window, flashing | answers that arrive while something else is under way; failure or exit at any file operation | nothing unchecked is run or written; the program survives; a pad that is behind gets its update |
| Flashing `flash/*.py` | none of its own | find, touch, write, verify | the pad's bootloader, over a port that comes and goes | the cable, and the bootloader's own time-out | success means written |
| CLI, dialogs, translations, logging | little | sequential glue and tables | | | |

How they meet. On the pad there is one thread: `loop()` scans the keys, runs the
engine, reads serial, renders. A macro is a call inside the engine's turn that
keeps calling the scanner and, through `macroYield`, serial and the lights. On
the host the serial reader thread delivers events; a record request is queued for
the record worker, which starts and finishes recordings, writes the profile file
and pushes it to the pad; each recording has a watchdog thread; the window aborts,
edits, syncs and closes. A failed write reports the lost link on whichever thread
was writing, so an abort can run on top of anything.

## 2. What is modelled

### `ButtonInput`, `KeyEngine`: the scanner and the engine

`ButtonInput` is the scanner of `ButtonInput.cpp`: a record of `KeyState` per key.
`ScanKey(k)` is one key's turn in `update()`, with the pin reading either level:
`PressEdge` and `ReleaseEdge` are the debounced edges, `Dwell` everything else
(a level that changes, the hold timer, the record request, the end of the
double-tap window). `Suppressed` is `suppressUntilRelease`. Time stamps are ages,
cut off at the largest threshold they are compared with; ages the code will reset
before it next reads them are kept at their initial value, which is the only
difference in state. `millis()` therefore does not wrap in the model.

`KeyEngine` EXTENDS it with `loop()`: `pc` walks through wait, scan, engine,
drain and serial; `StartMacro` enters a macro, which then alternates between
`record` (the body of `runMacro`, where serial is pumped) and a scan followed by
`Pump` (the rest of `macroPump`). What the macro types is left out: it is some
number of pumps, a record and a pause being the same here. `ProfileWrite` is a
commit or a reset, in whichever serial turn `MayWrite` allows: serial goes by
`macroDeadline_ != 0` (`KeyEngine.h:56`), and `MayReadZero` lets the deadline of a running
macro read 0 wherever it may have been set or moved on, so the profile may also change
under a macro. Two variables are history: `presses`, the presses of a key not yet answered by a gesture nor claimed
by the engine, and `fresh`, that a key was pressed since the macro was armed.
They are read by properties alone.

### `ProfileStore`, `AtomicProfile`: the stored profile

`ProfileStore` takes every write apart. A job (`boot`, `save`, `commit`, `reset`)
goes through `zero`, `body`, `magic`, `bright`, `crcLo`, `crcHi`, `flush` and, on
flash, `rename`, one write a step, and `PowerLoss` can follow each of them. With
`emulated` (RP2040) the writes land in RAM and `mkStoreCommit` writes a temporary
file and renames it; mounting, reading, writing and renaming may fail. Without it
(AVR) each write is EEPROM at once. A body is a few chunks and its CRC is taken to
be the body itself, so the model assumes that two bodies do not collide; both CRC
bytes are written apart. `faulty` and `acked` are history.

`AtomicProfile` states what the pad promises across power loss, without writes:
the profile a boot would load is replaced in one step by the one being installed;
only on AVR may a job that is cut short leave the factory profile, or bring back
the last whole one. `ProfileStore` is shown to implement it under

    atomic <- emulated, stored <- BootBody, last <- BootImage.crcHi, job <- job

### `RecordingSession`: threads that start and stop a recording

The record worker, a watchdog per recording, the serial reader and the window each
have a `pc`. A step is the code between two points where another thread's step can
make a difference: reading the key and clearing it (`Finish`, `Drop`), setting
`recording` (`Seal`), reading `_evdev` and joining its thread (`Join`), forgetting
it (`Forget`), opening (`Open`, `Launch`, `LaunchFails`), taking the key
(`Claim`), looking at the link again (`Recheck`), lighting the pixel (`Show`),
and so on. `abort` is the same steps on every thread: `after` and `back` say where
to go on. `Send` is any call to the pad: when the write fails it drops the link
and runs the disconnect handler on this very thread, as `DeviceClient.send` does.
Of the two backends evdev is modelled, which is preferred whenever it is usable.
An abort that is called reads the key in the step of the call; what its caller
looked at before (`session.recording`) is the same variable.

`crossed` is history: a stop overlapped the opening of another recording. After
that the code promises nothing (see the known disagreements), and the properties say so.

### `DeviceClient`: the host's end of the link

One `serial` and one `hello` shared by callers, a connector (`connect()`), a window
(`disconnect()`) and the reader of each port opened, which is named after its port
and may outlive it. `Send` takes the re-entrant request lock, empties the queue of
answers and writes a line; `GetAnswer` is a turn of the wait, `GetProfileLine` a turn
of the wait that reads a profile, `TimeOut` its deadline. `Detach`, then `Report` or
`Wake`, are `_drop_link`: under the state lock, and after it. `Report` runs
`on_disconnect` on whichever thread noticed, and `nested` marks the request that the
app makes from there, with the lock of the failed one still held. `NextCandidate`,
`Open`, `Settle` and `Identified` are `connect()` between the points where a
`disconnect()` can come in. `Dispatch` includes what the app does with a record
request: nothing here if there is a session (its worker takes it), two requests on the
reader's own thread if there is none.

The pad takes lines in order and answers each; it may refuse all but IDENT while a
macro runs, its stage may time out, and it forgets what was under way when it is
unplugged. Its stored profile and its stage are those of `ProfileStore` without the
bytes: a profile is the name of the caller that wrote it. What is local to a transfer
(`blob`, `want`) is one variable, because only the owner of the profile lock has one.
`late`, `turn`, `kept`, `told`, `sentOn` and `crossed` are history; `turn`, the transfer of the
last line the pad took, goes with the cable. `crossed` says of the write under way that one of
its lines went out while a line or an answer was still on its way that an earlier
call had given up on (`UnderWay`): after a time-out, or after a call that was woken by a lost link.

### `MacroReplay`: what a macro does once it runs

`KeyEngine` leaves out what a macro plays, `MacroReplay` leaves out which key stops it.
`Start`, `BeginPass`, `NextRecord` and `Release` are the loops of `runMacro`; `Text`,
`Type`, `Typed` those of `runText`; `Moves`, `EachMove`, `Step`, `Moved` those of
`runMoves` and `emitMove`; `Waiting` is `macroWait` and `pumpUntil`, a pump a tick. A
tick is ten milliseconds. `millis()` wraps at `WRAP`, and comparisons are made the way
the code makes them, by the sign of a difference. A report may take time (`Work`), which
is what the budget `MAX_RUN` is for. A record is a type and two values: numbers, or the
set of keys, modifiers and buttons it presses or lets go of. `Dispatch` takes a tap as
`dispatchKey` does, which ends with its key and modifiers up, whoever pressed them
(`KeyEngine.cpp:55`); `Type` a character likewise, and a click releases the buttons. The
records that hold the characters of a text are among them, so that an index that goes
wrong plays characters as actions. `deadline` is the flag that a macro runs as well,
and `MayWrite` is what serial makes of it; `Pump` lets the profile be rewritten where it
allows. `elapsed`, `work`, `zeroed`, `cut`, `rewritten`, `gone` and `late` are history. What the properties compare with (`Played`, `Authored`, `HeldBefore`) reads
the slot as a whole, without playing it: `Following` is where the record after one begins,
and `Beginnings` the positions that are reached that way.

### `MacroFormat`, `Normalizer`, `Capture`: from the hands to the stored macro

`MacroFormat` is the macro's two forms and the layout of the pad's macro region
(`config/binary.py`, parts of `config/model.py`), packing and reading back. `Normalizer`
EXTENDS it with `recorder/normalize.py`: which press and release are a click and which a
drag, one event at a time over held modifiers, pending text and the clock, passwords left
out, long values split, the refusal of what cannot be sent. Both are operators; the loops
of the code are folds. `Capture` EXTENDS them with state: what is done with keyboard and
mouse becomes events on either backend (evdev reads two devices, late by up to `Late`;
pynput sums motion), a slice of motion is flushed when it is due, clicks into the editor
are dropped, `Stop` seals the events, normalises, compiles and lays the macro out
behind the one another key already has. `done` is the history of what the hands did, and
the properties read it without the code's help. `Undisturbed` marks the recordings in which no
filter dropped anything by design: on pynput, the pad's own output is blanked for a
moment, and a key or button let go of within it is lost (`recorder.py:412`).

### `ConfigStore`: the profile file and its backups

`_write_profile` as the file operations it makes: the temporary file, the rotation one
rename at a time, the copy of the stored file and its rename, the rename of the new one.
Two threads of an app take the lock in turn; a second copy of the app knows
nothing of that lock, and shares every file but the temporary ones, which carry its
process id. An app may die between any two operations, an operation may fail, loading
may find an unreadable file, which is renamed aside, or a file of the old app. A
content is the number of the save that wrote it.

### `MacroSlots`, `ProfileSync`: one profile in three places

`MacroSlots` is the profile as bindings that point at macro slots, and what moves macros
between slots: `set_repeat`, `assign_recording`, `reclaim_storage`, `_find_macro_slot`.
`ProfileSync` EXTENDS it with the window, its worker for device work and the worker that
stores recordings: `mem` is the editor, `disk` the file, `pad` the pad. Handlers of the
window are atomic; `jobs` and `signals` are the queues between the threads. Connecting,
a transfer and a save are single steps, which `DeviceClient` and `ConfigStore` open.
`Record`, `Finish` and `Abort` are the recording session as this module needs it, which
`RecordingSession` opens. The steps of the record worker (`Find`, `Place`, `Bind`,
`KeepSave`, `KeepPush`) are apart, because the window edits the same profile meanwhile.
`strange` is history: the pad holds a profile this computer has never read or written.
`Open` goes on to the compare; `OpenUncompared` is the connect whose settings cannot be saved
(`ui/app.py:1604`): the handler at `ui/app.py:1651` leaves the link up, and nothing is
compared. `uncompared` remembers that of the link, and is history.

### `SelfUpdate`, `Flashing`, `Updates`: staying current

Three layers, composed by EXTENDS. `SelfUpdate` is a release's file on its way to disk
and the swap of the running program, an operation a step. `Flashing` adds which image a
pad should get and how it is written, with the board either running, waiting in its
bootloader, or away. `Updates` adds the window and the queues: connecting, checking, offering,
asking, the retry timer, updating, the program's end at any step and its next start. `job`
is what the worker is doing. One pad is on the cable; versions are numbers, and there are two
builds of the program, of which the newer carries the newer image. Clicks and the
poll timer come after the signals posted before them, as the event loop does it.
`busy` is what else may occupy the window or its worker: a recording (or the prompt for
one), a sync or a reset. `OpenUnlooked` is the connect that ends between the link and the
check, and `unlooked` its history. "failed" is a job that ends with an exception, an expected one
of the flasher or one that nobody catches, such as an answer that breaks off in its body
(`releases.py:170`, `releases.py:190`, `releases.py:222`): nothing follows it.

## 3. The runs

| Run | Bounds | Distinct states | Shows |
|---|---|---|---|
| `KeyEngine` | 2 keys, thresholds of 1 to 3 ticks, queue of 2, two profiles | 6.0 million | the scanner and the engine |
| `MacroReplay` | 6 slots of 3 to 8 records, 1 or 2 passes, the clock from 0 and from two places before its wrap | 2.1 million | what a macro plays, how long, and how it ends |
| `ProfileStore` | 2 chunks, 2 values each, 2 brightnesses, both stores | 3.4 million | the store, and that it implements `AtomicProfile` |
| `RecordingSession` | 2 recordings, 3 slots on 2 keys, 1 queued request | 1.7 million | safety of the session |
| `RecordingSessionEnds` | 1 recording, 2 slots | 173 thousand | capture ends (liveness) |
| `Capture` | 4 things done, two backends, both timings, small bytes | 166 thousand | a recording becomes the macro that was meant |
| `DeviceClient` | 2 callers, 2 calls of any kind, 1 chunk, 1 link, 1 record request, no session | 1.8 million | transfers do not cross; answers belong to requests |
| `DeviceClientLink` | 1 caller, 1 request, 2 links, 1 `disconnect()`, the cable goes once, a session | 408 thousand | safety and liveness of the link |
| `ConfigStore` | 3 backups, 2 apps of 2 threads, 4 saves, 1 crash, 1 failure | 1.2 million | the file and its backups |
| `ProfileSync` | 2 keys, 2 slots, 3 records, 2 changes, 1 operation, 1 trouble | 2.3 million | editor, file and pad |
| `ProfileSyncSilent` | the same | | `NeverSilently` fails |
| `Updates` | 3 boards, 1 trouble, 1 use | 636 thousand | checking, swapping, flashing; safety and liveness |

Why the bounds are enough.

* `KeyEngine`: two keys are one that fires the macro and one that stops it, or is
  held across the arming; the gestures of a key interact with others only through
  the queue and "held alone". The order of the thresholds is the code's
  (debounce < double tap, hold < record), with hold and double tap equal so that
  both orders of their events occur. The queue overflows. `STEPS` is one tick
  between two scans; longer gaps are covered by the proof, whose `STEPS` is any set.
* `MacroReplay`: the slots are a drag with pauses, a text among holds, texts cut off by
  the end of the slot, moves without a pause, half a hold, a click in a drag, and taps and
  characters that strike a held key or modifier; each construct meets each
  way of being stopped. The clock starts where nothing wraps, where the deadline of a pass
  is 0 from the beginning, and where a pause moves it there. `WRAP` is longer than any pass, as 2^32 ms is, and half of it
  than any wait. `MaxWork` reaches the budget `MAX_RUN`.
* `ProfileStore`: two chunks are the least with a mixture; `RECEIVED_MOD` is small
  so that the received count wraps. `MCDefaults` mixes the values so that clearing
  and setting differ.
* `RecordingSession`: two recordings are what a quick finish and restart needs;
  three slots are two keys and a key with both gestures. `AtMostTwoEnd` bounds the
  threads ending a recording at one time, `SecondIntoOne` fixes the slot of the second
  recording (the first takes each of the three, so equal, other gesture and other key all
  occur) and `NotCrossed` leaves out the states
  behind a stop that overlapped a start, where no property says anything. `tape <
  MAX_STARTS` stops starts past the bound, so the worker can then wait for ever in
  `open`: such a state has no recording open. `Overruns`, the ten minutes,
  happens while the window is idle. `CHECK_DEADLOCK FALSE`, because a closed
  application stops. In the liveness run the constraints also cut behaviours off:
  what it shows is for the behaviours within them.
* `Capture`: four things are a press, a move and a release with something between, a
  command, its Enter and an answer, or a hold with two repeats. The bytes are small (two
  characters of text, two units of pause) so that splitting happens; the gaps are no multiples of the
  quantum, so that rounding does. `CHECK_DEADLOCK FALSE`: a recording ends.
* `DeviceClient`: two callers are what crossing transfers and answers need, a chunk
  is the least a transfer has between its begin and its commit. The two runs divide
  the work: one has the calls over a link that stays, the other the link, with a
  request under way on it. Two links are the least for a reader or a failed write of
  the old one to meet the new. `LossIsReported` compares sets of ports; as the cable
  goes once, only one established link is ever among them. Time-outs are bounded by
  `MAX_LATE` for callers, which never binds within these numbers of calls.
  `CHECK_DEADLOCK FALSE`, because every bound may be used up.
* `ConfigStore`: one save more than there are backups, so that the oldest falls out; a
  crash and a failure, so that a damaged rotation is followed by good ones.
* `ProfileSync`: two keys are one that is recorded into and one that is edited; two slots
  and three records let the table be full. Two changes and an operation are an edit
  against a recording against a sync, a reset or a connection.
* `Updates`: the boards are one with a foreign sketch, which is offered an installation,
  and one behind of either kind. One trouble and one use meet every step of one update, and the
  uses are anything else a person does meanwhile. In these last three runs `CHECK_DEADLOCK
  FALSE`: bounds may be used up.

### Properties

* `GesturesAnswerPresses` (action property): a tap answers one press, a double two,
  a hold the one under way, and a claimed press none. It fails as soon as one of the
  claims, windows or timers is forgotten at an edge.
* `StopNeedsFreshPress`, `CachedMaskIsCurrent`,
  `DeferredTapSettlesInTime`: what the re-entrant pump must not break.
* `MacroReadsStableProfile`: the profile is not written under a macro, but in a pass whose
  beginning, budget and part of its authored ticks add up to the wrap to the tick
  (`ZeroAhead`, which knows nothing of the deadline). It takes a deadline that
  lands on one millisecond in 49 days, and then lasts for the rest of the pass; see the disagreements.
* `HeldAsRecorded`, `PlaysAsRecorded`, `StopEndsOutput`, `BudgetForWork`: a macro is
  compared with its slot read as a whole. Stopped in the middle of a move, the
  rest of its reports go out at once (`emitMove` does not look at `macroAborted_`), so the
  pointer ends where it would have; `StopEndsOutput` allows that and nothing more.
  `BudgetForWork` sets apart a deadline that lands on 0, see the disagreements.
* `IdleValidates`, `AckedSurvives`, `ReplacesWhole`: the stored
  profile through every loss of power; the acknowledged one as long as the flash works.
* `CaptureMatchesSession`, `OneWatchdog`: the session between two steps of any
  thread; what is stored goes where the recording began.
  `LostLinkEndsCapture`, `OverdueEndsCapture`: that it ends.
* `StrokesAsTyped`, `HoldsAsHeld`, `PointerInPlace`: strokes in order with their
  modifiers, holds as long as they were to one quantum, clicks where the hand made them.
  `SecretsLeftOut`: a guess by the code, so the property says exactly which shape is
  left out; with real timing there is no text to judge. `StoredAsCompiled`: what the
  pad's region holds reads back as the macro, behind an untouched neighbour.
* `TransfersInTurn`, `ConfirmedUnlessCrossed`: what the two locks of the client are for.
  `TransfersInTurn` is about the lines that reach the pad. What the pad stages may still be of
  two transfers, when a begin it refused is taken for granted because of a late answer; then the
  checksum at the commit refuses it. `ConfirmedUnlessCrossed` holds a write that reports success
  to the pad's store through time-outs of others, refusals, lost links and
  reconnections, as long as none of the write's own lines met what an earlier call left behind.
* `DisconnectSticks`, `OnlyBrokenLinksDropped`, `WaiterIsWoken`: who may end a link, and
  what its end does to the others. `RequestsEnd` and `LossIsReported`: that a request
  made from inside a failed one does not wait for itself, and that a loss is noticed
  although nobody uses the link.
* `StoredIsWhole`: for any number of apps. `NothingLost`: a stored profile is kept for as
  many saves as there are backups, and one that could not be read for good, for one app
  at a time whose renames work (`overlapped`, `unkept`).
* `MatchShown`, `FileKeepsUp`: once all is quiet, what the window shows is so.
  `KeysKeepTheirs`: no key loses its macro to another. `LocksAreOwned`: the editor is
  never locked by nobody. `AskedFirst`: an edit does not replace a profile that this
  computer never saw, on a link that got as far as the compare (`uncompared`). They set a recording stored amid window work apart (`crossed`)
  where two threads edit one profile without a lock.
* `NeverUnchecked`, `BinaryInPlace`, `SuccessMeansWritten`, `UpdateGetsThrough`,
  `LinkReturns`: files, program, pad and link through a failure or an exit at any step.
  `stranded` is history: the swap failed and so did taking it back. `UpdateGetsThrough` lets off
  a link whose connect ended before the check (`unlooked`) and an update that was tried in vain
  (`missed`). `LinkReturns`: after a write, or when there turned out to be nothing to
  write, through a pulled cable, the link is back or on its way; it lets off a job that
  ended with an exception, and a window that is closed.

### Finding

`NeverSilently` (`ProfileSyncSilent`): a recording that is finished while the two profiles
are known to differ pushes the whole profile (`session.py:326`), though the window says
"Never silent-overwrite" (`ui/app.py:1605`) and "Local edits will not overwrite the
keypad until Sync… is resolved." (`ui/app.py:2177`).

### Known disagreements

Places where a comment or a document and the code part, met while modelling. Those named
by a definition can be seen by giving the definition to TLC as an invariant of the run
in brackets; the others are read off the code, and the modules allow what the code does.

* `FreshPressStops` (`KeyEngine`): a key held while the macro is armed stays in
  `macroStartMask_`; released and pressed again it does not stop the macro
  (`KeyEngine.cpp:164` says any key pressed since then does).
* `SwallowsOnlyWhileDown` (`KeyEngine`): a record request raised inside a macro is served
  after it; the key may be up by then, and its next press is swallowed
  (`KeyEngine.cpp:444`, "The key is still down.").
* `BudgetForWork` without `zeroed` (`MacroReplay`): a deadline that lands on 0 as
  `millis()` wraps is taken for none: what follows no longer extends it, and authored
  pauses then spend the budget (`KeyEngine.cpp:134`).
* `MacroReadsStableProfile` without its excuse (`MacroReplay`, `rewritten`): such a deadline is also what says that no macro is
  running, and a commit or a reset is then accepted under one, though `macroRunning()` is "True
  while a macro is replaying, which is to say while `runMacro` is on the stack"
  (`KeyEngine.h:52`) and "is what keeps a profile commit from landing while a macro is reading
  EEPROM" (`KeyEngine.h:28`).
* `AskedFirst` without `uncompared` (`ProfileSync`): when the settings cannot be saved after the
  link is up (`ui/app.py:1604`), the job ends before the compare, `_profiles_diverged` stays as
  it was, and the next edit overwrites a profile on the pad that nobody has looked at
  ("Never silent-overwrite", `ui/app.py:1605`, one line further down).
* `UpdateGetsThrough` without `unlooked` (`Updates`): on that link nobody looks for newer
  firmware either (`ui/app.py:1633` is skipped), until the pad is connected again.
* `LinkReturns` without "failed" (`Updates`): an answer that breaks off in its body raises no
  `UpdateError` (`releases.py:170`, `releases.py:190`), so it goes through `firmware.update` and the
  worker at `ui/app.py:2042`; no `firmwareUpdateFinished` is emitted and nothing reconnects, where
  "The link still has to come back either way" (`ui/app.py:2062`). A write that fails with a
  `FlashError` leaves the pad disconnected too, which is told in a box.
* `AckedIsStored` (`ProfileStore`): a commit is answered OK when the flash could not be
  written (`docs/PROTOCOL.md:158`).
* `NoOrphanCapture` (`RecordingSession`, without its constraints): the stop of one
  recording, overlapping the start of the next, forgets a backend whose thread keeps
  reading the input devices (`app.py:190`, "Stops global capture immediately ...").
* `ConfirmedIsStored` (`DeviceClient`, with time-outs, or with a second link): after a time-out,
  or a call woken by a lost link, every answer may be one late, and a write reports
  success before the pad has taken or refused the
  commit (`docs/PROTOCOL.md:158`; the `id=` of `docs/PROTOCOL.md:32` is not used).
* `ReaderNeverWaitsForItself` (`DeviceClient`): without a session, a record request is
  answered from the reader thread, which waits for an OK only it could read; the second
  light is never sent (`app.py:171`, against the comment at `app.py:176`).
* The import of the old app's file is repeated if the app ends before the first save
  (`store.py:259`, "so the conversion happens exactly once").
* After a swap that failed and could not be taken back, a second try unlinks the retired
  program first (`selfupdate.py:173`, "so a failure here leaves a working app"). An exit
  between the two renames leaves no program at its path, only the retired one beside it.
* `flash()` does not look whether the pad came back (`uf2.py:169`, "let the caller decide
  by looking for the pad coming back"), and a failed `fsync` after an unplug counts as written.

Not promised by any document, but worth knowing: an unattended update that fails leaves
the app disconnected and is not tried again in the session; the answers to an offer are
not checked again against what happened while the question was open, and a second question
overwrites `_open_question`; two copies of the app share `.part` and staged files; closing
in mid-write leaves the pad without a sketch until it is flashed again; a write job that
waits in the queue carries the profile as it was when it was queued.

## 4. Fairness

`KeyEngine`, `MacroReplay`, `ProfileStore`, `Capture`, `ConfigStore` and `ProfileSync`
have none: their properties are safety properties. In
`RecordingSession`, the worker, each watchdog, an abort on the reader and what the
window has begun are weakly fair: the operating system schedules threads, an
`Event.wait` with a time-out returns, joins are bounded by the read time-out, and a
request to the pad times out. In `DeviceClient` every thread that is in a call is
weakly fair, for the same reasons; the request lock is not assumed to be granted in
turn, so `RequestsEnd` says that the lock is freed, not that a given thread gets it. In
`Updates` the worker takes jobs and works them, signals are delivered, the retry timer
fires, the poll timer reconnects a pad that went away by itself (`_maybe_reconnect`, whose
back-off is capped), whatever else keeps the window busy ends, and a question on screen is answered,
one way or the other: an unanswered box would hold an update for ever.
Nothing is assumed of the person otherwise, the cable, the pad
or the network, nor that a connect succeeds; those actions are unfair.

## 5. Proofs

tlapm checks eight modules down to the last leaf. Each EXTENDS the module it is about, and
what it states holds for every value of the constants that satisfies the named assumptions:
any number of keys, callers, links, apps, backups, boards, of recordings, edits, failures
and time-outs. Each proof has an inductive invariant, `IInv`, with the initial states, one
lemma for each action (or for each part of the invariant and each action that disturbs it),
and the properties as consequences; three modules go on from it to a stronger one
(`PlayInv`, `FullInv`, `SoundInv`) for their last properties. TLC finds each of them to hold
under the bounds of the module's runs as well.

| Module | Proved (properties of the runs in the first place) | Assumptions |
|---|---|---|
| `KeyEngineProofs` | `GesturesAnswerPresses`, `StopNeedsFreshPress`, `DeferredTapSettlesInTime`, `CachedMaskIsCurrent`; `TypeOK` | `ThresholdAssumption`, `EngineAssumption` |
| `MacroReplayProofs` | `HeldAsRecorded`, `StopEndsOutput`, `PlaysAsRecorded`, `BudgetForWork`, `MacroReadsStableProfile` | `TimeAssumption`, `SlotAssumption`, `WrapAssumption` |
| `ProfileStoreProofs` | `IdleValidates`, `AckedSurvives`, the refinement `ReplacesWhole`; `PixelShowsProfile`, `TypeOK` | `StoreAssumption` |
| `RecordingSessionProofs` | `CaptureMatchesSession`, `OneWatchdog`; `StoredWhereStarted`, `TypeOK` | `SessionAssumption` |
| `DeviceClientProofs` | `TransfersInTurn`, `DisconnectSticks`, `WaiterIsWoken`, `OnlyBrokenLinksDropped`, `ConfirmedUnlessCrossed`; `TypeOK` | `ClientAssumption` |
| `ConfigStoreProofs` | `StoredIsWhole`, `NothingLost`; `OneSaves`, `TypeOK` | `StoreAssumption` |
| `ProfileSyncProofs` | `LocksAreOwned`, `FileKeepsUp`, `MatchShown`, `AskedFirst`, `KeysKeepTheirs` | `SlotAssumption` (of `MacroSlots`) |
| `UpdatesProofs` | `NeverUnchecked`, `BinaryInPlace`, `SuccessMeansWritten`; `TypeOK` | `ImageAssumption`, `BoardAssumption` |

The assumptions are sizes and orders of constants. `WrapAssumption` is the one about time: each wait,
the budget of a pass (`MK_MACRO_MAX_RUN_MS`, ten seconds of work) with what rounding may take off it, and the time sending takes
in a pass are less than half of what `millis()` counts before it wraps, which is 49 days.

What each invariant adds to the properties, and why they need it:

* `KeyEngineProofs`. `PressInv`: the phase and flags of a key fix how many of its presses
  are owed a gesture (`KeyOwes`), whatever the window and the claims have done;
  `WindowInv`: a key past its double-tap window can be pending only while the
  scan has yet to reach it; `StopInv`: until a key is pressed after the
  arming, no key is down that is not in the start mask. `CachedMask`
  is inductive by itself, though the profile may change under a macro.
* `MacroReplayProofs`. `PlaceInv`: the index is at the beginning of a record, or at the
  end, and never among the characters of a text; `HeldInv`: the keys down are those the records
  before the index leave down; `StopInv`: whoever is about to send has just looked at the
  abort flag, but for the rest of a move. That walking the records gets from beginning
  to beginning is an induction over data; it is done by the least counterexample
  (`LeastExists`), so that no induction scheme has to be instantiated. `PlayInv` is about one
  number, `Granted`, the ticks that the records so far were given (a sum, had as the size
  of a set, `Ticks`): the time elapsed is at most that and the work done, and less than it by
  no more than the divisions inside a run of moves round off; a wait ends, and a report of a move is
  due, where that puts it on a clock modulo `WRAP`; and the deadline, unless `zeroed`, is `MAX_RUN` after it. `ZeroInv`, for `MacroReadsStableProfile`:
  where the deadline reads 0 inside a pass it has landed there, at a moment that the beginning of the pass
  and what `Granted` had come to by then put on the wrap, and `Granted` never exceeds what is authored.
* `ProfileStoreProofs`. `JobInv`: what the job has written so far,
  piece by piece, and what it still has to write; `DiskInv`: on a mounted flash the
  image in RAM is the file's unless it is dirty or blank, and the file about to be
  renamed is that image. With `AckInv` and `PixelInv` it gives the properties and `Refines`: the
  initial states of the store are initial states of `AtomicProfile`, and each step is one of its
  steps or a stutter under the mapping.
* `RecordingSessionProofs`. `FlowInv`: where each thread can be and go on to; `SlotInv`: what
  the worker holds is what the tape is for; `DogInv`: a watchdog is started once, when the worker
  is done starting, and only that of `watchStop` has not been told to stop; `CaptureInv`: nobody
  stops capture while it is being opened, it is on until a thread takes the key,
  and from then on some thread is on its way to turning off what still runs.
* `DeviceClientProofs`. `ThreadInv` and `DropInv`: a thread that names the link it lost saw it
  break; `LinkInv`: an unestablished port belongs to `connect()`, also past a `disconnect()`;
  `TodoInv`: the lines of a transfer belong to the holder of the profile lock;
  `TurnInv`: for each data or commit line on the cable, the line of a transfer
  before it, or the last one the pad took, is of the same caller. For `ConfirmedUnlessCrossed`,
  `HolderInv`: only a caller in a call holds the profile lock, and what it sends ends in a commit
  unless it reads; `HonestInv`: while a write that is not `crossed` waits, nothing but its own line is on its
  way to the pad, the stage is its own or empty from its begin on, and an OK on its way
  to its commit was given after the pad stored its profile.
* `ConfigStoreProofs`. `TempsWhole`: a temporary file that is to be renamed is whole; `BackedUp`,
  `RoomMade`, `InPlace`: where the backups stand in mid-rotation, a replaced content being no further
  down than saves have begun since; `UnreadAside`: the unreadable file is out of the way
  before an app is up.
* `ProfileSyncProofs`. `OrderInv`: edits wait in front of what takes a lock; `OwnerInv`, `FlagInv`:
  each lock has one job or report that will take it off, and which locks and dialogs exclude each
  other; `StrangeInv`: while a pad on a link that is to be compared holds a profile never seen here, no write waits;
  `KeeperInv`: a recording nothing came in between of has the pad to itself; `FileInv`; and `MatchInv`:
  the last edit that waits is the editor's profile, or nothing waits and the pad has it,
  unless a slider or a recording is about to see to it. For `KeysKeepTheirs`, `SoundInv`: every profile,
  in the editor, on the pad, in a queued write or in a report, is sound (a key that plays a macro
  points at one, no two keys at the same, none is left over, and they fit the pad's table),
  and the slot the record worker has found stays free until it is bound. It rests on lemmas about
  `MacroSlots`: a slot that is found is free, placing a macro leaves
  the others, reclaiming takes what nothing plays.
* `UpdatesProofs`. `JobInv`: a job is at the steps of its kind, with an image decided before
  anything is written; `WriteInv`: the board waits while it is written; `SwapInv`: the
  program is at its path or beside it, in a swap or in one that the process's end cut short,
  and is the new build once that was announced.

The properties carry their histories (`crossed`, `overlapped`, `unkept`, `stranded`, `lifted`,
`behind`, `uncompared`, `zeroed`) from the modules: each marks what the code itself gives up on, and the runs visit
states with and without it. No theorem has a hypothesis besides the specification.

What the proofs changed in the modules: in `ProfileSync` the attempt at `MatchShown` showed that
`behind` was cleared too early, by an older queued edit that happened to be the editor's
profile while a later one that differs still waited (the run's two changes are too few to meet it;
TLC finds it with three). `TransfersInTurn` was about what the pad does, and false of a cable
pulled in mid-transfer; it is now an invariant about the lines that reach the pad since it was
plugged in. `CaptureMatchesSession` now says which backend runs, not merely that one does.
`MacroReplay` reads a slot without recursion (`Following`, `Beginnings`), and counts authored time, as
`MacroSlots` counts records, by the size of a set. The attempt at `PlaysAsRecorded` showed `Authored` wrong
for a move before an empty pause, which takes a slice of its own. In `ProfileSync`, what a key is
`meant` to do is now what was asked for, not what `Edit` made of it. And the attempt at
`ConfirmedUnlessLate`, which excused a write after any time-out since the link was made,
showed it false outside the run's bounds, with a second link, a `disconnect()` or a cable
pulled: a call that is woken by the loss leaves its answer outstanding without a time-out.
`ConfirmedUnlessCrossed` asks instead what each line of the write met on its way.

Only model-checked:

* Liveness (`LostLinkEndsCapture`, `OverdueEndsCapture`, `RequestsEnd`, `LossIsReported`,
  `UpdateGetsThrough`, `LinkReturns`): fairness and ENABLED are beyond the prover.
* `StrokesAsTyped`, `SecretsLeftOut`, `HoldsAsHeld`, `PointerInPlace`, `StoredAsCompiled`
  of `Capture`: what the folds of `Normalizer` and `MacroFormat` compute for every input is induction
  over data.

Every other property of the runs is proved.

## 6. Not modelled

* The lights: host mode and its watchdog, colours and effects. `loop()` reads `millis()`
  once, and a macro inside the engine's turn lets `PING` set `lastHostAt_` past it
  (`LedController.cpp:236`); no other part reads the result.
* Sticky modifiers: a one-shot modifier armed by a key is added to the next key that is sent, so also
  to the first one of a macro, and a press then holds it until the pass is over; `HeldAsRecorded` is
  about macros started without one. The six keys that a report of the HID library holds: a
  recording of more keys at once is not told apart. The mouse's homing move and media keys,
  which hold nothing. What a macro plays after the profile was rewritten under it.
  `millis()` does not wrap in `KeyEngine`, it does in `MacroReplay`.
* Line assembly, base64, the header of the binary profile, key codes and their names: formats.
* Discovery of ports by USB ids; boards by their table: the pad is the one on the cable.
* Dialogs, widgets, translations, the command line, logging, capture set-up: no state that another
  part or thread reads. What a dialog hands back is `Edited` in `ProfileSync`.
* The settings file and exported profiles, which no other operation reads while the app runs.
* The network beyond "a file arrives whole, wrong, in part or not".

`PROJECT.json` gives a reason for each component, and for each hazard no property
covers why the code does not allow one.

## 7. Plan

Done: `ButtonInput` and `KeyEngine`, `ProfileStore` against `AtomicProfile`,
`RecordingSession`, `DeviceClient`, `Capture` with `Normalizer` and `MacroFormat`,
`ConfigStore`, `ProfileSync` with `MacroSlots`, `Updates` with `Flashing` and
`SelfUpdate`, `MacroReplay`; and the proofs of section 5. Worth doing next:

1. Proofs about `Capture` for steps of the folds (`Normalizer` one event at a time, packing one
   action at a time): what one step preserves can be proved, what the fold makes of all
   steps cannot, without an induction theorem the provers can instantiate.
2. A model of the lights (`LedController.cpp`): host mode, its watchdog and the cues.
3. That `ProfileStore`'s commit and `ConfigStore`'s save are what `DeviceClient` and `ProfileSync`
   take for single steps, as refinements between those modules.
