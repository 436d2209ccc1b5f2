---------------------------- MODULE ProfileStore ----------------------------
(***************************************************************************)
(* The profile of the pad and the store it lives in (firmware/src/         *)
(* Profile.cpp, Storage.cpp, with the verbs of SerialProtocol.cpp that     *)
(* reach them).  One thread executes one verb at a time; the power can go  *)
(* between any two writes.  On AVR the store is EEPROM and a write lands   *)
(* by itself; on RP2040 it is an image in RAM that mkStoreCommit writes to *)
(* a file beside the profile's and renames over it.                        *)
(*                                                                         *)
(* A body is a few pieces, each a chunk of the transfer.  The CRC of a     *)
(* body is the body itself, a byte of the CRC too: two bodies are taken    *)
(* never to collide.  The first chunk also carries the header's tunables,  *)
(* of which brightness stands for all; the CRC does not cover them.        *)
(***************************************************************************)
EXTENDS Integers, FiniteSets

CONSTANTS
  PIECES,         \* chunks of a profile
  VALUES,         \* what a piece may hold
  DEFAULTS,       \* the body writeDefaults writes
  BRIGHT,         \* the brightness values
  DEFAULT_BRIGHT, \* MK_LED_DEFAULT_BRIGHTNESS
  RECEIVED_MOD,   \* where stageReceived_ wraps, in chunks
  Nothing         \* no body: a blank CRC, no job, no acknowledgement

ASSUME StoreAssumption ==
  /\ PIECES \in Nat \ {0}
  /\ 0 \in VALUES
  /\ DEFAULTS \in [1 .. PIECES -> VALUES]
  /\ DEFAULT_BRIGHT \in BRIGHT
  /\ RECEIVED_MOD \in Nat
  /\ RECEIVED_MOD > PIECES
  /\ Nothing \notin [1 .. PIECES -> VALUES]

Piece == 1 .. PIECES
Body == [Piece -> VALUES]
Zeroes == [p \in Piece |-> 0]

Image == [ magic : BOOLEAN, bright : BRIGHT, body : Body,
           crcLo : Body \cup {Nothing}, crcHi : Body \cup {Nothing} ]

\* A store that was never written, or could not be read.
Blank == [ magic |-> FALSE, bright |-> DEFAULT_BRIGHT, body |-> Zeroes,
           crcLo |-> Nothing, crcHi |-> Nothing ]

Stage == [ open : BOOLEAN, declared : Body, body : Body, bright : BRIGHT,
           received : 0 .. RECEIVED_MOD - 1 ]

NoStage == [ open |-> FALSE, declared |-> Zeroes, body |-> Zeroes,
             bright |-> DEFAULT_BRIGHT, received |-> 0 ]

VARIABLES
  emulated,  \* MK_STORAGE_FLASH_EMULATED: the board is an RP2040
  store,     \* the bytes mkStoreRead sees
  file,      \* RP2040: the profile's file
  temp,      \* RP2040: the file beside it
  mounted,   \* gMounted
  dirty,     \* gDirty
  bright,    \* Profile::brightness_
  pixel,     \* LedController::brightness_
  stage,     \* the transfer being received
  pc,        \* "off", "idle", or the next write of the job
  piece,     \* the piece of the body it is at
  job,       \* the body being installed
  verb,      \* the verb that installs it
  acked,     \* history: the body the host was last told is stored
  faulty     \* history: the flash failed since that job began

diskVars == <<store, file, temp, mounted, dirty>>
ramVars == <<bright, pixel, stage>>
jobVars == <<pc, piece, job, verb>>
vars == <<emulated, diskVars, ramVars, jobVars, acked, faulty>>

\* begin(): magic, layout fields and the CRC of the body.
Valid(image) ==
  /\ image.magic
  /\ image.crcLo = image.body
  /\ image.crcHi = image.body

Init ==
  /\ emulated \in BOOLEAN
  /\ store = Blank
  /\ file = Blank
  /\ temp = Blank
  /\ mounted = FALSE
  /\ dirty = FALSE
  /\ bright = DEFAULT_BRIGHT
  /\ pixel = DEFAULT_BRIGHT
  /\ stage = NoStage
  /\ pc = "off"
  /\ piece = 1
  /\ job = Nothing
  /\ verb = "none"
  /\ acked = Nothing
  /\ faulty = FALSE

---------------------------------------------------------------------------
(* Power *)

\* Start writing: saveHeader goes straight to the header, stageCommit to the
\* body, writeDefaults clears the body first.
Begin(v, body) ==
  /\ job' = body
  /\ verb' = v
  /\ pc' = CASE v = "save" -> "magic"
             [] v = "commit" -> "body"
             [] v \in {"boot", "reset"} -> "zero"
  /\ piece' = 1

\* mkStoreBegin and begin(). The flash may fail to mount or to be read.
PowerOn ==
  /\ pc = "off"
  /\ \E mounts \in BOOLEAN, reads \in BOOLEAN :
       LET image == IF ~emulated THEN store
                    ELSE IF mounts /\ reads THEN file ELSE Blank
       IN /\ mounted' = (emulated /\ mounts)
          /\ faulty' = (faulty \/ (emulated /\ ~(mounts /\ reads)))
          /\ store' = image
          /\ IF Valid(image)
             THEN /\ bright' = image.bright
                  /\ pixel' = image.bright
                  /\ pc' = "idle"
                  /\ UNCHANGED <<piece, job, verb>>
             ELSE /\ Begin("boot", DEFAULTS)
                  /\ UNCHANGED <<bright, pixel>>
  /\ UNCHANGED <<emulated, file, temp, dirty, stage, acked>>

\* The power goes, or the bootloader is entered: RAM is lost.
PowerLoss ==
  /\ pc # "off"
  /\ pc' = "off"
  /\ store' = IF emulated THEN Blank ELSE store
  /\ mounted' = FALSE
  /\ dirty' = FALSE
  /\ bright' = DEFAULT_BRIGHT
  /\ pixel' = DEFAULT_BRIGHT
  /\ stage' = NoStage
  /\ piece' = 1
  /\ job' = Nothing
  /\ verb' = "none"
  /\ UNCHANGED <<emulated, file, temp, acked, faulty>>

---------------------------------------------------------------------------
(* A transfer *)

Idle == pc = "idle" /\ UNCHANGED <<emulated, diskVars, acked>>

\* PROF begin: whatever was staged is dropped, even if the heap then refuses.
StageBegin ==
  /\ Idle
  /\ \E declared \in Body, allocated \in BOOLEAN :
       stage' = IF allocated
                THEN [NoStage EXCEPT !.open = TRUE, !.declared = declared]
                ELSE NoStage
  /\ UNCHANGED <<bright, pixel, jobVars, faulty>>

\* PROF data: the host may send any chunk, in any order and twice over.
StageChunk ==
  /\ Idle
  /\ stage.open
  /\ \E p \in Piece, value \in VALUES, tunable \in BRIGHT :
       stage' = [stage EXCEPT
         !.body = [stage.body EXCEPT ![p] = value],
         !.bright = IF p = 1 THEN tunable ELSE stage.bright,
         !.received = (stage.received + 1) % RECEIVED_MOD]
  /\ UNCHANGED <<bright, pixel, jobVars, faulty>>

\* Mutant: the chunks are counted and no CRC is compared.
CountsOnly == stage.open /\ stage.received >= PIECES

Complete ==
  /\ stage.open
  /\ stage.received >= PIECES
  /\ stage.body = stage.declared

\* PROF commit of a transfer that is whole. The chunks are gone with the call.
StageCommit ==
  /\ pc = "idle"
  /\ Complete
  /\ Begin("commit", stage.body)
  /\ bright' = stage.bright
  /\ acked' = Nothing
  /\ faulty' = FALSE
  /\ UNCHANGED <<emulated, diskVars, pixel, stage>>

\* PROF abort, a commit that fails, or stageTick: nothing is kept.
StageDrop ==
  /\ Idle
  /\ stage.open
  /\ stage' = NoStage
  /\ UNCHANGED <<bright, pixel, jobVars, faulty>>

---------------------------------------------------------------------------
(* The other verbs that write *)

\* LED bright: the runtime value only.
SetBrightness ==
  /\ Idle
  /\ \E b \in BRIGHT : bright' = b /\ pixel' = b
  /\ UNCHANGED <<stage, jobVars, faulty>>

\* SAVE.
Save ==
  /\ Idle
  /\ Begin("save", store.body)
  /\ UNCHANGED <<ramVars, faulty>>

\* RESET defaults=1. A transfer under way is left alone.
Reset ==
  /\ pc = "idle"
  /\ Begin("reset", DEFAULTS)
  /\ acked' = Nothing
  /\ faulty' = FALSE
  /\ UNCHANGED <<emulated, diskVars, ramVars>>

---------------------------------------------------------------------------
(* The writes of a job, one at a time *)

\* Mutant: a write that forgets to mark the image dirty.
UpdateClean(image) ==
  /\ store' = image
  /\ UNCHANGED <<emulated, file, temp, mounted, dirty, stage, job, verb, acked,
                 faulty>>

\* mkStoreUpdate: a byte that has the value already is not written.
Update(image) ==
  /\ store' = image
  /\ dirty' = (dirty \/ (emulated /\ image # store))
  /\ UNCHANGED <<emulated, file, temp, mounted, stage, job, verb, acked, faulty>>

\* Go on to the next piece, or past the last one.
NextPiece(here, after) ==
  IF piece < PIECES THEN piece' = piece + 1 /\ pc' = here
                    ELSE piece' = 1 /\ pc' = after

WriteZero ==
  /\ pc = "zero"
  /\ Update([store EXCEPT !.body[piece] = 0])
  /\ NextPiece("zero", "body")
  /\ UNCHANGED <<bright, pixel>>

WriteBody ==
  /\ pc = "body"
  /\ Update([store EXCEPT !.body[piece] = job[piece]])
  /\ NextPiece("body", "magic")
  /\ bright' = IF verb \in {"boot", "reset"} /\ piece = PIECES
               THEN DEFAULT_BRIGHT ELSE bright
  /\ UNCHANGED pixel

\* saveHeader and writeDefaults compute the CRC of what the store holds by now,
\* stageCommit writes the one that was declared.
JobCrc == IF verb = "commit" THEN stage.declared ELSE store.body

\* writeHeaderFields, the CRC last.
WriteMagic ==
  /\ pc = "magic"
  /\ Update([store EXCEPT !.magic = TRUE])
  /\ pc' = "bright"
  /\ UNCHANGED <<bright, pixel, piece>>

WriteBright ==
  /\ pc = "bright"
  /\ Update([store EXCEPT !.bright = bright])
  /\ pc' = "crcLo"
  /\ UNCHANGED <<bright, pixel, piece>>

WriteCrcLo ==
  /\ pc = "crcLo"
  /\ Update([store EXCEPT !.crcLo = JobCrc])
  /\ pc' = "crcHi"
  /\ UNCHANGED <<bright, pixel, piece>>

WriteCrcHi ==
  /\ pc = "crcHi"
  /\ Update([store EXCEPT !.crcHi = JobCrc])
  /\ pc' = "flush"
  /\ UNCHANGED <<bright, pixel, piece>>

---------------------------------------------------------------------------
(* mkStoreCommit, and the end of the verb *)

\* The verb is done: the transfer it came from is freed, the pixel takes the
\* profile's brightness, and the host is told so.
Finish ==
  /\ pc' = "idle"
  /\ piece' = 1
  /\ job' = Nothing
  /\ verb' = "none"
  /\ stage' = IF verb = "commit" THEN NoStage ELSE stage
  /\ pixel' = IF verb = "save" THEN pixel ELSE bright
  /\ acked' = IF verb \in {"commit", "reset"} THEN job ELSE acked
  /\ UNCHANGED <<emulated, bright>>

\* Nothing to flush: always so on AVR.
NothingToFlush ==
  /\ pc = "flush"
  /\ ~mounted \/ ~dirty
  /\ Finish
  /\ faulty' = (faulty \/ (emulated /\ ~mounted))
  /\ UNCHANGED diskVars

\* Mutant: the profile's own file is removed first.
WriteTempInPlace ==
  /\ pc = "flush"
  /\ mounted /\ dirty
  /\ temp' = store
  /\ file' = Blank
  /\ pc' = "rename"
  /\ UNCHANGED <<emulated, store, mounted, dirty, ramVars, piece, job, verb,
                 acked, faulty>>

\* The file beside the profile's is removed and written anew.
WriteTemp ==
  /\ pc = "flush"
  /\ mounted /\ dirty
  /\ temp' = store
  /\ pc' = "rename"
  /\ UNCHANGED <<emulated, store, file, mounted, dirty, ramVars, piece, job, verb,
                 acked, faulty>>

\* It could not be opened or written in full: mkStoreCommit says nothing.
WriteTempFails ==
  /\ pc = "flush"
  /\ mounted /\ dirty
  /\ temp' = Blank
  /\ Finish
  /\ faulty' = TRUE
  /\ UNCHANGED <<store, file, mounted, dirty>>

Rename ==
  /\ pc = "rename"
  /\ \/ file' = temp /\ temp' = Blank /\ dirty' = FALSE /\ UNCHANGED faulty
     \/ faulty' = TRUE /\ UNCHANGED <<file, temp, dirty>>
  /\ Finish
  /\ UNCHANGED <<store, mounted>>

---------------------------------------------------------------------------
Next ==
  \/ PowerOn
  \/ PowerLoss
  \/ StageBegin
  \/ StageChunk
  \/ StageCommit
  \/ StageDrop
  \/ SetBrightness
  \/ Save
  \/ Reset
  \/ WriteZero
  \/ WriteBody
  \/ WriteMagic
  \/ WriteBright
  \/ WriteCrcLo
  \/ WriteCrcHi
  \/ NothingToFlush
  \/ WriteTemp
  \/ WriteTempFails
  \/ Rename

Spec == Init /\ [][Next]_vars

---------------------------------------------------------------------------
(* Properties *)

TypeOK ==
  /\ emulated \in BOOLEAN
  /\ store \in Image
  /\ file \in Image
  /\ temp \in Image
  /\ mounted \in BOOLEAN
  /\ dirty \in BOOLEAN
  /\ bright \in BRIGHT
  /\ pixel \in BRIGHT
  /\ stage \in Stage
  /\ pc \in {"off", "idle", "zero", "body", "magic", "bright", "crcLo", "crcHi",
             "flush", "rename"}
  /\ piece \in Piece
  /\ job \in Body \cup {Nothing}
  /\ verb \in {"none", "boot", "save", "commit", "reset"}
  /\ acked \in Body \cup {Nothing}
  /\ faulty \in BOOLEAN

\* Whatever verb ran last, whole or after a boot that found ruins, it left an
\* image the next boot accepts (writeHeaderFields, saveHeader, stageCommit).
IdleValidates == pc = "idle" => Valid(store)

\* The image a boot at this moment would read, and what it would come up with.
BootImage == IF emulated THEN file ELSE store
BootBody == IF Valid(BootImage) THEN BootImage.body ELSE DEFAULTS

\* A profile the host was told is stored survives every loss of power, in the
\* middle of a later SAVE included, for as long as the flash does what it is
\* asked (stageCommit, saveHeader, mkStoreCommit).
AckedSurvives == acked # Nothing /\ ~faulty => BootBody = acked

\* The pixel is lit with the brightness of the profile in force: a commit or a
\* reset that brought another one included (cmdProfile, handleLine).
PixelShowsProfile == pc = "idle" => pixel = bright

\* A power loss leaves the old profile or the new one; on AVR alone it may leave
\* the factory profile. Never a mixture, and never the half of a transfer
\* (stageCommit, mkStoreCommit).
Atomic == INSTANCE AtomicProfile WITH
  Profiles <- Body, Factory <- DEFAULTS, Nothing <- Nothing,
  atomic <- emulated, stored <- BootBody, last <- BootImage.crcHi, job <- job

ReplacesWhole == Atomic!Spec

\* "OK  # CRC passed, EEPROM written" (docs/PROTOCOL.md:158). Not kept when the flash
\* fails (README, known disagreements).
AckedIsStored == acked # Nothing => BootBody = acked
=============================================================================
