------------------------------- MODULE Flashing -------------------------------
(***************************************************************************)
(* Which image a keypad should get (update/firmware.py) and how it is      *)
(* written (flash/service.py, flash/avr109.py, flash/uf2.py), against the  *)
(* board: it runs, or waits in its bootloader, or is not there.            *)
(* Firmware versions are numbers; 0 is a sketch that is not macroKey.      *)
(***************************************************************************)
EXTENDS SelfUpdate

CONSTANTS
    OldImage, NewImage,     \* the image each build carries
    Arriving                \* the boards that may be on the cable at first
ASSUME ImageAssumption == OldImage \in Nat /\ NewImage \in Nat /\ OldImage < NewImage
ASSUME BoardAssumption ==
    Arriving \subseteq [board : {"avr109", "uf2"}, fw : Nat, torn : BOOLEAN, mode : {"run", "boot"}]

VARIABLES
    pad,                    \* the board: what is on it and what it does
    lifted                  \* history: unplugged since the last write to it began

Versions == {p.fw : p \in Arriving} \cup {OldImage, NewImage}
disk == <<file, version, stranded>>
\* A board is written as an "avr109" or a "uf2".
Pad(board, fw) == [board |-> board, fw |-> fw, torn |-> FALSE, mode |-> "run"]
Answers == pad.mode = "run" /\ ~pad.torn /\ pad.fw > 0      \* speaks the protocol
Attached == pad.mode = "boot" \/ (pad.mode = "run" /\ ~pad.torn)
Bundled == IF version = "old" THEN OldImage ELSE NewImage
Deciders == {"connect", "check", "update"}
Writers == {"install", "update"}

(***************************************************************************)
(* firmware.best                                                           *)
(***************************************************************************)
Decide(image) == job' = [job EXCEPT !.at = "decided", !.image = image]

\* The bundled image settles it when it is newer; else a newer release may have one.  No
\* network is no news; an answer that breaks off in its body is an exception of another kind,
\* which ends the job.
Best ==
    /\ At(Deciders, "best") /\ Goes
    /\ \/ Bundled > job.running /\ Decide(Bundled)
       \/ Bundled <= job.running /\ (Go("nothing") \/ Go("failed"))
       \/ /\ Bundled <= job.running /\ version = "old"
          /\ IF file.image = "none" THEN Go("fetch") ELSE Go("fetched")
    /\ UNCHANGED <<disk, pad, lifted>>

Published ==
    /\ At(Deciders, "fetched") /\ Goes
    /\ IF NewImage > job.running /\ NewImage > Bundled THEN Decide(NewImage) ELSE Go("nothing")
    /\ UNCHANGED <<disk, pad, lifted>>

Unpublished ==
    /\ At(Deciders, "unfetched") /\ Goes /\ Go("nothing")
    /\ UNCHANGED <<disk, pad, lifted>>

(***************************************************************************)
(* flash                                                                   *)
(***************************************************************************)
Find ==
    /\ At(Writers, "find") /\ Goes
    /\ Go(IF ~Attached THEN "failed" ELSE IF pad.mode = "boot" THEN "write" ELSE "touch")
    /\ UNCHANGED <<disk, pad, lifted>>

\* enter_bootloader: the 1200-baud touch, and waiting for what shows up.
Touch ==
    /\ At(Writers, "touch")
    /\ \/ Attached /\ Go("write") /\ Goes /\ pad' = [pad EXCEPT !.mode = "boot"]
       \/ ~Attached /\ Go("failed") /\ Goes /\ UNCHANGED pad
       \/ Attached /\ Trouble /\ Go("failed") /\ UNCHANGED pad
    /\ UNCHANGED <<disk, lifted>>

\* Past identify (or with the drive's file open) the old sketch is going.
Write ==
    /\ At(Writers, "write") /\ Goes
    /\ \/ /\ pad.mode = "boot" /\ Go("writing") /\ lifted' = FALSE
          /\ pad' = [pad EXCEPT !.torn = TRUE]
       \/ pad.mode # "boot" /\ Go("failed") /\ UNCHANGED <<pad, lifted>>
    /\ UNCHANGED disk

Program(torn) == [pad EXCEPT !.fw = job.image, !.torn = torn]

\* All pages are out.  An RP2040 restarts on its own; a 32U4 may not have kept one.
Written ==
    /\ At(Writers, "writing") /\ pad.mode = "boot"
    /\ \/ /\ pad.board = "avr109" /\ Go("verify image") /\ Goes /\ pad' = Program(FALSE)
       \/ /\ pad.board = "avr109" /\ Trouble /\ Go("verify image") /\ pad' = Program(TRUE)
       \/ /\ pad.board = "uf2" /\ Go("flashed") /\ Goes
          /\ pad' = [Program(FALSE) EXCEPT !.mode = "run"]
    /\ UNCHANGED <<disk, lifted>>

\* The board is gone, or stops answering.  A drive that went under the last fsync only
\* is taken for a board that restarted.
WriteBreaks ==
    /\ At(Writers, "writing")
    /\ \/ pad.mode # "boot" /\ Goes /\ Go("failed")
       \/ pad.mode # "boot" /\ Goes /\ pad.board = "uf2" /\ Go("flashed")
       \/ pad.mode = "boot" /\ Trouble /\ Go("failed")
    /\ UNCHANGED <<disk, pad, lifted>>

\* mutant: what was written is not read back
VerifiedBlindly ==
    /\ At(Writers, "verify image") /\ Goes /\ Go("flashed")
    /\ pad' = IF pad.mode = "boot" THEN [pad EXCEPT !.mode = "run"] ELSE pad
    /\ UNCHANGED <<disk, lifted>>

Verified ==
    /\ At(Writers, "verify image") /\ Goes
    /\ IF pad.mode = "boot" /\ ~pad.torn
       THEN Go("flashed") /\ pad' = [pad EXCEPT !.mode = "run"]
       ELSE Go("failed") /\ UNCHANGED pad
    /\ UNCHANGED <<disk, lifted>>

(***************************************************************************)
(* A bootloader nobody talks to                                            *)
(***************************************************************************)
Writing == At(Writers, "writing") \/ At(Writers, "verify image")

BootloaderGivesUp ==
    /\ pad.mode = "boot" /\ pad.board = "avr109" /\ ~Writing
    /\ IF At(Writers, "write") THEN Trouble ELSE Goes
    /\ pad' = [pad EXCEPT !.mode = "run"]
    /\ UNCHANGED <<disk, job, lifted>>

Flash == Find \/ Touch \/ Write \/ Written \/ WriteBreaks \/ Verified
=============================================================================
