------------------------------ MODULE SelfUpdate ------------------------------
(***************************************************************************)
(* How a file of a release is fetched and how the running program is       *)
(* replaced (update/releases.py, update/selfupdate.py), step by step as    *)
(* the disk sees it.  There are two builds, "old" and "new": the release   *)
(* carries the new one and the image that belongs to it.                   *)
(***************************************************************************)
EXTENDS Naturals

CONSTANT MaxTroubles    \* bound: things that go wrong

VARIABLES
    file,               \* what each file holds
    version,            \* the build that runs
    job,                \* what the io worker is doing, and where in it it is
    troubles,           \* how much went wrong
    stranded            \* history: a replacement failed and could not be taken back

Files == {"bin", "retired", "staged", "part", "image", "imagePart"}
\* A "wrong" file was transferred to the end and is not what was published.
Contents == {"none", "torn", "wrong", "old", "new"}
Whole == {"old", "new"}

\* What a worker job does: `running` is the pad's version as it was told, `image` the
\* version it found to write.
Job(kind, at, running, image) == [kind |-> kind, at |-> at, running |-> running, image |-> image]
NoJob == Job("none", "over", 0, 0)

At(kinds, at) == job.kind \in kinds /\ job.at = at
Go(at) == job' = [job EXCEPT !.at = at]
Fetchers == {"app", "connect", "check", "update"}
Part == IF job.kind = "app" THEN "part" ELSE "imagePart"
Target == IF job.kind = "app" THEN "staged" ELSE "image"
Goes == UNCHANGED troubles
Keeps == UNCHANGED <<version, stranded>>
Trouble == troubles < MaxTroubles /\ troubles' = troubles + 1

(***************************************************************************)
(* fetch_asset and download: refused without a published checksum, written *)
(* next door, verified, and only then given its name.  "failed" is an      *)
(* exception that nobody had in mind: an answer that breaks off in its     *)
(* body, a directory that cannot be made.                                  *)
(***************************************************************************)
Load ==
    /\ At(Fetchers, "fetch")
    /\ \/ Go("unfetched") /\ UNCHANGED file
       \/ Go("failed") /\ UNCHANGED file
       \/ Go("load") /\ file' = [file EXCEPT ![Part] = "torn"]
    /\ Goes /\ Keeps

Loaded ==
    /\ At(Fetchers, "load")
    /\ \/ /\ Go("verify") /\ Goes
          /\ \E got \in {"new", "wrong"} : file' = [file EXCEPT ![Part] = got]
       \/ Go("unfetched") /\ Goes /\ file' = [file EXCEPT ![Part] = "none"]
       \/ Go("failed") /\ Trouble /\ UNCHANGED file
    /\ Keeps

\* mutant: the checksum is not compared
VerifyNothing ==
    /\ At(Fetchers, "verify")
    /\ Go("fetched") /\ file' = [file EXCEPT ![Part] = "none", ![Target] = file[Part]]
    /\ Goes /\ Keeps

Verify ==
    /\ At(Fetchers, "verify")
    /\ \/ /\ file[Part] = "new" /\ Go("fetched") /\ Goes
          /\ file' = [file EXCEPT ![Part] = "none", ![Target] = "new"]
       \/ /\ file[Part] = "wrong" /\ Go("unfetched") /\ Goes
          /\ file' = [file EXCEPT ![Part] = "none"]
       \/ /\ file[Part] = "new" /\ Trouble /\ Go("unfetched")       \* the rename fails
          /\ file' = [file EXCEPT ![Part] = "none"]
    /\ Keeps

(***************************************************************************)
(* check and apply                                                         *)
(***************************************************************************)
\* check: unreachable and not newer end it alike; apply starts with an empty stage.
Ask ==
    /\ At({"app"}, "ask")
    /\ \/ Go("nothing") /\ UNCHANGED file
       \/ version = "old" /\ Go("fetch") /\ file' = [file EXCEPT !.staged = "none"]
    /\ Goes /\ Keeps

\* The archive bit.
Prepare ==
    /\ At({"app"}, "fetched")
    /\ \/ Go("clear") /\ Goes /\ UNCHANGED file
       \/ Trouble /\ Go("failed") /\ file' = [file EXCEPT !.staged = "none"]
    /\ Keeps

Clear ==
    /\ At({"app"}, "clear")
    /\ \/ Go("retire") /\ Goes /\ file' = [file EXCEPT !.retired = "none"]
       \/ Trouble /\ Go("undo") /\ UNCHANGED file
    /\ Keeps

Retire ==
    /\ At({"app"}, "retire")
    /\ \/ /\ Go("place") /\ Goes
          /\ file' = IF file.bin = "none" THEN file
                     ELSE [file EXCEPT !.retired = file.bin, !.bin = "none"]
       \/ Trouble /\ Go("undo") /\ UNCHANGED file
    /\ Keeps

Place ==
    /\ At({"app"}, "place")
    /\ \/ Go("sweep") /\ Goes /\ file' = [file EXCEPT !.bin = file.staged, !.staged = "none"]
       \/ Trouble /\ Go("undo") /\ UNCHANGED file
    /\ Keeps

\* mutant: the failed replacement is not taken back
UndoNothing ==
    /\ At({"app"}, "undo") /\ Go("failed") /\ Goes
    /\ file' = [file EXCEPT !.staged = "none"] /\ Keeps

\* Put back whatever was moved; that may fail as well.
Undo ==
    /\ At({"app"}, "undo") /\ Go("failed") /\ UNCHANGED version
    /\ LET torn == file.bin = "none" /\ file.retired # "none"
           rest == [file EXCEPT !.staged = "none"]
       IN \/ /\ torn /\ Goes /\ UNCHANGED stranded
             /\ file' = [rest EXCEPT !.bin = file.retired, !.retired = "none"]
          \/ torn /\ Goes /\ stranded' = TRUE /\ file' = rest
          \/ ~torn /\ Goes /\ UNCHANGED stranded /\ file' = rest

\* The retired file goes now, or at the next start where it is still open.
Sweep ==
    /\ At({"app"}, "sweep") /\ Go("installed") /\ Goes
    /\ \E left \in {"none", file.retired} : file' = [file EXCEPT !.retired = left]
    /\ Keeps

Apply == Ask \/ Prepare \/ Clear \/ Retire \/ Place \/ Undo \/ Sweep
Fetch == Load \/ Loaded \/ Verify
Swapping == job.kind = "app" /\ job.at \in {"place", "undo"}
=============================================================================
