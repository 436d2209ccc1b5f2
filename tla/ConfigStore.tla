----------------------------- MODULE ConfigStore -----------------------------
(***************************************************************************)
(* The profile file of the host and its backups (config/store.py), as the  *)
(* file operations the code makes one by one.  Two threads of an app save  *)
(* (the window's jobs and the recording worker), two apps may run, an app  *)
(* may die between any two operations and an operation may fail.           *)
(* A content is the number of the save that wrote it, 0 being what an      *)
(* earlier run left.                                                       *)
(***************************************************************************)
EXTENDS Integers, FiniteSets

CONSTANTS
    Apps,           \* running copies of the program
    Threads,        \* threads of an app that save
    Generations,    \* PROFILE_BACKUP_GENERATIONS
    MaxSaves,       \* bound: saves begun
    MaxCrashes,     \* bound: apps that die
    MaxFaults       \* bound: file operations that fail

ASSUME StoreAssumption == /\ Generations \in Nat \ {0}
                          /\ {MaxSaves, MaxCrashes, MaxFaults} \subseteq Nat

VARIABLES
    profile,        \* content of profile.json
    bak,            \* profile.json.bak, .bak.1, ...: newest first
    tmp, bakTmp,    \* per app: the temporary files beside them
    aside,          \* contents of profile.json.unreadable-*
    legacy,         \* is there a bindings.json of the old app?
    app,            \* per app: "down", "spoiled" (found no readable profile), "up"
    writer,         \* per thread: where its save is
    begun,          \* saves begun
    crashes, faults,
    gone,           \* history: the saves begun when a stored content was replaced
    overlapped,     \* history: two apps were at the files at once
    unkept          \* history: a backup or a set-aside failed
files == <<profile, bak, tmp, bakTmp, aside, legacy>>
history == <<gone, overlapped, unkept>>
vars == <<files, app, writer, begun, crashes, faults, history>>

Absent == -1
Torn == -2                      \* a file that is half written
Unreadable == -3                \* damaged, or of a newer program
Writers == Apps \X Threads
Idle == [at |-> "idle", version |-> Absent, index |-> 0, copy |-> Absent]
AppOf(w) == w[1]
Busy(a) == app[a] = "spoiled" \/ \E w \in Writers : AppOf(w) = a /\ writer[w].at # "idle"
Others(a) == \E b \in Apps \ {a} : Busy(b)
Readable(c) == c >= 0

Init ==
    /\ profile \in {0, Absent, Unreadable} /\ legacy \in BOOLEAN
    /\ bak = [i \in 0 .. Generations - 1 |-> Absent]
    /\ tmp = [a \in Apps |-> Absent] /\ bakTmp = [a \in Apps |-> Absent]
    /\ aside = {}
    /\ app = [a \in Apps |-> "down"] /\ writer = [w \in Writers |-> Idle]
    /\ begun = 0 /\ crashes = 0 /\ faults = 0
    /\ gone = [v \in {} |-> 0] /\ overlapped = FALSE /\ unkept = FALSE

Fault == faults < MaxFaults /\ faults' = faults + 1
Goes(w, at) == writer' = [writer EXCEPT ![w].at = at]

\* What is in the file makes way for another content.
Outlived == IF profile = Absent THEN gone
            ELSE [v \in DOMAIN gone \cup {profile} |-> IF v = profile THEN begun ELSE gone[v]]

(***************************************************************************)
(* _write_profile, under the process's lock: write the temporary file, ... *)
(***************************************************************************)
\* mutant: the two threads of an app do not wait for each other
UnlockedAnyway(w) == writer[w].at = "idle"

Unlocked(w) == \A x \in Writers : AppOf(x) = AppOf(w) => writer[x].at = "idle"

Takes(w) ==
    /\ begun < MaxSaves /\ begun' = begun + 1
    /\ writer' = [writer EXCEPT ![w] = [Idle EXCEPT !.at = "write", !.version = begun + 1]]
    /\ tmp' = [tmp EXCEPT ![AppOf(w)] = Torn]
    /\ overlapped' = (overlapped \/ Others(AppOf(w)))

Save(w) ==
    /\ app[AppOf(w)] = "up" /\ Unlocked(w) /\ Takes(w)
    /\ UNCHANGED <<profile, bak, bakTmp, aside, legacy, app, crashes, faults, gone, unkept>>

Written(w) ==
    /\ writer[w].at = "write"
    /\ tmp' = [tmp EXCEPT ![AppOf(w)] = writer[w].version]
    /\ writer' = [writer EXCEPT ![w].at = IF profile = Absent THEN "replace" ELSE "rotate",
                                ![w].index = Generations - 1]
    /\ UNCHANGED <<profile, bak, bakTmp, aside, legacy, app, begun, crashes, faults, history>>

\* ... or the disk is full: the save raises, the temporary file stays ...
WriteFails(w) ==
    /\ writer[w].at = "write" /\ Fault
    /\ writer' = [writer EXCEPT ![w] = Idle]
    /\ UNCHANGED <<files, app, begun, crashes, history>>

(***************************************************************************)
(* ... shift the backups, the oldest first, one rename at a time, ...      *)
(***************************************************************************)
\* mutant: the newest first, each over the one it should have made room for
RotateDown(w) ==
    LET i == Generations - writer[w].index
    IN  /\ writer[w].at = "rotate" /\ writer[w].index > 0
        /\ bak' = IF bak[i - 1] = Absent THEN bak
                  ELSE [bak EXCEPT ![i] = bak[i - 1], ![i - 1] = Absent]
        /\ writer' = [writer EXCEPT ![w].index = @ - 1]
        /\ UNCHANGED <<profile, tmp, bakTmp, aside, legacy, app, begun, crashes, faults, history>>

Rotate(w) ==
    LET i == writer[w].index
    IN  /\ writer[w].at = "rotate" /\ i > 0
        /\ bak' = IF bak[i - 1] = Absent THEN bak
                  ELSE [bak EXCEPT ![i] = bak[i - 1], ![i - 1] = Absent]
        /\ writer' = [writer EXCEPT ![w].index = i - 1]
        /\ UNCHANGED <<profile, tmp, bakTmp, aside, legacy, app, begun, crashes, faults, history>>

\* A rename that fails leaves its generation where the next one lands.
RotateFails(w) ==
    /\ writer[w].at = "rotate" /\ writer[w].index > 0 /\ Fault
    /\ writer' = [writer EXCEPT ![w].index = @ - 1] /\ unkept' = TRUE
    /\ UNCHANGED <<files, app, begun, crashes, gone, overlapped>>

(***************************************************************************)
(* ... copy the stored profile beside the backups and rename it there; ... *)
(***************************************************************************)
Copy(w) ==
    /\ writer[w].at = "rotate" /\ writer[w].index = 0
    /\ IF profile = Absent
       THEN Goes(w, "replace") /\ UNCHANGED bakTmp      \* gone meanwhile: an OSError
       ELSE /\ writer' = [writer EXCEPT ![w].at = "copy", ![w].copy = profile]
            /\ bakTmp' = [bakTmp EXCEPT ![AppOf(w)] = Torn]
    /\ UNCHANGED <<profile, bak, tmp, aside, legacy, app, begun, crashes, faults, history>>

Copied(w) ==
    /\ writer[w].at = "copy" /\ Goes(w, "backup")
    /\ bakTmp' = [bakTmp EXCEPT ![AppOf(w)] = writer[w].copy]
    /\ UNCHANGED <<profile, bak, tmp, aside, legacy, app, begun, crashes, faults, history>>

Backup(w) ==
    /\ writer[w].at = "backup" /\ Goes(w, "replace")
    /\ bak' = [bak EXCEPT ![0] = bakTmp[AppOf(w)]]
    /\ bakTmp' = [bakTmp EXCEPT ![AppOf(w)] = Absent]
    /\ UNCHANGED <<profile, tmp, aside, legacy, app, begun, crashes, faults, history>>

\* The save is more important than its recovery copy: go on without.
BackupFails(w) ==
    /\ writer[w].at \in {"copy", "backup"} /\ Fault
    /\ Goes(w, "replace") /\ unkept' = TRUE
    /\ UNCHANGED <<files, app, begun, crashes, gone, overlapped>>

(***************************************************************************)
(* ... and at last rename the temporary file over the profile.             *)
(***************************************************************************)
Replace(w) ==
    LET a == AppOf(w)
    IN  /\ writer[w].at = "replace"
        /\ writer' = [writer EXCEPT ![w] = Idle]
        /\ IF tmp[a] = Absent THEN UNCHANGED <<profile, gone>>      \* raises
           ELSE profile' = tmp[a] /\ gone' = Outlived
        /\ tmp' = [tmp EXCEPT ![a] = Absent]
        /\ UNCHANGED <<bak, bakTmp, aside, legacy, app, begun, crashes, faults, overlapped, unkept>>

ReplaceFails(w) ==
    /\ writer[w].at = "replace" /\ Fault
    /\ writer' = [writer EXCEPT ![w] = Idle]
    /\ UNCHANGED <<files, app, begun, crashes, history>>

(***************************************************************************)
(* load_profile, at the start of an app.                                   *)
(***************************************************************************)
Finds(a, state) == app' = [app EXCEPT ![a] = state]

Load(a) ==
    /\ app[a] = "down" /\ Readable(profile) /\ Finds(a, "up")
    /\ UNCHANGED <<files, writer, begun, crashes, faults, history>>

\* Not there: the old app's bindings are converted, and saved at once.
LoadNone(a) ==
    /\ app[a] = "down" /\ profile = Absent /\ Finds(a, "up")
    /\ IF legacy THEN \E t \in Threads : Takes(<<a, t>>)
       ELSE UNCHANGED <<tmp, writer, begun, overlapped>>
    /\ UNCHANGED <<profile, bak, bakTmp, aside, legacy, crashes, faults, gone, unkept>>

LoadSpoiled(a) ==
    /\ app[a] = "down" /\ profile \in {Torn, Unreadable} /\ Finds(a, "spoiled")
    /\ overlapped' = (overlapped \/ Others(a))
    /\ UNCHANGED <<files, writer, begun, crashes, faults, gone, unkept>>

\* A good file that fails to read is treated alike.
ReadFails(a) ==
    /\ app[a] = "down" /\ Readable(profile) /\ Fault /\ Finds(a, "spoiled")
    /\ overlapped' = (overlapped \/ Others(a))
    /\ UNCHANGED <<files, writer, begun, crashes, gone, unkept>>

\* _quarantine: the file is renamed, whatever it holds by now.
SetAside(a) ==
    /\ app[a] = "spoiled" /\ Finds(a, "up")
    /\ aside' = aside \cup ({profile} \ {Absent})
    /\ profile' = Absent /\ gone' = Outlived
    /\ UNCHANGED <<bak, tmp, bakTmp, legacy, writer, begun, crashes, faults, overlapped, unkept>>

SetAsideFails(a) ==
    /\ app[a] = "spoiled" /\ Finds(a, "up") /\ Fault /\ unkept' = TRUE
    /\ UNCHANGED <<files, writer, begun, crashes, gone, overlapped>>

\* The app ends, in the middle of whatever it does.
Die(a) ==
    /\ app[a] # "down" /\ crashes < MaxCrashes /\ crashes' = crashes + 1
    /\ Finds(a, "down")
    /\ writer' = [w \in Writers |-> IF AppOf(w) = a THEN Idle ELSE writer[w]]
    /\ UNCHANGED <<files, begun, faults, history>>

Next ==
    \/ \E w \in Writers :
          \/ Save(w) \/ Written(w) \/ WriteFails(w)
          \/ Rotate(w) \/ RotateFails(w)
          \/ Copy(w) \/ Copied(w) \/ Backup(w) \/ BackupFails(w)
          \/ Replace(w) \/ ReplaceFails(w)
    \/ \E a \in Apps :
          \/ Load(a) \/ LoadNone(a) \/ LoadSpoiled(a) \/ ReadFails(a)
          \/ SetAside(a) \/ SetAsideFails(a) \/ Die(a)

Spec == Init /\ [][Next]_vars

(***************************************************************************)
(* Properties                                                              *)
(***************************************************************************)
Contents == 0 .. MaxSaves
Stored == Contents \cup {Torn, Unreadable}
Steps == {"idle", "write", "rotate", "copy", "backup", "replace"}
Writer == [at : Steps, version : Contents \cup {Absent}, index : 0 .. Generations - 1,
           copy : Stored \cup {Absent}]
TypeOK ==
    /\ profile \in Stored \cup {Absent}
    /\ bak \in [0 .. Generations - 1 -> Stored \cup {Absent}]
    /\ tmp \in [Apps -> Contents \cup {Absent, Torn}]
    /\ bakTmp \in [Apps -> Stored \cup {Absent}]
    /\ aside \subseteq Stored
    /\ app \in [Apps -> {"down", "spoiled", "up"}]
    /\ writer \in [Writers -> Writer]
    /\ begun \in Contents
    /\ DOMAIN gone \subseteq Stored
    /\ \A v \in DOMAIN gone : gone[v] \in 0 .. begun
    /\ overlapped \in BOOLEAN /\ unkept \in BOOLEAN

\* No file a load or a recovery may read is ever half written, whichever operation
\* an app dies at, whatever fails, and with two threads and two apps at it.
StoredIsWhole == profile # Torn /\ Torn \notin aside /\ \A i \in DOMAIN bak : bak[i] # Torn

Kept == {profile} \cup aside \cup {bak[i] : i \in DOMAIN bak}

\* A stored profile survives being replaced until as many saves as there are
\* generations have begun since, however often the app dies in between; one the app could
\* not read is set aside for good, and no saves of the defaults it then shows remove it
\* (_rotate_backups, _quarantine).
NothingLost ==
    ~overlapped /\ ~unkept =>
        /\ \A v \in DOMAIN gone : begun - gone[v] < Generations => v \in Kept
        /\ Unreadable \in DOMAIN gone => Unreadable \in aside
=============================================================================
