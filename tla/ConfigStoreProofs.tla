-------------------------- MODULE ConfigStoreProofs --------------------------
(* What the profile file of the host and its backups keep, for any number of *)
(* apps, threads and generations, wherever an app dies and whatever fails.   *)
EXTENDS ConfigStore, TLAPS

AtWork(w) == writer[w].at # "idle"

(* Only an app that is up saves, in one thread at a time, and while no two    *)
(* apps are at the files at once there is one that is.                        *)
OneSaves ==
    /\ \A w \in Writers : AtWork(w) => app[AppOf(w)] = "up"
    /\ \A v, w \in Writers : AppOf(v) = AppOf(w) /\ AtWork(v) /\ AtWork(w) => v = w
    /\ ~overlapped => \A a, b \in Apps : Busy(a) /\ Busy(b) => a = b

(* A temporary file that is to be renamed is whole.                           *)
TempsWhole ==
    \A w \in Writers :
        /\ writer[w].at \in {"rotate", "copy", "backup", "replace"} => tmp[AppOf(w)] # Torn
        /\ writer[w].at = "copy" => writer[w].copy # Torn
        /\ writer[w].at = "backup" => bakTmp[AppOf(w)] # Torn

WholeInv == TypeOK /\ OneSaves /\ TempsWhole /\ StoredIsWhole

(* The backup of a save is that of the profile it is about to replace.        *)
BackedUp ==
    \A w \in Writers :
        /\ writer[w].at = "copy" => writer[w].copy = profile /\ writer[w].index = 0
        /\ writer[w].at = "backup" => bakTmp[AppOf(w)] = profile /\ writer[w].index = 0
        /\ writer[w].at = "replace" => profile \in {Absent, bak[0]}

(* Where the shifting of the backups stands: the generations up to this one    *)
(* have still to make room for the save under way.                             *)
Unshifted(w, i) ==
    \/ writer[w].at = "write"
    \/ writer[w].at \in {"rotate", "copy", "backup"} /\ i <= writer[w].index

(* The generation about to be filled is free, but for the oldest.             *)
RoomMade ==
    \A w \in Writers :
        writer[w].at \in {"rotate", "copy", "backup"} /\ writer[w].index < Generations - 1
            => bak[writer[w].index] = Absent

(* A replaced content is no further down than saves have begun since, and one  *)
(* further up while it has still to be shifted.                               *)
Placed(v) ==
    \/ v \in aside
    \/ \E i \in 0 .. Generations - 1 :
          /\ bak[i] = v
          /\ gone[v] + i <= begun
          /\ (\E w \in Writers : Unshifted(w, i)) => gone[v] + i < begun
InPlace == \A v \in DOMAIN gone : begun - gone[v] < Generations => Placed(v)

(* What could not be read is out of the way before an app is up.              *)
UnreadAside ==
    /\ (\E a \in Apps : app[a] = "up") => profile # Unreadable
    /\ Unreadable \in DOMAIN gone => Unreadable \in aside

KeptInv == ~overlapped /\ ~unkept => BackedUp /\ RoomMade /\ InPlace /\ UnreadAside

IInv == WholeInv /\ KeptInv
---------------------------------------------------------------------------
(* Types                                                                     *)

LEMMA WriterOf ==
  /\ \A w \in Writers : AppOf(w) \in Apps
  /\ \A a \in Apps, t \in Threads : <<a, t>> \in Writers /\ AppOf(<<a, t>>) = a
  BY DEF Writers, AppOf

(* What a step makes of the save of one thread; the others stay.             *)
Becomes(w, at, index, copy) ==
    /\ writer' \in [Writers -> Writer]
    /\ \A x \in Writers : x # w => writer'[x] = writer[x]
    /\ writer'[w].at = at /\ writer'[w].index = index /\ writer'[w].copy = copy

LEMMA FieldsOf ==
  ASSUME NEW r \in Writer
  PROVE  /\ \A at \in Steps : LET n == [r EXCEPT !.at = at] IN
              n \in Writer /\ n.at = at /\ n.index = r.index /\ n.copy = r.copy
         /\ \A i \in 0 .. Generations - 1 : LET n == [r EXCEPT !.index = i] IN
              n \in Writer /\ n.at = r.at /\ n.index = i /\ n.copy = r.copy
         /\ \A c \in Stored \cup {Absent} : LET n == [r EXCEPT !.copy = c] IN
              n \in Writer /\ n.at = r.at /\ n.index = r.index /\ n.copy = c
<1>1. PICK at0 \in Steps, v \in Contents \cup {Absent}, i0 \in 0 .. Generations - 1,
           c0 \in Stored \cup {Absent} :
        r = [at |-> at0, version |-> v, index |-> i0, copy |-> c0]
  BY DEF Writer
<1>2. \A at \in Steps :
        [r EXCEPT !.at = at] = [at |-> at, version |-> v, index |-> i0, copy |-> c0]
  BY <1>1
<1>3. \A i \in 0 .. Generations - 1 :
        [r EXCEPT !.index = i] = [at |-> at0, version |-> v, index |-> i, copy |-> c0]
  BY <1>1
<1>4. \A c \in Stored \cup {Absent} :
        [r EXCEPT !.copy = c] = [at |-> at0, version |-> v, index |-> i0, copy |-> c]
  BY <1>1
<1> QED BY <1>1, <1>2, <1>3, <1>4 DEF Writer

LEMMA IdleType == Idle \in Writer /\ Idle.at = "idle" /\ Idle.index = 0 /\ Idle.copy = Absent
  BY StoreAssumption DEF Idle, Writer, Steps

LEMMA TakesType ==
  ASSUME TypeOK, NEW w \in Writers, Takes(w)
  PROVE  /\ Becomes(w, "write", 0, Absent)
         /\ tmp' \in [Apps -> Contents \cup {Absent, Torn}]
         /\ begun' = begun + 1 /\ begun' \in Contents /\ overlapped' \in BOOLEAN
<1> DEFINE n == [at |-> "write", version |-> begun + 1, index |-> 0, copy |-> Absent]
           m == [Idle EXCEPT !.at = "write"]
<1>1. [Idle EXCEPT !.at = "write", !.version = begun + 1] = n
  <2>1. [Idle EXCEPT !.at = "write", !.version = begun + 1] = [m EXCEPT !.version = begun + 1]
    OBVIOUS
  <2>2. m = [at |-> "write", version |-> Absent, index |-> 0, copy |-> Absent]
    BY DEF Idle
  <2> HIDE DEF m
  <2>3. [m EXCEPT !.version = begun + 1] = n
    BY <2>2
  <2> QED BY <2>1, <2>3
<1>2. begun + 1 \in Contents
  BY StoreAssumption DEF TypeOK, Takes, Contents
<1>3. n \in Writer
  BY <1>2, StoreAssumption DEF Writer, Steps
<1>4. Becomes(w, "write", 0, Absent)
  BY <1>1, <1>3 DEF Becomes, Takes, TypeOK
<1>5. AppOf(w) \in Apps
  BY WriterOf
<1>6. overlapped' \in BOOLEAN
  BY Zenon DEF TypeOK, Takes
<1> QED BY <1>2, <1>4, <1>5, <1>6 DEF Takes, TypeOK

(* What the steps of a save make of it.                                      *)
LEMMA Moves ==
  ASSUME TypeOK, NEW w \in Writers
  PROVE  /\ Written(w) => Becomes(w, IF profile = Absent THEN "replace" ELSE "rotate",
                                  Generations - 1, writer[w].copy)
         /\ Rotate(w) \/ RotateFails(w) =>
              Becomes(w, "rotate", writer[w].index - 1, writer[w].copy)
         /\ Copy(w) => IF profile = Absent THEN Becomes(w, "replace", 0, writer[w].copy)
                       ELSE Becomes(w, "copy", 0, profile)
         /\ Copied(w) => Becomes(w, "backup", writer[w].index, writer[w].copy)
         /\ Backup(w) \/ BackupFails(w) =>
              Becomes(w, "replace", writer[w].index, writer[w].copy)
         /\ WriteFails(w) \/ Replace(w) \/ ReplaceFails(w) => Becomes(w, "idle", 0, Absent)
<1> DEFINE r == writer[w]
<1>1. r \in Writer /\ r.index \in 0 .. Generations - 1 /\ r.copy \in Stored \cup {Absent}
  BY DEF TypeOK, Writer
<1>2. profile \in Stored \cup {Absent} /\ Generations - 1 \in 0 .. Generations - 1
  BY StoreAssumption DEF TypeOK
<1>3. \A n \in Writer : writer' = [writer EXCEPT ![w] = n] => Becomes(w, n.at, n.index, n.copy)
  BY DEF Becomes, TypeOK
<1>4. ASSUME Written(w)
      PROVE  Becomes(w, IF profile = Absent THEN "replace" ELSE "rotate",
                     Generations - 1, r.copy)
  <2> DEFINE at == IF profile = Absent THEN "replace" ELSE "rotate"
             m == [r EXCEPT !.at = at]
             n == [m EXCEPT !.index = Generations - 1]
  <2>1. writer' = [writer EXCEPT ![w] = n]
    BY <1>4 DEF Written
  <2>2. at \in Steps
    BY DEF Steps
  <2>3. m \in Writer /\ m.at = at /\ m.copy = r.copy
    BY <1>1, <2>2, FieldsOf
  <2> HIDE DEF m
  <2>4. n \in Writer /\ n.at = at /\ n.index = Generations - 1 /\ n.copy = r.copy
    BY <1>2, <2>3, FieldsOf
  <2> HIDE DEF n
  <2> QED BY <1>3, <2>1, <2>4
<1>5. ASSUME Rotate(w) \/ RotateFails(w)
      PROVE  Becomes(w, "rotate", r.index - 1, r.copy)
  <2> DEFINE n == [r EXCEPT !.index = r.index - 1]
  <2>1. writer' = [writer EXCEPT ![w] = n] /\ r.at = "rotate" /\ r.index > 0
    BY <1>5 DEF Rotate, RotateFails
  <2>2. r.index - 1 \in 0 .. Generations - 1
    BY <1>1, <2>1, StoreAssumption
  <2>3. n \in Writer /\ n.at = "rotate" /\ n.index = r.index - 1 /\ n.copy = r.copy
    BY <1>1, <2>1, <2>2, FieldsOf
  <2> QED BY <1>3, <2>1, <2>3
<1>6. ASSUME Copy(w)
      PROVE  IF profile = Absent THEN Becomes(w, "replace", 0, r.copy)
             ELSE Becomes(w, "copy", 0, profile)
  <2> DEFINE gone1 == [r EXCEPT !.at = "replace"]
             m == [r EXCEPT !.at = "copy"]
             copied == [m EXCEPT !.copy = profile]
  <2>1. r.index = 0
    BY <1>6 DEF Copy
  <2>2. CASE profile = Absent
    <3>1. writer' = [writer EXCEPT ![w] = gone1]
      BY <1>6, <2>2 DEF Copy, Goes
    <3>2. gone1 \in Writer /\ gone1.at = "replace" /\ gone1.index = 0 /\ gone1.copy = r.copy
      BY <1>1, <1>2, <2>1, FieldsOf DEF Steps
    <3> QED BY <1>3, <2>2, <3>1, <3>2
  <2>3. CASE profile # Absent
    <3>1. writer' = [writer EXCEPT ![w] = copied]
      BY <1>6, <2>3 DEF Copy
    <3>2. m \in Writer /\ m.at = "copy" /\ m.index = 0
      BY <1>1, <2>1, FieldsOf DEF Steps
    <3> HIDE DEF m
    <3>3. copied \in Writer /\ copied.at = "copy" /\ copied.index = 0 /\ copied.copy = profile
      BY <1>2, <3>2, FieldsOf
    <3> HIDE DEF copied
    <3> QED BY <1>3, <2>3, <3>1, <3>3
  <2> QED BY <2>2, <2>3
<1>7. ASSUME NEW at \in Steps, Goes(w, at)
      PROVE  Becomes(w, at, r.index, r.copy)
  <2> DEFINE n == [r EXCEPT !.at = at]
  <2>1. writer' = [writer EXCEPT ![w] = n]
    BY <1>7 DEF Goes
  <2>2. n \in Writer /\ n.at = at /\ n.index = r.index /\ n.copy = r.copy
    BY <1>1, <1>2, FieldsOf
  <2> QED BY <1>3, <2>1, <2>2
<1>8. Copied(w) => Becomes(w, "backup", r.index, r.copy)
  BY <1>7 DEF Copied, Steps
<1>9. Backup(w) \/ BackupFails(w) => Becomes(w, "replace", r.index, r.copy)
  BY <1>7 DEF Backup, BackupFails, Steps
<1>10. WriteFails(w) \/ Replace(w) \/ ReplaceFails(w) => Becomes(w, "idle", 0, Absent)
  BY <1>3, IdleType DEF WriteFails, Replace, ReplaceFails
<1> QED BY <1>4, <1>5, <1>6, <1>8, <1>9, <1>10

LEMMA OutlivedType ==
  ASSUME TypeOK, gone' = Outlived
  PROVE  /\ DOMAIN gone' = DOMAIN gone \cup ({profile} \ {Absent})
         /\ \A v \in DOMAIN gone' :
               gone'[v] = IF v = profile THEN begun ELSE gone[v]
<1>1. Absent \notin DOMAIN gone
  BY StoreAssumption DEF TypeOK, Stored, Contents, Absent, Torn, Unreadable
<1> QED BY <1>1 DEF Outlived

(* One rename of the rotation.                                               *)
LEMMA Shifted ==
  ASSUME TypeOK, NEW w \in Writers, Rotate(w)
  PROVE  LET i == writer[w].index IN
         /\ i \in 1 .. Generations - 1
         /\ bak' \in [0 .. Generations - 1 -> Stored \cup {Absent}]
         /\ \A k \in 0 .. Generations - 1 :
              bak'[k] = IF bak[i - 1] = Absent THEN bak[k]
                        ELSE IF k = i - 1 THEN Absent
                        ELSE IF k = i THEN bak[i - 1] ELSE bak[k]
<1> DEFINE i == writer[w].index
           filled == [bak EXCEPT ![i] = bak[i - 1]]
           freed == [filled EXCEPT ![i - 1] = Absent]
<1>1. i \in 1 .. Generations - 1
  BY StoreAssumption DEF Rotate, TypeOK, Writer
<1>2. bak' = IF bak[i - 1] = Absent THEN bak ELSE freed
  BY DEF Rotate
<1> HIDE DEF i
<1>3. /\ filled \in [0 .. Generations - 1 -> Stored \cup {Absent}]
      /\ \A k \in 0 .. Generations - 1 : filled[k] = IF k = i THEN bak[i - 1] ELSE bak[k]
  BY <1>1, StoreAssumption DEF TypeOK
<1> HIDE DEF filled
<1>4. /\ freed \in [0 .. Generations - 1 -> Stored \cup {Absent}]
      /\ \A k \in 0 .. Generations - 1 : freed[k] = IF k = i - 1 THEN Absent ELSE filled[k]
  BY <1>1, <1>3, StoreAssumption
<1> HIDE DEF freed
<1>5. bak \in [0 .. Generations - 1 -> Stored \cup {Absent}]
  BY DEF TypeOK
<1> QED BY <1>1, <1>2, <1>3, <1>4, <1>5 DEF i

LEMMA TypeStep ==
  ASSUME TypeOK, [Next]_vars
  PROVE  TypeOK'
<1> USE StoreAssumption, WriterOf
<1>1. ASSUME NEW w \in Writers, Save(w) PROVE TypeOK'
  BY <1>1, TakesType DEF Save, TypeOK, Becomes, Contents
<1>2. ASSUME NEW w \in Writers, Written(w) PROVE TypeOK'
  <2>1. writer[w].version \in Contents \cup {Absent} /\ AppOf(w) \in Apps
    BY DEF TypeOK, Writer
  <2> QED BY <1>2, <2>1, Moves DEF Written, TypeOK, Becomes, history
<1>3. ASSUME NEW w \in Writers, WriteFails(w) PROVE TypeOK'
  BY <1>3, Moves DEF WriteFails, TypeOK, Becomes, files, history
<1>4. ASSUME NEW w \in Writers, Rotate(w) PROVE TypeOK'
  <2>1. bak' \in [0 .. Generations - 1 -> Stored \cup {Absent}]
    BY <1>4, Shifted
  <2>2. writer' \in [Writers -> Writer]
    BY <1>4, Moves DEF Becomes
  <2>3. UNCHANGED <<profile, tmp, bakTmp, aside, app, begun, history>>
    BY <1>4 DEF Rotate
  <2> QED BY <2>1, <2>2, <2>3 DEF TypeOK, history
<1>5. ASSUME NEW w \in Writers, RotateFails(w) PROVE TypeOK'
  BY <1>5, Moves DEF RotateFails, TypeOK, Becomes, files
<1>6. ASSUME NEW w \in Writers, Copy(w) PROVE TypeOK'
  BY <1>6, Moves DEF Copy, TypeOK, Becomes, Stored, history
<1>7. ASSUME NEW w \in Writers, Copied(w) PROVE TypeOK'
  <2>1. writer[w].copy \in Stored \cup {Absent} /\ AppOf(w) \in Apps
    BY DEF TypeOK, Writer
  <2> QED BY <1>7, <2>1, Moves DEF Copied, TypeOK, Becomes, history
<1>8. ASSUME NEW w \in Writers, Backup(w) PROVE TypeOK'
  BY <1>8, Moves DEF Backup, TypeOK, Becomes, history
<1>9. ASSUME NEW w \in Writers, BackupFails(w) PROVE TypeOK'
  BY <1>9, Moves DEF BackupFails, TypeOK, Becomes, files
<1>10. ASSUME NEW w \in Writers, Replace(w) PROVE TypeOK'
  <2>1. writer' \in [Writers -> Writer]
    BY <1>10, Moves DEF Becomes
  <2>2. tmp[AppOf(w)] \in Contents \cup {Absent, Torn} /\ AppOf(w) \in Apps
    BY DEF TypeOK
  <2> QED BY <1>10, <2>1, <2>2, OutlivedType DEF Replace, TypeOK, Stored, Contents
<1>11. ASSUME NEW w \in Writers, ReplaceFails(w) PROVE TypeOK'
  BY <1>11, Moves DEF ReplaceFails, TypeOK, Becomes, files, history
<1>12. ASSUME NEW a \in Apps, Load(a) PROVE TypeOK'
  BY <1>12 DEF Load, Finds, TypeOK, files, history
<1>13. ASSUME NEW a \in Apps, LoadNone(a) PROVE TypeOK'
  <2>1. /\ writer' \in [Writers -> Writer] /\ begun' \in Contents
        /\ tmp' \in [Apps -> Contents \cup {Absent, Torn}]
        /\ begun' \in {begun, begun + 1} /\ overlapped' \in BOOLEAN
    BY <1>13, TakesType DEF LoadNone, TypeOK, Becomes
  <2>2. /\ app' \in [Apps -> {"down", "spoiled", "up"}]
        /\ UNCHANGED <<profile, bak, bakTmp, aside, gone, unkept>>
    BY <1>13 DEF LoadNone, Finds, TypeOK
  <2> QED BY <2>1, <2>2 DEF TypeOK, Contents
<1>14. ASSUME NEW a \in Apps, LoadSpoiled(a) \/ ReadFails(a) PROVE TypeOK'
  BY <1>14 DEF LoadSpoiled, ReadFails, Finds, TypeOK, files
<1>15. ASSUME NEW a \in Apps, SetAside(a) \/ SetAsideFails(a) PROVE TypeOK'
  <2>1. CASE SetAside(a)
    <3>1. /\ DOMAIN gone' \subseteq Stored
          /\ \A v \in DOMAIN gone' : gone'[v] \in 0 .. begun'
      BY <2>1, OutlivedType DEF SetAside, TypeOK, Contents
    <3>2. aside' \subseteq Stored
      BY <2>1 DEF SetAside, TypeOK
    <3> QED BY <2>1, <3>1, <3>2 DEF SetAside, Finds, TypeOK
  <2>2. CASE SetAsideFails(a)
    BY <2>2 DEF SetAsideFails, Finds, TypeOK, files
  <2> QED BY <1>15, <2>1, <2>2
<1>16. ASSUME NEW a \in Apps, Die(a) PROVE TypeOK'
  BY <1>16, IdleType DEF Die, Finds, TypeOK, files, history
<1>17. CASE UNCHANGED vars
  BY <1>17 DEF vars, TypeOK, files, history
<1> QED BY <1>1, <1>2, <1>3, <1>4, <1>5, <1>6, <1>7, <1>8, <1>9, <1>10, <1>11, <1>12,
           <1>13, <1>14, <1>15, <1>16, <1>17 DEF Next

---------------------------------------------------------------------------
(* One app at the files, one thread of it                                    *)

LEMMA WorkKeepsOne ==
  ASSUME TypeOK, OneSaves, NEW w \in Writers, AtWork(w),
         \A x \in Writers : x # w => writer'[x] = writer[x],
         UNCHANGED <<app, overlapped>>
  PROVE  OneSaves'
<1>1. \A a \in Apps : Busy(a)' => Busy(a)
  BY DEF Busy, AtWork
<1>2. \A x \in Writers : AtWork(x)' => AtWork(x)
  BY DEF AtWork
<1> QED BY <1>1, <1>2 DEF OneSaves

LEMMA BeginKeepsOne ==
  ASSUME TypeOK, OneSaves, NEW w \in Writers, Takes(w),
         Unlocked(w), app[AppOf(w)] # "spoiled",
         app' = [app EXCEPT ![AppOf(w)] = "up"]
  PROVE  OneSaves'
<1> DEFINE a == AppOf(w)
<1>1. a \in Apps /\ app' \in [Apps -> {"down", "spoiled", "up"}] /\ app'[a] = "up"
      /\ \A b \in Apps : b # a => app'[b] = app[b]
  BY WriterOf DEF TypeOK
<1>2. \A x \in Writers : x # w => writer'[x] = writer[x]
  BY TakesType DEF Becomes
<1>3. \A b \in Apps : b # a => Busy(b)' = Busy(b)
  BY <1>1, <1>2, WriterOf DEF Busy
<1>4. ~overlapped' => ~overlapped /\ \A b \in Apps : b # a => ~Busy(b)
  BY <1>1, Zenon DEF Takes, Others
<1>5. \A x \in Writers : x # w /\ AppOf(x) = a => ~AtWork(x)'
  BY <1>2 DEF Unlocked, AtWork
<1>6. \A x \in Writers : AppOf(x) # a => AtWork(x)' = AtWork(x)
  BY <1>2 DEF AtWork
<1>7. \A x \in Writers : AtWork(x)' => app'[AppOf(x)] = "up"
  BY <1>1, <1>5, <1>6, WriterOf DEF OneSaves
<1>8. \A x, y \in Writers : AppOf(x) = AppOf(y) /\ AtWork(x)' /\ AtWork(y)' => x = y
  BY <1>5, <1>6 DEF OneSaves
<1>9. ~overlapped' => \A b, c \in Apps : Busy(b)' /\ Busy(c)' => b = c
  BY <1>3, <1>4
<1> QED BY <1>7, <1>8, <1>9 DEF OneSaves

LEMMA LoadKeepsOne ==
  ASSUME TypeOK, OneSaves, NEW a \in Apps, NEW state \in {"down", "spoiled", "up"},
         Finds(a, state), writer' = writer, app[a] # "up",
         \/ state # "spoiled" /\ overlapped' = overlapped
         \/ overlapped' = (overlapped \/ Others(a))
  PROVE  OneSaves'
<1>1. app' \in [Apps -> {"down", "spoiled", "up"}] /\ app'[a] = state
      /\ \A b \in Apps : b # a => app'[b] = app[b]
  BY DEF TypeOK, Finds
<1>2. \A x \in Writers : AppOf(x) = a => ~AtWork(x)
  BY DEF OneSaves
<1>3. \A b \in Apps : b # a => Busy(b)' = Busy(b)
  BY <1>1 DEF Busy
<1>4. state # "spoiled" => ~Busy(a)'
  BY <1>1, <1>2 DEF Busy, AtWork
<1>5. ~overlapped' => ~overlapped /\ (state = "spoiled" => \A b \in Apps : b # a => ~Busy(b))
  BY Zenon DEF Others
<1>6. ~overlapped' => \A b, c \in Apps : Busy(b)' /\ Busy(c)' => b = c
  BY <1>3, <1>4, <1>5 DEF OneSaves
<1>7. \A x \in Writers : AtWork(x)' = AtWork(x)
  BY DEF AtWork
<1>8. \A x \in Writers : AtWork(x)' => app'[AppOf(x)] = "up"
  BY <1>1, <1>2, <1>7, WriterOf DEF OneSaves
<1> QED BY <1>6, <1>7, <1>8 DEF OneSaves

LEMMA DieKeepsOne ==
  ASSUME TypeOK, OneSaves, NEW a \in Apps, Die(a)
  PROVE  OneSaves'
<1>1. app' \in [Apps -> {"down", "spoiled", "up"}] /\ app'[a] = "down"
      /\ \A b \in Apps : b # a => app'[b] = app[b]
  BY DEF TypeOK, Die, Finds
<1>2. \A x \in Writers : writer'[x] = IF AppOf(x) = a THEN Idle ELSE writer[x]
  BY DEF Die
<1>3. \A x \in Writers : AtWork(x)' => AtWork(x) /\ AppOf(x) # a
  BY <1>2, IdleType DEF AtWork
<1>4. \A b \in Apps : Busy(b)' => Busy(b)
  BY <1>1, <1>3 DEF Busy, AtWork
<1>5. overlapped' = overlapped
  BY DEF Die, history
<1> QED BY <1>1, <1>3, <1>4, <1>5, WriterOf DEF OneSaves

LEMMA OneSavesStep ==
  ASSUME TypeOK, OneSaves, [Next]_vars
  PROVE  OneSaves'
<1>1. ASSUME NEW w \in Writers, Save(w) PROVE OneSaves'
  <2>1. app' = [app EXCEPT ![AppOf(w)] = "up"] /\ app[AppOf(w)] # "spoiled"
    BY <1>1, WriterOf DEF Save, TypeOK
  <2> QED BY <1>1, <2>1, BeginKeepsOne DEF Save
<1>2. ASSUME NEW w \in Writers,
             \/ Written(w) \/ WriteFails(w) \/ Rotate(w) \/ RotateFails(w)
             \/ Copy(w) \/ Copied(w) \/ Backup(w) \/ BackupFails(w)
             \/ Replace(w) \/ ReplaceFails(w)
      PROVE  OneSaves'
  <2>1. \A x \in Writers : x # w => writer'[x] = writer[x]
    BY <1>2, Moves DEF Becomes
  <2>2. AtWork(w)
    BY <1>2 DEF AtWork, Written, WriteFails, Rotate, RotateFails, Copy, Copied, Backup,
                BackupFails, Replace, ReplaceFails
  <2>3. UNCHANGED <<app, overlapped>>
    BY <1>2 DEF Written, WriteFails, Rotate, RotateFails, Copy, Copied, Backup,
                BackupFails, Replace, ReplaceFails, history
  <2> QED BY <2>1, <2>2, <2>3, WorkKeepsOne
<1>3. ASSUME NEW a \in Apps, Load(a) \/ SetAside(a) \/ SetAsideFails(a) PROVE OneSaves'
  BY <1>3, LoadKeepsOne DEF Load, SetAside, SetAsideFails, history
<1>4. ASSUME NEW a \in Apps, LoadSpoiled(a) \/ ReadFails(a) PROVE OneSaves'
  BY <1>4, LoadKeepsOne DEF LoadSpoiled, ReadFails
<1>5. ASSUME NEW a \in Apps, LoadNone(a) PROVE OneSaves'
  <2>1. CASE legacy
    <3>1. PICK t \in Threads : Takes(<<a, t>>)
      BY <1>5, <2>1 DEF LoadNone
    <3>2. Unlocked(<<a, t>>)
      BY <1>5, WriterOf DEF LoadNone, Unlocked, OneSaves, AtWork
    <3> QED BY <1>5, <3>1, <3>2, WriterOf, BeginKeepsOne DEF LoadNone, Finds
  <2>2. CASE ~legacy
    BY <1>5, <2>2, LoadKeepsOne DEF LoadNone
  <2> QED BY <2>1, <2>2
<1>6. ASSUME NEW a \in Apps, Die(a) PROVE OneSaves'
  BY <1>6, DieKeepsOne
<1>7. CASE UNCHANGED vars
  BY <1>7 DEF vars, history, OneSaves, AtWork, Busy
<1> QED BY <1>1, <1>2, <1>3, <1>4, <1>5, <1>6, <1>7 DEF Next

---------------------------------------------------------------------------
(* Nothing half written                                                      *)

LEMMA Constants ==
  /\ Absent # Torn /\ Torn # Unreadable /\ Absent # Unreadable
  /\ Absent \notin Stored /\ Torn \notin Contents /\ Unreadable \notin Contents
  BY StoreAssumption DEF Absent, Torn, Unreadable, Stored, Contents

LEMMA TakesKeepsTemps ==
  ASSUME TypeOK, OneSaves, TempsWhole, NEW w \in Writers, Takes(w), Unlocked(w),
         bakTmp' = bakTmp
  PROVE  TempsWhole'
<1>1. Becomes(w, "write", 0, Absent)
  BY TakesType
<1>2. \A x \in Writers : AppOf(x) # AppOf(w) => tmp'[AppOf(x)] = tmp[AppOf(x)]
  BY WriterOf DEF Takes, TypeOK
<1>3. \A x \in Writers : x # w /\ AppOf(x) = AppOf(w) => writer'[x].at = "idle"
  BY <1>1 DEF Becomes, Unlocked
<1>4. \A x \in Writers : AppOf(x) # AppOf(w) => writer'[x] = writer[x]
  BY <1>1 DEF Becomes
<1>5. writer'[w].at = "write"
  BY <1>1 DEF Becomes
<1> QED BY <1>2, <1>3, <1>4, <1>5 DEF TempsWhole

LEMMA TempsStep ==
  ASSUME WholeInv, [Next]_vars
  PROVE  TempsWhole'
<1> USE WriterOf, Constants DEF WholeInv
<1>1. ASSUME NEW w \in Writers, Save(w) PROVE TempsWhole'
  BY <1>1, TakesKeepsTemps DEF Save
<1>2. ASSUME NEW w \in Writers, Written(w) PROVE TempsWhole'
  <2>1. writer[w].version # Torn
    BY DEF TypeOK, Writer
  <2>2. \A x \in Writers : x # w /\ AppOf(x) = AppOf(w) => writer[x].at = "idle"
    BY <1>2 DEF OneSaves, AtWork, Written
  <2>3. /\ tmp'[AppOf(w)] = writer[w].version
        /\ \A b \in Apps : b # AppOf(w) => tmp'[b] = tmp[b]
        /\ bakTmp' = bakTmp
    BY <1>2 DEF Written, TypeOK
  <2>4. /\ writer'[w].at \in {"replace", "rotate"}
        /\ \A x \in Writers : x # w => writer'[x] = writer[x]
    BY <1>2, Moves DEF Becomes
  <2> QED BY <2>1, <2>2, <2>3, <2>4 DEF TempsWhole
<1>3. ASSUME NEW w \in Writers, WriteFails(w) \/ ReplaceFails(w) PROVE TempsWhole'
  BY <1>3, Moves DEF WriteFails, ReplaceFails, files, Becomes, TempsWhole
<1>4. ASSUME NEW w \in Writers, Rotate(w) \/ RotateFails(w) PROVE TempsWhole'
  BY <1>4, Moves DEF Rotate, RotateFails, files, Becomes, TempsWhole
<1>5. ASSUME NEW w \in Writers, Copy(w) PROVE TempsWhole'
  <2>1. \A x \in Writers : x # w /\ AppOf(x) = AppOf(w) => writer[x].at = "idle"
    BY <1>5 DEF OneSaves, AtWork, Copy
  <2>2. /\ tmp' = tmp /\ tmp[AppOf(w)] # Torn
        /\ \A b \in Apps : b # AppOf(w) => bakTmp'[b] = bakTmp[b]
    BY <1>5 DEF Copy, TypeOK, TempsWhole
  <2>3. /\ writer'[w].at \in {"replace", "copy"}
        /\ writer'[w].at = "copy" => writer'[w].copy # Torn
        /\ \A x \in Writers : x # w => writer'[x] = writer[x]
    BY <1>5, Moves DEF Becomes, StoredIsWhole
  <2> QED BY <2>1, <2>2, <2>3 DEF TempsWhole
<1>6. ASSUME NEW w \in Writers, Copied(w) PROVE TempsWhole'
  <2>1. \A x \in Writers : x # w /\ AppOf(x) = AppOf(w) => writer[x].at = "idle"
    BY <1>6 DEF OneSaves, AtWork, Copied
  <2>2. /\ tmp' = tmp /\ tmp[AppOf(w)] # Torn
        /\ bakTmp'[AppOf(w)] # Torn
        /\ \A b \in Apps : b # AppOf(w) => bakTmp'[b] = bakTmp[b]
    BY <1>6 DEF Copied, TypeOK, TempsWhole
  <2>3. /\ writer'[w].at = "backup"
        /\ \A x \in Writers : x # w => writer'[x] = writer[x]
    BY <1>6, Moves DEF Becomes
  <2> QED BY <2>1, <2>2, <2>3 DEF TempsWhole
<1>7. ASSUME NEW w \in Writers, Backup(w) \/ BackupFails(w) PROVE TempsWhole'
  <2>1. \A x \in Writers : x # w /\ AppOf(x) = AppOf(w) => writer[x].at = "idle"
    BY <1>7 DEF OneSaves, AtWork, Backup, BackupFails
  <2>2. /\ tmp' = tmp /\ tmp[AppOf(w)] # Torn
        /\ \A b \in Apps : b # AppOf(w) => bakTmp'[b] = bakTmp[b]
    BY <1>7 DEF Backup, BackupFails, files, TypeOK, TempsWhole
  <2>3. /\ writer'[w].at = "replace"
        /\ \A x \in Writers : x # w => writer'[x] = writer[x]
    BY <1>7, Moves DEF Becomes
  <2> QED BY <2>1, <2>2, <2>3 DEF TempsWhole
<1>8. ASSUME NEW w \in Writers, Replace(w) PROVE TempsWhole'
  <2>1. \A x \in Writers : x # w /\ AppOf(x) = AppOf(w) => writer[x].at = "idle"
    BY <1>8 DEF OneSaves, AtWork, Replace
  <2>2. /\ bakTmp' = bakTmp
        /\ \A b \in Apps : b # AppOf(w) => tmp'[b] = tmp[b]
    BY <1>8 DEF Replace, TypeOK
  <2>3. /\ writer'[w].at = "idle"
        /\ \A x \in Writers : x # w => writer'[x] = writer[x]
    BY <1>8, Moves DEF Becomes
  <2> QED BY <2>1, <2>2, <2>3 DEF TempsWhole
<1>9. ASSUME NEW a \in Apps,
             Load(a) \/ LoadSpoiled(a) \/ ReadFails(a) \/ SetAside(a) \/ SetAsideFails(a)
      PROVE  TempsWhole'
  BY <1>9 DEF Load, LoadSpoiled, ReadFails, SetAside, SetAsideFails, files, TempsWhole
<1>10. ASSUME NEW a \in Apps, LoadNone(a) PROVE TempsWhole'
  <2>1. CASE legacy
    <3>1. PICK t \in Threads : Takes(<<a, t>>)
      BY <1>10, <2>1 DEF LoadNone
    <3>2. Unlocked(<<a, t>>)
      BY <1>10 DEF LoadNone, Unlocked, OneSaves, AtWork
    <3> QED BY <1>10, <3>1, <3>2, TakesKeepsTemps DEF LoadNone
  <2>2. CASE ~legacy
    BY <1>10, <2>2 DEF LoadNone, TempsWhole
  <2> QED BY <2>1, <2>2
<1>11. ASSUME NEW a \in Apps, Die(a) PROVE TempsWhole'
  BY <1>11, IdleType DEF Die, files, TempsWhole
<1>12. CASE UNCHANGED vars
  BY <1>12 DEF vars, files, TempsWhole
<1> QED BY <1>1, <1>2, <1>3, <1>4, <1>5, <1>6, <1>7, <1>8, <1>9, <1>10, <1>11, <1>12
        DEF Next

LEMMA StoredStep ==
  ASSUME WholeInv, [Next]_vars
  PROVE  StoredIsWhole'
<1> USE WriterOf, Constants DEF WholeInv, StoredIsWhole
<1>1. ASSUME NEW w \in Writers, Rotate(w) PROVE StoredIsWhole'
  <2>1. /\ writer[w].index - 1 \in 0 .. Generations - 1
        /\ bak' \in [0 .. Generations - 1 -> Stored \cup {Absent}]
        /\ \A k \in 0 .. Generations - 1 :
             bak'[k] \in {bak[k], Absent, bak[writer[w].index - 1]}
    BY <1>1, Shifted, StoreAssumption
  <2>2. \A k \in 0 .. Generations - 1 : bak[k] # Torn
    BY DEF TypeOK
  <2>3. \A k \in 0 .. Generations - 1 : bak'[k] # Torn
    BY <2>1, <2>2
  <2> QED BY <1>1, <2>1, <2>3 DEF Rotate
<1>2. ASSUME NEW w \in Writers, Backup(w) PROVE StoredIsWhole'
  <2>1. bakTmp[AppOf(w)] # Torn
    BY <1>2 DEF Backup, TempsWhole
  <2> QED BY <1>2, <2>1 DEF Backup, TypeOK
<1>3. ASSUME NEW w \in Writers, Replace(w) PROVE StoredIsWhole'
  <2>1. tmp[AppOf(w)] # Torn
    BY <1>3 DEF Replace, TempsWhole
  <2> QED BY <1>3, <2>1 DEF Replace
<1>4. ASSUME NEW a \in Apps, SetAside(a) PROVE StoredIsWhole'
  BY <1>4 DEF SetAside
<1>5. CASE UNCHANGED <<profile, bak, aside>>
  BY <1>5
<1>6. ASSUME NEW w \in Writers,
             \/ Save(w) \/ Written(w) \/ WriteFails(w) \/ RotateFails(w) \/ Copy(w)
             \/ Copied(w) \/ BackupFails(w) \/ ReplaceFails(w)
      PROVE  UNCHANGED <<profile, bak, aside>>
  BY <1>6 DEF Save, Written, WriteFails, RotateFails, Copy, Copied, BackupFails,
              ReplaceFails, files
<1>7. ASSUME NEW a \in Apps,
             \/ Load(a) \/ LoadNone(a) \/ LoadSpoiled(a) \/ ReadFails(a)
             \/ SetAsideFails(a) \/ Die(a)
      PROVE  UNCHANGED <<profile, bak, aside>>
  BY <1>7 DEF Load, LoadNone, LoadSpoiled, ReadFails, SetAsideFails, Die, files
<1>8. UNCHANGED vars => UNCHANGED <<profile, bak, aside>>
  BY DEF vars, files
<1> QED BY <1>1, <1>2, <1>3, <1>4, <1>5, <1>6, <1>7, <1>8 DEF Next

---------------------------------------------------------------------------
(* Nothing lost                                                              *)

LEMMA HistoryGrows ==
  ASSUME TypeOK, [Next]_vars
  PROVE  (~overlapped' => ~overlapped) /\ (~unkept' => ~unkept)
<1>1. ASSUME NEW w \in Writers, Takes(w) PROVE ~overlapped' => ~overlapped
  BY <1>1, Zenon DEF Takes
<1>2. ASSUME NEW w \in Writers, Save(w)
      PROVE  (~overlapped' => ~overlapped) /\ unkept' = unkept
  BY <1>1, <1>2 DEF Save
<1>3. ASSUME NEW a \in Apps, LoadNone(a)
      PROVE  (~overlapped' => ~overlapped) /\ unkept' = unkept
  BY <1>1, <1>3, WriterOf DEF LoadNone
<1>4. ASSUME NEW a \in Apps, LoadSpoiled(a) \/ ReadFails(a)
      PROVE  (~overlapped' => ~overlapped) /\ unkept' = unkept
  BY <1>4, Zenon DEF LoadSpoiled, ReadFails
<1>5. ASSUME NEW w \in Writers,
             \/ Written(w) \/ WriteFails(w) \/ Rotate(w) \/ RotateFails(w)
             \/ Copy(w) \/ Copied(w) \/ Backup(w) \/ BackupFails(w)
             \/ Replace(w) \/ ReplaceFails(w)
      PROVE  overlapped' = overlapped /\ (~unkept' => ~unkept)
  BY <1>5 DEF Written, WriteFails, Rotate, RotateFails, Copy, Copied, Backup, BackupFails,
              Replace, ReplaceFails, history
<1>6. ASSUME NEW a \in Apps, Load(a) \/ SetAside(a) \/ SetAsideFails(a) \/ Die(a)
      PROVE  overlapped' = overlapped /\ (~unkept' => ~unkept)
  BY <1>6 DEF Load, SetAside, SetAsideFails, Die, history
<1>7. CASE UNCHANGED vars
  BY <1>7 DEF vars, history
<1> QED BY <1>2, <1>3, <1>4, <1>5, <1>6, <1>7, Zenon DEF Next

LEMMA Alone ==
  ASSUME OneSaves, ~overlapped
  PROVE  /\ \A w, x \in Writers : AtWork(w) /\ AtWork(x) => x = w
         /\ \A a \in Apps, x \in Writers : app[a] = "spoiled" => ~AtWork(x)
<1>1. \A x \in Writers : AtWork(x) => Busy(AppOf(x)) /\ app[AppOf(x)] = "up"
  BY DEF Busy, AtWork, OneSaves
<1>2. \A a \in Apps : app[a] = "spoiled" => Busy(a)
  BY DEF Busy
<1> QED BY <1>1, <1>2, WriterOf DEF OneSaves

LEMMA UnreadStep ==
  ASSUME IInv, [Next]_vars, ~overlapped', ~unkept'
  PROVE  UnreadAside'
<1> USE WriterOf, Constants DEF IInv, WholeInv
<1>1. UnreadAside
  BY HistoryGrows DEF KeptInv
<1>2. ASSUME NEW w \in Writers, Replace(w) PROVE UnreadAside'
  <2>1. profile # Unreadable
    BY <1>1, <1>2 DEF Replace, OneSaves, AtWork, UnreadAside
  <2>2. tmp[AppOf(w)] # Unreadable
    BY DEF TypeOK
  <2>3. profile' # Unreadable /\ aside' = aside
    BY <1>2, <2>1, <2>2 DEF Replace
  <2>4. Unreadable \in DOMAIN gone' => Unreadable \in DOMAIN gone
    BY <1>2, <2>1, OutlivedType DEF Replace
  <2> QED BY <1>1, <2>3, <2>4 DEF UnreadAside
<1>3. ASSUME NEW a \in Apps, Load(a) \/ LoadNone(a) PROVE UnreadAside'
  <2>1. profile' # Unreadable /\ gone' = gone /\ aside' = aside
    BY <1>3 DEF Load, LoadNone, Readable, Unreadable, Absent, files, history
  <2> QED BY <1>1, <2>1 DEF UnreadAside
<1>4. ASSUME NEW a \in Apps, SetAside(a) PROVE UnreadAside'
  <2>1. Unreadable \in DOMAIN gone' => Unreadable \in DOMAIN gone \cup {profile}
    BY <1>4, OutlivedType DEF SetAside
  <2> QED BY <1>1, <1>4, <2>1 DEF SetAside, UnreadAside
<1>5. ASSUME NEW a \in Apps, LoadSpoiled(a) \/ ReadFails(a) \/ Die(a) PROVE UnreadAside'
  <2>1. \A b \in Apps : app'[b] = "up" => app[b] = "up"
    BY <1>5 DEF LoadSpoiled, ReadFails, Die, Finds, TypeOK
  <2>2. UNCHANGED <<profile, aside, gone>>
    BY <1>5 DEF LoadSpoiled, ReadFails, Die, files, history
  <2> QED BY <1>1, <2>1, <2>2 DEF UnreadAside
<1>6. ASSUME NEW w \in Writers,
             \/ Save(w) \/ Written(w) \/ WriteFails(w) \/ Rotate(w) \/ RotateFails(w)
             \/ Copy(w) \/ Copied(w) \/ Backup(w) \/ BackupFails(w) \/ ReplaceFails(w)
      PROVE  UnreadAside'
  <2>1. UNCHANGED <<profile, aside, gone, app>>
    BY <1>6 DEF Save, Written, WriteFails, Rotate, RotateFails, Copy, Copied, Backup,
                BackupFails, ReplaceFails, files, history
  <2> QED BY <1>1, <2>1 DEF UnreadAside
<1>7. CASE UNCHANGED vars
  BY <1>1, <1>7 DEF vars, files, history, UnreadAside
<1>8. ASSUME NEW a \in Apps, SetAsideFails(a) PROVE FALSE
  BY <1>8 DEF SetAsideFails
<1> QED BY <1>2, <1>3, <1>4, <1>5, <1>6, <1>7, <1>8 DEF Next

(* Steps that leave the files and the saves begun alone.                     *)
LEMMA QuietKeeps ==
  ASSUME BackedUp, RoomMade, InPlace,
         UNCHANGED <<profile, bak, bakTmp, aside, begun, gone>>,
         \A x \in Writers : writer'[x] = writer[x] \/ writer'[x].at = "idle"
  PROVE  BackedUp' /\ RoomMade' /\ InPlace'
<1>1. BackedUp' /\ RoomMade'
  BY WriterOf DEF BackedUp, RoomMade
<1>2. \A x \in Writers, i \in 0 .. Generations - 1 : Unshifted(x, i)' => Unshifted(x, i)
  BY DEF Unshifted
<1>3. \A v : Placed(v) => Placed(v)'
  BY <1>2 DEF Placed
<1> QED BY <1>1, <1>3 DEF InPlace

LEMMA TakesKeeps ==
  ASSUME TypeOK, InPlace, NEW w \in Writers, Takes(w),
         \A x \in Writers : ~AtWork(x),
         UNCHANGED <<profile, bak, bakTmp, aside, gone>>
  PROVE  BackedUp' /\ RoomMade' /\ InPlace'
<1>1. Becomes(w, "write", 0, Absent) /\ begun' = begun + 1
  BY TakesType
<1>2. \A x \in Writers : writer'[x].at \in {"idle", "write"}
  BY <1>1 DEF Becomes, AtWork
<1>3. BackedUp' /\ RoomMade'
  BY <1>2 DEF BackedUp, RoomMade
<1>4. ASSUME NEW v \in DOMAIN gone, begun' - gone[v] < Generations PROVE Placed(v)'
  <2>1. gone[v] \in Int /\ begun \in Int
    BY StoreAssumption DEF TypeOK, Contents
  <2>2. Placed(v)
    BY <1>1, <1>4, <2>1, StoreAssumption DEF InPlace
  <2> QED BY <1>1, <2>1, <2>2 DEF Placed
<1> QED BY <1>3, <1>4 DEF InPlace

(* The steps of the one save that is under way.                              *)
Sole(w) == \A x \in Writers : x # w => writer[x].at = "idle"

LEMMA PlacedAt ==
  ASSUME TypeOK, InPlace, NEW v \in DOMAIN gone, begun - gone[v] < Generations,
         v \notin aside
  PROVE  /\ gone[v] \in Int /\ begun \in Int /\ v # Absent
         /\ \E i \in 0 .. Generations - 1 :
              /\ bak[i] = v /\ gone[v] + i <= begun
              /\ \A w \in Writers : Unshifted(w, i) => gone[v] + i < begun
  BY StoreAssumption, Constants DEF TypeOK, InPlace, Placed, Contents

LEMMA WrittenKeeps ==
  ASSUME TypeOK, BackedUp, RoomMade, InPlace, NEW w \in Writers, Sole(w), Written(w)
  PROVE  BackedUp' /\ RoomMade' /\ InPlace'
<1>1. Becomes(w, IF profile = Absent THEN "replace" ELSE "rotate",
              Generations - 1, writer[w].copy)
  BY Moves
<1>2. /\ \/ writer'[w].at = "rotate" /\ writer'[w].index = Generations - 1
         \/ writer'[w].at = "replace" /\ profile = Absent
      /\ \A x \in Writers : x # w => writer'[x].at = "idle"
  <2>1. CASE profile = Absent
    BY <1>1, <2>1 DEF Becomes, Sole
  <2>2. CASE profile # Absent
    <3>1. Becomes(w, "rotate", Generations - 1, writer[w].copy)
      BY <1>1, <2>2
    <3> QED BY <3>1 DEF Becomes, Sole
  <2> QED BY <2>1, <2>2
<1>3. UNCHANGED <<profile, bak, aside, begun, gone>>
  BY DEF Written, history
<1>4. BackedUp' /\ RoomMade'
  BY <1>2, <1>3, StoreAssumption DEF BackedUp, RoomMade
<1>5. \A x \in Writers, i \in 0 .. Generations - 1 : Unshifted(x, i)' => Unshifted(w, i)
  BY <1>2 DEF Unshifted, Written
<1>6. \A v : Placed(v) => Placed(v)'
  BY <1>3, <1>5 DEF Placed
<1> QED BY <1>3, <1>4, <1>6 DEF InPlace

LEMMA RotateKeeps ==
  ASSUME TypeOK, BackedUp, RoomMade, InPlace, NEW w \in Writers, Sole(w), Rotate(w)
  PROVE  BackedUp' /\ RoomMade' /\ InPlace'
<1>1. PICK i \in 1 .. Generations - 1 :
      /\ i = writer[w].index
      /\ \A k \in 0 .. Generations - 1 :
           bak'[k] = IF bak[i - 1] = Absent THEN bak[k]
                     ELSE IF k = i - 1 THEN Absent
                     ELSE IF k = i THEN bak[i - 1] ELSE bak[k]
  BY Shifted
<1>2. /\ writer'[w].at = "rotate" /\ writer'[w].index = i - 1
      /\ \A x \in Writers : x # w => writer'[x].at = "idle"
  BY <1>1, Moves DEF Becomes, Sole
<1>3. UNCHANGED <<profile, aside, begun, gone>> /\ writer[w].at = "rotate"
  BY DEF Rotate, history
<1>4. /\ \A k \in 0 .. Generations - 1 : Unshifted(w, k) <=> k <= i
      /\ \A x \in Writers, k \in 0 .. Generations - 1 :
           Unshifted(x, k)' <=> x = w /\ k <= i - 1
  BY <1>1, <1>2, <1>3 DEF Unshifted
<1>5. i < Generations - 1 => bak[i] = Absent
  BY <1>1, <1>3 DEF RoomMade
<1>6. bak'[i - 1] = Absent
  BY <1>1, StoreAssumption
<1>7. BackedUp' /\ RoomMade'
  BY <1>2, <1>6 DEF BackedUp, RoomMade
<1>8. ASSUME NEW v \in DOMAIN gone, begun - gone[v] < Generations, v \notin aside
      PROVE  Placed(v)'
  <2>1. gone[v] \in Int /\ begun \in Int /\ v # Absent
    BY <1>8, PlacedAt
  <2>2. PICK j \in 0 .. Generations - 1 :
          /\ bak[j] = v /\ gone[v] + j <= begun
          /\ Unshifted(w, j) => gone[v] + j < begun
    BY <1>8, PlacedAt
  <2>3. j # i
    BY <1>1, <1>4, <1>5, <1>8, <2>1, <2>2, StoreAssumption
  <2>4. CASE j = i - 1
    <3>1. bak'[i] = v /\ i \in 0 .. Generations - 1
      BY <1>1, <2>1, <2>2, <2>4, StoreAssumption
    <3>2. gone[v] + i <= begun
      BY <1>1, <1>4, <2>1, <2>2, <2>4
    <3>3. \A x \in Writers : ~Unshifted(x, i)'
      BY <1>1, <1>4, <3>1, StoreAssumption
    <3> QED BY <1>3, <3>1, <3>2, <3>3 DEF Placed
  <2>5. CASE j # i - 1
    <3>1. bak'[j] = v
      BY <1>1, <2>2, <2>3, <2>5
    <3>2. \A x \in Writers : Unshifted(x, j)' => gone[v] + j < begun
      BY <1>1, <1>4, <2>2
    <3> QED BY <1>3, <2>2, <3>1, <3>2 DEF Placed
  <2> QED BY <2>4, <2>5
<1>9. \A v \in aside : Placed(v)'
  BY <1>3 DEF Placed
<1> QED BY <1>3, <1>7, <1>8, <1>9 DEF InPlace

LEMMA CopyKeeps ==
  ASSUME TypeOK, BackedUp, RoomMade, InPlace, NEW w \in Writers, Sole(w),
         Copy(w) \/ Copied(w)
  PROVE  BackedUp' /\ RoomMade' /\ InPlace'
<1>1. /\ UNCHANGED <<profile, bak, aside, begun, gone>>
      /\ writer[w].at \in {"rotate", "copy"} /\ writer[w].index = 0
  BY DEF Copy, Copied, history, BackedUp
<1>2. /\ \/ writer'[w].at = "replace" /\ profile = Absent
         \/ writer'[w].at = "copy" /\ writer'[w].copy = profile /\ writer'[w].index = 0
         \/ /\ writer'[w].at = "backup" /\ writer'[w].index = 0
            /\ bakTmp'[AppOf(w)] = profile
      /\ \A x \in Writers : x # w => writer'[x].at = "idle"
  <2>1. CASE Copy(w)
    BY <2>1, Moves DEF Becomes, Sole
  <2>2. CASE Copied(w)
    <3>1. writer[w].copy = profile /\ AppOf(w) \in Apps
      BY <2>2, WriterOf DEF Copied, BackedUp
    <3>2. bakTmp'[AppOf(w)] = profile
      BY <2>2, <3>1 DEF Copied, TypeOK
    <3> QED BY <1>1, <2>2, <3>2, Moves DEF Becomes, Sole
  <2> QED BY <2>1, <2>2
<1>3. BackedUp'
  BY <1>1, <1>2 DEF BackedUp
<1>4. RoomMade'
  BY <1>1, <1>2 DEF RoomMade
<1>5. \A x \in Writers, i \in 0 .. Generations - 1 : Unshifted(x, i)' => Unshifted(w, i)
  BY <1>1, <1>2 DEF Unshifted
<1>6. \A v : Placed(v) => Placed(v)'
  BY <1>1, <1>5 DEF Placed
<1> QED BY <1>1, <1>3, <1>4, <1>6 DEF InPlace

LEMMA BackupKeeps ==
  ASSUME TypeOK, BackedUp, RoomMade, InPlace, NEW w \in Writers, Sole(w), Backup(w)
  PROVE  BackedUp' /\ RoomMade' /\ InPlace'
<1>1. /\ UNCHANGED <<profile, aside, begun, gone>>
      /\ writer[w].at = "backup" /\ writer[w].index = 0
      /\ bakTmp[AppOf(w)] = profile
  BY DEF Backup, history, BackedUp
<1>2. /\ bak'[0] = profile
      /\ \A k \in 1 .. Generations - 1 : bak'[k] = bak[k]
  BY <1>1, StoreAssumption DEF Backup, TypeOK
<1>3. /\ writer'[w].at = "replace"
      /\ \A x \in Writers : x # w => writer'[x].at = "idle"
  BY Moves DEF Becomes, Sole
<1>4. BackedUp' /\ RoomMade'
  BY <1>1, <1>2, <1>3 DEF BackedUp, RoomMade
<1>5. \A x \in Writers, i \in 0 .. Generations - 1 : ~Unshifted(x, i)'
  BY <1>3 DEF Unshifted
<1>6. ASSUME NEW v \in DOMAIN gone, begun - gone[v] < Generations, v \notin aside
      PROVE  Placed(v)'
  <2>1. gone[v] \in Int /\ begun \in Int /\ v # Absent
    BY <1>6, PlacedAt
  <2>2. PICK j \in 0 .. Generations - 1 :
          /\ bak[j] = v /\ gone[v] + j <= begun
          /\ Unshifted(w, j) => gone[v] + j < begun
    BY <1>6, PlacedAt
  <2>3. j # 0
    <3>1. Unshifted(w, 0)
      BY <1>1 DEF Unshifted
    <3>2. Generations > 1 => bak[0] = Absent
      BY <1>1, StoreAssumption DEF RoomMade
    <3> QED BY <1>6, <2>1, <2>2, <3>1, <3>2, StoreAssumption
  <2> QED BY <1>1, <1>2, <1>5, <2>2, <2>3 DEF Placed
<1>7. \A v \in aside : Placed(v)'
  BY <1>1 DEF Placed
<1> QED BY <1>1, <1>4, <1>6, <1>7 DEF InPlace

LEMMA ReplaceKeeps ==
  ASSUME TypeOK, BackedUp, RoomMade, InPlace, NEW w \in Writers, Sole(w), Replace(w)
  PROVE  BackedUp' /\ RoomMade' /\ InPlace'
<1>1. \A x \in Writers : writer'[x].at = "idle"
  BY Moves DEF Becomes, Sole
<1>2. UNCHANGED <<bak, aside, begun>> /\ profile \in {Absent, bak[0]}
  BY DEF Replace, BackedUp
<1>3. BackedUp' /\ RoomMade'
  BY <1>1 DEF BackedUp, RoomMade
<1>4. \A x \in Writers, i \in 0 .. Generations - 1 : ~Unshifted(x, i)'
  BY <1>1 DEF Unshifted
<1>5. \A v \in DOMAIN gone' :
        \/ v \in DOMAIN gone /\ gone'[v] = gone[v]
        \/ v = profile /\ v # Absent /\ gone'[v] = begun
  BY OutlivedType, Constants DEF Replace, TypeOK
<1>6. ASSUME NEW v \in DOMAIN gone, gone'[v] = gone[v], begun - gone[v] < Generations
      PROVE  Placed(v)'
  <2>1. Placed(v)
    BY <1>6 DEF InPlace
  <2> QED BY <1>2, <1>4, <1>6, <2>1 DEF Placed
<1>7. ASSUME NEW v, v = profile, v # Absent, gone'[v] = begun
      PROVE  Placed(v)'
  <2>1. begun + 0 <= begun /\ 0 \in 0 .. Generations - 1
    BY StoreAssumption DEF TypeOK, Contents
  <2>2. bak'[0] = v /\ gone'[v] + 0 <= begun'
    BY <1>2, <1>7, <2>1
  <2> QED BY <1>4, <2>1, <2>2 DEF Placed
<1> QED BY <1>2, <1>3, <1>5, <1>6, <1>7 DEF InPlace

LEMMA SetAsideKeeps ==
  ASSUME TypeOK, InPlace, NEW a \in Apps, SetAside(a),
         \A x \in Writers : ~AtWork(x)
  PROVE  BackedUp' /\ RoomMade' /\ InPlace'
<1>1. UNCHANGED <<bak, writer, begun>> /\ aside' = aside \cup ({profile} \ {Absent})
  BY DEF SetAside
<1>2. BackedUp' /\ RoomMade'
  BY <1>1 DEF BackedUp, RoomMade, AtWork
<1>3. \A v \in DOMAIN gone' :
        \/ v \in DOMAIN gone /\ gone'[v] = gone[v]
        \/ v \in aside'
  BY <1>1, OutlivedType, Constants DEF SetAside, TypeOK
<1>4. \A x \in Writers, i \in 0 .. Generations - 1 : ~Unshifted(x, i)'
  BY <1>1 DEF Unshifted, AtWork
<1>5. ASSUME NEW v \in DOMAIN gone, gone'[v] = gone[v], begun - gone[v] < Generations
      PROVE  Placed(v)'
  <2>1. Placed(v)
    BY <1>5 DEF InPlace
  <2> QED BY <1>1, <1>4, <1>5, <2>1 DEF Placed
<1>6. \A v \in aside' : Placed(v)'
  BY DEF Placed
<1> QED BY <1>1, <1>2, <1>3, <1>5, <1>6 DEF InPlace

LEMMA KeptStep ==
  ASSUME IInv, [Next]_vars, ~overlapped', ~unkept'
  PROVE  BackedUp' /\ RoomMade' /\ InPlace'
<1> USE WriterOf DEF IInv, WholeInv
<1>1. ~overlapped /\ BackedUp /\ RoomMade /\ InPlace
  BY HistoryGrows DEF KeptInv
<1>2. \A w \in Writers : AtWork(w) => Sole(w)
  BY <1>1, Alone DEF Sole, AtWork
<1>3. ASSUME NEW w \in Writers, Takes(w), Unlocked(w), app[AppOf(w)] # "spoiled"
      PROVE  \A x \in Writers : ~AtWork(x)
  <2>1. \A b \in Apps : b # AppOf(w) => ~Busy(b)
    BY <1>3, Zenon DEF Takes, Others
  <2> QED BY <1>3, <2>1 DEF Unlocked, Busy, AtWork
<1>4. ASSUME NEW w \in Writers, Save(w) PROVE BackedUp' /\ RoomMade' /\ InPlace'
  <2>1. \A x \in Writers : ~AtWork(x)
    BY <1>3, <1>4 DEF Save
  <2> QED BY <1>1, <1>4, <2>1, TakesKeeps DEF Save
<1>5. ASSUME NEW w \in Writers, Written(w) PROVE BackedUp' /\ RoomMade' /\ InPlace'
  BY <1>1, <1>2, <1>5, WrittenKeeps DEF AtWork, Written
<1>6. ASSUME NEW w \in Writers, Rotate(w) PROVE BackedUp' /\ RoomMade' /\ InPlace'
  BY <1>1, <1>2, <1>6, RotateKeeps DEF AtWork, Rotate
<1>7. ASSUME NEW w \in Writers, Copy(w) \/ Copied(w) PROVE BackedUp' /\ RoomMade' /\ InPlace'
  BY <1>1, <1>2, <1>7, CopyKeeps DEF AtWork, Copy, Copied
<1>8. ASSUME NEW w \in Writers, Backup(w) PROVE BackedUp' /\ RoomMade' /\ InPlace'
  BY <1>1, <1>2, <1>8, BackupKeeps DEF AtWork, Backup
<1>9. ASSUME NEW w \in Writers, Replace(w) PROVE BackedUp' /\ RoomMade' /\ InPlace'
  BY <1>1, <1>2, <1>9, ReplaceKeeps DEF AtWork, Replace
<1>10. ASSUME NEW w \in Writers, WriteFails(w) \/ ReplaceFails(w)
       PROVE  BackedUp' /\ RoomMade' /\ InPlace'
  <2>1. \A x \in Writers : writer'[x] = writer[x] \/ writer'[x].at = "idle"
    BY <1>10, Moves DEF Becomes
  <2> QED BY <1>1, <1>10, <2>1, QuietKeeps DEF WriteFails, ReplaceFails, files, history
<1>11. ASSUME NEW w \in Writers, RotateFails(w) \/ BackupFails(w) PROVE FALSE
  BY <1>11 DEF RotateFails, BackupFails
<1>12. ASSUME NEW a \in Apps, Load(a) \/ LoadSpoiled(a) \/ ReadFails(a)
       PROVE  BackedUp' /\ RoomMade' /\ InPlace'
  BY <1>1, <1>12, QuietKeeps DEF Load, LoadSpoiled, ReadFails, files, history
<1>13. ASSUME NEW a \in Apps, LoadNone(a) PROVE BackedUp' /\ RoomMade' /\ InPlace'
  <2>1. CASE legacy
    <3>1. PICK t \in Threads : Takes(<<a, t>>)
      BY <1>13, <2>1 DEF LoadNone
    <3>2. Unlocked(<<a, t>>)
      BY <1>13 DEF LoadNone, Unlocked, OneSaves, AtWork
    <3>3. \A x \in Writers : ~AtWork(x)
      BY <1>3, <1>13, <3>1, <3>2 DEF LoadNone
    <3> QED BY <1>1, <1>13, <3>1, <3>3, TakesKeeps DEF LoadNone
  <2>2. CASE ~legacy
    BY <1>1, <1>13, <2>2, QuietKeeps DEF LoadNone
  <2> QED BY <2>1, <2>2
<1>14. ASSUME NEW a \in Apps, SetAside(a) PROVE BackedUp' /\ RoomMade' /\ InPlace'
  <2>1. \A x \in Writers : ~AtWork(x)
    BY <1>1, <1>14, Alone DEF SetAside
  <2> QED BY <1>1, <1>14, <2>1, SetAsideKeeps
<1>15. ASSUME NEW a \in Apps, SetAsideFails(a) PROVE FALSE
  BY <1>15 DEF SetAsideFails
<1>16. ASSUME NEW a \in Apps, Die(a) PROVE BackedUp' /\ RoomMade' /\ InPlace'
  <2>1. \A x \in Writers : writer'[x] = writer[x] \/ writer'[x].at = "idle"
    BY <1>16, IdleType DEF Die
  <2> QED BY <1>1, <1>16, <2>1, QuietKeeps DEF Die, files, history
<1>17. CASE UNCHANGED vars
  BY <1>1, <1>17, QuietKeeps DEF vars, files, history
<1> QED BY <1>4, <1>5, <1>6, <1>7, <1>8, <1>9, <1>10, <1>11, <1>12, <1>13, <1>14, <1>15,
           <1>16, <1>17 DEF Next

---------------------------------------------------------------------------
(* The theorems                                                              *)

LEMMA InitInv == ASSUME Init PROVE IInv
<1> USE StoreAssumption, IdleType, WriterOf, Constants DEF Init
<1>1. TypeOK
  <2>1. writer \in [Writers -> Writer] /\ app \in [Apps -> {"down", "spoiled", "up"}]
    OBVIOUS
  <2>2. /\ tmp \in [Apps -> Contents \cup {Absent, Torn}]
        /\ bakTmp \in [Apps -> Stored \cup {Absent}]
        /\ bak \in [0 .. Generations - 1 -> Stored \cup {Absent}]
    OBVIOUS
  <2>3. DOMAIN gone = {}
    OBVIOUS
  <2>4. 0 \in Contents
    BY DEF Contents
  <2> QED BY <2>1, <2>2, <2>3, <2>4 DEF TypeOK, Stored
<1>2. OneSaves
  BY DEF OneSaves, AtWork, Busy
<1>3. TempsWhole /\ BackedUp /\ RoomMade
  BY DEF TempsWhole, BackedUp, RoomMade
<1>4. StoredIsWhole
  BY Constants, SMT DEF StoredIsWhole, Absent, Torn, Unreadable
<1>5. InPlace /\ UnreadAside
  BY DEF InPlace, UnreadAside
<1> QED BY <1>1, <1>2, <1>3, <1>4, <1>5 DEF IInv, WholeInv, KeptInv

LEMMA StepInv == ASSUME IInv, [Next]_vars PROVE IInv'
<1>1. WholeInv'
  BY TypeStep, OneSavesStep, TempsStep, StoredStep DEF IInv, WholeInv
<1>2. KeptInv'
  BY KeptStep, UnreadStep DEF KeptInv
<1> QED BY <1>1, <1>2 DEF IInv

LEMMA Invariance == Spec => []IInv
<1>1. Init => IInv
  BY InitInv
<1>2. IInv /\ [Next]_vars => IInv'
  BY StepInv
<1> QED BY <1>1, <1>2, PTL DEF Spec

(* Every variable keeps its type: a backup is a content, an index a generation. *)
THEOREM TypeCorrect == Spec => []TypeOK
<1>1. IInv => TypeOK
  BY DEF IInv, WholeInv
<1> QED BY <1>1, Invariance, PTL

(* No file that a load or a recovery may read is ever half written, for any     *)
(* number of apps, of threads that save in them and of generations, at          *)
(* whichever file operation an app dies and whatever fails (_write_profile,     *)
(* _rotate_backups, _quarantine).                                               *)
THEOREM StoresWhole == Spec => []StoredIsWhole
<1>1. IInv => StoredIsWhole
  BY DEF IInv, WholeInv
<1> QED BY <1>1, Invariance, PTL

(* In one app only one thread is ever between the operations of a save, and only *)
(* once the app is up (_WRITE_LOCK, load_profile).                               *)
THEOREM OneAtATime == Spec => []OneSaves
<1>1. IInv => OneSaves
  BY DEF IInv, WholeInv
<1> QED BY <1>1, Invariance, PTL

(* However many generations are kept, a profile that is replaced survives until  *)
(* as many saves have begun since, and one that could not be read for good, as   *)
(* long as no two apps are at the files at once and no backup or set-aside fails: *)
(* an app that dies between two renames, or over and over, loses nothing.        *)
THEOREM LosesNothing == Spec => []NothingLost
<1>1. IInv => NothingLost
  <2> SUFFICES ASSUME IInv, ~overlapped, ~unkept
               PROVE  /\ \A v \in DOMAIN gone : begun - gone[v] < Generations => v \in Kept
                      /\ Unreadable \in DOMAIN gone => Unreadable \in aside
    BY DEF NothingLost
  <2>1. InPlace /\ UnreadAside /\ DOMAIN bak = 0 .. Generations - 1
    BY DEF IInv, WholeInv, KeptInv, TypeOK
  <2>2. \A v : Placed(v) => v \in Kept
    BY <2>1 DEF Placed, Kept
  <2> QED BY <2>1, <2>2 DEF InPlace, UnreadAside
<1> QED BY <1>1, Invariance, PTL

=============================================================================
