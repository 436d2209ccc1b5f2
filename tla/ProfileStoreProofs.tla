------------------------- MODULE ProfileStoreProofs -------------------------
(* What module ProfileStore keeps for a profile of any size, whatever the    *)
(* flash does and wherever the power goes.                                   *)
EXTENDS ProfileStore, TLAPS

Writing == {"zero", "body", "magic", "bright", "crcLo", "crcHi", "flush", "rename"}

(* How far the job has come, and that a commit installs the transfer whose   *)
(* CRC was checked.                                                          *)
JobInv ==
  /\ pc \in {"off", "idle"} => job = Nothing /\ verb = "none"
  /\ pc \in Writing => job \in Body /\ verb # "none"
  /\ pc = "zero" => verb \in {"boot", "reset"}
  /\ verb = "save" => pc \in Writing \ {"zero", "body"}
  /\ verb = "commit" => stage.declared = job
  /\ pc = "body" => \A p \in Piece : p < piece => store.body[p] = job[p]
  /\ pc \in Writing \ {"zero", "body"} => store.body = job
  /\ pc \in Writing \ {"zero", "body", "magic"} => store.magic
  /\ pc \in {"crcHi", "flush", "rename"} => store.crcLo = job
  /\ pc \in {"flush", "rename"} => store.crcHi = job
  /\ pc = "idle" => Valid(store)

(* The image in RAM and the files.                                           *)
DiskInv ==
  /\ mounted \/ dirty => emulated
  /\ mounted /\ ~dirty => store = file \/ ~store.magic
  /\ pc = "rename" => temp = store

IInv == TypeOK /\ JobInv /\ DiskInv

---------------------------------------------------------------------------
(* The images                                                                *)

LEMMA BlankType == Blank \in Image /\ Zeroes \in Body
  BY StoreAssumption DEF Blank, Image, Zeroes, Body

LEMMA BodyFields ==
  ASSUME NEW image \in Image, NEW p \in Piece, NEW v \in VALUES
  PROVE  LET after == [image EXCEPT !.body[p] = v] IN
         /\ after \in Image
         /\ after.body = [image.body EXCEPT ![p] = v]
         /\ after.magic = image.magic /\ after.crcLo = image.crcLo
         /\ after.crcHi = image.crcHi
<1> DEFINE new == [image.body EXCEPT ![p] = v]
           after == [image EXCEPT !.body = new]
<1>1. image.body \in Body
  BY DEF Image
<1>2. new \in Body
  BY <1>1 DEF Body
<1>3. [image EXCEPT !.body[p] = v] = after
  OBVIOUS
<1> HIDE DEF new
<1>4. /\ after \in Image
      /\ after.body = new
      /\ after.magic = image.magic /\ after.crcLo = image.crcLo
      /\ after.crcHi = image.crcHi
  BY <1>2 DEF Image
<1> QED BY <1>3, <1>4 DEF new

LEMMA HeaderFields ==
  ASSUME NEW image \in Image, NEW b \in BRIGHT, NEW crc \in Body
  PROVE  /\ LET after == [image EXCEPT !.magic = TRUE] IN
            /\ after \in Image /\ after.magic
            /\ after.body = image.body /\ after.crcLo = image.crcLo
            /\ after.crcHi = image.crcHi
         /\ LET after == [image EXCEPT !.bright = b] IN
            /\ after \in Image /\ after.magic = image.magic
            /\ after.body = image.body /\ after.crcLo = image.crcLo
            /\ after.crcHi = image.crcHi
         /\ LET after == [image EXCEPT !.crcLo = crc] IN
            /\ after \in Image /\ after.magic = image.magic
            /\ after.body = image.body /\ after.crcLo = crc
            /\ after.crcHi = image.crcHi
         /\ LET after == [image EXCEPT !.crcHi = crc] IN
            /\ after \in Image /\ after.magic = image.magic
            /\ after.body = image.body /\ after.crcLo = image.crcLo
            /\ after.crcHi = crc
  BY DEF Image

LEMMA NewStageType ==
  ASSUME NEW declared \in Body
  PROVE  /\ NoStage \in Stage
         /\ [NoStage EXCEPT !.open = TRUE, !.declared = declared] \in Stage
<1>1. NoStage \in Stage
  BY BlankType, StoreAssumption DEF NoStage, Stage
<1>2. [NoStage EXCEPT !.open = TRUE, !.declared = declared] \in Stage
  BY <1>1 DEF Stage
<1> QED BY <1>1, <1>2

LEMMA ChunkType ==
  ASSUME NEW s \in Stage, NEW p \in Piece, NEW value \in VALUES,
         NEW tunable \in BRIGHT
  PROVE  [s EXCEPT !.body = [s.body EXCEPT ![p] = value],
                   !.bright = IF p = 1 THEN tunable ELSE s.bright,
                   !.received = (s.received + 1) % RECEIVED_MOD] \in Stage
<1> DEFINE body == [s.body EXCEPT ![p] = value]
           b == IF p = 1 THEN tunable ELSE s.bright
           received == (s.received + 1) % RECEIVED_MOD
<1>1. body \in Body
  BY DEF Stage, Body
<1>2. b \in BRIGHT
  BY DEF Stage
<1>3. received \in 0 .. RECEIVED_MOD - 1
  BY StoreAssumption DEF Stage
<1>4. [s EXCEPT !.body = [s.body EXCEPT ![p] = value],
                !.bright = IF p = 1 THEN tunable ELSE s.bright,
                !.received = (s.received + 1) % RECEIVED_MOD]
        = [s EXCEPT !.body = body, !.bright = b, !.received = received]
  OBVIOUS
<1> HIDE DEF body, b, received
<1>5. [s EXCEPT !.body = body, !.bright = b, !.received = received] \in Stage
  BY <1>1, <1>2, <1>3, Zenon DEF Stage
<1> QED BY <1>4, <1>5

---------------------------------------------------------------------------
(* The invariant                                                             *)

LEMMA InitInv == ASSUME Init PROVE IInv
<1>1. NoStage \in Stage /\ 1 \in Piece
  BY BlankType, StoreAssumption DEF NoStage, Stage, Piece
<1>2. TypeOK
  BY <1>1, BlankType, StoreAssumption DEF Init, TypeOK
<1>3. JobInv
  BY DEF Init, JobInv, Writing
<1>4. DiskInv
  BY DEF Init, DiskInv
<1> QED BY <1>2, <1>3, <1>4 DEF IInv

LEMMA PowerOnStep ==
  ASSUME IInv, PowerOn
  PROVE  IInv'
<1>1. PICK mounts \in BOOLEAN, reads \in BOOLEAN :
        LET image == IF ~emulated THEN store
                     ELSE IF mounts /\ reads THEN file ELSE Blank
        IN /\ mounted' = (emulated /\ mounts)
           /\ faulty' = (faulty \/ (emulated /\ ~(mounts /\ reads)))
           /\ store' = image
           /\ IF Valid(image)
              THEN /\ bright' = image.bright
                   /\ pixel' = image.bright
                   /\ pc' = "idle"
                   /\ UNCHANGED <<piece, job, verb>>
              ELSE /\ Begin("boot", DEFAULTS)
                   /\ UNCHANGED <<bright, pixel>>
  BY DEF PowerOn
<1>2. /\ store' \in {store, file, Blank} /\ store' \in Image
      /\ emulated /\ mounted' => store' = file \/ store' = Blank
      /\ mounted' \in BOOLEAN /\ mounted' => emulated
  BY <1>1, BlankType DEF IInv, TypeOK
<1>3. CASE Valid(store')
  <2>1. /\ pc' = "idle" /\ piece' = piece /\ job' = job /\ verb' = verb
        /\ bright' = store'.bright /\ pixel' = store'.bright
    BY <1>1, <1>3
  <2>2. store'.bright \in BRIGHT
    BY <1>2 DEF Image
  <2>3. TypeOK'
    BY <1>1, <1>2, <2>1, <2>2 DEF PowerOn, IInv, TypeOK
  <2>4. JobInv'
    BY <1>3, <2>1 DEF PowerOn, IInv, JobInv, Writing
  <2>5. DiskInv'
    BY <1>2, <2>1 DEF PowerOn, IInv, DiskInv, Blank
  <2> QED BY <2>3, <2>4, <2>5 DEF IInv
<1>4. CASE ~Valid(store')
  <2>1. /\ Begin("boot", DEFAULTS) /\ bright' = bright /\ pixel' = pixel
    BY <1>1, <1>4
  <2>2. pc' = "zero" /\ piece' = 1 /\ job' = DEFAULTS /\ verb' = "boot"
    BY <2>1 DEF Begin
  <2>3. DEFAULTS \in Body /\ 1 \in Piece
    BY StoreAssumption DEF Body, Piece
  <2>4. TypeOK'
    BY <1>1, <1>2, <2>1, <2>2, <2>3 DEF PowerOn, IInv, TypeOK
  <2>5. JobInv'
    BY <2>2, <2>3 DEF JobInv, Writing
  <2>6. DiskInv'
    BY <1>2, <2>2 DEF PowerOn, IInv, DiskInv, Blank
  <2> QED BY <2>4, <2>5, <2>6 DEF IInv
<1> QED BY <1>3, <1>4

LEMMA PowerLossStep ==
  ASSUME IInv, PowerLoss
  PROVE  IInv'
<1>1. store' \in Image /\ NoStage \in Stage /\ 1 \in Piece
  BY BlankType, StoreAssumption
     DEF PowerLoss, IInv, TypeOK, NoStage, Stage, Piece
<1>2. TypeOK'
  BY <1>1, StoreAssumption DEF PowerLoss, IInv, TypeOK
<1>3. JobInv' /\ DiskInv'
  BY DEF PowerLoss, JobInv, DiskInv, Writing
<1> QED BY <1>2, <1>3 DEF IInv

(* The verbs that leave the store alone.                                     *)
LEMMA TransferStep ==
  ASSUME IInv, StageBegin \/ StageChunk \/ StageDrop \/ SetBrightness
  PROVE  IInv'
<1>1. /\ pc = "idle" /\ UNCHANGED <<emulated, diskVars, acked, jobVars, faulty>>
      /\ verb = "none"
  BY DEF StageBegin, StageChunk, StageDrop, SetBrightness, Idle, IInv, JobInv
<1>2. stage' \in Stage /\ bright' \in BRIGHT /\ pixel' \in BRIGHT
  <2>0. stage \in Stage /\ bright \in BRIGHT /\ pixel \in BRIGHT
    BY DEF IInv, TypeOK
  <2>1. CASE StageBegin
    <3>1. PICK declared \in Body, allocated \in BOOLEAN :
            stage' = IF allocated
                     THEN [NoStage EXCEPT !.open = TRUE, !.declared = declared]
                     ELSE NoStage
      BY <2>1 DEF StageBegin
    <3>2. /\ NoStage \in Stage
          /\ [NoStage EXCEPT !.open = TRUE, !.declared = declared] \in Stage
      BY NewStageType
    <3> QED BY <2>0, <2>1, <3>1, <3>2 DEF StageBegin
  <2>2. CASE StageChunk
    <3>1. PICK p \in Piece, value \in VALUES, tunable \in BRIGHT :
            stage' = [stage EXCEPT
              !.body = [stage.body EXCEPT ![p] = value],
              !.bright = IF p = 1 THEN tunable ELSE stage.bright,
              !.received = (stage.received + 1) % RECEIVED_MOD]
      BY <2>2 DEF StageChunk
    <3>2. stage' \in Stage
      BY <2>0, <3>1, ChunkType
    <3> QED BY <2>0, <2>2, <3>2 DEF StageChunk
  <2>3. CASE StageDrop
    BY <2>0, <2>3, BlankType, StoreAssumption DEF StageDrop, NoStage, Stage
  <2>4. CASE SetBrightness
    BY <2>0, <2>4 DEF SetBrightness
  <2> QED BY <2>1, <2>2, <2>3, <2>4
<1>3. TypeOK'
  BY <1>1, <1>2 DEF diskVars, jobVars, IInv, TypeOK
<1>4. JobInv' /\ DiskInv'
  BY <1>1 DEF diskVars, jobVars, IInv, JobInv, DiskInv, Valid, Writing
<1> QED BY <1>3, <1>4 DEF IInv

(* The verbs that start a job.                                               *)
LEMMA StartStep ==
  ASSUME IInv, StageCommit \/ Save \/ Reset
  PROVE  IInv'
<1>1. /\ pc = "idle" /\ Valid(store) /\ store \in Image /\ stage \in Stage
      /\ UNCHANGED <<emulated, diskVars, pixel, stage>>
      /\ DEFAULTS \in Body /\ 1 \in Piece
  BY StoreAssumption
     DEF StageCommit, Save, Reset, Idle, ramVars, IInv, TypeOK, JobInv, Body, Piece
<1>2. store.body \in Body /\ stage.body \in Body /\ stage.bright \in BRIGHT
  BY <1>1 DEF Image, Stage
<1>3. /\ acked' \in Body \cup {Nothing} /\ faulty' \in BOOLEAN
      /\ bright' \in BRIGHT
  BY <1>2 DEF StageCommit, Save, Reset, Idle, ramVars, IInv, TypeOK
<1>4. \/ /\ pc' = "body" /\ verb' = "commit" /\ job' = stage.body
         /\ stage.declared = stage.body
      \/ pc' = "magic" /\ verb' = "save" /\ job' = store.body
      \/ pc' = "zero" /\ verb' = "reset" /\ job' = DEFAULTS
  BY DEF StageCommit, Save, Reset, Begin, Complete
<1>5. piece' = 1
  BY DEF StageCommit, Save, Reset, Begin
<1>6. TypeOK'
  BY <1>1, <1>2, <1>3, <1>4, <1>5 DEF diskVars, IInv, TypeOK
<1>7. JobInv'
  <2>1. \A p \in Piece : ~(p < 1)
    BY StoreAssumption DEF Piece
  <2> QED BY <1>1, <1>2, <1>4, <1>5, <2>1 DEF diskVars, JobInv, Writing
<1>8. DiskInv'
  BY <1>1, <1>4 DEF diskVars, IInv, DiskInv
<1> QED BY <1>6, <1>7, <1>8 DEF IInv

(* A write of the job. Whatever it writes, the image is dirty if it changed. *)
LEMMA UpdateDisk ==
  ASSUME IInv, NEW image \in Image, Update(image), pc # "rename", pc' # "rename",
         store.magic => image.magic
  PROVE  DiskInv'
<1>1. /\ store' = image /\ dirty' = (dirty \/ (emulated /\ image # store))
      /\ file' = file /\ mounted' = mounted /\ emulated' = emulated
  BY DEF Update
<1>2. /\ dirty \in BOOLEAN /\ emulated \in BOOLEAN /\ mounted \in BOOLEAN
      /\ mounted \/ dirty => emulated
      /\ mounted /\ ~dirty => store = file \/ ~store.magic
  BY DEF IInv, TypeOK, DiskInv
<1>3. mounted' \/ dirty' => emulated'
  BY <1>1, <1>2
<1>4. mounted' /\ ~dirty' => store' = file' \/ ~store'.magic
  BY <1>1, <1>2
<1> QED BY <1>3, <1>4 DEF DiskInv

LEMMA BodyStep ==
  ASSUME IInv, WriteZero \/ WriteBody
  PROVE  /\ IInv'
         /\ store'.crcHi = store.crcHi
<1> DEFINE v == IF pc = "zero" THEN 0 ELSE job[piece]
<1>1. /\ pc \in {"zero", "body"} /\ piece \in Piece /\ job \in Body
      /\ store \in Image /\ verb # "none"
  BY DEF WriteZero, WriteBody, IInv, TypeOK, JobInv, Writing
<1>2. v \in VALUES /\ (pc = "body" => v = job[piece])
  BY <1>1, StoreAssumption DEF Body
<1>3. Update([store EXCEPT !.body[piece] = v])
  BY DEF WriteZero, WriteBody
<1> HIDE DEF v
<1>4. /\ store' \in Image
      /\ store'.body = [store.body EXCEPT ![piece] = v]
      /\ store'.magic = store.magic /\ store'.crcHi = store.crcHi
  BY <1>1, <1>2, <1>3, BodyFields DEF Update
<1>5. \/ /\ piece < PIECES /\ piece' = piece + 1 /\ pc' = pc
      \/ /\ ~(piece < PIECES) /\ piece' = 1
         /\ pc' = IF pc = "zero" THEN "body" ELSE "magic"
  BY <1>1 DEF WriteZero, WriteBody, NextPiece
<1>6. piece' \in Piece
  BY <1>1, <1>5, StoreAssumption DEF Piece
<1>7. /\ bright' \in BRIGHT /\ pixel' = pixel
      /\ UNCHANGED <<emulated, file, temp, mounted, stage, job, verb, acked, faulty>>
      /\ dirty' \in BOOLEAN
  BY <1>3, StoreAssumption DEF WriteZero, WriteBody, Update, IInv, TypeOK
<1>8. TypeOK'
  BY <1>1, <1>4, <1>5, <1>6, <1>7 DEF IInv, TypeOK
<1>9. pc' = "body" => \A p \in Piece : p < piece' => store'.body[p] = job'[p]
  <2> SUFFICES ASSUME pc' = "body", NEW p \in Piece, p < piece'
               PROVE  store'.body[p] = job[p]
    BY <1>7
  <2>1. p \in Int /\ piece \in Int /\ 1 <= p
    BY <1>1, StoreAssumption DEF Piece
  <2>2. pc = "body" /\ piece' = piece + 1
    BY <1>1, <1>5, <2>1
  <2>3. store.body \in Body
    BY <1>1 DEF Image
  <2>4. CASE p = piece
    BY <1>1, <1>2, <1>4, <2>2, <2>3, <2>4 DEF Body
  <2>5. CASE p # piece
    <3>1. p < piece
      BY <2>1, <2>2, <2>5
    <3>2. store.body[p] = job[p]
      BY <2>2, <3>1 DEF IInv, JobInv
    <3> QED BY <1>4, <2>3, <2>5, <3>2 DEF Body
  <2> QED BY <2>4, <2>5
<1>10. pc' = "magic" => store'.body = job'
  <2> SUFFICES ASSUME pc' = "magic" PROVE store'.body = job
    BY <1>7
  <2>1. pc = "body" /\ ~(piece < PIECES)
    BY <1>1, <1>5
  <2>2. store.body \in Body /\ store'.body \in Body
    BY <1>1, <1>4 DEF Image
  <2>3. ASSUME NEW p \in Piece PROVE store'.body[p] = job[p]
    <3>1. CASE p = piece
      BY <1>1, <1>2, <1>4, <2>1, <2>2, <3>1 DEF Body
    <3>2. CASE p # piece
      <4>1. p < piece
        BY <1>1, <2>1, <3>2, StoreAssumption DEF Piece
      <4>2. store.body[p] = job[p]
        BY <2>1, <4>1 DEF IInv, JobInv
      <4> QED BY <1>4, <2>2, <3>2, <4>2 DEF Body
    <3> QED BY <3>1, <3>2
  <2> QED BY <1>1, <2>2, <2>3 DEF Body
<1>11. JobInv'
  <2>1. pc' \in {"zero", "body", "magic"} /\ (pc' = "zero" => pc = "zero")
    BY <1>1, <1>5
  <2> QED BY <1>1, <1>7, <1>9, <1>10, <2>1 DEF IInv, JobInv, Writing
<1>12. DiskInv'
  <2>1. /\ [store EXCEPT !.body[piece] = v] \in Image
        /\ [store EXCEPT !.body[piece] = v].magic = store.magic
    BY <1>1, <1>2, BodyFields
  <2>2. pc # "rename" /\ pc' # "rename"
    BY <1>1, <1>5
  <2> QED BY <1>3, <2>1, <2>2, UpdateDisk
<1> QED BY <1>4, <1>8, <1>11, <1>12 DEF IInv

LEMMA JobCrcType ==
  ASSUME IInv, pc \in {"crcLo", "crcHi"}
  PROVE  JobCrc = job
  BY DEF JobCrc, IInv, JobInv, Writing

LEMMA HeaderStep ==
  ASSUME IInv, WriteMagic \/ WriteBright \/ WriteCrcLo \/ WriteCrcHi
  PROVE  /\ IInv'
         /\ store'.body = store.body /\ store.body = job
         /\ store.magic => store'.magic
         /\ store'.crcLo \in {store.crcLo, job}
         /\ ~WriteCrcHi => store'.crcHi = store.crcHi
         /\ WriteCrcHi => store'.crcHi = job
<1>1. /\ pc \in {"magic", "bright", "crcLo", "crcHi"} /\ job \in Body
      /\ store \in Image /\ store.body = job /\ verb # "none"
      /\ bright \in BRIGHT
  BY DEF WriteMagic, WriteBright, WriteCrcLo, WriteCrcHi, IInv, TypeOK, JobInv,
         Writing
<1>2. \E image \in Image :
        /\ Update(image)
        /\ image.body = job /\ (store.magic => image.magic)
        /\ WriteMagic => /\ image.magic /\ image.crcLo = store.crcLo
                         /\ image.crcHi = store.crcHi
        /\ WriteBright => /\ image.magic = store.magic /\ image.crcLo = store.crcLo
                          /\ image.crcHi = store.crcHi
        /\ WriteCrcLo => /\ image.magic = store.magic /\ image.crcLo = job
                         /\ image.crcHi = store.crcHi
        /\ WriteCrcHi => /\ image.magic = store.magic /\ image.crcLo = store.crcLo
                         /\ image.crcHi = job
  <2>1. CASE WriteMagic
    <3> DEFINE image == [store EXCEPT !.magic = TRUE]
    <3>1. Update(image)
      BY <2>1 DEF WriteMagic
    <3>2. image \in Image /\ image.body = job
      BY <1>1, HeaderFields
    <3>3. /\ image.magic
          /\ image.crcLo = store.crcLo
          /\ image.crcHi = store.crcHi
      BY <1>1, HeaderFields
    <3> HIDE DEF image
    <3> QED BY <2>1, <3>1, <3>2, <3>3
            DEF WriteMagic, WriteBright, WriteCrcLo, WriteCrcHi
  <2>2. CASE WriteBright
    <3> DEFINE image == [store EXCEPT !.bright = bright]
    <3>1. Update(image)
      BY <2>2 DEF WriteBright
    <3>2. image \in Image /\ image.body = job
      BY <1>1, HeaderFields
    <3>3. /\ image.magic = store.magic
          /\ image.crcLo = store.crcLo
          /\ image.crcHi = store.crcHi
      BY <1>1, HeaderFields
    <3> HIDE DEF image
    <3> QED BY <2>2, <3>1, <3>2, <3>3
            DEF WriteMagic, WriteBright, WriteCrcLo, WriteCrcHi
  <2>3. CASE WriteCrcLo
    <3> DEFINE image == [store EXCEPT !.crcLo = job]
    <3>1. Update(image)
      BY <2>3, JobCrcType DEF WriteCrcLo
    <3>2. image \in Image /\ image.body = job
      BY <1>1, HeaderFields
    <3>3. /\ image.magic = store.magic
          /\ image.crcLo = job
          /\ image.crcHi = store.crcHi
      BY <1>1, HeaderFields
    <3> HIDE DEF image
    <3> QED BY <2>3, <3>1, <3>2, <3>3
            DEF WriteMagic, WriteBright, WriteCrcLo, WriteCrcHi
  <2>4. CASE WriteCrcHi
    <3> DEFINE image == [store EXCEPT !.crcHi = job]
    <3>1. Update(image)
      BY <2>4, JobCrcType DEF WriteCrcHi
    <3>2. image \in Image /\ image.body = job
      BY <1>1, HeaderFields
    <3>3. /\ image.magic = store.magic
          /\ image.crcLo = store.crcLo
          /\ image.crcHi = job
      BY <1>1, HeaderFields
    <3> HIDE DEF image
    <3> QED BY <2>4, <3>1, <3>2, <3>3
            DEF WriteMagic, WriteBright, WriteCrcLo, WriteCrcHi
  <2> QED BY <2>1, <2>2, <2>3, <2>4
<1> PICK image \in Image : <1>2!(image)
  BY <1>2
<1>3. /\ store' = image /\ dirty' \in BOOLEAN
      /\ UNCHANGED <<emulated, file, temp, mounted, stage, job, verb, acked, faulty>>
  BY DEF Update, IInv, TypeOK
<1>4. /\ UNCHANGED <<bright, pixel, piece>>
      /\ WriteMagic => pc = "magic" /\ pc' = "bright"
      /\ WriteBright => pc = "bright" /\ pc' = "crcLo"
      /\ WriteCrcLo => pc = "crcLo" /\ pc' = "crcHi"
      /\ WriteCrcHi => pc = "crcHi" /\ pc' = "flush"
  BY DEF WriteMagic, WriteBright, WriteCrcLo, WriteCrcHi
<1>5. TypeOK'
  BY <1>3, <1>4 DEF IInv, TypeOK
<1>6. JobInv'
  BY <1>1, <1>3, <1>4 DEF IInv, JobInv, Writing
<1>7. DiskInv'
  BY <1>1, <1>4, UpdateDisk
<1> QED BY <1>1, <1>3, <1>4, <1>5, <1>6, <1>7 DEF IInv

LEMMA FinishFields ==
  ASSUME IInv, Finish, pc \in {"flush", "rename"}
  PROVE  /\ pc' = "idle" /\ job' = Nothing /\ verb' = "none" /\ piece' \in Piece
         /\ stage' \in Stage /\ bright' = bright /\ pixel' \in BRIGHT
         /\ acked' \in Body \cup {Nothing} /\ emulated' = emulated
         /\ Valid(store) /\ store.body = job /\ store.crcHi = job /\ job \in Body
<1>1. NoStage \in Stage /\ 1 \in Piece
  BY BlankType, StoreAssumption DEF NoStage, Stage, Piece
<1> QED BY <1>1 DEF Finish, IInv, TypeOK, JobInv, Valid, Writing

LEMMA FlushStep ==
  ASSUME IInv, NothingToFlush \/ WriteTemp \/ WriteTempFails \/ Rename
  PROVE  IInv'
<1>1. CASE WriteTemp
  <2>1. TypeOK'
    BY <1>1 DEF WriteTemp, ramVars, IInv, TypeOK
  <2>2. JobInv' /\ DiskInv'
    BY <1>1 DEF WriteTemp, ramVars, IInv, TypeOK, JobInv, DiskInv, Writing
  <2> QED BY <2>1, <2>2 DEF IInv
<1>2. CASE NothingToFlush \/ WriteTempFails \/ Rename
  <2>1. Finish /\ pc \in {"flush", "rename"}
    BY <1>2 DEF NothingToFlush, WriteTempFails, Rename
  <2>2. /\ pc' = "idle" /\ job' = Nothing /\ verb' = "none" /\ piece' \in Piece
        /\ stage' \in Stage /\ bright' = bright /\ pixel' \in BRIGHT
        /\ acked' \in Body \cup {Nothing} /\ emulated' = emulated
        /\ Valid(store)
    BY <2>1, FinishFields
  <2>3. /\ store' = store /\ mounted' = mounted
        /\ file' \in Image /\ temp' \in Image
        /\ dirty' \in BOOLEAN /\ faulty' \in BOOLEAN
        /\ dirty' => dirty
        /\ \/ dirty' = dirty /\ file' = file
           \/ file' = store
    <3>1. CASE NothingToFlush
      BY <3>1 DEF NothingToFlush, diskVars, IInv, TypeOK
    <3>2. CASE WriteTempFails
      BY <3>2, BlankType DEF WriteTempFails, IInv, TypeOK
    <3>3. CASE Rename
      <4>1. temp = store /\ pc = "rename"
        BY <3>3 DEF Rename, IInv, DiskInv
      <4>2. /\ store' = store /\ mounted' = mounted
            /\ \/ /\ file' = temp /\ temp' = Blank
                  /\ dirty' = FALSE /\ faulty' = faulty
               \/ /\ file' = file /\ temp' = temp
                  /\ dirty' = dirty /\ faulty' = TRUE
        BY <3>3 DEF Rename
      <4>3. /\ file \in Image /\ temp \in Image /\ dirty \in BOOLEAN
            /\ faulty \in BOOLEAN
        BY DEF IInv, TypeOK
      <4>4. file' \in Image /\ temp' \in Image
        BY <4>1, <4>2, <4>3, BlankType, Zenon DEF IInv, TypeOK
      <4>5. dirty' \in BOOLEAN /\ faulty' \in BOOLEAN
        BY <4>2, <4>3
      <4>6. ASSUME dirty' PROVE dirty
        <5>1. dirty' # FALSE
          BY <4>6
        <5>2. dirty' = dirty
          BY <4>2, <5>1
        <5> QED BY <4>6, <5>2
      <4> QED BY <4>1, <4>2, <4>4, <4>5, <4>6
    <3> QED BY <1>2, <3>1, <3>2, <3>3
  <2>4. TypeOK'
    BY <2>2, <2>3 DEF IInv, TypeOK
  <2>5. JobInv'
    BY <2>2, <2>3 DEF JobInv, Writing, Valid
  <2>6. DiskInv'
    BY <2>2, <2>3 DEF IInv, DiskInv, TypeOK
  <2> QED BY <2>4, <2>5, <2>6 DEF IInv
<1> QED BY <1>1, <1>2

LEMMA NextInv ==
  ASSUME IInv, [Next]_vars
  PROVE  IInv'
<1>1. CASE UNCHANGED vars
  BY <1>1 DEF vars, diskVars, ramVars, jobVars, IInv, TypeOK, JobInv, DiskInv,
              Valid, Writing
<1> QED BY <1>1, PowerOnStep, PowerLossStep, TransferStep, StartStep, BodyStep,
           HeaderStep, FlushStep DEF Next

(* The invariant holds from boot on, through every step.                     *)
THEOREM Invariance == Spec => []IInv
<1>1. Init => IInv
  BY InitInv
<1>2. IInv /\ [Next]_vars => IInv'
  BY NextInv
<1> QED BY <1>1, <1>2, PTL DEF Spec

(* Every state of the store is well formed.                                  *)
THEOREM TypeCorrect == Spec => []TypeOK
<1>1. IInv => TypeOK
  BY DEF IInv
<1> QED BY <1>1, Invariance, PTL

(* Every verb, and every boot, leaves an image the next boot accepts,        *)
(* whatever the flash failed to do before.                                   *)
THEOREM Validates == Spec => []IdleValidates
<1>1. IInv => IdleValidates
  BY DEF IInv, JobInv, IdleValidates
<1> QED BY <1>1, Invariance, PTL

---------------------------------------------------------------------------
(* Acknowledged profiles                                                     *)

(* The body a boot would load is the one the host was told of, the image in  *)
(* RAM holds it too, and nothing but a SAVE is writing.                      *)
KeptIn(image) == Valid(image) /\ image.body = acked

AckInv ==
  acked # Nothing /\ ~faulty =>
    /\ verb \in {"none", "save"}
    /\ emulated => KeptIn(file)
    /\ pc # "off" \/ ~emulated => KeptIn(store)

LEMMA AckStep ==
  ASSUME IInv, IInv', AckInv, [Next]_vars
  PROVE  AckInv'
<1> SUFFICES ASSUME acked' # Nothing, ~faulty'
             PROVE  /\ verb' \in {"none", "save"}
                    /\ emulated' => KeptIn(file)'
                    /\ pc' # "off" \/ ~emulated' => KeptIn(store)'
  BY DEF AckInv
<1>1. CASE PowerOn
  <2>1. acked' = acked /\ emulated' = emulated /\ file' = file /\ ~faulty /\ pc = "off"
    BY <1>1 DEF PowerOn
  <2>2. store' = (IF emulated THEN file ELSE store)
    BY <1>1 DEF PowerOn, IInv, TypeOK
  <2>3. verb = "none" /\ KeptIn(store')
    BY <2>1, <2>2 DEF AckInv, IInv, JobInv, KeptIn
  <2>4. verb' = verb
    BY <1>1, <2>3 DEF PowerOn, KeptIn
  <2> QED BY <2>1, <2>2, <2>3, <2>4 DEF AckInv, KeptIn, Valid
<1>2. CASE PowerLoss
  BY <1>2 DEF PowerLoss, AckInv, KeptIn, Valid
<1>3. CASE StageBegin \/ StageChunk \/ StageDrop \/ SetBrightness \/ UNCHANGED vars
  <2>1. UNCHANGED <<emulated, diskVars, acked, faulty, pc, verb>>
    BY <1>3 DEF StageBegin, StageChunk, StageDrop, SetBrightness, Idle, vars,
                jobVars
  <2> QED BY <2>1 DEF diskVars, AckInv, KeptIn, Valid
<1>4. CASE StageCommit \/ Reset
  BY <1>4 DEF StageCommit, Reset
<1>5. CASE Save
  <2>1. /\ UNCHANGED <<emulated, diskVars, acked, faulty>> /\ verb' = "save"
        /\ pc = "idle"
    BY <1>5 DEF Save, Idle, Begin
  <2> QED BY <2>1 DEF diskVars, AckInv, KeptIn, Valid
<1>6. CASE WriteZero \/ WriteBody
  <2>1. /\ pc \in {"zero", "body"} /\ verb \notin {"none", "save"}
        /\ acked' = acked /\ faulty' = faulty
    BY <1>6 DEF WriteZero, WriteBody, Update, IInv, JobInv, Writing
  <2> QED BY <2>1 DEF AckInv
<1>7. CASE WriteMagic \/ WriteBright \/ WriteCrcLo \/ WriteCrcHi
  <2>1. /\ UNCHANGED <<emulated, file, verb, acked, faulty>>
        /\ pc # "off"
    BY <1>7 DEF WriteMagic, WriteBright, WriteCrcLo, WriteCrcHi, Update
  <2>2. KeptIn(store) /\ verb \in {"none", "save"}
    BY <2>1 DEF AckInv
  <2>3. KeptIn(store)'
    BY <1>7, <2>1, <2>2, HeaderStep DEF KeptIn, Valid
  <2> QED BY <2>1, <2>2, <2>3 DEF AckInv, KeptIn, Valid
<1>8. CASE WriteTemp
  <2>1. /\ UNCHANGED <<emulated, store, file, verb, acked, faulty>>
        /\ pc # "off"
    BY <1>8 DEF WriteTemp
  <2> QED BY <2>1 DEF AckInv, KeptIn, Valid
<1>9. CASE NothingToFlush \/ WriteTempFails \/ Rename
  <2>1. Finish /\ pc \in {"flush", "rename"}
    BY <1>9 DEF NothingToFlush, WriteTempFails, Rename
  <2>2. /\ verb' = "none" /\ emulated' = emulated /\ Valid(store)
        /\ store.body = job /\ pc # "off"
    BY <2>1, FinishFields
  <2>3. store' = store /\ (emulated => file' = store)
    <3>1. CASE NothingToFlush
      <4>1. /\ store' = store /\ file' = file /\ (emulated => mounted /\ ~dirty)
        BY <3>1 DEF NothingToFlush, diskVars, IInv, TypeOK
      <4> QED BY <2>2, <4>1 DEF IInv, DiskInv, Valid
    <3>2. CASE WriteTempFails
      BY <3>2 DEF WriteTempFails
    <3>3. CASE Rename
      <4>1. temp = store
        BY <3>3 DEF Rename, IInv, DiskInv
      <4> QED BY <3>3, <4>1 DEF Rename
    <3> QED BY <1>9, <3>1, <3>2, <3>3
  <2>4. store.body = acked'
    <3>1. CASE verb \in {"commit", "reset"}
      BY <2>1, <2>2, <3>1 DEF Finish
    <3>2. CASE verb \notin {"commit", "reset"}
      <4>1. acked' = acked
        BY <2>1, <3>2 DEF Finish
      <4>2. ~faulty
        BY <1>9 DEF NothingToFlush, WriteTempFails, Rename, IInv, TypeOK
      <4> QED BY <2>2, <4>1, <4>2 DEF AckInv, KeptIn
    <3> QED BY <3>1, <3>2
  <2> QED BY <2>2, <2>3, <2>4 DEF KeptIn, Valid
<1> QED BY <1>1, <1>2, <1>3, <1>4, <1>5, <1>6, <1>7, <1>8, <1>9 DEF Next

(* A profile the host was told is stored is what every later boot loads, as  *)
(* long as the flash does what it is asked.                                  *)
THEOREM Survives == Spec => []AckedSurvives
<1>1. Init => AckInv
  BY DEF Init, AckInv
<1>2. IInv /\ IInv' /\ AckInv /\ [Next]_vars => AckInv'
  BY AckStep
<1>3. IInv /\ AckInv => AckedSurvives
  BY DEF AckInv, KeptIn, AckedSurvives, BootBody, BootImage
<1> QED BY <1>1, <1>2, <1>3, Invariance, PTL DEF Spec

---------------------------------------------------------------------------
(* The pixel                                                                 *)

PixelInv == pc = "idle" \/ verb = "save" => pixel = bright

LEMMA PixelStep ==
  ASSUME IInv, PixelInv, [Next]_vars
  PROVE  PixelInv'
<1>1. CASE PowerOn
  BY <1>1 DEF PowerOn, Begin, PixelInv, IInv, JobInv
<1>2. CASE StageBegin \/ StageChunk \/ StageDrop \/ SetBrightness
  <2>1. /\ pc = "idle" /\ pc' = pc /\ verb' = verb
        /\ UNCHANGED <<bright, pixel>> \/ bright' = pixel'
    <3>1. CASE StageBegin
      BY <3>1 DEF StageBegin, Idle, jobVars
    <3>2. CASE StageChunk
      BY <3>2 DEF StageChunk, Idle, jobVars
    <3>3. CASE StageDrop
      BY <3>3 DEF StageDrop, Idle, jobVars
    <3>4. CASE SetBrightness
      BY <3>4 DEF SetBrightness, Idle, jobVars
    <3> QED BY <1>2, <3>1, <3>2, <3>3, <3>4
  <2> QED BY <2>1 DEF PixelInv
<1>3. CASE StageCommit \/ Save \/ Reset
  BY <1>3 DEF StageCommit, Save, Reset, Idle, Begin, ramVars, PixelInv
<1>4. CASE WriteZero \/ WriteBody
  BY <1>4 DEF WriteZero, WriteBody, Update, NextPiece, PixelInv, IInv, JobInv,
              Writing
<1>5. CASE WriteMagic \/ WriteBright \/ WriteCrcLo \/ WriteCrcHi
  BY <1>5 DEF WriteMagic, WriteBright, WriteCrcLo, WriteCrcHi, Update, PixelInv
<1>6. CASE WriteTemp
  BY <1>6 DEF WriteTemp, ramVars, PixelInv
<1>7. CASE NothingToFlush \/ WriteTempFails \/ Rename
  BY <1>7 DEF NothingToFlush, WriteTempFails, Rename, Finish, PixelInv
<1>8. CASE PowerLoss
  BY <1>8 DEF PowerLoss, PixelInv
<1>9. CASE UNCHANGED vars
  BY <1>9 DEF vars, ramVars, jobVars, PixelInv
<1> QED BY <1>1, <1>2, <1>3, <1>4, <1>5, <1>6, <1>7, <1>8, <1>9 DEF Next

(* Between verbs the pixel is lit with the profile's brightness.             *)
THEOREM PixelFollows == Spec => []PixelShowsProfile
<1>1. Init => PixelInv
  BY DEF Init, PixelInv
<1>2. IInv /\ PixelInv /\ [Next]_vars => PixelInv'
  BY PixelStep
<1>3. PixelInv => PixelShowsProfile
  BY DEF PixelInv, PixelShowsProfile
<1> QED BY <1>1, <1>2, <1>3, Invariance, PTL DEF Spec

---------------------------------------------------------------------------
(* The refinement of AtomicProfile                                           *)

LEMMA BootBodyType ==
  ASSUME IInv
  PROVE  BootBody \in Body /\ DEFAULTS \in Body
<1>1. store.body \in Body /\ file.body \in Body
  BY DEF IInv, TypeOK, Image
<1>2. DEFAULTS \in Body
  BY StoreAssumption DEF Body, Piece
<1> QED BY <1>1, <1>2 DEF BootBody, BootImage

LEMMA InitRefines == ASSUME Init PROVE Atomic!Init
<1>1. IInv
  BY InitInv
<1>2. BootBody \in Body
  BY <1>1, BootBodyType
<1> QED BY <1>2 DEF Init, Atomic!Init, BootImage, Blank

(* A write into the image that a boot would read at once. If the image is    *)
(* whole, it holds the last body whose CRC was written in full.              *)
LEMMA WriteRefines ==
  ASSUME IInv, IInv', job \in Body, job' = job,
         emulated' = emulated, file' = file,
         store'.crcHi # store.crcHi =>
           store'.crcHi = job /\ Valid(store')
  PROVE  [Atomic!Next]_(Atomic!vars)
<1>0. store'.body \in Body
  BY DEF IInv, TypeOK, Image
<1>1. CASE emulated
  <2>1. BootImage' = BootImage
    BY <1>1 DEF BootImage
  <2>2. BootBody' = BootBody
    BY <2>1 DEF BootBody, Valid
  <2> QED BY <2>1, <2>2 DEF Atomic!vars
<1>2. CASE ~emulated /\ store'.crcHi = store.crcHi
  <2>1. BootImage' = store' /\ BootImage = store
    BY <1>2 DEF BootImage
  <2>2. CASE Valid(store')
    <3>1. BootBody' = store'.body /\ store'.body = store.crcHi
      BY <1>2, <2>1, <2>2 DEF BootBody, Valid
    <3>2. Atomic!Recover
      BY <1>0, <1>2, <2>1, <3>1 DEF Atomic!Recover
    <3> QED BY <3>2 DEF Atomic!Next
  <2>3. CASE ~Valid(store')
    <3>1. BootBody' = DEFAULTS
      BY <2>1, <2>3 DEF BootBody
    <3>2. Atomic!Spoil
      BY <1>2, <2>1, <3>1 DEF Atomic!Spoil
    <3> QED BY <3>2 DEF Atomic!Next
  <2> QED BY <2>2, <2>3
<1>3. CASE ~emulated /\ store'.crcHi # store.crcHi
  <2>1. BootImage' = store' /\ Valid(store') /\ store'.crcHi = job
    BY <1>3 DEF BootImage
  <2>2. BootBody' = job
    BY <2>1 DEF BootBody, Valid
  <2>3. Atomic!Land
    BY <2>1, <2>2 DEF Atomic!Land
  <2> QED BY <2>3 DEF Atomic!Next
<1> QED BY <1>1, <1>2, <1>3

(* A step that leaves the image a boot would read alone starts a job, ends   *)
(* one, or is a stutter.                                                     *)
LEMMA QuietRefines ==
  ASSUME emulated' = emulated, emulated => file' = file,
         ~emulated => store' = store,
         \/ job' = job
         \/ job' = Nothing
         \/ job = Nothing /\ job' \in Body
  PROVE  [Atomic!Next]_(Atomic!vars)
<1>1. BootImage' = BootImage
  BY DEF BootImage
<1>2. BootBody' = BootBody
  BY <1>1 DEF BootBody, Valid
<1>3. CASE job' = job
  BY <1>1, <1>2, <1>3 DEF Atomic!vars
<1>4. CASE job' = Nothing
  BY <1>1, <1>2, <1>4 DEF Atomic!Next, Atomic!Stop
<1>5. CASE job = Nothing /\ job' \in Body
  BY <1>1, <1>2, <1>5 DEF Atomic!Next, Atomic!Start
<1> QED BY <1>3, <1>4, <1>5

LEMMA NextRefines ==
  ASSUME IInv, IInv', [Next]_vars
  PROVE  [Atomic!Next]_(Atomic!vars)
<1>1. CASE PowerOn
  <2>1. /\ emulated' = emulated /\ file' = file /\ job = Nothing
        /\ ~emulated => store' = store
        /\ job' = job \/ job' = DEFAULTS
    BY <1>1 DEF PowerOn, Begin, IInv, JobInv
  <2> QED BY <2>1, QuietRefines, BootBodyType
<1>2. CASE PowerLoss
  <2>1. /\ emulated' = emulated /\ file' = file /\ job' = Nothing
        /\ ~emulated => store' = store
    BY <1>2 DEF PowerLoss
  <2> QED BY <2>1, QuietRefines
<1>3. CASE StageBegin \/ StageChunk \/ StageDrop \/ SetBrightness \/ UNCHANGED vars
  <2>1. /\ emulated' = emulated /\ file' = file /\ job' = job
        /\ store' = store
    BY <1>3 DEF StageBegin, StageChunk, StageDrop, SetBrightness, Idle, vars,
                diskVars, jobVars
  <2> QED BY <2>1, QuietRefines
<1>4. CASE StageCommit \/ Save \/ Reset
  <2>1. /\ emulated' = emulated /\ file' = file /\ store' = store
        /\ job = Nothing
    BY <1>4 DEF StageCommit, Save, Reset, Idle, diskVars, IInv, JobInv
  <2>2. job' \in Body
    BY <1>4 DEF StageCommit, Save, Reset, Begin, IInv, TypeOK, JobInv, Writing
  <2> QED BY <2>1, <2>2, QuietRefines
<1>5. CASE WriteZero \/ WriteBody
  <2>1. /\ emulated' = emulated /\ file' = file /\ job' = job /\ job \in Body
    BY <1>5 DEF WriteZero, WriteBody, Update, IInv, JobInv, Writing
  <2> QED BY <1>5, <2>1, BodyStep, WriteRefines
<1>6. CASE WriteMagic \/ WriteBright \/ WriteCrcLo \/ WriteCrcHi
  <2>1. /\ emulated' = emulated /\ file' = file /\ job' = job /\ job \in Body
    BY <1>6 DEF WriteMagic, WriteBright, WriteCrcLo, WriteCrcHi, Update, IInv,
                JobInv, Writing
  <2>2. store'.crcHi # store.crcHi => WriteCrcHi /\ store'.crcHi = job
    BY <1>6, HeaderStep
  <2>3. WriteCrcHi => Valid(store')
    <3>1. WriteCrcHi => pc' = "flush"
      BY DEF WriteCrcHi
    <3> QED BY <2>1, <3>1 DEF IInv, JobInv, Valid, Writing
  <2> QED BY <2>1, <2>2, <2>3, WriteRefines
<1>7. CASE WriteTemp
  <2>1. /\ emulated' = emulated /\ file' = file /\ store' = store /\ job' = job
    BY <1>7 DEF WriteTemp
  <2> QED BY <2>1, QuietRefines
<1>8. CASE NothingToFlush \/ WriteTempFails \/ Rename
  <2>1. Finish /\ pc \in {"flush", "rename"} /\ store' = store
    BY <1>8 DEF NothingToFlush, WriteTempFails, Rename, diskVars
  <2>2. /\ job' = Nothing /\ job \in Body /\ emulated' = emulated
        /\ Valid(store) /\ store.crcHi = job /\ store.body = job
    BY <2>1, FinishFields
  <2>3. file' = file \/ file' = store
    BY <1>8 DEF NothingToFlush, WriteTempFails, Rename, diskVars, IInv, DiskInv
  <2>4. CASE file' = file \/ ~emulated
    BY <2>1, <2>2, <2>4, QuietRefines
  <2>5. CASE file' = store /\ emulated
    <3>1. BootImage' = store
      BY <2>2, <2>5 DEF BootImage
    <3>2. BootBody' = job
      BY <2>2, <3>1 DEF BootBody, Valid
    <3>3. Atomic!Land
      BY <2>2, <3>1, <3>2 DEF Atomic!Land
    <3> QED BY <3>3 DEF Atomic!Next
  <2> QED BY <2>3, <2>4, <2>5
<1> QED BY <1>1, <1>2, <1>3, <1>4, <1>5, <1>6, <1>7, <1>8 DEF Next

(* The store, cut short anywhere, implements the promise of AtomicProfile.   *)
THEOREM Refines == Spec => ReplacesWhole
<1>1. Init => Atomic!Init
  BY InitRefines
<1>2. IInv /\ IInv' /\ [Next]_vars => [Atomic!Next]_(Atomic!vars)
  BY NextRefines
<1> QED BY <1>1, <1>2, Invariance, PTL DEF Spec, ReplacesWhole, Atomic!Spec
=============================================================================
