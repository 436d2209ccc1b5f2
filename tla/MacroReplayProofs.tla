--------------------------- MODULE MacroReplayProofs ---------------------------
(* What playing a slot keeps for any slot, any number of passes and any timing *)
(* of the clock, the work and the stop: the run plays five slots twice.       *)
EXTENDS MacroReplay, FiniteSetTheorems, WellFoundedInduction, TLAPS

Begin == Beginnings[slot]
After(i) == Following(slot, i)

(* Record n of the slot is where a record begins, or its end: and no record   *)
(* before it reaches beyond it, unless it is cut off by the end.              *)
Sound(n) ==
    /\ n \in 1 .. Count + 1
    /\ n \in DOMAIN slot => n \in Begin
    /\ \A j \in Begin : j < n => After(j) <= n \/ n = Count + 1

Waits(then) == pc = "wait" /\ back = then
Typing == pc = "typed" \/ Waits("typed")

PlaceInv ==
    /\ slot \in Slots
    /\ pc \in RecordTypes
          \cup {"idle", "pass", "record", "release", "wait", "typed", "moves", "step", "moved"}
    /\ pc = "wait" => back \in {"record", "typed", "moved", "step"}
    /\ pc \in {"idle", "pass"} => index = 1
    /\ pc \in RecordTypes => index \in DOMAIN slot /\ Here.type = pc
    /\ Typing => index \in DOMAIN slot /\ Here.type = "text"
    /\ left \in Nat
    /\ left > 0 => pc = "text" \/ Typing
    /\ Typing \/ (pc = "text" /\ left > 0) => AfterText <= Count + 1
    /\ Sound(index)

(* What the characters typed of this text have let go of.                    *)
Struck(n) == UNION {Here.b[k] : k \in 1 .. n}
InText == Typing \/ (pc = "text" /\ left > 0)
TypedYet == IF InText THEN Struck(Here.a - left) ELSE {}

HeldInv ==
    /\ pc \in {"idle", "pass"} => held = {}
    /\ pc \notin {"idle", "pass", "release"} /\ ~aborted => held = HeldBefore(index) \ TypedYet
    /\ InText => left <= Here.a

(* Whoever is about to send has just seen that nobody stopped the macro; the  *)
(* one exception is the rest of a move.                                       *)
StopInv ==
    /\ ~late
    /\ pc \in RecordTypes \cup {"moves"} => ~aborted
    /\ "step" \in DOMAIN move /\ move.step \in Nat
    /\ pc = "step" => move.step > 0 /\ (aborted => move.step > 1)
    /\ Waits("step") => move.step > 1

IInv == PlaceInv /\ HeldInv /\ StopInv

---------------------------------------------------------------------------
(* The least element is what an induction over the records starts from.      *)
LEMMA LeastExists ==
  ASSUME NEW S \in SUBSET Nat, S # {}
  PROVE  \E m \in S : \A k \in S : m <= k
<1> PICK n \in S : TRUE
  OBVIOUS
<1>1. \A k \in S : k \in Nat
  OBVIOUS
<1> DEFINE Below(k) == {j \in S : j <= k}
           F == {T \in SUBSET (0 .. n) : \E k \in S : T = Below(k)}
           R == StrictSubsetOrdering(0 .. n)
<1>2. IsWellFoundedOn(R, SUBSET (0 .. n))
  <2>1. IsFiniteSet(0 .. n)
    BY <1>1, FS_Interval
  <2>2. FiniteSubsetsOf(0 .. n) = SUBSET (0 .. n)
    BY <2>1, FS_FiniteSubsetsOfFinite
  <2> QED BY <2>2, FS_StrictSubsetOrderingWellFounded
<1>3. \A T, U \in SUBSET (0 .. n) : T \subseteq U /\ T # U => <<T, U>> \in R
  BY DEF StrictSubsetOrdering
<1>4. \A k, j : j \in Below(k) <=> j \in S /\ j <= k
  OBVIOUS
<1> HIDE DEF Below
<1>5. Below(n) \subseteq 0 .. n
  <2>1. ASSUME NEW j \in Below(n) PROVE j \in 0 .. n
    <3>1. j \in S /\ j <= n
      BY <1>4
    <3> QED BY <1>1, <3>1
  <2> QED BY <2>1
<1> HIDE DEF R
<1>6. F \subseteq SUBSET (0 .. n) /\ Below(n) \in F
  <2> QED BY <1>5
<1>7. PICK T \in F : \A U \in F : ~ (<<U, T>> \in R)
  <2> HIDE DEF F
  <2> QED BY <1>2, <1>6, WFMin
<1>8. PICK m \in S : T = Below(m)
  <2> QED BY <1>7
<1>9. ASSUME NEW k \in S, k < m PROVE FALSE
  <2>1. Below(k) \subseteq Below(m) /\ m \in Below(m) /\ m \notin Below(k)
    <3>1. ASSUME NEW j \in Below(k) PROVE j \in Below(m)
      <4>1. j \in S /\ j <= k
        BY <1>4
      <4>2. j <= m
        BY <1>1, <1>9, <4>1
      <4> QED BY <1>4, <4>1, <4>2
    <3>2. m <= m /\ ~ (m <= k)
      BY <1>1, <1>9
    <3> QED BY <1>4, <3>1, <3>2
  <2>2. Below(k) \in F
    BY <1>6, <1>7, <1>8, <2>1
  <2> HIDE DEF F
  <2> QED BY <1>3, <1>6, <1>7, <1>8, <2>1, <2>2
<1> QED BY <1>1, <1>9

---------------------------------------------------------------------------
(* Where records begin                                                       *)

LEMMA Slot ==
  ASSUME slot \in Slots
  PROVE  /\ Count \in Nat /\ DOMAIN slot = 1 .. Count
         /\ \A i \in DOMAIN slot : /\ slot[i].type \in RecordTypes
                                   /\ After(i) \in Int /\ After(i) > i
                                   /\ slot[i].type # "text" => After(i) = i + 1
<1>1. /\ Count \in Nat /\ DOMAIN slot = 1 .. Count
      /\ \A i \in DOMAIN slot : /\ slot[i].type \in RecordTypes
                                /\ slot[i].type \in {"delay", "text"} => slot[i].a \in Nat
  <2>1. IsSlot(slot)
    BY SlotAssumption
  <2>2. Count \in Nat /\ DOMAIN slot = 1 .. Count
    BY <2>1 DEF IsSlot, Count
  <2>3. ASSUME NEW i \in DOMAIN slot
        PROVE  /\ slot[i].type \in RecordTypes
               /\ slot[i].type \in {"delay", "text"} => slot[i].a \in Nat
    BY <2>1 DEF IsSlot
  <2> QED BY <2>2, <2>3
<1>2. \A n \in Nat : Payload(n) \in Nat
  BY DEF Payload
<1>3. ASSUME NEW i \in DOMAIN slot
      PROVE  /\ After(i) \in Int /\ After(i) > i
             /\ slot[i].type # "text" => After(i) = i + 1
  <2>1. i \in Int
    BY <1>1
  <2>2. CASE slot[i].type = "text"
    <3>1. After(i) = i + 1 + Payload(slot[i].a) /\ Payload(slot[i].a) \in Nat
      BY <1>1, <1>2, <2>2 DEF After, Following
    <3> QED BY <2>1, <2>2, <3>1
  <2>3. CASE slot[i].type # "text"
    BY <2>1, <2>3 DEF After, Following
  <2> QED BY <2>2, <2>3
<1> QED BY <1>1, <1>3, Zenon

LEMMA BeginIs ==
  ASSUME slot \in Slots
  PROVE  Begin = {i \in DOMAIN slot : \A P \in SUBSET DOMAIN slot :
                    1 \in P /\ (\A j \in P : After(j) \in DOMAIN slot => After(j) \in P)
                      => i \in P}
  BY DEF Begin, Beginnings, After

LEMMA Closed ==
  ASSUME slot \in Slots
  PROVE  /\ Begin \subseteq DOMAIN slot
         /\ 1 \in DOMAIN slot => 1 \in Begin
         /\ \A j \in Begin : After(j) \in DOMAIN slot => After(j) \in Begin
  BY BeginIs

LEMMA Minimal ==
  ASSUME slot \in Slots, NEW P \in SUBSET DOMAIN slot, 1 \in P,
         \A j \in P : After(j) \in DOMAIN slot => After(j) \in P
  PROVE  Begin \subseteq P
  BY BeginIs

(* No record begins inside another one.                                      *)
LEMMA NoneBetween ==
  ASSUME slot \in Slots, NEW n \in DOMAIN slot, Sound(n), NEW j \in Begin, j < After(n)
  PROVE  j <= n
<1> USE Slot
<1> DEFINE P == {k \in DOMAIN slot : (k \in Begin /\ k <= n) \/ k >= After(n)}
<1>1. 1 \in P
  BY Closed
<1>2. ASSUME NEW k \in P, After(k) \in DOMAIN slot PROVE After(k) \in P
  <2>1. CASE k >= After(n)
    BY <1>2, <2>1
  <2>2. CASE k \in Begin /\ k < n
    BY <1>2, <2>2, Closed DEF Sound
  <2>3. CASE k = n
    BY <1>2, <2>3
  <2> QED BY <1>2, <2>1, <2>2, <2>3
<1>3. j \in P
  <2> HIDE DEF P
  <2>1. P \in SUBSET DOMAIN slot
    BY DEF P
  <2> QED BY <1>1, <1>2, <2>1, Minimal
<1> QED BY <1>3, Closed

Next1(n) == IF After(n) > Count + 1 THEN Count + 1 ELSE After(n)

LEMMA SoundAfter ==
  ASSUME slot \in Slots, NEW n \in DOMAIN slot, Sound(n)
  PROVE  Sound(Next1(n)) /\ Next1(n) > n
<1> USE Slot, Closed
<1>1. Next1(n) \in 1 .. Count + 1 /\ Next1(n) > n
  BY DEF Next1
<1>2. Next1(n) \in DOMAIN slot => Next1(n) \in Begin
  BY DEF Next1, Sound
<1>3. ASSUME NEW j \in Begin, j < Next1(n) PROVE After(j) <= Next1(n) \/ Next1(n) = Count + 1
  <2>1. j <= n
    BY <1>3, NoneBetween DEF Next1
  <2>2. CASE j = n
    BY <2>2 DEF Next1
  <2>3. CASE j < n
    BY <1>1, <2>3 DEF Sound
  <2> QED BY <2>1, <2>2, <2>3
<1> QED BY <1>1, <1>2, <1>3 DEF Sound

(* What record i leaves down of key k is down before record n.               *)
Down(i, n, k) ==
  /\ i \in Played /\ i < n /\ slot[i].type = "press" /\ k \in slot[i].a
  /\ \A j \in Played : i < j /\ j < n => k \notin LetsGo(j)

LEMMA DownIs == \A n, k : k \in HeldBefore(n) <=> \E i \in Played : Down(i, n, k)
<1> TAKE n, k
<1> DEFINE Gone(i) == UNION {LetsGo(j) : j \in {j \in Played : i < j /\ j < n}}
<1>1. \A i : k \in Gone(i) <=> \E j \in Played : i < j /\ j < n /\ k \in LetsGo(j)
  OBVIOUS
<1>2. k \in HeldBefore(n) <=>
        \E i \in Played : i < n /\ slot[i].type = "press" /\ k \in slot[i].a /\ k \notin Gone(i)
  BY DEF HeldBefore
<1> HIDE DEF Gone
<1> QED BY <1>1, <1>2 DEF Down

(* What record n makes of the keys that are down; a text that is cut off by    *)
(* the end is not played.                                                    *)
HeldWith(n, keys) ==
  (keys \ (IF n \in Played THEN LetsGo(n) ELSE {}))
     \cup (IF slot[n].type = "press" THEN slot[n].a ELSE {})

(* A press adds its keys to what is down, a release, a tap, a click or a text  *)
(* takes away what it strikes, and nothing else changes it, whatever a text    *)
(* holds.                                                                    *)
LEMMA HeldAfterRecord ==
  ASSUME slot \in Slots, NEW n \in DOMAIN slot, Sound(n)
  PROVE  HeldBefore(Next1(n)) = HeldWith(n, HeldBefore(n))
<1> DEFINE m == Next1(n)
           LetGo == IF n \in Played THEN LetsGo(n) ELSE {}
<1>1. \A i \in Played : i \in Int /\ i \in Begin
  BY Slot, Closed DEF Played, Begin, After
<1>2. \A i \in Played : i < m => i <= n
  BY <1>1, NoneBetween, Slot DEF Next1
<1>3. m \in Int /\ m > n
  BY SoundAfter DEF Sound
<1>4. slot[n].type # "text" => n \in Played
  BY Slot DEF Played, Sound, Begin, After
<1> HIDE DEF m, LetGo
<1>5. ASSUME NEW i \in Played, i < n, NEW k
      PROVE  Down(i, m, k) <=> Down(i, n, k) /\ k \notin LetGo
  <2>1. i < m /\ i \in Int /\ n \in Int
    BY <1>1, <1>3, <1>5, Slot
  <2>2. \A j \in Played : j < n => j < m
    BY <1>1, <1>3, <2>1
  <2>3. \A j \in Played : j < m => j < n \/ j = n
    <3>1. ASSUME NEW j \in Played, j < m PROVE j < n \/ j = n
      <4>1. j \in Int /\ j <= n
        BY <1>1, <1>2, <3>1
      <4> QED BY <2>1, <4>1
    <3> QED BY <3>1
  <2>4. Down(i, m, k) => k \notin LetGo
    BY <1>3, <1>5 DEF Down, LetGo
  <2>5. Down(i, m, k) => Down(i, n, k)
    BY <1>5, <2>2 DEF Down
  <2>6. ASSUME Down(i, n, k), k \notin LetGo, NEW j \in Played, i < j, j < m
        PROVE  k \notin LetsGo(j)
    BY <2>3, <2>6 DEF Down, LetGo
  <2>7. Down(i, n, k) /\ k \notin LetGo => Down(i, m, k)
    BY <2>1, <2>6 DEF Down
  <2> QED BY <2>4, <2>5, <2>7
<1>6. ASSUME NEW i \in Played, NEW k, Down(i, m, k)
      PROVE  i < n \/ (i = n /\ slot[n].type = "press" /\ k \in slot[n].a)
  <2>1. i < m /\ slot[i].type = "press" /\ k \in slot[i].a
    BY <1>6 DEF Down
  <2>2. i <= n /\ i \in Int /\ n \in Int
    BY <1>1, <1>2, <2>1, Slot
  <2> QED BY <2>1, <2>2
<1>7. ASSUME slot[n].type = "press", NEW k \in slot[n].a
      PROVE  n \in Played /\ Down(n, m, k)
  <2>1. \A j \in Played : ~(n < j /\ j < m)
    BY <1>1, <1>2, Slot
  <2>2. n \in Played
    BY <1>4, <1>7
  <2> QED BY <1>3, <1>7, <2>1, <2>2 DEF Down
<1>8. \A i \in Played : \A k : Down(i, n, k) => i < n
  BY DEF Down
<1>9. \A k : k \in HeldBefore(m) <=>
              \/ k \in HeldBefore(n) /\ k \notin LetGo
              \/ slot[n].type = "press" /\ k \in slot[n].a
  <2> TAKE k
  <2>1. ASSUME NEW i \in Played, Down(i, m, k)
        PROVE  (k \in HeldBefore(n) /\ k \notin LetGo) \/ (slot[n].type = "press" /\ k \in slot[n].a)
    BY <1>5, <1>6, <2>1, DownIs
  <2>2. ASSUME NEW i \in Played, Down(i, n, k), k \notin LetGo
        PROVE  Down(i, m, k)
    BY <1>5, <1>8, <2>2
  <2> QED BY <1>7, <2>1, <2>2, DownIs
<1>10. \A k : k \in HeldWith(n, HeldBefore(n)) <=>
               \/ k \in HeldBefore(n) /\ k \notin LetGo
               \/ slot[n].type = "press" /\ k \in slot[n].a
  BY DEF HeldWith, LetGo
<1>11. \A k : k \in HeldBefore(m) <=> k \in HeldWith(n, HeldBefore(n))
  BY <1>9, <1>10
<1> QED BY <1>11 DEF m

(* Moves in a row are passed over at once: what comes after them begins a     *)
(* record, and is found with the same keys down.                             *)
LEMMA AfterMoves ==
  ASSUME slot \in Slots, Sound(index), index \in DOMAIN slot, Here.type = "move",
         NEW e, e = EndOfMoves
  PROVE  /\ e \in index + 1 .. Count + 1
         /\ Sound(e) /\ HeldBefore(e) = HeldBefore(index)
         /\ Paused(e) => Sound(e + 1) /\ HeldBefore(e + 1) = HeldBefore(index)
<1> USE Slot
<1> DEFINE S == {i \in index .. Count + 1 : i = Count + 1 \/ slot[i].type # "move"}
           Good(k) == Sound(k) /\ HeldBefore(k) = HeldBefore(index)
           Bad == {k \in index .. e : ~Good(k)}
<1>1. e \in S /\ \A k \in S : e <= k
  <2>1. S \in SUBSET Nat /\ Count + 1 \in S
    OBVIOUS
  <2>2. e = CHOOSE x \in S : \A y \in S : x <= y
    BY DEF EndOfMoves, Min
  <2> HIDE DEF S
  <2>3. \E x \in S : \A y \in S : x <= y
    BY <2>1, LeastExists
  <2> QED BY <2>2, <2>3, Zenon
<1>2. e \in index + 1 .. Count + 1
  BY <1>1 DEF Here
<1>3. \A k \in index .. e - 1 : k \in DOMAIN slot /\ slot[k].type = "move"
  <2>1. \A k \in index .. e - 1 : k \notin S /\ k \in index .. Count
    BY <1>1, <1>2
  <2> QED BY <2>1
<1>4. ASSUME NEW k \in DOMAIN slot, Good(k), slot[k].type \in {"move", "delay"}
      PROVE  Good(k + 1)
  <2>1. Next1(k) = k + 1
    BY <1>4 DEF Next1
  <2>2. HeldBefore(Next1(k)) = HeldBefore(k)
    <3>1. HeldBefore(Next1(k)) = HeldWith(k, HeldBefore(k))
      BY <1>4, HeldAfterRecord
    <3>2. LetsGo(k) = {} /\ slot[k].type # "press"
      BY <1>4 DEF LetsGo
    <3>3. HeldWith(k, HeldBefore(k)) = HeldBefore(k)
      BY <3>2 DEF HeldWith
    <3> QED BY <3>1, <3>3
  <2> QED BY <1>4, <2>1, <2>2, SoundAfter
<1>5. Good(e)
  <2> SUFFICES ASSUME ~Good(e) PROVE FALSE
    OBVIOUS
  <2>1. Bad \in SUBSET Nat /\ Bad # {}
    BY <1>2
  <2>2. PICK m \in Bad : \A k \in Bad : m <= k
    <3> HIDE DEF Bad
    <3> QED BY <2>1, LeastExists
  <2>3. m \in index .. e /\ ~Good(m)
    OBVIOUS
  <2>4. Good(index)
    OBVIOUS
  <2> HIDE DEF Good
  <2>5. m - 1 \in index .. e - 1
    BY <1>2, <2>3, <2>4
  <2>6. Good(m - 1)
    BY <1>2, <2>2, <2>5
  <2>7. Good((m - 1) + 1)
    BY <1>3, <1>4, <2>5, <2>6
  <2> QED BY <1>2, <2>3, <2>7
<1>6. Paused(e) => Good(e + 1)
  <2> HIDE DEF Good
  <2> QED BY <1>2, <1>4, <1>5 DEF Paused
<1> QED BY <1>2, <1>5, <1>6

---------------------------------------------------------------------------
(* The invariant                                                             *)

LEMMA SameSlot ==
  ASSUME slot' = slot, NEW n, n = index'
  PROVE  (Sound(index)' <=> Sound(n)) /\ HeldBefore(index)' = HeldBefore(n)
<1>1. Begin' = Begin /\ Count' = Count
  BY DEF Begin, Count
<1>2. \A j : After(j)' = After(j)
  BY DEF After
<1>3. Played' = Played
  BY <1>1, <1>2 DEF Played, Begin, After
<1>4. \A j : LetsGo(j)' = LetsGo(j)
  BY DEF LetsGo
<1>5. HeldBefore(index)' = HeldBefore(n)
  BY <1>3, <1>4 DEF HeldBefore
<1> QED BY <1>1, <1>2, <1>5 DEF Sound

LEMMA Start1 == slot \in Slots => Sound(1) /\ HeldBefore(1) = {}
<1> SUFFICES ASSUME slot \in Slots PROVE Sound(1) /\ HeldBefore(1) = {}
  OBVIOUS
<1>1. Sound(1)
  BY Slot, Closed DEF Sound
<1>2. \A i \in Played : ~(i < 1)
  BY Slot, Closed DEF Played, Begin, After
<1> QED BY <1>1, <1>2 DEF HeldBefore

LEMMA AtRecord ==
  ASSUME PlaceInv, pc \in RecordTypes
  PROVE  index \in DOMAIN slot /\ Here.type = pc
  BY DEF PlaceInv

LEMMA NothingLeft ==
  ASSUME PlaceInv, pc \notin {"text", "typed", "wait"}
  PROVE  left = 0
  BY DEF PlaceInv, Typing, Waits

LEMMA AtNewRecord ==
  ASSUME slot' \in Slots, Sound(index)', left' = 0,
         \/ pc' \in {"record", "release", "moves", "step", "moved"}
         \/ pc' = "wait" /\ back' \in {"record", "moved", "step"}
  PROVE  PlaceInv'
<1>1. ~Typing' /\ pc' \notin RecordTypes \cup {"idle", "pass"}
  BY DEF Typing, Waits, RecordTypes
<1>2. /\ pc' \in {"record", "release", "moves", "step", "moved", "wait"}
      /\ pc' = "wait" => back' \in {"record", "moved", "step"}
  OBVIOUS
<1>3. left' \in Nat /\ ~(left' > 0)
  OBVIOUS
<1> QED BY <1>1, <1>2, <1>3 DEF PlaceInv

(* What a step keeps that stays at its record.                               *)
LEMMA StaysThere ==
  ASSUME IInv, UNCHANGED <<slot, index>>
  PROVE  /\ Sound(index)' /\ slot' \in Slots /\ Here' = Here /\ AfterText' = AfterText
         /\ Count' = Count /\ HeldBefore(index)' = HeldBefore(index)
         /\ (index \in DOMAIN slot)' <=> index \in DOMAIN slot
         /\ \A n \in Int : Struck(n)' = Struck(n)
<1> PICK n : n = index'
  OBVIOUS
<1>1. Sound(index)' /\ HeldBefore(index)' = HeldBefore(index)
  BY SameSlot DEF IInv, PlaceInv
<1>2. Here' = Here
  BY DEF Here
<1>3. \A k \in Int : Struck(k)' = Struck(k)
  BY <1>2 DEF Struck
<1> QED BY <1>1, <1>2, <1>3 DEF IInv, PlaceInv, AfterText, Count

(* Outside a text nothing of it has been typed.                              *)
LEMMA NotInText ==
  ASSUME PlaceInv, pc \in {"record", "move", "moves", "step", "moved"} \/ left = 0,
         pc # "typed", ~Waits("typed")
  PROVE  ~InText /\ TypedYet = {}
<1>1. left = 0
  BY NothingLeft
<1>2. ~InText
  BY <1>1 DEF InText, Typing, PlaceInv
<1> QED BY <1>2 DEF TypedYet

LEMMA BeginsKeep ==
  ASSUME IInv, Start \/ BeginPass
  PROVE  IInv'
<1> USE DEF IInv
<1>1. slot' \in Slots /\ index = 1 /\ held = {} /\ pc \in {"idle", "pass"}
  BY DEF Start, BeginPass, PlaceInv, HeldInv, run
<1>2. index' = 1 /\ held' = {} /\ left' = left /\ move' = move
  BY <1>1 DEF Start, BeginPass
<1>3. pc' \in {"pass", "record"} /\ ~late'
  BY DEF Start, BeginPass, StopInv
<1>4. (Sound(1) /\ HeldBefore(1) = {})'
  <2>1. (slot \in Slots => Sound(1) /\ HeldBefore(1) = {})'
    BY Start1, PTL
  <2> QED BY <1>1, <2>1
<1>5. PlaceInv'
  BY <1>1, <1>2, <1>3, <1>4 DEF PlaceInv, Typing, Waits, RecordTypes
<1>6. HeldInv'
  <2>1. ~InText'
    BY <1>3 DEF InText, Typing, Waits
  <2>2. TypedYet' = {}
    BY <2>1 DEF TypedYet
  <2> QED BY <1>2, <1>4, <2>1, <2>2 DEF HeldInv
<1>7. StopInv'
  BY <1>2, <1>3 DEF StopInv, RecordTypes, Waits
<1> QED BY <1>5, <1>6, <1>7

LEMMA NextRecordKeeps ==
  ASSUME IInv, NextRecord
  PROVE  IInv'
<1> USE DEF IInv
<1>1. UNCHANGED <<slot, index, held, left, move, late, back>> /\ pc = "record"
  BY DEF NextRecord, run
<1>2. \/ pc' = "release"
      \/ pc' = Here.type /\ index \in DOMAIN slot /\ ~aborted'
  BY Slot DEF NextRecord, PlaceInv, Sound
<1>3. Here.type \in RecordTypes \/ pc' = "release"
  BY <1>2, Slot DEF PlaceInv, Here
<1>4. left = 0
  BY <1>1 DEF PlaceInv, Typing, Waits
<1>5. PlaceInv'
  BY <1>1, <1>2, <1>3, <1>4, StaysThere DEF PlaceInv, Typing, Waits, RecordTypes
<1>6. HeldInv'
  <2>1. aborted => aborted'
    BY DEF NextRecord, Pump, pumped
  <2>2. ~InText /\ pc' \notin {"idle", "pass", "typed", "wait"} /\ left' = 0
    BY <1>1, <1>2, <1>3, <1>4 DEF InText, Typing, Waits, RecordTypes
  <2>3. ~InText'
    BY <2>2 DEF InText, Typing, Waits
  <2>4. TypedYet = {} /\ TypedYet' = {}
    BY <2>2, <2>3 DEF TypedYet
  <2>5. HeldBefore(index)' = HeldBefore(index)
    BY <1>1, StaysThere
  <2> QED BY <1>1, <2>1, <2>2, <2>3, <2>4, <2>5 DEF HeldInv
<1>7. StopInv'
  BY <1>1, <1>2, <1>3 DEF StopInv, RecordTypes, Waits
<1> QED BY <1>5, <1>6, <1>7

(* A step that plays the record it is at, and goes on to the next one.       *)
LEMMA GoesOn ==
  ASSUME IInv, slot' = slot, index \in DOMAIN slot, NEW n, n = index', n = Next1(index),
         pc' = "record" \/ (pc' = "wait" /\ back' = "record"), left' = 0,
         ~aborted' => held' = HeldWith(index, HeldBefore(index))
  PROVE  PlaceInv' /\ HeldInv'
<1> USE DEF IInv
<1>1. Sound(n) /\ (~aborted' => held' = HeldBefore(n))
  <2>1. slot \in Slots /\ Sound(index)
    BY DEF PlaceInv
  <2> QED BY <2>1, SoundAfter, HeldAfterRecord
<1>2. Sound(index)' /\ HeldBefore(index)' = HeldBefore(n)
  BY <1>1, SameSlot
<1>3. slot' \in Slots
  BY DEF PlaceInv
<1>4. PlaceInv'
  BY <1>2, <1>3, AtNewRecord
<1>5. ~InText'
  BY DEF InText, Typing, Waits
<1>6. TypedYet' = {}
  BY <1>5 DEF TypedYet
<1>7. pc' \notin {"idle", "pass"}
  OBVIOUS
<1> QED BY <1>1, <1>2, <1>4, <1>5, <1>6, <1>7 DEF HeldInv

LEMMA DispatchKeeps ==
  ASSUME IInv, Dispatch \/ Delay
  PROVE  IInv'
<1> USE DEF IInv
<1>1. /\ UNCHANGED <<slot, move, aborted>> /\ left' = left /\ index' = index + 1
      /\ pc \in {"press", "release key", "tap", "click", "sequence", "delay"}
      /\ pc' = "record" \/ (pc' = "wait" /\ back' = "record")
  BY DEF Dispatch, Delay, run, pumped, Wait
<1>2. /\ slot \in Slots /\ index \in DOMAIN slot /\ Here.type = pc /\ left = 0
      /\ held = HeldBefore(index) /\ ~aborted /\ ~late
  <2>1. slot \in Slots /\ index \in DOMAIN slot /\ Here.type = pc /\ left = 0
    <3>1. pc \in RecordTypes /\ pc \notin {"text", "typed", "wait"}
      BY <1>1 DEF RecordTypes
    <3> QED BY <3>1, AtRecord, NothingLeft DEF PlaceInv
  <2>2. ~aborted /\ ~late
    BY <1>1 DEF StopInv, RecordTypes
  <2>3. held = HeldBefore(index)
    <3>1. ~InText
      BY <1>1 DEF InText, Typing, Waits
    <3>2. TypedYet = {}
      BY <3>1 DEF TypedYet
    <3> QED BY <1>1, <2>2, <3>2 DEF HeldInv
  <2> QED BY <2>1, <2>2, <2>3
<1>3. index + 1 = Next1(index) /\ index \in Played
  <2>1. After(index) = index + 1
    BY <1>1, <1>2, Slot DEF Here
  <2>2. index \in Begin
    BY <1>2 DEF PlaceInv, Sound
  <2> QED BY <1>2, <2>1, <2>2, Slot DEF Next1, Played, Begin, After
<1>4. held' = HeldWith(index, HeldBefore(index))
  <2>1. slot[index].type = pc /\ Here = slot[index] /\ held = HeldBefore(index)
    BY <1>2 DEF Here
  <2>2. HeldWith(index, held) =
          (held \ LetsGo(index)) \cup (IF pc = "press" THEN slot[index].a ELSE {})
    BY <1>3, <2>1 DEF HeldWith
  <2>3. CASE pc = "press"
    <3>1. held' = held \cup slot[index].a /\ LetsGo(index) = {}
      BY <2>1, <2>3 DEF Dispatch, Delay, LetsGo
    <3> QED BY <2>1, <2>2, <2>3, <3>1
  <2>4. CASE pc \in {"release key", "tap", "click"}
    <3>1. held' = held \ LetsGo(index)
      BY <2>1, <2>4 DEF Dispatch, Delay, LetsGo
    <3> QED BY <2>1, <2>2, <2>4, <3>1
  <2>5. CASE pc \in {"sequence", "delay"}
    <3>1. held' = held /\ LetsGo(index) = {}
      BY <2>1, <2>5 DEF Dispatch, Delay, LetsGo
    <3> QED BY <2>1, <2>2, <2>5, <3>1
  <2> QED BY <1>1, <2>3, <2>4, <2>5
<1>5. PlaceInv' /\ HeldInv'
  <2> PICK n : n = index'
    OBVIOUS
  <2> QED BY <1>1, <1>2, <1>3, <1>4, GoesOn
<1>6. ~late'
  BY <1>2 DEF Dispatch, Delay, Sent
<1>7. StopInv'
  BY <1>1, <1>6 DEF StopInv, Waits, RecordTypes
<1> QED BY <1>5, <1>7

LEMMA ReleaseKeeps ==
  ASSUME IInv, Release
  PROVE  IInv'
<1> USE DEF IInv
<1>1. /\ UNCHANGED <<slot, left, move, late>> /\ pc = "release"
      /\ index' = 1 /\ held' = {} /\ pc' \in {"idle", "pass"}
  BY DEF Release, HeldAfter, run
<1>2. Sound(1)
  BY Start1 DEF PlaceInv
<1>3. Sound(index)'
  <2> PICK n : n = 1
    OBVIOUS
  <2> QED BY <1>1, <1>2, SameSlot
<1>4. left = 0
  BY <1>1 DEF PlaceInv, Typing, Waits
<1>5. PlaceInv'
  BY <1>1, <1>3, <1>4 DEF PlaceInv, Typing, Waits, RecordTypes
<1>6. HeldInv' /\ StopInv'
  <2>1. ~InText'
    BY <1>1 DEF InText, Typing, Waits
  <2> QED BY <1>1, <2>1 DEF HeldInv, StopInv, Waits, RecordTypes
<1> QED BY <1>5, <1>6

(* The text that is played is as long as its record says.                    *)
LEMMA TextIs ==
  ASSUME PlaceInv, index \in DOMAIN slot, Here.type = "text"
  PROVE  /\ AfterText = After(index) /\ AfterText \in Int /\ Here.a \in Nat
         /\ AfterText > Count + 1 => HeldWith(index, HeldBefore(index)) = HeldBefore(index)
         /\ AfterText <= Count + 1 =>
              HeldWith(index, HeldBefore(index)) = HeldBefore(index) \ Struck(Here.a)
         /\ Struck(0) = {} /\ \A n \in Nat : Struck(n + 1) = Struck(n) \cup Here.b[n + 1]
<1>1. AfterText = After(index)
  BY DEF AfterText, After, Following, Here
<1>2. IsSlot(slot)
  BY SlotAssumption DEF PlaceInv
<1>3. Here.a \in Nat
  BY <1>2 DEF IsSlot, Here
<1>4. After(index) \in Int
  BY Slot DEF PlaceInv
<1>5. index \in Played <=> ~(AfterText > Count + 1)
  <2>1. index \in Begin /\ Count \in Int
    BY Slot DEF PlaceInv, Sound
  <2> QED BY <1>1, <1>4, <2>1 DEF Played, Begin, After
<1>6. slot[index].type = "text" /\ LetsGo(index) = Struck(Here.a)
  BY DEF LetsGo, Struck, Here
<1>7. HeldWith(index, HeldBefore(index)) =
        HeldBefore(index) \ (IF index \in Played THEN Struck(Here.a) ELSE {})
  BY <1>6 DEF HeldWith
<1>8. AfterText > Count + 1 => HeldWith(index, HeldBefore(index)) = HeldBefore(index)
  BY <1>5, <1>7
<1>9. AfterText <= Count + 1 =>
        HeldWith(index, HeldBefore(index)) = HeldBefore(index) \ Struck(Here.a)
  <2>1. AfterText <= Count + 1 => ~(AfterText > Count + 1)
    BY <1>1, <1>4, Slot DEF PlaceInv
  <2> QED BY <1>5, <1>7, <2>1
<1>10. Struck(0) = {}
  BY DEF Struck
<1>11. ASSUME NEW n \in Nat PROVE Struck(n + 1) = Struck(n) \cup Here.b[n + 1]
  <2>1. 1 .. n + 1 = (1 .. n) \cup {n + 1}
    OBVIOUS
  <2>2. \A k : k \in Struck(n + 1) <=> \E i \in 1 .. n + 1 : k \in Here.b[i]
    BY DEF Struck
  <2>3. \A k : k \in Struck(n) <=> \E i \in 1 .. n : k \in Here.b[i]
    BY DEF Struck
  <2>4. \A k : k \in Struck(n + 1) <=> k \in Struck(n) \/ k \in Here.b[n + 1]
    BY <2>1, <2>2, <2>3
  <2> QED BY <2>4
<1> QED BY <1>1, <1>3, <1>4, <1>8, <1>9, <1>10, <1>11

LEMMA TypingThere ==
  ASSUME IInv, UNCHANGED <<slot, index>>, index \in DOMAIN slot, Here.type = "text",
         left' \in Nat, AfterText <= Count + 1,
         pc' \in {"text", "typed"} \/ (pc' = "wait" /\ back' = "typed")
  PROVE  PlaceInv'
<1>1. Typing' \/ pc' = "text"
  BY DEF Typing, Waits
<1>2. /\ pc' \in {"text", "typed", "wait"} /\ pc' \in RecordTypes => pc' = "text"
      /\ pc' = "wait" => back' = "typed"
  BY DEF RecordTypes
<1>3. /\ Sound(index)' /\ slot' \in Slots /\ AfterText' <= Count' + 1
      /\ (index \in DOMAIN slot)' /\ Here'.type = "text"
  BY StaysThere
<1>4. pc' \in RecordTypes \cup {"idle", "pass", "record", "release", "wait", "typed",
                                 "moves", "step", "moved"}
  BY <1>2 DEF RecordTypes
<1> QED BY <1>1, <1>2, <1>3, <1>4 DEF PlaceInv

LEMMA TextKeeps ==
  ASSUME IInv, Text \/ Type \/ Typed
  PROVE  IInv'
<1> USE DEF IInv
<1>1. slot' = slot /\ move' = move /\ aborted' = aborted
  BY DEF Text, Type, Typed, run, pumped
<1>2. pc = "text" \/ pc = "typed"
  BY DEF Text, Type, Typed
<1>3. index \in DOMAIN slot /\ Here.type = "text" /\ left \in Nat
  <2>1. pc = "text" => index \in DOMAIN slot /\ Here.type = "text"
    BY AtRecord DEF RecordTypes
  <2>2. pc = "typed" => index \in DOMAIN slot /\ Here.type = "text"
    BY DEF PlaceInv, Typing
  <2> QED BY <1>2, <2>1, <2>2 DEF PlaceInv
<1>4. AfterText = After(index) /\ AfterText \in Int /\ Here.a \in Nat
  BY <1>3, TextIs
<1>5. slot \in Slots /\ Count \in Nat
  BY Slot DEF PlaceInv
<1> DEFINE Begun == HeldBefore(index)
<1>h. /\ pc = "typed" \/ left > 0 => InText /\ left <= Here.a
      /\ ~aborted => held = Begun \ (IF InText THEN Struck(Here.a - left) ELSE {})
  <2>1. pc = "typed" \/ left > 0 => InText
    BY <1>2 DEF InText, Typing
  <2> QED BY <1>2, <2>1 DEF HeldInv, TypedYet
<1> HIDE DEF Begun
<1>6. \/ /\ pc' = "record" /\ left' = 0 /\ index' = Next1(index)
         /\ ~aborted' => held' = HeldWith(index, Begun)
      \/ /\ index' = index /\ AfterText <= Count + 1 /\ left' \in Nat /\ left' <= Here.a
         /\ pc' = "text" => left' > 0
         /\ ~aborted' => held' = Begun \ Struck(Here.a - left')
         /\ \/ pc' = "text" /\ ~aborted
            \/ pc' = "wait" /\ back' = "typed"
  <2>1. CASE Text
    <3>1. CASE AfterText > Count + 1 \/ Here.a = 0
      <4>1. pc' = "record" /\ left' = 0 /\ index' = IF AfterText > Count + 1 THEN Count + 1 ELSE AfterText
        BY <2>1, <3>1 DEF Text
      <4>2. left = 0 /\ pc = "text" /\ held' = held
        BY <2>1 DEF Text
      <4>3. ~aborted => held = Begun
        <5>1. ~InText
          BY <4>2 DEF InText, Typing, Waits
        <5> QED BY <1>h, <5>1
      <4>4. HeldWith(index, Begun) = Begun
        <5>1. CASE AfterText > Count + 1
          BY <1>3, <5>1, TextIs DEF Begun
        <5>2. CASE ~(AfterText > Count + 1)
          <6>1. AfterText <= Count + 1 /\ Here.a = 0
            BY <1>4, <1>5, <3>1, <5>2
          <6>2. HeldWith(index, Begun) = Begun \ Struck(0) /\ Struck(0) = {}
            BY <1>3, <6>1, TextIs DEF Begun
          <6> QED BY <6>2
        <5> QED BY <5>1, <5>2
      <4>5. ~aborted' => held' = HeldWith(index, Begun)
        BY <1>1, <4>2, <4>3, <4>4
      <4>6. index' = Next1(index)
        BY <1>4, <4>1 DEF Next1
      <4> QED BY <4>1, <4>5, <4>6
    <3>2. CASE ~(AfterText > Count + 1 \/ Here.a = 0)
      <4>1. pc' = pc /\ pc = "text" /\ index' = index /\ left' = Here.a
        BY <2>1, <3>2 DEF Text
      <4>2. ~aborted
        BY <4>1 DEF StopInv, RecordTypes
      <4>3. left = 0 /\ held' = held
        BY <2>1 DEF Text
      <4>4. ~InText
        BY <4>1, <4>3 DEF InText, Typing, Waits
      <4>5. Here.a - left' = 0 /\ left' \in Nat /\ left' <= Here.a /\ left' > 0 /\ AfterText <= Count + 1
        BY <1>4, <1>5, <3>2, <4>1
      <4>6. Struck(0) = {}
        BY <1>3, TextIs
      <4>7. held' = Begun \ Struck(Here.a - left')
        BY <1>h, <4>2, <4>3, <4>4, <4>5, <4>6
      <4> QED BY <4>1, <4>2, <4>5, <4>7
    <3> QED BY <3>1, <3>2
  <2>2. CASE Type
    <3>1. pc = "text" /\ left > 0 /\ left' = left - 1 /\ index' = index /\ pc' = "wait" /\ back' = "typed"
      BY <2>2 DEF Type, Wait
    <3>2. AfterText <= Count + 1
      BY <3>1 DEF PlaceInv
    <3>3. InText /\ left <= Here.a /\ (~aborted => held = Begun \ Struck(Here.a - left))
      BY <1>h, <3>1
    <3>4. PICK n \in Nat : n = Here.a - left /\ n + 1 = Here.a - left'
      BY <1>3, <1>4, <3>1, <3>3
    <3>5. Struck(n + 1) = Struck(n) \cup Here.b[n + 1]
      BY <1>3, TextIs
    <3>6. held' = held \ Here.b[Here.a - left']
      BY <2>2 DEF Type
    <3>7. ~aborted' => held' = Begun \ Struck(Here.a - left')
      BY <1>1, <3>3, <3>4, <3>5, <3>6
    <3>8. left' \in Nat /\ left' <= Here.a
      BY <1>3, <1>4, <3>1, <3>3
    <3> QED BY <3>1, <3>2, <3>7, <3>8
  <2>3. CASE Typed
    <3>1. AfterText <= Count + 1
      BY <2>3 DEF Typed, PlaceInv, Typing
    <3>2. CASE aborted \/ left = 0
      <4>1. pc' = "record" /\ left' = 0 /\ index' = AfterText
        BY <2>3, <3>2 DEF Typed
      <4>2. index' = Next1(index)
        BY <1>4, <1>5, <3>1, <4>1 DEF Next1
      <4>3. held' = held /\ pc = "typed"
        BY <2>3 DEF Typed
      <4>4. ASSUME ~aborted' PROVE held' = HeldWith(index, Begun)
        <5>1. left = 0 /\ ~aborted
          BY <1>1, <3>2, <4>4
        <5>2. Here.a - left = Here.a
          BY <1>4, <5>1
        <5>3. held = Begun \ Struck(Here.a)
          BY <1>h, <4>3, <5>1, <5>2
        <5>4. HeldWith(index, Begun) = Begun \ Struck(Here.a)
          BY <1>3, <3>1, TextIs DEF Begun
        <5> QED BY <4>3, <5>3, <5>4
      <4> QED BY <4>1, <4>2, <4>4
    <3>3. CASE ~(aborted \/ left = 0)
      <4>1. pc' = "text" /\ index' = index /\ left' = left
        BY <2>3, <3>3 DEF Typed
      <4>2. held' = held /\ pc = "typed"
        BY <2>3 DEF Typed
      <4>3. left <= Here.a /\ (~aborted => held = Begun \ Struck(Here.a - left))
        BY <1>h, <4>2
      <4>4. left > 0
        BY <1>3, <3>3
      <4> QED BY <1>1, <1>3, <3>1, <3>3, <4>1, <4>2, <4>3, <4>4
    <3> QED BY <3>2, <3>3
  <2> QED BY <2>1, <2>2, <2>3
<1>7. PlaceInv' /\ HeldInv'
  <2>1. CASE pc' = "record" /\ left' = 0 /\ index' = Next1(index)
             /\ (~aborted' => held' = HeldWith(index, Begun))
    <3> PICK n : n = index'
      OBVIOUS
    <3> QED BY <1>1, <1>3, <2>1, GoesOn DEF Begun
  <2>2. CASE index' = index /\ AfterText <= Count + 1 /\ left' \in Nat /\ left' <= Here.a
             /\ (pc' = "text" => left' > 0)
             /\ (~aborted' => held' = Begun \ Struck(Here.a - left'))
             /\ (pc' = "text" \/ (pc' = "wait" /\ back' = "typed"))
    <3>1. PlaceInv'
      BY <1>1, <1>3, <2>2, TypingThere
    <3>2. HeldBefore(index)' = Begun /\ Here' = Here
      BY <1>1, <2>2, StaysThere DEF Begun
    <3>3. InText'
      BY <2>2 DEF InText, Typing, Waits
    <3>4. TypedYet' = Struck(Here.a - left')
      BY <3>2, <3>3 DEF TypedYet, Struck
    <3>5. pc' \notin {"idle", "pass"}
      BY <2>2
    <3> QED BY <2>2, <3>1, <3>2, <3>4, <3>5 DEF HeldInv
  <2> QED BY <1>6, <2>1, <2>2
<1>8. ~late'
  <2>1. CASE Type
    BY <2>1 DEF Type, Sent, StopInv, RecordTypes
  <2>2. CASE Text \/ Typed
    BY <2>2 DEF Text, Typed, StopInv
  <2> QED BY <2>1, <2>2
<1>9. StopInv'
  <2>1. pc' = "record" \/ (pc' = "text" /\ ~aborted') \/ (pc' = "wait" /\ back' = "typed")
    BY <1>1, <1>6
  <2> QED BY <1>1, <1>8, <2>1 DEF StopInv, RecordTypes, Waits
<1> QED BY <1>7, <1>9

LEMMA MovesKeeps ==
  ASSUME IInv, Moves
  PROVE  IInv'
<1> USE DEF IInv
<1> PICK e : e = EndOfMoves
  OBVIOUS
<1> PICK n : n = index'
  OBVIOUS
<1>1. /\ slot' = slot /\ left' = left /\ held' = held /\ aborted' = aborted /\ late' = late
      /\ pc = "move" /\ pc' = "moves"
  BY DEF Moves, run, pumped
<1>2. index' = IF Paused(e) THEN e + 1 ELSE e
  BY DEF Moves
<1>3. /\ slot \in Slots /\ Sound(index) /\ index \in DOMAIN slot /\ Here.type = "move"
      /\ left = 0 /\ held = HeldBefore(index) /\ ~aborted /\ ~late
  <2>1. pc \in RecordTypes /\ pc \notin {"text", "typed", "wait"}
    BY <1>1 DEF RecordTypes
  <2>2. ~InText /\ TypedYet = {}
    BY <1>1, NotInText DEF Waits
  <2>3. ~aborted /\ ~late
    BY <2>1 DEF StopInv
  <2>4. held = HeldBefore(index)
    BY <1>1, <2>2, <2>3 DEF HeldInv
  <2> QED BY <1>1, <2>1, <2>3, <2>4, AtRecord, NothingLeft DEF PlaceInv
<1>4. Sound(n) /\ HeldBefore(n) = HeldBefore(index)
  BY <1>2, <1>3, AfterMoves
<1>5. Sound(index)' /\ HeldBefore(index)' = HeldBefore(n)
  BY <1>1, <1>4, SameSlot
<1>6. PlaceInv'
  BY <1>1, <1>3, <1>5, AtNewRecord
<1>7. HeldInv'
  <2>1. ~InText' /\ TypedYet' = {}
    <3>1. ~InText'
      BY <1>1 DEF InText, Typing, Waits
    <3> QED BY <3>1 DEF TypedYet
  <2> QED BY <1>1, <1>3, <1>4, <1>5, <2>1 DEF HeldInv
<1>8. "step" \in DOMAIN move' /\ move'.step \in Nat
  <2> DEFINE p == Pause(e)
  <2>1. PICK o, r : move' = [NoMove EXCEPT !.at = index, !.end = e, !.over = o, !.rest = r]
    BY DEF Moves
  <2> QED BY <2>1 DEF NoMove
<1>9. StopInv'
  BY <1>1, <1>3, <1>8 DEF StopInv, RecordTypes, Waits
<1> QED BY <1>6, <1>7, <1>9

(* A step of a run of moves, at whatever record comes after it.              *)
LEMMA InMoves ==
  ASSUME IInv, UNCHANGED <<slot, index, left, held>>, aborted' = aborted,
         pc \in {"moves", "step", "moved"},
         \/ pc' \in {"record", "moves", "step"}
         \/ pc' = "wait" /\ back' \in {"record", "moved", "step"}
  PROVE  PlaceInv' /\ HeldInv'
<1> USE DEF IInv
<1>1. left = 0 /\ (~aborted => held = HeldBefore(index))
  <2>1. TypedYet = {}
    BY NotInText DEF Waits
  <2> QED BY <2>1, NothingLeft DEF HeldInv
<1>2. Sound(index)' /\ slot' \in Slots /\ HeldBefore(index)' = HeldBefore(index)
  BY StaysThere
<1>3. PlaceInv'
  BY <1>1, <1>2, AtNewRecord
<1>4. ~InText' /\ TypedYet' = {}
  <2>1. ~InText'
    BY DEF InText, Typing, Waits
  <2> QED BY <2>1 DEF TypedYet
<1>5. pc' \notin {"idle", "pass"}
  OBVIOUS
<1> QED BY <1>1, <1>2, <1>3, <1>4, <1>5 DEF HeldInv

LEMMA EachMoveKeeps ==
  ASSUME IInv, EachMove
  PROVE  IInv'
<1> USE DEF IInv
<1>1. /\ UNCHANGED <<slot, index, left, held>> /\ aborted' = aborted /\ late' = late
      /\ pc = "moves" /\ ~aborted /\ ~late
  BY DEF EachMove, run, pumped, StopInv
<1>2. \/ pc' = "wait" /\ back' \in {"record", "moved"} /\ move' = move
      \/ /\ "step" \in DOMAIN move' /\ move'.step = 1
         /\ pc' = "step" \/ (pc' = "wait" /\ back' = "moved")
  <2>1. CASE move.at = move.end
    BY <2>1 DEF EachMove, Wait
  <2>2. CASE move.at # move.end
    <3>1. PICK s : move' = [at |-> move.at, end |-> move.end, rest |-> move.rest,
                            over |-> move.over, step |-> 1, steps |-> s, from |-> clock]
      BY <2>2 DEF EachMove
    <3>2. "step" \in DOMAIN move' /\ move'.step = 1
      BY <3>1 DEF StopInv
    <3>3. pc' = "step" \/ (pc' = "wait" /\ back' = "moved")
      BY <2>2 DEF EachMove, Wait
    <3> QED BY <3>2, <3>3
  <2> QED BY <2>1, <2>2
<1>3. PlaceInv' /\ HeldInv'
  BY <1>1, <1>2, InMoves
<1>4. "step" \in DOMAIN move' /\ move'.step \in Nat /\ pc' \in {"wait", "step"}
      /\ (pc' = "step" => move'.step = 1) /\ (pc' = "wait" => back' # "step")
  BY <1>1, <1>2 DEF StopInv
<1>5. StopInv'
  <2>1. ~late' /\ ~aborted'
    BY <1>1
  <2>2. ~Waits("step")' /\ (pc' = "step" => move'.step > 0)
    BY <1>4 DEF Waits
  <2> QED BY <1>4, <2>1, <2>2 DEF StopInv
<1> QED BY <1>3, <1>5

LEMMA StepKeeps ==
  ASSUME IInv, Step
  PROVE  IInv'
<1> USE DEF IInv
<1>1. /\ UNCHANGED <<slot, index, left, held>> /\ aborted' = aborted
      /\ pc = "step" /\ pc' = "wait" /\ back' \in {"moved", "step"}
  BY DEF Step, run, pumped, Wait
<1>2. "step" \in DOMAIN move' /\ move'.step = move.step + 1
  BY DEF Step, StopInv
<1>3. late' = (late \/ (aborted /\ move.step = 1))
  BY DEF Step
<1>4. move.step \in Nat /\ move.step > 0 /\ (aborted => move.step > 1) /\ ~late
  BY <1>1 DEF StopInv
<1>5. ~late'
  <2>1. ~(aborted /\ move.step = 1)
    BY <1>4
  <2> QED BY <1>3, <1>4, <2>1, Zenon
<1>6. PlaceInv' /\ HeldInv'
  BY <1>1, InMoves
<1>7. move'.step \in Nat /\ move'.step > 1
  BY <1>2, <1>4
<1>8. StopInv'
  BY <1>1, <1>2, <1>5, <1>7 DEF StopInv, RecordTypes, Waits
<1> QED BY <1>6, <1>8

LEMMA MovedKeeps ==
  ASSUME IInv, Moved
  PROVE  IInv'
<1> USE DEF IInv
<1>1. /\ UNCHANGED <<slot, index, left, held>> /\ aborted' = aborted /\ late' = late
      /\ pc = "moved" /\ pc' = (IF aborted THEN "record" ELSE "moves")
  BY DEF Moved, AfterMove, run, pumped
<1>2. "step" \in DOMAIN move' /\ move'.step \in Nat
  <2>1. CASE pc' = "record"
    <3>1. move' = NoMove
      BY <2>1 DEF Moved
    <3> QED BY <3>1 DEF NoMove
  <2>2. CASE pc' # "record"
    <3>1. move' = [move EXCEPT !.at = @ + 1]
      BY <2>2 DEF Moved
    <3> QED BY <3>1 DEF StopInv
  <2> QED BY <2>1, <2>2
<1>3. PlaceInv' /\ HeldInv'
  BY <1>1, InMoves
<1>4. StopInv'
  BY <1>1, <1>2 DEF StopInv, RecordTypes, Waits
<1> QED BY <1>3, <1>4

LEMMA TimeKeeps ==
  ASSUME IInv, Waiting \/ Work
  PROVE  IInv'
<1> USE DEF IInv
<1>1. UNCHANGED <<slot, index, back, left, move, held, late>>
  BY DEF Waiting, Work, run
<1>2. \/ /\ pc = "wait" /\ pc' \in {"wait", back}
      \/ /\ pc' = pc /\ aborted' = aborted /\ pc \in {"record", "text", "moves", "step"}
  BY DEF Waiting, Work, pumped
<1>3. /\ Sound(index)' /\ slot' \in Slots /\ Here' = Here /\ AfterText' = AfterText
      /\ Count' = Count /\ HeldBefore(index)' = HeldBefore(index)
      /\ (index \in DOMAIN slot)' <=> index \in DOMAIN slot
  BY <1>1, StaysThere
<1>4. PlaceInv'
  <2>1. CASE pc = "wait" /\ back = "typed"
    <3>1. index \in DOMAIN slot /\ Here.type = "text" /\ AfterText <= Count + 1 /\ left \in Nat
      BY <2>1 DEF PlaceInv, Typing, Waits
    <3> QED BY <1>1, <1>2, <2>1, <3>1, TypingThere
  <2>2. CASE pc = "wait" /\ back # "typed"
    <3>1. left = 0 /\ back \in {"record", "moved", "step"}
      BY <2>2 DEF PlaceInv, Typing, Waits
    <3> QED BY <1>1, <1>2, <1>3, <2>2, <3>1, AtNewRecord
  <2>3. CASE pc = "text"
    <3>1. pc' = "text"
      BY <1>2, <2>3
    <3> QED BY <1>1, <1>3, <2>3, <3>1 DEF PlaceInv, Typing, Waits
  <2>4. CASE pc \in {"record", "moves", "step"}
    <3>1. left = 0 /\ pc' = pc
      BY <1>2, <2>4, NothingLeft
    <3> QED BY <1>1, <1>3, <2>4, <3>1, AtNewRecord
  <2> QED BY <1>2, <2>1, <2>2, <2>3, <2>4
<1>5. HeldInv'
  <2>1. pc' \notin {"idle", "pass", "release"} /\ pc \notin {"idle", "pass", "release"}
    BY <1>2 DEF PlaceInv
  <2>2. aborted => aborted'
    BY DEF Waiting, Work, Pump, pumped
  <2>3. InText' <=> InText
    <3>1. back = "typed" \/ left = 0 \/ pc # "wait"
      BY DEF PlaceInv, Typing, Waits
    <3>2. Typing' <=> Typing
      BY <1>1, <1>2 DEF Typing, Waits, PlaceInv
    <3>3. pc' = "text" <=> pc = "text"
      BY <1>1, <1>2 DEF PlaceInv
    <3> QED BY <1>1, <3>2, <3>3 DEF InText
  <2>4. TypedYet' = TypedYet
    BY <1>1, <1>3, <2>3 DEF TypedYet, Struck
  <2> QED BY <1>1, <1>3, <2>1, <2>2, <2>3, <2>4 DEF HeldInv
<1>6. StopInv'
  <2>1. CASE pc = "wait"
    <3>1. pc' \in {"wait", "record", "typed", "moved", "step"} /\ (pc' = "step" => back = "step")
      BY <1>2, <2>1 DEF PlaceInv
    <3>2. back = "step" => move.step > 1
      BY <2>1 DEF StopInv, Waits
    <3>3. pc' = "step" => move.step > 0
      BY <3>1, <3>2 DEF StopInv
    <3> QED BY <1>1, <3>1, <3>2, <3>3 DEF StopInv, Waits, RecordTypes
  <2>2. CASE pc # "wait"
    BY <1>1, <1>2, <2>2 DEF StopInv, Waits
  <2> QED BY <2>1, <2>2
<1> QED BY <1>4, <1>5, <1>6

LEMMA InitInv == Init => IInv
<1> SUFFICES ASSUME Init PROVE IInv
  OBVIOUS
<1>1. slot \in Slots /\ index = 1 /\ pc = "idle" /\ left = 0 /\ held = {} /\ move = NoMove /\ ~late
  BY DEF Init
<1>2. Sound(1)
  BY <1>1, Start1
<1>3. PlaceInv
  BY <1>1, <1>2 DEF PlaceInv, Typing, Waits, RecordTypes
<1>4. HeldInv /\ StopInv
  <2>1. ~InText
    BY <1>1 DEF InText, Typing, Waits
  <2> QED BY <1>1, <2>1 DEF HeldInv, StopInv, Waits, RecordTypes, NoMove
<1> QED BY <1>3, <1>4 DEF IInv

LEMMA SameInv ==
  ASSUME IInv, UNCHANGED vars
  PROVE  IInv'
<1>1. UNCHANGED <<slot, index, pc, back, aborted, left, move, held, late>>
  BY DEF vars, run, pumped
<1>2. /\ Sound(index)' /\ slot' \in Slots /\ Here' = Here /\ AfterText' = AfterText
      /\ Count' = Count /\ HeldBefore(index)' = HeldBefore(index)
  BY <1>1, StaysThere
<1>3. PlaceInv'
  BY <1>1, <1>2 DEF IInv, PlaceInv, Typing, Waits
<1>4. HeldInv' /\ StopInv'
  <2>1. InText' = InText /\ TypedYet' = TypedYet
    BY <1>1, <1>2 DEF InText, TypedYet, Typing, Waits, Struck
  <2> QED BY <1>1, <1>2, <2>1 DEF IInv, HeldInv, StopInv, Waits
<1> QED BY <1>3, <1>4 DEF IInv

LEMMA Invariance == Spec => []IInv
<1>1. IInv /\ [Next]_vars => IInv'
  BY BeginsKeep, NextRecordKeeps, DispatchKeeps, ReleaseKeeps, TextKeeps, MovesKeeps,
     EachMoveKeeps, StepKeeps, MovedKeeps, TimeKeeps, SameInv DEF Next
<1> QED BY InitInv, <1>1, PTL DEF Spec

---------------------------------------------------------------------------
(* What playing keeps                                                        *)

(* At every record of every pass exactly those keys and buttons are down that  *)
(* the records before it pressed and nothing has let go of since, be it a      *)
(* release, a tap or a character that strikes the same key, or a click; in any  *)
(* slot, wherever a text or a run of moves ends, unless the macro was stopped   *)
(* inside a text; and nothing is down when it is over, however it ended        *)
(* (runMacro, runText, runMoves, dispatchKey).                               *)
THEOREM KeysAsRecorded == Spec => []HeldAsRecorded
<1>1. IInv => HeldAsRecorded
  <2> SUFFICES ASSUME IInv PROVE HeldAsRecorded
    OBVIOUS
  <2>1. pc = "record" => TypedYet = {}
    BY NotInText DEF IInv, Waits
  <2> QED BY <2>1 DEF IInv, HeldInv, HeldAsRecorded
<1> QED BY <1>1, Invariance, PTL

(* Once the macro is stopped nothing more is begun to be sent, at whatever    *)
(* wait of whatever record the stop came (macroWait, runText, emitMove).      *)
THEOREM NothingAfterTheStop == Spec => []StopEndsOutput
<1>1. IInv => StopEndsOutput
  BY DEF IInv, StopInv, StopEndsOutput
<1> QED BY <1>1, Invariance, PTL

---------------------------------------------------------------------------
(* How long it takes                                                         *)

LEMMA Multiple ==
  ASSUME NEW w \in Nat, NEW d \in Int, d >= 1
  PROVE  d * w >= w
<1>1. d - 1 >= 0 /\ d - 1 \in Int
  OBVIOUS
<1>2. \A a, b \in Int : a >= 0 /\ b >= 0 => a * b >= 0
  OBVIOUS
<1>3. (d - 1) * w >= 0
  BY <1>1, <1>2
<1>4. (d - 1) * w = d * w - w
  OBVIOUS
<1> QED BY <1>3, <1>4

LEMMA ModIs ==
  ASSUME NEW w \in Nat \ {0}, NEW q \in Int, NEW r \in 0 .. w - 1
  PROVE  (q * w + r) % w = r
<1> DEFINE p == (q * w + r) \div w
           s == (q * w + r) % w
<1>1. q * w \in Int /\ q * w + r \in Int
  OBVIOUS
<1>2. /\ p \in Int /\ s \in 0 .. w - 1 /\ q * w + r = p * w + s
  BY <1>1
<1> HIDE DEF p, s
<1>3. (q - p) * w = s - r
  <2>1. (q - p) * w = q * w - p * w
    BY <1>2
  <2> QED BY <1>1, <1>2, <2>1
<1>4. ~(q - p >= 1)
  BY <1>2, <1>3, Multiple
<1>5. ~(p - q >= 1)
  <2>1. (p - q) * w = r - s
    <3>1. (p - q) * w = p * w - q * w
      BY <1>2
    <3> QED BY <1>1, <1>2, <3>1
  <2> QED BY <1>2, <2>1, Multiple
<1>6. q = p
  BY <1>2, <1>4, <1>5
<1>7. s = r
  BY <1>2, <1>3, <1>6
<1> QED BY <1>7 DEF s

LEMMA ModShift ==
  ASSUME NEW w \in Nat \ {0}, NEW a \in Int, NEW b \in Int
  PROVE  /\ ((a % w) + b) % w = (a + b) % w
         /\ (b - (a % w)) % w = (b - a) % w
<1> DEFINE p == a \div w
           s == a % w
<1>1. p \in Int /\ s \in 0 .. w - 1 /\ a = p * w + s /\ p * w \in Int
  OBVIOUS
<1> HIDE DEF p, s
<1>2. ASSUME NEW x \in Int, NEW k \in Int
      PROVE  (x + k * w) % w = x % w
  <2> DEFINE q == x \div w
             r == x % w
  <2>1. q \in Int /\ r \in 0 .. w - 1 /\ x = q * w + r
    OBVIOUS
  <2> HIDE DEF q, r
  <2>2. x + k * w = (q + k) * w + r
    <3>1. (q + k) * w = q * w + k * w
      BY <2>1
    <3>2. k * w \in Int /\ q * w \in Int
      BY <2>1
    <3> QED BY <2>1, <3>1, <3>2
  <2>3. ((q + k) * w + r) % w = r
    BY <2>1, ModIs
  <2> QED BY <2>2, <2>3 DEF r
<1>3. (s + b) % w = (a + b) % w
  <2>1. ((s + b) + p * w) % w = (s + b) % w
    <3>1. s + b \in Int
      BY <1>1
    <3> QED BY <1>1, <1>2, <3>1, Zenon
  <2>2. (s + b) + p * w = a + b
    BY <1>1
  <2> QED BY <2>1, <2>2
<1>4. (b - s) % w = (b - a) % w
  <2>1. ((b - a) + p * w) % w = (b - a) % w
    <3>1. b - a \in Int
      OBVIOUS
    <3> QED BY <1>1, <1>2, <3>1, Zenon
  <2>2. (b - a) + p * w = b - s
    BY <1>1
  <2> QED BY <2>1, <2>2
<1> QED BY <1>3, <1>4 DEF s

LEMMA ModNear ==
  ASSUME NEW w \in Nat \ {0}, NEW x \in Int
  PROVE  /\ x \in 0 .. w - 1 => x % w = x
         /\ x < 0 /\ x + w >= 0 => x % w = x + w
<1>1. ASSUME x \in 0 .. w - 1 PROVE x % w = x
  <2>1. (0 * w + x) % w = x
    BY <1>1, ModIs
  <2> QED BY <2>1
<1>2. ASSUME x < 0, x + w >= 0 PROVE x % w = x + w
  <2>1. ((-1) * w + (x + w)) % w = x + w
    BY <1>2, ModIs
  <2>2. (-1) * w + (x + w) = x
    OBVIOUS
  <2> QED BY <2>1, <2>2
<1> QED BY <1>1, <1>2

TicksOf(i) == {i} \X (1 .. Authored(i))
TicksBefore(n) == {t \in Ticks : t[1] < n}
Due(n) == Cardinality(TicksBefore(n))

LEMMA Records ==
  ASSUME slot \in Slots, NEW i \in DOMAIN slot
  PROVE  /\ slot[i].type \in {"delay", "text"} => slot[i].a \in Nat
         /\ slot[i].type = "delay" => slot[i].a <= WRAP \div 2
         /\ slot[i].type = "move" => slot[i].a \in Int /\ slot[i].b \in Int
<1>1. IsSlot(slot)
  BY SlotAssumption
<1>2. \A s \in Slots : \A j \in DOMAIN s : s[j].type = "delay" => s[j].a <= WRAP \div 2
  BY WrapAssumption
<1> QED BY <1>1, <1>2 DEF IsSlot

LEMMA Times ==
  /\ WRAP \in Nat /\ MaxWork \in Nat /\ MaxWork < WRAP \div 2 /\ MAX_RUN \in Nat
  /\ TEXT_DELAY \in Nat /\ SLICE \in Nat /\ SPREAD_MAX \in Nat
  /\ TEXT_DELAY <= WRAP \div 2 /\ SLICE <= WRAP \div 2 /\ SPREAD_MAX <= WRAP \div 2
  /\ WRAP \div 2 \in Nat /\ 2 * (WRAP \div 2) <= WRAP /\ WRAP \in Nat \ {0}
<1>1. WRAP \in Nat /\ MaxWork \in Nat /\ MaxWork < WRAP \div 2 /\ MAX_RUN \in Nat
  BY TimeAssumption, WrapAssumption
<1>2. {TEXT_DELAY, SLICE, SPREAD_MAX} \subseteq 0 .. WRAP \div 2
  BY WrapAssumption
<1>3. WRAP \div 2 \in Nat /\ 2 * (WRAP \div 2) <= WRAP
  BY <1>1
<1> QED BY <1>1, <1>2, <1>3

LEMMA AuthoredIs ==
  ASSUME slot \in Slots, NEW i \in DOMAIN slot
  PROVE  /\ Authored(i) \in Nat
         /\ slot[i].type = "delay" => Authored(i) = slot[i].a
         /\ slot[i].type = "text" => Authored(i) = slot[i].a * TEXT_DELAY
         /\ slot[i].type \notin {"delay", "text", "move"} => Authored(i) = 0
         /\ slot[i].type = "move" =>
              Authored(i) = IF i < Count /\ (slot[i + 1].type = "move" \/ Pause(i + 1) > 0) THEN 0 ELSE SLICE
<1>1. CASE slot[i].type = "delay"
  BY <1>1, Records DEF Authored
<1>2. CASE slot[i].type = "text"
  <2>1. Authored(i) = slot[i].a * TEXT_DELAY
    BY <1>2 DEF Authored
  <2>2. \A a, b \in Nat : a * b \in Nat
    OBVIOUS
  <2> QED BY <1>2, <2>1, <2>2, Records, Times
<1>3. CASE slot[i].type = "move"
  <2>1. Authored(i) = IF i < Count /\ (slot[i + 1].type = "move" \/ Pause(i + 1) > 0) THEN 0 ELSE SLICE
    BY <1>3 DEF Authored
  <2> QED BY <1>3, <2>1, Times
<1>4. CASE slot[i].type \notin {"delay", "text", "move"}
  BY <1>4 DEF Authored
<1> QED BY <1>1, <1>2, <1>3, <1>4

LEMMA PlayedIs ==
  ASSUME slot \in Slots
  PROVE  /\ Played \subseteq DOMAIN slot /\ \A i \in Played : i \in Int /\ i \in Begin
         /\ \A i \in Begin : i \in Played <=> After(i) <= Count + 1
  BY Slot, Closed DEF Played, Begin, After

LEMMA TicksOfIs ==
  ASSUME slot \in Slots, NEW i \in DOMAIN slot
  PROVE  /\ IsFiniteSet(TicksOf(i)) /\ Cardinality(TicksOf(i)) = Authored(i)
         /\ \A t \in TicksOf(i) : t[1] = i
<1>1. Authored(i) \in Nat
  BY AuthoredIs
<1>2. IsFiniteSet({i}) /\ Cardinality({i}) = 1
  BY FS_Singleton
<1>3. IsFiniteSet(1 .. Authored(i)) /\ Cardinality(1 .. Authored(i)) = Authored(i)
  BY <1>1, FS_Interval
<1>4. IsFiniteSet(TicksOf(i)) /\ Cardinality(TicksOf(i)) = 1 * Authored(i)
  BY <1>2, <1>3, FS_Product DEF TicksOf
<1> QED BY <1>1, <1>4 DEF TicksOf

LEMMA TicksFinite ==
  ASSUME slot \in Slots
  PROVE  /\ IsFiniteSet(Ticks) /\ Ticks = UNION {TicksOf(i) : i \in Played}
         /\ AllAuthored \in Nat
<1> DEFINE S == {TicksOf(i) : i \in Played}
           f == [i \in Played |-> TicksOf(i)]
<1>1. Ticks = UNION S
  BY DEF Ticks, TicksOf
<1>2. IsFiniteSet(Played)
  <2>1. IsFiniteSet(1 .. Count)
    BY Slot, FS_Interval
  <2> QED BY <2>1, Slot, PlayedIs, FS_Subset
<1>3. f \in Surjection(Played, S)
  BY DEF Surjection
<1>4. IsFiniteSet(S)
  <2> HIDE DEF f, S
  <2> QED BY <1>2, <1>3, FS_Surjection
<1>5. \A T \in S : IsFiniteSet(T)
  BY PlayedIs, TicksOfIs
<1>6. IsFiniteSet(Ticks)
  <2> HIDE DEF S
  <2> QED BY <1>1, <1>4, <1>5, FS_UNION
<1> QED BY <1>1, <1>6, FS_CardinalityType DEF AllAuthored

LEMMA DueIs ==
  ASSUME slot \in Slots, NEW n \in Int
  PROVE  Due(n) \in Nat /\ Due(n) <= AllAuthored /\ IsFiniteSet(TicksBefore(n))
<1>1. TicksBefore(n) \subseteq Ticks
  BY DEF TicksBefore
<1> QED BY <1>1, TicksFinite, FS_Subset, FS_CardinalityType DEF Due, AllAuthored

LEMMA DueFirst == slot \in Slots => Due(1) = 0
<1> SUFFICES ASSUME slot \in Slots PROVE Due(1) = 0
  OBVIOUS
<1>1. \A t \in Ticks : ~ (t[1] < 1)
  BY TicksFinite, TicksOfIs, PlayedIs, Slot
<1>2. TicksBefore(1) = {}
  BY <1>1 DEF TicksBefore
<1> QED BY <1>2, FS_EmptySet DEF Due

(* What is recorded until the next record is what was, and this record's.    *)
LEMMA DueNext ==
  ASSUME slot \in Slots, NEW n \in DOMAIN slot, Sound(n)
  PROVE  Due(Next1(n)) = Due(n) + (IF n \in Played THEN Authored(n) ELSE 0)
<1> DEFINE m == Next1(n)
           own == IF n \in Played THEN TicksOf(n) ELSE {}
<1>1. m \in Int /\ n \in Int /\ n < m
  BY SoundAfter, Slot DEF Sound
<1>2. \A i \in Played : i < m => i <= n
  BY PlayedIs, NoneBetween, Slot DEF Next1
<1>3. IsFiniteSet(own) /\ Cardinality(own) = IF n \in Played THEN Authored(n) ELSE 0
  BY TicksOfIs, FS_EmptySet
<1>4. \A t \in Ticks : \E i \in Played : t \in TicksOf(i) /\ t[1] = i
  BY TicksFinite, TicksOfIs, PlayedIs
<1>5. own \subseteq Ticks /\ \A t \in own : t[1] = n
  BY TicksFinite, TicksOfIs
<1>6. \A t \in Ticks : t[1] = n => t \in own
  BY <1>4
<1> HIDE DEF own, m
<1>7. TicksBefore(m) = TicksBefore(n) \cup own
  <2>1. \A t \in Ticks : t[1] < m <=> t[1] < n \/ t \in own
    <3>1. ASSUME NEW t \in Ticks PROVE t[1] < m <=> t[1] < n \/ t \in own
      <4>1. t[1] \in Int /\ (t[1] < m => t[1] <= n)
        BY <1>2, <1>4, PlayedIs
      <4> QED BY <1>1, <1>5, <1>6, <4>1
    <3> QED BY <3>1
  <2> QED BY <1>5, <2>1 DEF TicksBefore
<1>8. TicksBefore(n) \cap own = {}
  BY <1>1, <1>5 DEF TicksBefore
<1>9. IsFiniteSet(TicksBefore(n)) /\ Due(n) \in Nat
  BY <1>1, DueIs
<1>10. Cardinality(TicksBefore(n) \cup own)
        = Cardinality(TicksBefore(n)) + Cardinality(own) - Cardinality(TicksBefore(n) \cap own)
  BY <1>3, <1>9, FS_Union
<1>11. Due(m) = Due(n) + Cardinality(own)
  <2>1. Cardinality(own) \in Nat
    BY <1>3, FS_CardinalityType
  <2>2. Cardinality(TicksBefore(n) \cap own) = 0
    BY <1>8, FS_EmptySet
  <2>3. Due(m) = Cardinality(TicksBefore(n) \cup own) /\ Due(n) = Cardinality(TicksBefore(n))
    BY <1>7 DEF Due
  <2> QED BY <1>9, <1>10, <2>1, <2>2, <2>3
<1> QED BY <1>3, <1>11 DEF m

(* The moves of a run, up to the first record that is none.                  *)
LEMMA RunIs ==
  ASSUME slot \in Slots, index \in DOMAIN slot, Here.type = "move", NEW e, e = EndOfMoves
  PROVE  /\ e \in index + 1 .. Count + 1
         /\ \A k \in index .. e - 1 : k \in DOMAIN slot /\ slot[k].type = "move"
         /\ e <= Count => slot[e].type # "move"
<1> USE Slot
<1> DEFINE S == {i \in index .. Count + 1 : i = Count + 1 \/ slot[i].type # "move"}
<1>1. e \in S /\ \A k \in S : e <= k
  <2>1. S \in SUBSET Nat /\ Count + 1 \in S
    OBVIOUS
  <2>2. e = CHOOSE x \in S : \A y \in S : x <= y
    BY DEF EndOfMoves, Min
  <2> HIDE DEF S
  <2>3. \E x \in S : \A y \in S : x <= y
    BY <2>1, LeastExists
  <2> QED BY <2>2, <2>3, Zenon
<1>2. e \in index + 1 .. Count + 1 /\ (e <= Count => slot[e].type # "move")
  BY <1>1 DEF Here
<1>3. \A k \in index .. e - 1 : k \notin S /\ k \in index .. Count
  BY <1>1, <1>2
<1> QED BY <1>2, <1>3

LEMMA PauseIs ==
  ASSUME slot \in Slots, NEW e \in 1 .. Count + 1
  PROVE  /\ Pause(e) \in 0 .. WRAP \div 2
         /\ Paused(e) => e \in DOMAIN slot /\ slot[e].type = "delay" /\ Pause(e) = slot[e].a
         /\ ~Paused(e) => Pause(e) = 0
<1>1. CASE Paused(e)
  <2>1. e \in DOMAIN slot /\ slot[e].type = "delay" /\ Pause(e) = slot[e].a
    BY <1>1, Slot DEF Paused, Pause
  <2> QED BY <1>1, <2>1, Records, Times
<1>2. CASE ~Paused(e)
  BY <1>2, Times DEF Pause
<1> QED BY <1>1, <1>2

Length(pause) == IF pause = 0 THEN SLICE ELSE pause

(* A run of moves takes what the pause after it takes, or a slice.           *)
LEMMA DueMoves ==
  ASSUME slot \in Slots, Sound(index), index \in DOMAIN slot, Here.type = "move",
         NEW e, e = EndOfMoves
  PROVE  Due(IF Paused(e) THEN e + 1 ELSE e) = Due(index) + Length(Pause(e))
<1> USE Slot
<1> DEFINE Good(k) == Sound(k) /\ Due(k) = Due(index)
           Bad == {k \in index .. e - 1 : ~Good(k)}
<1>1. /\ e \in index + 1 .. Count + 1
      /\ \A k \in index .. e - 1 : k \in DOMAIN slot /\ slot[k].type = "move"
      /\ e <= Count => slot[e].type # "move"
  BY RunIs
<1>2. ASSUME NEW k \in DOMAIN slot, Sound(k), slot[k].type \in {"move", "delay"}
      PROVE  Sound(k + 1) /\ Due(k + 1) = Due(k) + Authored(k)
  <2>1. After(k) = k + 1 /\ Next1(k) = k + 1 /\ k \in Played
    BY <1>2, PlayedIs DEF Next1, Sound
  <2> QED BY <1>2, <2>1, DueNext, SoundAfter
<1>3. Due(index) \in Nat
  BY DueIs
<1>4. Good(e - 1)
  <2> SUFFICES ASSUME ~Good(e - 1) PROVE FALSE
    OBVIOUS
  <2>1. Bad \in SUBSET Nat /\ Bad # {}
    BY <1>1
  <2>2. PICK m \in Bad : \A k \in Bad : m <= k
    <3> HIDE DEF Bad
    <3> QED BY <2>1, LeastExists
  <2>3. m \in index .. e - 1 /\ ~Good(m)
    OBVIOUS
  <2>4. Good(index)
    OBVIOUS
  <2>5. m - 1 \in index .. e - 1 /\ m - 1 \in DOMAIN slot /\ slot[m - 1].type = "move"
        /\ m <= Count /\ slot[m].type = "move" /\ m \in Int
    <3> HIDE DEF Good
    <3> QED BY <1>1, <2>3, <2>4
  <2>6. Good(m - 1)
    <3> HIDE DEF Good
    <3> QED BY <1>1, <2>2, <2>5
  <2>7. Authored(m - 1) = 0
    <3>1. (m - 1) + 1 = m /\ m - 1 < Count
      BY <2>5
    <3> QED BY <2>5, <3>1, AuthoredIs
  <2>8. Sound((m - 1) + 1) /\ Due((m - 1) + 1) = Due(m - 1) + 0
    BY <1>2, <2>5, <2>6, <2>7
  <2>9. Good(m)
    <3>1. (m - 1) + 1 = m
      BY <2>5
    <3> QED BY <1>3, <2>6, <2>8, <3>1
  <2> QED BY <2>3, <2>9
<1>5. /\ e - 1 \in DOMAIN slot /\ slot[e - 1].type = "move" /\ (e - 1) + 1 = e
      /\ Pause(e) \in Nat /\ e \in 1 .. Count + 1
  BY <1>1, PauseIs
<1>6. Sound(e) /\ Due(e) = Due(index) + Authored(e - 1)
  <2>1. Sound((e - 1) + 1) /\ Due((e - 1) + 1) = Due(e - 1) + Authored(e - 1)
    BY <1>2, <1>4, <1>5
  <2> QED BY <1>4, <1>5, <2>1
<1>7. Authored(e - 1) = IF Pause(e) > 0 THEN 0 ELSE SLICE
  <2>1. Authored(e - 1) = IF e - 1 < Count /\ (slot[e].type = "move" \/ Pause(e) > 0) THEN 0 ELSE SLICE
    BY <1>5, AuthoredIs
  <2>2. Pause(e) > 0 => e - 1 < Count
    BY <1>1, <1>5, PauseIs
  <2> QED BY <1>1, <2>1, <2>2
<1>8. CASE ~Paused(e)
  <2>1. Pause(e) = 0
    BY <1>5, <1>8, PauseIs
  <2> QED BY <1>6, <1>7, <1>8, <2>1 DEF Length
<1>9. CASE Paused(e)
  <2>1. e \in DOMAIN slot /\ slot[e].type = "delay" /\ Pause(e) = slot[e].a
    BY <1>5, <1>9, PauseIs
  <2>2. Due(e + 1) = Due(e) + Pause(e)
    BY <1>2, <1>6, <2>1, AuthoredIs
  <2> QED BY <1>3, <1>5, <1>6, <1>7, <1>9, <2>2, Times DEF Length
<1> QED BY <1>8, <1>9

---------------------------------------------------------------------------
(* Moments, counted in ticks from the start of the pass, and what millis()    *)
(* reads then.                                                               *)
At(u) == (clock + (u - elapsed)) % WRAP

LEMMA Moments ==
  ASSUME clock \in Int, elapsed \in Int, NEW u \in Int
  PROVE  /\ \A t \in Int : Later(At(u), t) = At(u + t) /\ Later(clock, t) = At(elapsed + t)
         /\ clock \in 0 .. WRAP - 1 => clock = At(elapsed)
         /\ u <= elapsed /\ elapsed - u < WRAP \div 2 => Reached(At(u))
         /\ u > elapsed /\ u - elapsed <= WRAP \div 2 => ~Reached(At(u))
         /\ At(u) \in 0 .. WRAP - 1
<1> USE Times
<1>1. ASSUME NEW t \in Int PROVE Later(At(u), t) = At(u + t) /\ Later(clock, t) = At(elapsed + t)
  <2>1. (((clock + (u - elapsed)) % WRAP) + t) % WRAP = ((clock + (u - elapsed)) + t) % WRAP
    <3>1. WRAP \in Nat \ {0} /\ clock + (u - elapsed) \in Int
      OBVIOUS
    <3> QED BY <3>1, ModShift, Zenon
  <2>2. (clock + (u - elapsed)) + t = clock + ((u + t) - elapsed) /\ clock + t = clock + ((elapsed + t) - elapsed)
    OBVIOUS
  <2> QED BY <2>1, <2>2 DEF Later, At
<1>2. (clock - At(u)) % WRAP = (elapsed - u) % WRAP
  <2>1. (clock - ((clock + (u - elapsed)) % WRAP)) % WRAP = (clock - (clock + (u - elapsed))) % WRAP
    <3>1. WRAP \in Nat \ {0} /\ clock + (u - elapsed) \in Int
      OBVIOUS
    <3> QED BY <3>1, ModShift, Zenon
  <2>2. clock - (clock + (u - elapsed)) = elapsed - u
    OBVIOUS
  <2> QED BY <2>1, <2>2 DEF At
<1>3. u <= elapsed /\ elapsed - u < WRAP \div 2 => Reached(At(u))
  <2> SUFFICES ASSUME u <= elapsed, elapsed - u < WRAP \div 2 PROVE Reached(At(u))
    OBVIOUS
  <2>1. elapsed - u \in 0 .. WRAP - 1
    OBVIOUS
  <2>2. (elapsed - u) % WRAP = elapsed - u
    BY <2>1, ModNear
  <2> QED BY <1>2, <2>2 DEF Reached
<1>4. u > elapsed /\ u - elapsed <= WRAP \div 2 => ~Reached(At(u))
  <2> SUFFICES ASSUME u > elapsed, u - elapsed <= WRAP \div 2 PROVE ~Reached(At(u))
    OBVIOUS
  <2>1. elapsed - u < 0 /\ (elapsed - u) + WRAP >= 0 /\ (elapsed - u) + WRAP >= WRAP \div 2
    OBVIOUS
  <2>2. (elapsed - u) % WRAP = (elapsed - u) + WRAP
    BY <2>1, ModNear
  <2> QED BY <1>2, <2>1, <2>2 DEF Reached
<1>5. At(u) \in 0 .. WRAP - 1
  BY DEF At
<1>6. clock \in 0 .. WRAP - 1 => clock = At(elapsed)
  <2>1. clock + (elapsed - elapsed) = clock
    OBVIOUS
  <2> QED BY <2>1, ModNear DEF At
<1> QED BY <1>1, <1>3, <1>4, <1>5, <1>6

LEMMA MomentsStay ==
  ASSUME clock \in Int, elapsed \in Int, NEW u \in Int,
         \/ UNCHANGED <<clock, elapsed>>
         \/ clock' = Later(clock, 1) /\ elapsed' = elapsed + 1
  PROVE  At(u)' = At(u) /\ clock' \in Int /\ elapsed' \in Int
<1> USE Times
<1>1. CASE UNCHANGED <<clock, elapsed>>
  BY <1>1 DEF At
<1>2. CASE clock' = Later(clock, 1) /\ elapsed' = elapsed + 1
  <2>1. (((clock + 1) % WRAP) + (u - (elapsed + 1))) % WRAP = ((clock + 1) + (u - (elapsed + 1))) % WRAP
    <3>1. WRAP \in Nat \ {0} /\ clock + 1 \in Int /\ u - (elapsed + 1) \in Int
      OBVIOUS
    <3> QED BY <3>1, ModShift, Zenon
  <2>2. (clock + 1) + (u - (elapsed + 1)) = clock + (u - elapsed)
    OBVIOUS
  <2>3. clock' = (clock + 1) % WRAP
    BY <1>2 DEF Later
  <2> QED BY <1>2, <2>1, <2>2, <2>3 DEF At
<1> QED BY <1>1, <1>2

---------------------------------------------------------------------------
(* Sharing a time, or a distance, among the reports                          *)

LEMMA Grows == \A w \in Nat, a, b \in Int : a <= b => a * w <= b * w
<1> SUFFICES ASSUME NEW w \in Nat, NEW a \in Int, NEW b \in Int, a <= b PROVE a * w <= b * w
  OBVIOUS
<1>1. \A x, y \in Int : x >= 0 /\ y >= 0 => x * y >= 0
  OBVIOUS
<1>2. (b - a) * w >= 0
  BY <1>1
<1>3. (b - a) * w = b * w - a * w
  OBVIOUS
<1> QED BY <1>2, <1>3

LEMMA Divides ==
  ASSUME NEW s \in Nat \ {0}, NEW a \in Int
  PROVE  /\ a \div s \in Int /\ (a \div s) * s <= a /\ a < (a \div s) * s + s
         /\ (a * s) \div s = a
<1>1. a \div s \in Int /\ (a \div s) * s <= a /\ a < (a \div s) * s + s
  <2> DEFINE q == a \div s
             r == a % s
  <2>1. q \in Int /\ r \in 0 .. s - 1 /\ a = q * s + r
    OBVIOUS
  <2>2. q * s \in Int
    BY <2>1
  <2> HIDE DEF q, r
  <2>3. q \in Int /\ q * s <= a /\ a < q * s + s
    BY <2>1, <2>2
  <2> QED BY <2>3 DEF q
<1>2. (a * s) \div s = a
  <2> DEFINE q == (a * s) \div s
             r == (a * s) % s
  <2>1. a * s \in Int
    OBVIOUS
  <2>2. q \in Int /\ r \in 0 .. s - 1 /\ a * s = q * s + r
    BY <2>1
  <2>3. (a * s + 0) % s = 0
    BY ModIs
  <2>4. r = 0
    BY <2>1, <2>3
  <2> HIDE DEF q, r
  <2>5. (a - q) * s = 0
    <3>1. (a - q) * s = a * s - q * s
      BY <2>2
    <3> QED BY <2>1, <2>2, <2>4, <3>1
  <2>6. ~ (a - q >= 1) /\ ~ (q - a >= 1)
    <3>1. (q - a) * s = 0
      <4>1. (q - a) * s = q * s - a * s
        BY <2>2
      <4> QED BY <2>1, <2>2, <2>4, <4>1
    <3> QED BY <2>2, <2>5, <3>1, Multiple
  <2>7. q = a
    BY <2>2, <2>6
  <2> QED BY <2>7 DEF q
<1> QED BY <1>1, <1>2

LEMMA DivGrows ==
  ASSUME NEW s \in Nat \ {0}, NEW a \in Int, NEW b \in Int, a <= b
  PROVE  a \div s <= b \div s
<1> DEFINE p == a \div s
           q == b \div s
<1>1. p \in Int /\ q \in Int /\ p * s <= a /\ b < q * s + s
  BY Divides
<1> HIDE DEF p, q
<1>2. ASSUME p >= q + 1 PROVE FALSE
  <2>1. (q + 1) * s <= p * s
    BY <1>1, <1>2, Grows
  <2>2. (q + 1) * s = q * s + s
    BY <1>1
  <2>3. p * s \in Int /\ q * s \in Int
    BY <1>1
  <2> QED BY <1>1, <2>1, <2>2, <2>3
<1>3. p <= q
  BY <1>1, <1>2
<1> QED BY <1>3 DEF p, q

Shared(whole, k, n) == (whole * k) \div n

LEMMA Shares ==
  ASSUME NEW o \in Nat, NEW n \in Nat \ {0}, NEW k \in 0 .. n
  PROVE  /\ Shared(o, k, n) \in 0 .. o /\ Shared(o, n, n) = o
         /\ k < n => Shared(o, k, n) <= Shared(o, k + 1, n)
<1>1. o * k \in Int /\ 0 <= o * k /\ o * k <= o * n
  <2>1. k * o <= n * o /\ 0 * o <= k * o
    BY Grows
  <2> QED BY <2>1
<1>2. (o * n) \div n = o /\ (0 * n) \div n = 0
  BY Divides
<1>3. (o * k) \div n <= o /\ 0 <= (o * k) \div n /\ (o * k) \div n \in Int
  <2>1. (o * k) \div n <= (o * n) \div n
    BY <1>1, DivGrows
  <2>2. (0 * n) \div n <= (o * k) \div n
    <3>1. 0 * n = 0
      OBVIOUS
    <3> QED BY <1>1, <3>1, DivGrows
  <2>3. (o * k) \div n \in Int
    BY <1>1, Divides
  <2> QED BY <1>2, <2>1, <2>2, <2>3
<1>4. k < n => (o * k) \div n <= (o * (k + 1)) \div n
  <2>1. o * k <= o * (k + 1) /\ o * (k + 1) \in Int
    <3>1. k * o <= (k + 1) * o
      BY Grows
    <3> QED BY <3>1
  <2> QED BY <1>1, <2>1, DivGrows
<1> QED BY <1>2, <1>3, <1>4 DEF Shared

(* However it is shared out, in the end the whole is gone.                   *)
LEMMA WholeGone ==
  ASSUME NEW n \in Int, NEW s \in Nat \ {0}
  PROVE  Quotient(n * s, s) = n
<1>1. n * s \in Int /\ -(n * s) = (-n) * s
  OBVIOUS
<1>2. (n * s) \div s = n /\ ((-n) * s) \div s = -n
  BY Divides
<1>3. CASE n * s < 0
  BY <1>1, <1>2, <1>3 DEF Quotient
<1>4. CASE ~(n * s < 0)
  BY <1>1, <1>2, <1>4 DEF Quotient
<1> QED BY <1>3, <1>4

LEMMA QuotientInt ==
  ASSUME NEW n \in Int, NEW s \in Nat \ {0}
  PROVE  Quotient(n, s) \in Int
<1>1. n \div s \in Int /\ (-n) \div s \in Int
  BY Divides
<1> QED BY <1>1 DEF Quotient

LEMMA Extremes ==
  ASSUME NEW a \in Int, NEW b \in Int
  PROVE  /\ Max({a, b}) = IF a >= b THEN a ELSE b
         /\ Min({a, b}) = IF a <= b THEN a ELSE b
<1>1. Max({a, b}) = IF a >= b THEN a ELSE b
  <2>1. \E x \in {a, b} : \A y \in {a, b} : x >= y
    OBVIOUS
  <2>2. Max({a, b}) \in {a, b} /\ \A y \in {a, b} : Max({a, b}) >= y
    BY <2>1 DEF Max
  <2> QED BY <2>2
<1>2. Min({a, b}) = IF a <= b THEN a ELSE b
  <2>1. \E x \in {a, b} : \A y \in {a, b} : x <= y
    OBVIOUS
  <2>2. Min({a, b}) \in {a, b} /\ \A y \in {a, b} : Min({a, b}) <= y
    BY <2>1 DEF Min
  <2> QED BY <2>2
<1> QED BY <1>1, <1>2

LEMMA Least ==
  ASSUME NEW a \in Int, NEW b \in Int, NEW c \in Int
  PROVE  Min({a, b, c}) \in {a, b, c}
<1>1. \E x \in {a, b, c} : \A y \in {a, b, c} : x <= y
  OBVIOUS
<1> QED BY <1>1 DEF Min

LEMMA Spans ==
  ASSUME NEW m, m.a \in Int, m.b \in Int
  PROVE  Span(m) \in Nat /\ (Span(m) = 0 => m.a = 0 /\ m.b = 0)
<1>1. Magnitude(m.a) \in Nat /\ Magnitude(m.b) \in Nat
      /\ (Magnitude(m.a) = 0 => m.a = 0) /\ (Magnitude(m.b) = 0 => m.b = 0)
  BY DEF Magnitude
<1>2. Span(m) = IF Magnitude(m.a) >= Magnitude(m.b) THEN Magnitude(m.a) ELSE Magnitude(m.b)
  BY <1>1, Extremes DEF Span
<1> QED BY <1>1, <1>2

LEMMA Steps ==
  ASSUME NEW m, m.a \in Int, m.b \in Int, move.over \in Nat
  PROVE  StepsOf(m) \in Nat \ {0}
<1> DEFINE y == (move.over * FRAME_DEN) \div FRAME_NUM
           z == Max({1, y})
           x == Min({move.over, Span(m), z})
<1>1. FRAME_DEN \in Nat /\ FRAME_NUM \in Nat \ {0}
  BY TimeAssumption
<1>2. y \in Int
  <2>1. move.over * FRAME_DEN \in Int
    BY <1>1
  <2> QED BY <1>1, <2>1, Divides
<1> HIDE DEF y
<1>3. z \in Int
  BY <1>2, Extremes
<1> HIDE DEF z
<1>4. Span(m) \in Int
  BY Spans
<1>5. x \in Int
  <2>1. x \in {move.over, Span(m), z}
    <3>1. move.over \in Int
      OBVIOUS
    <3> QED BY <1>3, <1>4, <3>1, Least
  <2> QED BY <1>3, <1>4, <2>1
<1> HIDE DEF x
<1>6. Max({1, x}) \in Nat \ {0}
  BY <1>5, Extremes
<1> QED BY <1>6 DEF StepsOf, x, y, z

(* The moves of a run and what is left of its pause take together no more     *)
(* than they should, and less only by what the division leaves over.         *)
LEMMA Spreads ==
  ASSUME NEW pause \in 0 .. WRAP \div 2, NEW n \in Nat \ {0},
         NEW spread, spread = Spread(pause),
         NEW over, over = spread \div n,
         NEW rest, rest = Max({pause - spread, 0})
  PROVE  /\ over \in Nat /\ over <= WRAP \div 2 /\ rest \in Nat /\ rest <= WRAP \div 2
         /\ n * over + rest <= Length(pause)
         /\ Length(pause) <= n * over + rest + (n - 1)
         /\ (IF pause = 0 THEN spread ELSE pause) = Length(pause)
<1> USE Times
<1>1. spread \in Nat /\ spread <= WRAP \div 2
      /\ (pause = 0 => spread = SLICE) /\ (pause > 0 => spread <= pause)
  <2>1. CASE pause = 0
    BY <2>1 DEF Spread
  <2>2. CASE pause # 0
    <3>1. spread = Min({pause, SPREAD_MAX})
      BY <2>2 DEF Spread
    <3>2. pause \in Int /\ SPREAD_MAX \in Int
      OBVIOUS
    <3>3. Min({pause, SPREAD_MAX}) = IF pause <= SPREAD_MAX THEN pause ELSE SPREAD_MAX
      BY <3>2, Extremes
    <3> QED BY <2>2, <3>1, <3>3
  <2> QED BY <2>1, <2>2
<1>2. rest = (IF pause >= spread THEN pause - spread ELSE 0)
  <2>1. pause - spread \in Int
    BY <1>1
  <2>2. rest = IF pause - spread >= 0 THEN pause - spread ELSE 0
    BY <2>1, Extremes
  <2> QED BY <1>1, <2>2
<1>3. over \in Int /\ over * n <= spread /\ spread < over * n + n
  <2>1. spread \in Int
    BY <1>1
  <2>2. /\ spread \div n \in Int /\ (spread \div n) * n <= spread
        /\ spread < (spread \div n) * n + n
    BY <2>1, Divides
  <2> QED BY <2>2
<1>4. over >= 0 /\ over <= spread
  <2>1. ASSUME over <= -1 PROVE FALSE
    <3>1. over * n <= (-1) * n
      BY <1>3, <2>1, Grows
    <3>2. over * n \in Int
      BY <1>3
    <3> QED BY <1>1, <1>3, <3>1, <3>2
  <2>2. over >= 0
    BY <1>3, <2>1
  <2>3. over * 1 <= over * n
    <3>1. 1 * over <= n * over
      BY <1>3, <2>2, Grows
    <3> QED BY <1>3, <3>1
  <2> QED BY <1>1, <1>3, <2>2, <2>3
<1>5. n * over = over * n /\ over * n \in Int
  BY <1>3
<1>6. over \in Nat /\ over <= WRAP \div 2 /\ rest \in Nat /\ rest <= WRAP \div 2
  BY <1>1, <1>2, <1>3, <1>4
<1>7. (IF pause = 0 THEN spread ELSE pause) = Length(pause)
  BY <1>1 DEF Length
<1>8. spread + rest = Length(pause)
  BY <1>1, <1>2 DEF Length
<1>9. n * over + rest <= Length(pause) /\ Length(pause) <= n * over + rest + (n - 1)
  <2> DEFINE t == over * n
  <2>1. t \in Int /\ n * over = t /\ t <= spread /\ spread < t + n
    BY <1>3, <1>5
  <2> HIDE DEF t
  <2> QED BY <1>1, <1>6, <1>8, <2>1
<1> QED BY <1>6, <1>7, <1>9

---------------------------------------------------------------------------
(* What a pass was granted: what its records up to here say they take.       *)
Granted ==
    Due(index)
      + (IF Typing \/ (pc = "text" /\ left > 0) THEN (Here.a - left) * TEXT_DELAY ELSE 0)

(* What the moves from the one at `at` still take, and the part of a move's    *)
(* time at which its report k is due.                                        *)
Rest(at) == (move.end - at) * move.over + move.rest
Part(k) == Shared(move.over, k, move.steps)

(* With `rest` still to come, moment t is no later than what was granted and  *)
(* w ticks of work allow, and no earlier but for what the divisions left over: *)
(* less than a tick for every record.                                        *)
Timely(g, t, w, rest) ==
    /\ t + rest <= g + w
    /\ ~aborted => g <= t + rest + (index - 1)

BetweenWaits == RecordTypes \cup {"record", "release", "typed"}
Emitting == pc = "step" \/ Waits("step") \/ Waits("moved")
Moving == pc \in {"moves", "moved"} \/ Emitting
Awaits(u) == until = At(u) /\ u <= elapsed + WRAP \div 2

RunInv ==
  Moving =>
    /\ move = [at |-> move.at, end |-> move.end, rest |-> move.rest, over |-> move.over,
               step |-> move.step, steps |-> move.steps, from |-> move.from]
    /\ move.at \in Nat /\ move.end \in Nat /\ move.over \in Nat /\ move.rest \in Nat
    /\ move.over <= WRAP \div 2 /\ move.rest <= WRAP \div 2 /\ move.at <= move.end
    /\ \A k \in move.at .. move.end - 1 : k \in DOMAIN slot /\ slot[k].type = "move"
    /\ pc # "moves" => move.at < move.end
    /\ pc = "step" \/ Waits("step") =>
         /\ move.steps \in Nat \ {0} /\ move.step \in 1 .. move.steps
         /\ gone = <<gone[1], gone[2]>> /\ gone[1] \in Int /\ gone[2] \in Int
    /\ pc = "moved" \/ Waits("moved") => gone = <<slot[move.at].a, slot[move.at].b>>

(* The moment a move began is f, with w ticks of work done; its reports are    *)
(* due at parts of its time, whatever the work since then.                   *)
NextDue == IF back = "step" THEN Part(move.step - 1) ELSE move.over
EmitInv(g, f, w) ==
    /\ move.from = At(f) /\ f <= elapsed /\ Timely(g, f, w, Rest(move.at))
    /\ pc = "step" => elapsed <= f + Part(move.step - 1) + (work - w)
    /\ pc = "wait" => until = At(f + NextDue) /\ elapsed <= f + NextDue + (work - w)

ClockBy(g) ==
    /\ clock \in 0 .. WRAP - 1 /\ elapsed \in Nat /\ work \in 0 .. MaxWork
    /\ pc \in {"idle", "pass"} => elapsed <= AllAuthored + work
    /\ pc \in BetweenWaits => Timely(g, elapsed, work, 0)
    /\ Waits("record") \/ Waits("typed") =>
         \E u \in Int : Awaits(u) /\ elapsed <= u /\ Timely(g, u, work, 0)
    /\ pc = "moves" => Timely(g, elapsed, work, Rest(move.at))
    /\ pc = "moved" => Timely(g, elapsed, work, Rest(move.at + 1))
    /\ Emitting => \E f \in Int : \E w \in 0 .. work : EmitInv(g, f, w)

(* The deadline was 0 when t of the g ticks granted so far were.              *)
ZeroBy(g) == \E t \in Int : 0 <= t /\ t <= g /\ At(MAX_RUN + t) = 0

BudgetBy(g) ==
    /\ pc \notin {"idle", "pass", "release"} /\ ~aborted /\ ~zeroed =>
         deadline = At(MAX_RUN + g) /\ deadline # 0
    /\ pc \notin {"idle", "pass", "release"} /\ ~aborted /\ zeroed => ZeroBy(g)
    /\ BudgetForWork

PlayInv == RunInv /\ \E g \in Int : g = Granted /\ ClockBy(g) /\ BudgetBy(g)

---------------------------------------------------------------------------
LEMMA SameDue ==
  ASSUME slot' = slot, NEW n, n = index'
  PROVE  Due(index)' = Due(n) /\ AllAuthored' = AllAuthored /\ Count' = Count
<1>1. Begin' = Begin /\ Count' = Count
  BY DEF Begin, Count
<1>2. \A j : After(j)' = After(j)
  BY DEF After
<1>3. Played' = Played
  BY <1>1, <1>2 DEF Played, Begin, After
<1>4. \A i : Authored(i)' = Authored(i)
  BY <1>1 DEF Authored, Pause, Paused
<1>5. Ticks' = Ticks
  BY <1>3, <1>4 DEF Ticks
<1> QED BY <1>1, <1>5 DEF Due, TicksBefore, AllAuthored

LEMMA IndexIs ==
  ASSUME PlaceInv
  PROVE  slot \in Slots /\ Count \in Nat /\ index \in Int /\ index >= 1 /\ Sound(index)
         /\ Due(index) \in Nat
<1>1. slot \in Slots /\ Sound(index)
  BY DEF PlaceInv
<1>2. Count \in Nat /\ index \in 1 .. Count + 1
  BY <1>1, Slot DEF Sound
<1> QED BY <1>1, <1>2, DueIs

LEMMA GrantedIs ==
  ASSUME PlaceInv
  PROVE  /\ pc # "text" /\ ~Typing => Granted = Due(index)
         /\ left = 0 /\ ~Typing => Granted = Due(index)
  BY IndexIs DEF Granted

LEMMA GrantedNat == IInv => Granted \in Nat
<1> SUFFICES ASSUME IInv PROVE Granted \in Nat
  OBVIOUS
<1>1. Due(index) \in Nat
  BY IndexIs DEF IInv
<1>2. CASE InText
  <2>1. index \in DOMAIN slot /\ Here.type = "text" /\ left \in Nat /\ left <= Here.a
    <3>1. "text" \in RecordTypes
      BY DEF RecordTypes
    <3> QED BY <1>2, <3>1 DEF IInv, PlaceInv, HeldInv, InText
  <2>2. Here.a \in Nat
    BY <2>1, TextIs DEF IInv
  <2>3. Here.a - left \in Nat /\ TEXT_DELAY \in Nat
    BY <2>1, <2>2, Times
  <2>4. \A a, b \in Nat : a * b \in Nat
    OBVIOUS
  <2>5. (Here.a - left) * TEXT_DELAY \in Nat
    BY <2>3, <2>4
  <2> QED BY <1>1, <1>2, <2>5 DEF Granted, InText
<1>3. CASE ~InText
  BY <1>1, <1>3 DEF Granted, InText
<1> QED BY <1>2, <1>3

LEMMA GrantedNow == IInv' => Granted' >= 0
<1>1. (IInv => Granted \in Nat)'
  BY GrantedNat, PTL
<1> QED BY <1>1

LEMMA NoRun ==
  ASSUME pc' \notin {"moves", "step", "moved"}, pc' = "wait" => back' \in {"record", "typed"}
  PROVE  RunInv'
  BY DEF RunInv, Moving, Emitting, Waits

LEMMA Plays ==
  ASSUME RunInv', NEW h \in Int, h = Granted', ClockBy(h)', BudgetBy(h)'
  PROVE  PlayInv'
  BY DEF PlayInv

LEMMA ClockAtRecord ==
  ASSUME NEW h, clock' \in 0 .. WRAP - 1, elapsed' \in Nat, work' \in 0 .. MaxWork,
         pc' \in BetweenWaits, Timely(h, elapsed, work, 0)'
  PROVE  ClockBy(h)'
<1>1. pc' \notin {"idle", "pass", "moves", "moved", "wait", "step"}
  BY DEF BetweenWaits, RecordTypes
<1> QED BY <1>1 DEF ClockBy, Waits, Emitting

LEMMA ClockAtWait ==
  ASSUME NEW h, clock' \in 0 .. WRAP - 1, elapsed' \in Nat, work' \in 0 .. MaxWork,
         pc' = "wait", back' \in {"record", "typed"},
         NEW u \in Int, Awaits(u)', elapsed' <= u, Timely(h, u, work, 0)'
  PROVE  ClockBy(h)'
<1>1. pc' \notin BetweenWaits \cup {"idle", "pass", "moves", "moved", "step"}
  BY DEF BetweenWaits, RecordTypes
<1>2. ~Emitting'
  BY <1>1 DEF Emitting, Waits
<1>3. (\E x \in Int : Awaits(x) /\ elapsed <= x /\ Timely(h, x, work, 0))'
  OBVIOUS
<1> QED BY <1>1, <1>2, <1>3 DEF ClockBy

LEMMA ClockIs ==
  ASSUME NEW g, ClockBy(g)
  PROVE  clock \in Int /\ elapsed \in Int /\ work \in Int /\ clock \in 0 .. WRAP - 1
         /\ elapsed \in Nat /\ work \in 0 .. MaxWork /\ work <= MaxWork /\ work >= 0
  BY Times DEF ClockBy

LEMMA BudgetStays ==
  ASSUME NEW g \in Int, NEW h \in Int, clock \in Int, elapsed \in Int, BudgetBy(g),
         pc \notin {"idle", "pass", "release"}, aborted => aborted', ~aborted' => h = g,
         UNCHANGED <<deadline, zeroed, cut>>, work \in Int, work' \in Int, work' >= work,
         UNCHANGED <<clock, elapsed>> \/ (clock' = Later(clock, 1) /\ elapsed' = elapsed + 1)
  PROVE  BudgetBy(h)'
<1>1. BudgetForWork'
  BY Times DEF BudgetBy, BudgetForWork
<1>2. ASSUME ~aborted', ~zeroed' PROVE (deadline = At(MAX_RUN + h) /\ deadline # 0)'
  <2>1. deadline = At(MAX_RUN + g) /\ deadline # 0 /\ h = g
    BY <1>2 DEF BudgetBy
  <2>2. MAX_RUN + g \in Int
    BY Times
  <2>3. At(MAX_RUN + g)' = At(MAX_RUN + g)
    BY <2>2, MomentsStay
  <2> QED BY <2>1, <2>3
<1>3. ASSUME ~aborted', zeroed' PROVE ZeroBy(h)'
  <2>1. ZeroBy(g) /\ h = g
    BY <1>3 DEF BudgetBy
  <2>2. PICK t \in Int : 0 <= t /\ t <= g /\ At(MAX_RUN + t) = 0
    BY <2>1 DEF ZeroBy
  <2>3. MAX_RUN + t \in Int
    BY Times
  <2>4. At(MAX_RUN + t)' = At(MAX_RUN + t)
    BY <2>3, MomentsStay
  <2> QED BY <2>1, <2>2, <2>4 DEF ZeroBy
<1> QED BY <1>1, <1>2, <1>3 DEF BudgetBy

LEMMA BudgetGrows ==
  ASSUME NEW g \in Int, NEW h \in Int, clock \in Int, elapsed \in Int, BudgetBy(g),
         pc \notin {"idle", "pass", "release"}, aborted' = aborted,
         NEW ticks \in Nat, 0 <= h, h = g + ticks, Extend(ticks),
         UNCHANGED <<cut, work, clock, elapsed>>
  PROVE  BudgetBy(h)'
<1>1. deadline' = (IF deadline = 0 THEN 0 ELSE Later(deadline, ticks))
      /\ (zeroed => zeroed') /\ (~zeroed' => ~zeroed /\ deadline' # 0)
  <2>1. zeroed' = (zeroed \/ deadline' = 0)
    BY DEF Extend
  <2>2. (zeroed => zeroed') /\ (~zeroed' => ~zeroed /\ deadline' # 0)
    BY <2>1, Zenon
  <2> QED BY <2>2 DEF Extend
<1>2. BudgetForWork'
  BY <1>1 DEF BudgetBy, BudgetForWork
<1>3. ASSUME ~aborted', ~zeroed' PROVE (deadline = At(MAX_RUN + h) /\ deadline # 0)'
  <2>1. deadline = At(MAX_RUN + g) /\ deadline # 0 /\ deadline' # 0
    BY <1>1, <1>3 DEF BudgetBy
  <2>2. MAX_RUN + g \in Int /\ (MAX_RUN + g) + ticks = MAX_RUN + h /\ MAX_RUN + h \in Int
    BY Times
  <2>3. Later(At(MAX_RUN + g), ticks) = At((MAX_RUN + g) + ticks)
    BY <2>2, Moments
  <2>4. At(MAX_RUN + h)' = At(MAX_RUN + h)
    BY <2>2, MomentsStay
  <2> QED BY <1>1, <2>1, <2>2, <2>3, <2>4
<1>4. ASSUME ~aborted', zeroed' PROVE ZeroBy(h)'
  <2>1. CASE zeroed
    <3>1. PICK t \in Int : 0 <= t /\ t <= g /\ At(MAX_RUN + t) = 0
      BY <1>4, <2>1 DEF BudgetBy, ZeroBy
    <3>2. MAX_RUN + t \in Int /\ t <= h
      BY <3>1, Times
    <3>3. At(MAX_RUN + t)' = At(MAX_RUN + t)
      BY <3>2, MomentsStay
    <3> QED BY <3>1, <3>2, <3>3 DEF ZeroBy
  <2>2. CASE ~zeroed
    <3>1. deadline = At(MAX_RUN + g) /\ deadline # 0
      BY <1>4, <2>2 DEF BudgetBy
    <3>2. deadline' = 0
      BY <1>4, <2>2 DEF Extend
    <3>3. MAX_RUN + g \in Int /\ (MAX_RUN + g) + ticks = MAX_RUN + h /\ MAX_RUN + h \in Int
      BY Times
    <3>4. Later(At(MAX_RUN + g), ticks) = At((MAX_RUN + g) + ticks)
      BY <3>3, Moments
    <3>5. At(MAX_RUN + h)' = At(MAX_RUN + h)
      BY <3>3, MomentsStay
    <3>6. At(MAX_RUN + h)' = 0 /\ h <= h
      BY <1>1, <3>1, <3>2, <3>3, <3>4, <3>5
    <3> QED BY <3>6 DEF ZeroBy
  <2> QED BY <2>1, <2>2
<1> QED BY <1>2, <1>3, <1>4 DEF BudgetBy

LEMMA FreshClock == slot \in Slots => AllAuthored \in Nat
  BY TicksFinite

LEMMA DueNat == PlaceInv => Due(index) \in Nat
  BY IndexIs

LEMMA PlayBegins ==
  ASSUME IInv, IInv', PlayInv, Start \/ BeginPass
  PROVE  PlayInv'
<1> PICK g \in Int : g = Granted /\ ClockBy(g) /\ BudgetBy(g)
  BY DEF PlayInv
<1>1. slot' \in Slots /\ slot \in Slots /\ index = 1 /\ index' = 1 /\ left' = left /\ work' = 0
      /\ elapsed' = 0 /\ cut' = FALSE /\ pc \in {"idle", "pass"} /\ 0 \in 0 .. MaxWork
  BY Times DEF IInv, PlaceInv, Start, BeginPass
<1>2. left = 0
  BY <1>1, NothingLeft DEF IInv
<1>3. BudgetForWork'
  BY <1>1 DEF BudgetForWork
<1>4. CASE Start
  <2>1. pc' = "pass" /\ clock' \in 0 .. WRAP - 1
    BY <1>4, TimeAssumption DEF Start
  <2>2. AllAuthored' \in Nat
    <3>1. (slot \in Slots => AllAuthored \in Nat)'
      BY FreshClock, PTL
    <3> QED BY <1>1, <3>1
  <2>3. PICK h \in Int : h = Granted'
    <3>1. (PlaceInv => Due(index) \in Nat)'
      BY DueNat, PTL
    <3>2. Granted' = Due(index)'
      <4>1. ~Typing' /\ pc' # "text"
        BY <2>1 DEF Typing, Waits
      <4>2. Granted' = Due(index)' + 0
        BY <4>1 DEF Granted
      <4> QED BY <3>1, <4>2 DEF IInv
    <3> QED BY <3>1, <3>2 DEF IInv
  <2>4. ClockBy(h)'
    <3>1. pc' \notin BetweenWaits /\ ~Emitting' /\ pc' \notin {"wait", "moves", "moved"}
      BY <2>1 DEF BetweenWaits, RecordTypes, Emitting, Waits
    <3>2. elapsed' <= AllAuthored' + work'
      <4>1. elapsed' = 0 /\ work' = 0
        BY <1>1
      <4>2. \A n \in Nat : 0 <= n + 0
        OBVIOUS
      <4> QED BY <2>2, <4>1, <4>2
    <3> QED BY <1>1, <2>1, <3>1, <3>2 DEF ClockBy, Waits
  <2>5. BudgetBy(h)'
    BY <1>3, <2>1 DEF BudgetBy
  <2> QED BY <2>1, <2>3, <2>4, <2>5, NoRun, Plays
<1>5. CASE BeginPass
  <2>1. pc' = "record" /\ clock' = clock /\ slot' = slot /\ deadline' = Later(clock, MAX_RUN)
        /\ zeroed' = (deadline' = 0)
    BY <1>5 DEF BeginPass, Budget, run
  <2>2. Granted' = 0
    <3>1. Due(index)' = 0
      <4> PICK n : n = index'
        OBVIOUS
      <4> QED BY <1>1, <2>1, SameDue, DueFirst
    <3>2. ~Typing' /\ pc' # "text"
      BY <2>1 DEF Typing, Waits
    <3> QED BY <3>1, <3>2 DEF Granted
  <2>3. Timely(0, elapsed, work, 0)'
    BY <1>1 DEF Timely
  <2>4. ClockBy(0)'
    <3>1. clock' \in 0 .. WRAP - 1 /\ pc' \in BetweenWaits
      BY <2>1 DEF ClockBy, BetweenWaits
    <3>2. elapsed' \in Nat /\ work' \in 0 .. MaxWork
      BY <1>1
    <3> QED BY <2>3, <3>1, <3>2, ClockAtRecord
  <2>5. BudgetBy(0)'
    <3>1. ASSUME ~zeroed' PROVE (deadline = At(MAX_RUN + 0) /\ deadline # 0)'
      <4>1. deadline' # 0
        BY <2>1, <3>1
      <4>2. deadline' = (clock' + ((MAX_RUN + 0) - elapsed')) % WRAP
        <5>1. clock + MAX_RUN = clock' + ((MAX_RUN + 0) - elapsed')
          BY <1>1, <2>1, ClockIs, Times
        <5> QED BY <2>1, <5>1 DEF Later
      <4> QED BY <4>1, <4>2 DEF At
    <3>2. ASSUME zeroed' PROVE ZeroBy(0)'
      <4>1. deadline' = 0
        BY <2>1, <3>2, Zenon
      <4>2. deadline' = (clock' + ((MAX_RUN + 0) - elapsed')) % WRAP
        <5>1. clock + MAX_RUN = clock' + ((MAX_RUN + 0) - elapsed')
          BY <1>1, <2>1, ClockIs, Times
        <5> QED BY <2>1, <5>1 DEF Later
      <4>3. At(MAX_RUN + 0)' = 0 /\ 0 <= 0
        BY <4>1, <4>2 DEF At
      <4> QED BY <4>3 DEF ZeroBy
    <3> QED BY <1>3, <3>1, <3>2 DEF BudgetBy
  <2> QED BY <2>1, <2>2, <2>4, <2>5, NoRun, Plays
<1> QED BY <1>4, <1>5

LEMMA PlayNextRecord ==
  ASSUME IInv, IInv', PlayInv, NextRecord
  PROVE  PlayInv'
<1> PICK g \in Int : g = Granted /\ ClockBy(g) /\ BudgetBy(g)
  BY DEF PlayInv
<1>1. /\ UNCHANGED <<slot, index, left, clock, elapsed, work, deadline, zeroed>> /\ pc = "record"
      /\ pc' \in RecordTypes \cup {"release"} /\ (aborted => aborted')
  <2>1. UNCHANGED <<slot, index, left, clock, elapsed, work, deadline, zeroed>> /\ pc = "record"
        /\ pc' \in {"release", Here.type}
    BY DEF NextRecord, run, history
  <2>2. aborted => aborted'
    BY DEF NextRecord, Pump, pumped
  <2>3. pc' # "release" => pc' \in RecordTypes
    <3>1. pc' # "release" => index <= Count
      BY IndexIs DEF NextRecord, IInv
    <3>2. index <= Count => Here.type \in RecordTypes
      BY IndexIs, Slot DEF IInv, Here
    <3> QED BY <2>1, <3>1, <3>2
  <2> QED BY <2>1, <2>2, <2>3
<1>2. left = 0 /\ g = Due(index) /\ index \in Int
  BY <1>1, NothingLeft, GrantedIs, IndexIs DEF IInv, Typing, Waits
<1>3. Granted' = g
  <2>1. Due(index)' = Due(index)
    <3> PICK n : n = index'
      OBVIOUS
    <3> QED BY <1>1, SameDue
  <2>2. ~Typing' /\ ~(left' > 0)
    <3>1. left' = 0 /\ pc' \notin {"typed", "wait"}
      BY <1>1, <1>2 DEF RecordTypes
    <3> QED BY <3>1 DEF Typing, Waits
  <2> QED BY <1>2, <2>1, <2>2 DEF Granted
<1>4. RunInv'
  BY <1>1, NoRun DEF RecordTypes
<1>5. Timely(g, elapsed, work, 0)
  BY <1>1 DEF ClockBy, BetweenWaits
<1>6. ClockBy(g)'
  <2>1. Timely(g, elapsed, work, 0)'
    BY <1>1, <1>5 DEF Timely
  <2> QED BY <1>1, <2>1, ClockIs, ClockAtRecord DEF BetweenWaits
<1>7. BudgetBy(g)'
  <2>1. BudgetForWork'
    <3>1. CASE index > Count
      <4>1. cut' = cut
        BY <3>1 DEF NextRecord
      <4> QED BY <1>1, <4>1 DEF BudgetBy, BudgetForWork
    <3>2. CASE ~(index > Count)
      <4> SUFFICES ASSUME cut', ~zeroed' PROVE work' >= MAX_RUN
        BY DEF BudgetForWork
      <4>1. ~aborted /\ Reached(deadline)
        <5>1. cut' = (~aborted' /\ Reached(deadline))
          BY <3>2 DEF NextRecord
        <5>2. ~aborted' /\ Reached(deadline)
          BY <5>1
        <5> QED BY <1>1, <5>2
      <4>2. deadline = At(MAX_RUN + g)
        BY <1>1, <4>1 DEF BudgetBy
      <4>3. elapsed <= g + work /\ g <= elapsed + (index - 1)
        BY <1>5, <4>1, <1>2, ClockIs DEF Timely
      <4>4. index <= Count /\ MAX_RUN + Count <= WRAP \div 2
        <5>1. \A s \in Slots : MAX_RUN + Len(s) <= WRAP \div 2
          BY WrapAssumption
        <5> QED BY <1>2, <3>2, <5>1, IndexIs DEF IInv, Count
      <4>5. Count \in Nat
        BY IndexIs DEF IInv
      <4>6. MAX_RUN + g \in Int /\ (MAX_RUN + g) - elapsed <= WRAP \div 2
        BY <1>2, <4>3, <4>4, <4>5, ClockIs, Times
      <4>7. ~(MAX_RUN + g > elapsed)
        BY <4>1, <4>2, <4>6, ClockIs, Moments
      <4> QED BY <1>1, <1>2, <4>3, <4>6, <4>7, ClockIs, Times
    <3> QED BY <3>1, <3>2
  <2>2. ASSUME ~aborted', ~zeroed' PROVE (deadline = At(MAX_RUN + g) /\ deadline # 0)'
    <3>1. deadline = At(MAX_RUN + g) /\ deadline # 0
      BY <1>1, <2>2 DEF BudgetBy
    <3> QED BY <1>1, <3>1 DEF At
  <2>3. ASSUME ~aborted', zeroed' PROVE ZeroBy(g)'
    <3>1. ZeroBy(g)
      BY <1>1, <2>3 DEF BudgetBy
    <3> QED BY <1>1, <3>1 DEF ZeroBy, At
  <2> QED BY <2>1, <2>2, <2>3 DEF BudgetBy
<1> QED BY <1>3, <1>4, <1>6, <1>7, Plays

LEMMA PlayRelease ==
  ASSUME IInv, IInv', PlayInv, Release
  PROVE  PlayInv'
<1> PICK g \in Int : g = Granted /\ ClockBy(g) /\ BudgetBy(g)
  BY DEF PlayInv
<1>1. /\ UNCHANGED <<slot, left, clock, elapsed, work, zeroed, cut>> /\ pc = "release"
      /\ pc' \in {"idle", "pass"} /\ index' = 1
  BY DEF Release, run, history, flags
<1>2. g = Due(index) /\ g <= AllAuthored /\ AllAuthored \in Nat
  BY <1>1, GrantedIs, IndexIs, DueIs, TicksFinite DEF IInv, Typing, Waits
<1>3. AllAuthored' = AllAuthored /\ Due(index)' = Due(1)
  <2> PICK n : n = index'
    OBVIOUS
  <2> QED BY <1>1, SameDue
<1>4. Granted' = 0
  <2>1. ~Typing' /\ pc' # "text"
    BY <1>1 DEF Typing, Waits
  <2>2. Due(1) = 0
    BY IndexIs, DueFirst DEF IInv
  <2> QED BY <1>3, <2>1, <2>2 DEF Granted
<1>5. elapsed <= AllAuthored + work
  <2>1. Timely(g, elapsed, work, 0)
    BY <1>1 DEF ClockBy, BetweenWaits
  <2> QED BY <1>2, <2>1, ClockIs DEF Timely
<1>6. ClockBy(0)'
  <2>1. pc' \notin BetweenWaits /\ ~Emitting' /\ pc' \notin {"wait", "moves", "moved"}
    BY <1>1 DEF BetweenWaits, RecordTypes, Emitting, Waits
  <2> QED BY <1>1, <1>3, <1>5, <2>1, ClockIs DEF ClockBy, Waits
<1>7. BudgetBy(0)'
  BY <1>1 DEF BudgetBy, BudgetForWork
<1> QED BY <1>1, <1>4, <1>6, <1>7, NoRun, Plays

Short == 0 .. WRAP \div 2

LEMMA StillTimely ==
  ASSUME NEW e \in Int, NEW w \in Int, NEW g \in Int, NEW h \in Int, NEW i \in Int, NEW j \in Int,
         NEW t \in Int, NEW stopped, i <= j, e <= g + w, ~stopped => g <= e + (i - 1),
         g + t <= h, ~stopped => h = g + t
  PROVE  (e + t) + 0 <= h + w /\ (~stopped => h <= (e + t) + 0 + (j - 1))
  OBVIOUS

(* A record that takes `ticks` on purpose, or none, is behind.               *)
LEMMA ClockGoesOn ==
  ASSUME IInv, NEW g \in Int, ClockBy(g),
         UNCHANGED <<slot, clock, elapsed, work>>, pc \in BetweenWaits \ {"release"},
         NEW h \in Int, NEW j \in Int, j = index', index <= j,
         aborted' = aborted, NEW ticks \in Nat,
         ticks \in Short, g + ticks <= h, ~aborted => h = g + ticks,
         \/ pc' \in BetweenWaits /\ ticks = 0
         \/ pc' = "wait" /\ back' \in {"record", "typed"} /\ until' = Later(clock, ticks)
  PROVE  ClockBy(h)'
<1>1. Timely(g, elapsed, work, 0) /\ index \in Int
  BY IndexIs DEF ClockBy, IInv
<1>2. clock' \in 0 .. WRAP - 1 /\ elapsed' \in Nat /\ work' \in 0 .. MaxWork
      /\ elapsed \in Int /\ work \in Int /\ clock \in Int /\ elapsed' = elapsed /\ work' = work
  BY ClockIs
<1> PICK u \in Int : u = elapsed + ticks
  BY <1>2
<1>3. u + 0 <= h + work' /\ (~aborted' => h <= u + 0 + (j - 1))
  <2>1. elapsed + 0 <= g + work /\ (~aborted => g <= elapsed + 0 + (index - 1))
    BY <1>1 DEF Timely
  <2>2. elapsed + 0 = elapsed
    BY <1>2
  <2>3. (elapsed + ticks) + 0 <= h + work /\ (~aborted => h <= (elapsed + ticks) + 0 + (j - 1))
    <3>1. elapsed <= g + work /\ (~aborted => g <= elapsed + (index - 1))
      BY <2>1, <2>2, Zenon
    <3>2. ticks \in Int
      OBVIOUS
    <3> QED BY <1>1, <1>2, <3>1, <3>2, StillTimely, Zenon
  <2> QED BY <1>2, <2>3, Zenon
<1>4. Timely(h, u, work, 0)'
  BY <1>3 DEF Timely
<1>5. CASE pc' \in BetweenWaits /\ ticks = 0
  <2>1. Timely(h, elapsed, work, 0)'
    <3>1. elapsed' = u
      BY <1>2, <1>5
    <3> QED BY <1>4, <3>1
  <2> QED BY <1>2, <1>5, <2>1, ClockAtRecord
<1>6. CASE pc' = "wait" /\ back' \in {"record", "typed"} /\ until' = Later(clock, ticks)
  <2>1. until' = At(u)
    BY <1>2, <1>6, Moments
  <2>2. Awaits(u)' /\ elapsed' <= u
    <3>1. u <= elapsed + WRAP \div 2 /\ elapsed <= u
      BY <1>2, Times DEF Short
    <3>2. At(u)' = At(u)
      BY <1>2, MomentsStay
    <3> QED BY <1>2, <2>1, <3>1, <3>2 DEF Awaits
  <2> QED BY <1>2, <1>4, <1>6, <2>2, ClockAtWait
<1> QED BY <1>5, <1>6

LEMMA GrantedNext ==
  ASSUME slot \in Slots, slot' = slot, NEW j \in Int, j = index', ~Typing',
         pc' # "text" \/ left' = 0
  PROVE  Granted' = Due(j)
<1>1. Due(index)' = Due(j) /\ Due(j) \in Nat
  BY SameDue, DueIs
<1>2. ~(left' > 0) \/ pc' # "text"
  OBVIOUS
<1>3. Granted' = Due(index)' + 0
  BY <1>2 DEF Granted
<1> QED BY <1>1, <1>3

(* The record is behind, and what it says it takes is granted.               *)
LEMMA DueOf ==
  ASSUME PlaceInv, pc \in RecordTypes
  PROVE  /\ index \in DOMAIN slot /\ Here.type = pc /\ Here = slot[index] /\ Here.type \in RecordTypes
         /\ pc \notin {"text", "move"} =>
              /\ Due(index + 1) = Due(index) + Authored(index) /\ index + 1 \in Int
              /\ Authored(index) = (IF pc = "delay" THEN Here.a ELSE 0)
              /\ pc = "delay" => Here.a \in Nat /\ Here.a \in Short
<1>1. index \in DOMAIN slot /\ Here.type = pc /\ Here = slot[index] /\ slot \in Slots /\ Sound(index)
  BY AtRecord DEF Here, PlaceInv
<1>2. ASSUME pc \notin {"text", "move"}
      PROVE  /\ Due(index + 1) = Due(index) + Authored(index) /\ index + 1 \in Int
             /\ Authored(index) = (IF pc = "delay" THEN Here.a ELSE 0)
             /\ pc = "delay" => Here.a \in Nat /\ Here.a \in Short
  <2>1. After(index) = index + 1 /\ index \in 1 .. Count /\ Count \in Nat
    BY <1>1, <1>2, Slot
  <2>2. Next1(index) = index + 1 /\ index \in Played
    BY <1>1, <2>1, PlayedIs DEF Next1, Sound
  <2>3. Due(index + 1) = Due(index) + Authored(index)
    BY <1>1, <2>2, DueNext
  <2>4. Authored(index) = (IF pc = "delay" THEN Here.a ELSE 0)
    BY <1>1, <1>2, AuthoredIs
  <2>5. pc = "delay" => Here.a \in Nat /\ Here.a \in Short
    BY <1>1, Records, Times DEF Short
  <2> QED BY <2>1, <2>3, <2>4, <2>5
<1> QED BY <1>1, <1>2

LEMMA PlayDispatch ==
  ASSUME IInv, IInv', PlayInv, Dispatch \/ Delay
  PROVE  PlayInv'
<1> PICK g \in Int : g = Granted /\ ClockBy(g) /\ BudgetBy(g)
  BY DEF PlayInv
<1> PICK ticks : ticks = Authored(index)
  OBVIOUS
<1>1. /\ UNCHANGED <<slot, left, clock, elapsed, work, aborted, cut>> /\ index' = index + 1
      /\ pc \in {"press", "release key", "tap", "click", "sequence", "delay"}
  BY DEF Dispatch, Delay, run, pumped, history, flags
<1>2. pc \in RecordTypes /\ pc \in BetweenWaits \ {"release"}
      /\ pc \notin {"text", "move", "typed", "wait", "idle", "pass", "release"}
  BY <1>1 DEF RecordTypes, BetweenWaits
<1>3. left = 0 /\ g = Due(index) /\ slot \in Slots /\ index \in Int
  BY <1>2, NothingLeft, GrantedIs, IndexIs DEF IInv, Typing, Waits
<1>4. /\ Due(index + 1) = Due(index) + Authored(index) /\ index + 1 \in Int
      /\ Authored(index) = (IF pc = "delay" THEN Here.a ELSE 0)
      /\ pc = "delay" => Here.a \in Nat /\ Here.a \in Short
  BY <1>2, DueOf DEF IInv
<1>5. ticks \in Nat /\ ticks \in Short
  <2>1. 0 \in Short
    BY Times DEF Short
  <2> QED BY <1>4, <2>1
<1>6. \/ pc' \in BetweenWaits /\ ticks = 0 /\ UNCHANGED <<deadline, zeroed>>
      \/ pc' = "wait" /\ back' = "record" /\ until' = Later(clock, ticks) /\ Extend(ticks)
  <2>1. CASE Dispatch
    BY <1>4, <2>1 DEF Dispatch, flags, BetweenWaits
  <2>2. CASE Delay
    <3>1. pc = "delay" /\ pc' = "wait" /\ back' = "record" /\ until' = Later(clock, Here.a) /\ Extend(Here.a)
      BY <2>2 DEF Delay, Wait
    <3>2. Here.a = ticks
      BY <1>4, <3>1
    <3> QED BY <3>1, <3>2
  <2> QED BY <2>1, <2>2
<1>7. pc' \in {"record", "wait"} /\ (pc' = "wait" => back' = "record")
  BY DEF Dispatch, Delay, Wait
<1> PICK j \in Int : j = index + 1
  BY <1>4
<1> PICK h \in Int : h = g + ticks
  BY <1>5
<1>8. h = Granted'
  <2>1. ~Typing' /\ pc' # "text"
    BY <1>7 DEF Typing, Waits
  <2>2. Granted' = Due(j)
    BY <1>1, <1>3, <2>1, GrantedNext
  <2> QED BY <1>3, <1>4, <2>2
<1>9. ClockBy(h)'
  <2>1. index <= j /\ g + ticks <= h /\ (~aborted => h = g + ticks)
    BY <1>3, <1>5
  <2> QED BY <1>1, <1>2, <1>5, <1>6, <2>1, ClockGoesOn
<1>10. BudgetBy(h)'
  <2>1. clock \in Int /\ elapsed \in Int /\ work \in Int
    BY ClockIs
  <2>2. CASE ticks = 0 /\ UNCHANGED <<deadline, zeroed>>
    <3>1. h = g /\ work' >= work
      <4>1. g + 0 = g /\ work >= work
        BY <2>1
      <4> QED BY <1>1, <2>2, <4>1, Zenon
    <3> QED BY <1>1, <1>2, <2>1, <2>2, <3>1, BudgetStays
  <2>3. CASE Extend(ticks)
    <3>1. ticks \in Nat /\ 0 <= h
      BY <1>5, <1>8, GrantedNow
    <3> QED BY <1>1, <1>2, <2>1, <2>3, <3>1, BudgetGrows
  <2> QED BY <1>6, <2>2, <2>3
<1>11. RunInv'
  BY <1>7, NoRun
<1> QED BY <1>8, <1>9, <1>10, <1>11, Plays

LEMMA OneMore ==
  ASSUME NEW a \in Nat, NEW d \in Int, NEW l \in Nat, NEW t \in Nat
  PROVE  d + (a - (l - 1)) * t = (d + (a - l) * t) + t
<1>1. (a - (l - 1)) * t = (a - l) * t + t /\ (a - l) * t \in Int
  OBVIOUS
<1> QED BY <1>1

LEMMA Letters ==
  ASSUME NEW a \in Nat, NEW l \in Nat, NEW t \in Nat, NEW d \in Int
  PROVE  /\ (a - l) * t \in Int /\ a * t \in Int
         /\ d + (a - a) * t = d
         /\ l >= 0 => d + (a - l) * t <= d + a * t
         /\ d + (a - 0) * t = d + a * t
<1>1. \A x, y \in Int : x >= 0 /\ y >= 0 => x * y >= 0
  OBVIOUS
<1>2. (a - l) * t + l * t = a * t /\ (a - l) * t \in Int /\ a * t \in Int
  OBVIOUS
<1>4. l >= 0 => l * t >= 0
  BY <1>1
<1>5. (a - a) * t = 0 /\ l * t \in Int /\ (a - 0) * t = a * t
  OBVIOUS
<1> QED BY <1>2, <1>4, <1>5

(* The characters typed so far are granted, and those of the whole text when   *)
(* it is behind, unless it was cut off by the end.                           *)
LEMMA TextDue ==
  ASSUME PlaceInv, index \in DOMAIN slot, Here.type = "text"
  PROVE  /\ AfterText \in Int /\ index < AfterText /\ Here.a \in Nat /\ Count \in Nat
         /\ index \in Int /\ Due(index) \in Int /\ index <= Count
         /\ AfterText <= Count + 1 => Due(AfterText) = Due(index) + Here.a * TEXT_DELAY
         /\ AfterText > Count + 1 => Due(Count + 1) = Due(index)
<1>1. AfterText = After(index) /\ AfterText \in Int /\ Here.a \in Nat /\ Here = slot[index]
  BY TextIs DEF Here
<1>2. slot \in Slots /\ Sound(index) /\ index \in Begin /\ index \in 1 .. Count /\ Count \in Nat
  BY Slot DEF PlaceInv, Sound
<1>3. index < AfterText /\ Due(index) \in Int
  BY <1>1, <1>2, Slot, DueIs
<1>4. ASSUME AfterText <= Count + 1 PROVE Due(AfterText) = Due(index) + Here.a * TEXT_DELAY
  <2>1. Next1(index) = AfterText /\ index \in Played
    BY <1>1, <1>2, <1>4, PlayedIs DEF Next1
  <2>2. Authored(index) = Here.a * TEXT_DELAY
    BY <1>1, <1>2, AuthoredIs
  <2> QED BY <1>2, <2>1, <2>2, DueNext
<1>5. ASSUME AfterText > Count + 1 PROVE Due(Count + 1) = Due(index)
  <2>1. Next1(index) = Count + 1 /\ index \notin Played
    BY <1>1, <1>2, <1>5, PlayedIs DEF Next1
  <2>2. Due(Count + 1) = Due(index) + 0
    BY <1>2, <2>1, DueNext
  <2> QED BY <1>3, <2>2
<1> QED BY <1>1, <1>2, <1>3, <1>4, <1>5

(* What a step of a text grants.                                             *)
LEMMA TextGrants ==
  ASSUME IInv, Text \/ Type \/ Typed, NEW j, j = index', NEW g, g = Granted
  PROVE  /\ g \in Int /\ j \in Int /\ index <= j /\ index \in Int
         /\ (pc = "text" /\ left > 0) \/ pc = "typed" => left \in Nat
         /\ Text => Granted' = g
         /\ Type => Granted' = g + TEXT_DELAY
         /\ Typed => Granted' \in Int /\ g <= Granted' /\ (~aborted => Granted' = g)
<1>1. slot' = slot /\ slot \in Slots /\ left \in Nat
  BY DEF Text, Type, Typed, run, IInv, PlaceInv
<1>2. pc \in {"text", "typed"} /\ index \in DOMAIN slot /\ Here.type = "text"
  <2>1. pc \in {"text", "typed"}
    BY DEF Text, Type, Typed
  <2>2. "text" \in RecordTypes
    BY DEF RecordTypes
  <2>3. CASE pc = "text"
    BY <2>2, <2>3, AtRecord DEF IInv
  <2>4. CASE pc = "typed"
    BY <2>4 DEF IInv, PlaceInv, Typing
  <2> QED BY <2>1, <2>3, <2>4
<1>3. /\ AfterText \in Int /\ index < AfterText /\ Here.a \in Nat /\ Count \in Nat
      /\ index \in Int /\ Due(index) \in Int /\ index <= Count
      /\ AfterText <= Count + 1 => Due(AfterText) = Due(index) + Here.a * TEXT_DELAY
      /\ AfterText > Count + 1 => Due(Count + 1) = Due(index)
  BY <1>2, TextDue DEF IInv
<1>0. PICK a \in Nat, d \in Int, l \in Nat, t \in Nat :
        a = Here.a /\ d = Due(index) /\ l = left /\ t = TEXT_DELAY
  BY <1>1, <1>3, Times
<1>4. pc = "text" /\ left = 0 => g = d
  <2> SUFFICES ASSUME pc = "text", left = 0 PROVE g = d
    OBVIOUS
  <2>1. ~Typing /\ ~(left > 0)
    BY <1>0 DEF Typing, Waits
  <2> QED BY <1>0, <1>3, <2>1 DEF Granted
<1>5. pc = "typed" \/ (pc = "text" /\ left > 0) => g = d + (a - l) * t
  <2> SUFFICES ASSUME pc = "typed" \/ (pc = "text" /\ left > 0) PROVE g = d + (a - l) * t
    OBVIOUS
  <2>1. Typing \/ (pc = "text" /\ left > 0)
    BY <1>0 DEF Typing
  <2> QED BY <1>0, <2>1 DEF Granted
<1>6. ASSUME j = index PROVE Due(index)' = d /\ Here' = Here
  <2>1. Due(index)' = Due(j)
    BY <1>0, <1>1, SameDue
  <2> QED BY <1>0, <1>1, <1>6, <2>1 DEF Here
<1>7. g \in Int
  <2>1. (a - l) * t \in Int
    BY Letters
  <2>2. g = d \/ g = d + (a - l) * t
    BY <1>0, <1>1, <1>2, <1>4, <1>5
  <2> QED BY <1>0, <2>1, <2>2
<1>8. CASE Text
  <2>1. pc = "text" /\ left = 0
    BY <1>0, <1>8 DEF Text
  <2>2. CASE AfterText > Count + 1 \/ Here.a = 0
    <3>1. j = (IF AfterText > Count + 1 THEN Count + 1 ELSE AfterText) /\ pc' = "record" /\ left' = left
      BY <1>0, <1>8, <2>2 DEF Text
    <3>2. Due(j) = d
      <4>1. CASE AfterText > Count + 1
        BY <1>0, <1>3, <3>1, <4>1
      <4>2. CASE ~(AfterText > Count + 1)
        <5>1. a = 0 /\ j = AfterText /\ AfterText <= Count + 1
          BY <1>0, <1>3, <2>2, <3>1, <4>2
        <5>2. Due(j) = d + 0 * t
          BY <1>0, <1>3, <5>1
        <5> QED BY <1>0, <5>2
      <4> QED BY <1>0, <4>1, <4>2
    <3>3. j \in Int /\ index <= j
      BY <1>0, <1>3, <3>1
    <3>4. Granted' = Due(j)
      BY <1>0, <1>1, <2>1, <3>1, <3>3, GrantedNext DEF Typing, Waits
    <3>5. Granted' = g
      BY <1>0, <1>4, <2>1, <3>2, <3>4
    <3>6. ~Type /\ ~Typed
      BY <1>0, <2>1 DEF Type, Typed
    <3> QED BY <1>0, <1>3, <1>7, <2>1, <3>3, <3>5, <3>6
  <2>3. CASE ~(AfterText > Count + 1 \/ Here.a = 0)
    <3>1. j = index /\ pc' = "text" /\ left' = a
      BY <1>0, <1>8, <2>1, <2>3 DEF Text
    <3>2. a > 0
      BY <1>0, <2>3
    <3>3. Granted' = d + (a - a) * t
      <4>1. Granted' = Due(index)' + (Here.a' - left') * TEXT_DELAY
        BY <1>0, <3>1, <3>2 DEF Granted
      <4> QED BY <1>0, <1>6, <3>1, <4>1
    <3> QED BY <1>0, <1>3, <1>4, <1>7, <1>8, <2>1, <3>1, <3>3 DEF Text, Type, Typed
  <2> QED BY <1>0, <2>2, <2>3
<1>9. CASE Type
  <2>1. pc = "text" /\ left > 0 /\ left' = l - 1 /\ j = index /\ pc' = "wait" /\ back' = "typed"
    BY <1>0, <1>9 DEF Type, Wait
  <2>2. Granted' = d + (a - (l - 1)) * t
    <3>1. Typing'
      BY <1>0, <2>1 DEF Typing, Waits
    <3>2. Granted' = Due(index)' + (Here.a' - left') * TEXT_DELAY
      BY <1>0, <3>1 DEF Granted
    <3> QED BY <1>0, <1>6, <2>1, <3>2
  <2>3. Granted' = (d + (a - l) * t) + t
    <3>1. d + (a - (l - 1)) * t = (d + (a - l) * t) + t
      BY OneMore, Zenon
    <3> QED BY <1>0, <2>2, <3>1
  <2>4. Granted' = g + TEXT_DELAY
    BY <1>0, <1>5, <2>1, <2>3
  <2> QED BY <1>0, <1>1, <1>3, <1>7, <1>9, <2>1, <2>4 DEF Text, Type, Typed
<1>10. CASE Typed
  <2>1. pc = "typed" /\ AfterText <= Count + 1 /\ g = d + (a - l) * t
    BY <1>0, <1>5, <1>10 DEF Typed, IInv, PlaceInv, Typing
  <2>2. CASE aborted \/ left = 0
    <3>1. j = AfterText /\ pc' = "record" /\ left' = 0
      BY <1>0, <1>10, <2>2 DEF Typed
    <3>2. Granted' = Due(j) /\ j \in Int
      BY <1>0, <1>1, <1>3, <3>1, GrantedNext DEF Typing, Waits
    <3>3. Granted' = d + a * t
      BY <1>0, <1>3, <2>1, <3>1, <3>2
    <3>4. Granted' \in Int /\ g <= Granted'
      <4>1. d + (a - l) * t <= d + a * t /\ a * t \in Int
        BY Letters
      <4> QED BY <1>0, <2>1, <3>3, <4>1
    <3>5. ~aborted => Granted' = g
      <4> SUFFICES ASSUME ~aborted PROVE Granted' = g
        OBVIOUS
      <4>1. l = 0
        BY <1>0, <2>2
      <4>2. d + (a - 0) * t = d + a * t
        BY Letters
      <4> QED BY <1>0, <2>1, <3>3, <4>1, <4>2
    <3> QED BY <1>0, <1>1, <1>3, <1>7, <1>10, <2>1, <3>1, <3>4, <3>5 DEF Text, Type, Typed
  <2>3. CASE ~(aborted \/ left = 0)
    <3>1. j = index /\ pc' = "text" /\ left' = l /\ l > 0
      BY <1>0, <1>10, <2>3 DEF Typed
    <3>2. Granted' = Due(index)' + (Here.a' - left') * TEXT_DELAY
      BY <1>0, <3>1 DEF Granted
    <3>3. Granted' = g
      BY <1>0, <1>6, <2>1, <3>1, <3>2
    <3> QED BY <1>0, <1>1, <1>3, <1>7, <1>10, <2>1, <3>1, <3>3 DEF Text, Type, Typed
  <2> QED BY <1>0, <2>2, <2>3
<1> QED BY <1>0, <1>8, <1>9, <1>10

LEMMA PlayText ==
  ASSUME IInv, IInv', PlayInv, Text \/ Type \/ Typed
  PROVE  PlayInv'
<1> PICK g \in Int : g = Granted /\ ClockBy(g) /\ BudgetBy(g)
  BY DEF PlayInv
<1> PICK j : j = index'
  OBVIOUS
<1> PICK h : h = Granted'
  OBVIOUS
<1>1. /\ UNCHANGED <<slot, clock, elapsed, work, aborted, cut>>
      /\ pc \in {"text", "typed"}
  BY DEF Text, Type, Typed, run, pumped, history, flags
<1>2. pc \in BetweenWaits \ {"release"} /\ pc \notin {"idle", "pass", "release"}
  BY <1>1 DEF RecordTypes, BetweenWaits
<1>3. /\ j \in Int /\ index <= j /\ index \in Int
      /\ Text => h = g
      /\ Type => h = g + TEXT_DELAY
      /\ Typed => h \in Int /\ g <= h /\ (~aborted => h = g)
  BY TextGrants
<1>4. clock \in Int /\ elapsed \in Int /\ work \in Int
  BY ClockIs
<1>5. CASE Text \/ Typed
  <2>1. UNCHANGED <<deadline, zeroed>> /\ pc' \in {"record", "text"}
    BY <1>1, <1>5 DEF Text, Typed, flags
  <2>2. h \in Int /\ (~aborted => h = g)
    BY <1>3, <1>5
  <2>3. g <= h
    <3>1. g <= g
      OBVIOUS
    <3> QED BY <1>3, <1>5, <3>1, Zenon
  <2>4. ClockBy(h)'
    <3>1. pc' \in BetweenWaits /\ 0 \in Short /\ 0 \in Nat
      <4>1. pc' \in BetweenWaits
        BY <2>1 DEF BetweenWaits, RecordTypes
      <4>2. 0 \in Short /\ 0 \in Nat
        BY Times DEF Short
      <4> QED BY <4>1, <4>2
    <3>2. g + 0 = g
      OBVIOUS
    <3>3. g + 0 <= h /\ (~aborted => h = g + 0)
      BY <2>2, <2>3, <3>2, Zenon
    <3> QED BY <1>1, <1>2, <1>3, <2>2, <3>1, <3>3, ClockGoesOn
  <2>5. BudgetBy(h)'
    <3>1. work' >= work /\ work' \in Int
      <4>1. work >= work
        BY <1>4
      <4> QED BY <1>1, <1>4, <4>1, Zenon
    <3> QED BY <1>1, <1>2, <1>4, <2>1, <2>2, <3>1, BudgetStays
  <2>6. RunInv'
    BY <2>1, NoRun
  <2> QED BY <2>2, <2>4, <2>5, <2>6, Plays
<1>6. CASE Type
  <2>1. pc' = "wait" /\ back' = "typed" /\ until' = Later(clock, TEXT_DELAY) /\ Extend(TEXT_DELAY)
    BY <1>6 DEF Type, Wait
  <2>2. TEXT_DELAY \in Nat /\ TEXT_DELAY \in Short /\ TEXT_DELAY \in Int
    BY Times DEF Short
  <2>3. h = g + TEXT_DELAY /\ h \in Int
    BY <1>3, <1>6, <2>2
  <2>4. g + TEXT_DELAY <= h
    <3>1. g + TEXT_DELAY <= g + TEXT_DELAY
      BY <2>2
    <3> QED BY <2>3, <3>1, Zenon
  <2>5. ClockBy(h)'
    BY <1>1, <1>2, <1>3, <2>1, <2>2, <2>3, <2>4, ClockGoesOn
  <2>6. BudgetBy(h)'
    <3>1. 0 <= h
      BY <2>3, GrantedNow
    <3> QED BY <1>1, <1>2, <1>4, <2>1, <2>2, <2>3, <3>1, BudgetGrows
  <2>7. RunInv'
    BY <2>1, NoRun
  <2> QED BY <2>3, <2>5, <2>6, <2>7, Plays
<1> QED BY <1>5, <1>6

LEMMA Onward ==
  ASSUME NEW g \in Int, NEW h \in Int, NEW s \in Int, NEW w \in Int,
         NEW t \in Int, NEW x \in Int, s <= g + w, t + g <= s + h + (x - w)
  PROVE  t <= h + x
  OBVIOUS

LEMMA Behind ==
  ASSUME NEW g \in Int, NEW h \in Int, NEW i \in Int, NEW j \in Int, NEW s \in Int,
         NEW t \in Int, g <= s + (i - 1), s + h <= t + g + (j - i)
  PROVE  h <= t + (j - 1)
  OBVIOUS

(* A moment that moves on as the work and the grant do is still timely.      *)
LEMMA TimelyLater ==
  ASSUME NEW g \in Int, NEW h \in Int, index \in Int, NEW j \in Int, j = index',
         NEW t \in Int, NEW w \in Int, NEW r \in Int, Timely(g, t, w, r),
         NEW u \in Int, NEW x \in Int, NEW q \in Int, aborted => aborted',
         (u + q) + g <= (t + r) + h + (x - w),
         ~aborted' => (t + r) + h <= (u + q) + g + (j - index)
  PROVE  Timely(h, u, x, q)'
<1>1. t + r <= g + w /\ (~aborted => g <= (t + r) + (index - 1))
  BY DEF Timely
<1>2. PICK k \in Int, s \in Int, v \in Int : k = index /\ s = t + r /\ v = u + q
  OBVIOUS
<1>3. s <= g + w /\ (~aborted => g <= s + (k - 1))
  BY <1>1, <1>2
<1>4. v + g <= s + h + (x - w) /\ (~aborted' => s + h <= v + g + (j - k))
  BY <1>2
<1>5. v <= h + x /\ (~aborted' => h <= v + (j - 1))
  <2>1. v <= h + x
    BY <1>3, <1>4, Onward
  <2>2. ASSUME ~aborted' PROVE h <= v + (j - 1)
    <3>1. g <= s + (k - 1) /\ s + h <= v + g + (j - k)
      BY <1>3, <1>4, <2>2
    <3> QED BY <3>1, Behind
  <2> QED BY <2>1, <2>2
<1>6. u + q <= h + x /\ (~aborted' => h <= u + q + (j - 1))
  BY <1>2, <1>5
<1> QED BY <1>6 DEF Timely

LEMMA GrantedStays ==
  ASSUME UNCHANGED <<slot, index, left>>, Typing' <=> Typing,
         pc' = pc \/ (pc # "text" /\ pc' # "text")
  PROVE  Granted' = Granted
<1>1. Due(index)' = Due(index) /\ Here' = Here
  <2> PICK n : n = index'
    OBVIOUS
  <2> QED BY SameDue DEF Here
<1>2. (Typing' \/ (pc' = "text" /\ left' > 0)) <=> (Typing \/ (pc = "text" /\ left > 0))
  OBVIOUS
<1> QED BY <1>1, <1>2 DEF Granted

LEMMA RunStays ==
  ASSUME RunInv, UNCHANGED <<slot, move, gone>>, Moving' => Moving,
         pc' # "moves" => pc # "moves",
         pc' = "step" \/ Waits("step")' => pc = "step" \/ Waits("step"),
         pc' = "moved" \/ Waits("moved")' => pc = "moved" \/ Waits("moved")
  PROVE  RunInv'
  BY DEF RunInv

LEMMA PlayWork ==
  ASSUME IInv, IInv', PlayInv, Work
  PROVE  PlayInv'
<1> PICK g \in Int : g = Granted /\ ClockBy(g) /\ BudgetBy(g)
  BY DEF PlayInv
<1>1. /\ UNCHANGED <<slot, index, left, move, gone, pc, back, aborted, deadline, zeroed, cut>>
      /\ pc \in {"record", "text", "moves", "step"} /\ clock' = Later(clock, 1)
      /\ elapsed' = elapsed + 1 /\ work' = work + 1 /\ work < MaxWork
  BY DEF Work, run, pumped, flags
<1>2. /\ clock \in Int /\ elapsed \in Int /\ work \in Int /\ elapsed \in Nat /\ work \in 0 .. MaxWork
      /\ index \in Int
  BY ClockIs, IndexIs DEF IInv
<1>3. Granted' = g
  BY <1>1, GrantedStays DEF Typing, Waits
<1>4. RunInv'
  BY <1>1, RunStays DEF PlayInv, Moving, Emitting, Waits
<1> PICK j \in Int : j = index'
  BY <1>1, <1>2
<1> PICK e \in Int : e = elapsed + 1
  BY <1>2
<1> PICK x \in Int : x = work + 1
  BY <1>2
<1>5. ASSUME NEW r \in Int, Timely(g, elapsed, work, r) PROVE Timely(g, e, x, r)'
  <2>1. (e + r) + g <= (elapsed + r) + g + (x - work) /\ (elapsed + r) + g <= (e + r) + g + (j - index)
    BY <1>1, <1>2
  <2> QED BY <1>1, <1>2, <1>5, <2>1, TimelyLater
<1>6. clock' \in 0 .. WRAP - 1 /\ elapsed' \in Nat /\ work' \in 0 .. MaxWork /\ elapsed' = e /\ work' = x
  <2>1. clock' \in 0 .. WRAP - 1
    BY <1>1, <1>2, Times DEF Later
  <2>2. work' \in 0 .. MaxWork
    BY <1>1, <1>2, Times
  <2> QED BY <1>1, <1>2, <2>1, <2>2
<1>7. ClockBy(g)'
  <2>1. CASE pc \in {"record", "text"}
    <3>1. Timely(g, elapsed, work, 0)
      BY <2>1 DEF ClockBy, BetweenWaits, RecordTypes
    <3>2. Timely(g, elapsed, work, 0)'
      BY <1>5, <1>6, <3>1
    <3>3. pc' \in BetweenWaits
      BY <1>1, <2>1 DEF BetweenWaits, RecordTypes
    <3> QED BY <1>6, <3>2, <3>3, ClockAtRecord
  <2>2. CASE pc = "moves"
    <3>1. Timely(g, elapsed, work, Rest(move.at)) /\ Rest(move.at) \in Int
      BY <2>2 DEF ClockBy, PlayInv, RunInv, Moving, Rest
    <3>2. PICK r \in Int : r = Rest(move.at)
      BY <3>1
    <3>3. r = Rest(move.at)'
      BY <1>1, <3>2 DEF Rest
    <3>4. Timely(g, elapsed, work, Rest(move.at))'
      BY <1>5, <1>6, <3>1, <3>2, <3>3
    <3>5. pc' = "moves"
      BY <1>1, <2>2
    <3> QED BY <1>6, <3>4, <3>5 DEF ClockBy, BetweenWaits, RecordTypes, Emitting, Waits
  <2>3. CASE pc = "step"
    <3>1. PICK f \in Int, w \in 0 .. work : EmitInv(g, f, w)
      BY <2>3 DEF ClockBy, Emitting
    <3>2. w \in Int
      OBVIOUS
    <3>3. /\ move.from = At(f) /\ f <= elapsed /\ Timely(g, f, w, Rest(move.at))
          /\ elapsed <= f + Part(move.step - 1) + (work - w)
      BY <2>3, <3>1 DEF EmitInv
    <3>4. PICK p \in Int : p = Part(move.step - 1)
      <4>1. move.over \in Nat /\ move.steps \in Nat \ {0} /\ move.step \in 1 .. move.steps
        BY <2>3 DEF PlayInv, RunInv, Moving, Emitting
      <4>2. move.step - 1 \in 0 .. move.steps
        BY <4>1
      <4>3. Part(move.step - 1) \in 0 .. move.over
        BY <4>1, <4>2, Shares, Zenon DEF Part
      <4>4. Part(move.step - 1) \in Int
        BY <4>1, <4>3
      <4> QED BY <4>4
    <3>5. At(f)' = At(f)
      BY <1>1, <1>2, MomentsStay
    <3>6. EmitInv(g, f, w)'
      <4>1. move'.from = At(f)'
        BY <1>1, <3>3, <3>5
      <4>2. f <= elapsed'
        BY <1>1, <1>2, <3>3
      <4>3. Timely(g, f, w, Rest(move.at))'
        BY <1>1, <3>3 DEF Timely, Rest
      <4>4. elapsed' <= f + Part(move.step - 1)' + (work' - w)
        <5>1. Part(move.step - 1)' = p
          BY <1>1, <3>4 DEF Part
        <5>2. e <= f + p + (x - w)
          BY <1>2, <3>2, <3>3, <3>4
        <5> QED BY <1>6, <5>1, <5>2
      <4> QED BY <1>1, <2>3, <4>1, <4>2, <4>3, <4>4 DEF EmitInv
    <3>7. w \in 0 .. work'
      BY <1>1, <1>2
    <3>8. pc' = "step"
      BY <1>1, <2>3
    <3> QED BY <1>6, <3>6, <3>7, <3>8 DEF ClockBy, BetweenWaits, RecordTypes, Waits
  <2> QED BY <1>1, <2>1, <2>2, <2>3
<1>8. BudgetBy(g)'
  <2>1. work' >= work /\ work' \in Int
    BY <1>1, <1>2
  <2>2. pc \notin {"idle", "pass", "release"}
    BY <1>1
  <2> QED BY <1>1, <1>2, <2>1, <2>2, BudgetStays
<1> QED BY <1>3, <1>4, <1>7, <1>8, Plays

(* What a wait comes to: the moment is there, somebody stops the macro, or    *)
(* another tick goes by.                                                     *)
LEMMA WaitIs ==
  ASSUME IInv, Waiting
  PROVE  /\ pc = "wait" /\ back \in {"record", "typed", "moved", "step"} /\ (aborted => aborted')
         /\ UNCHANGED <<slot, index, left, move, gone, back, until, deadline, zeroed, cut, work>>
         /\ \/ Reached(until) /\ pc' = back /\ UNCHANGED <<clock, elapsed, aborted>>
            \/ aborted' /\ pc' = back /\ UNCHANGED <<clock, elapsed>>
            \/ /\ ~Reached(until) /\ pc' = "wait" /\ clock' = Later(clock, 1)
               /\ elapsed' = elapsed + 1
<1>1. /\ pc = "wait" /\ back \in {"record", "typed", "moved", "step"}
      /\ UNCHANGED <<slot, index, left, move, gone, back, until, deadline, zeroed, cut, work>>
  BY DEF Waiting, IInv, PlaceInv, run, flags
<1>2. CASE Reached(until)
  <2>1. pc' = back /\ UNCHANGED <<clock, elapsed, pumped>>
    BY <1>2 DEF Waiting
  <2> QED BY <1>1, <1>2, <2>1 DEF pumped
<1>3. CASE ~Reached(until)
  <2>1. Pump /\ (aborted' => pc' = back /\ UNCHANGED <<clock, elapsed>>)
        /\ (~aborted' => clock' = Later(clock, 1) /\ elapsed' = elapsed + 1 /\ UNCHANGED pc)
    BY <1>3 DEF Waiting
  <2>2. aborted => aborted'
    BY <2>1 DEF Pump
  <2> QED BY <1>1, <1>3, <2>1, <2>2
<1> QED BY <1>2, <1>3

LEMMA PlayWaiting ==
  ASSUME IInv, IInv', PlayInv, Waiting
  PROVE  PlayInv'
<1> PICK g \in Int : g = Granted /\ ClockBy(g) /\ BudgetBy(g)
  BY DEF PlayInv
<1>1. /\ pc = "wait" /\ back \in {"record", "typed", "moved", "step"} /\ (aborted => aborted')
      /\ UNCHANGED <<slot, index, left, move, gone, back, until, deadline, zeroed, cut, work>>
  BY WaitIs
<1>2. \/ Reached(until) /\ pc' = back /\ UNCHANGED <<clock, elapsed, aborted>>
      \/ aborted' /\ pc' = back /\ UNCHANGED <<clock, elapsed>>
      \/ /\ ~Reached(until) /\ pc' = "wait" /\ clock' = Later(clock, 1)
         /\ elapsed' = elapsed + 1
  BY WaitIs
<1>3. /\ clock \in Int /\ elapsed \in Int /\ work \in Int /\ elapsed \in Nat /\ work \in 0 .. MaxWork
      /\ index \in Int /\ clock \in 0 .. WRAP - 1 /\ work <= MaxWork
  BY ClockIs, IndexIs DEF IInv
<1>4. pc' \in {"wait", "record", "typed", "moved", "step"} /\ (pc' # "wait" => pc' = back)
  BY <1>1, <1>2
<1>5. Granted' = g
  BY <1>1, <1>4, GrantedStays DEF Typing, Waits
<1>6. RunInv'
  BY <1>1, <1>4, RunStays DEF PlayInv, Moving, Emitting, Waits
<1>7. UNCHANGED <<clock, elapsed>> \/ (clock' = Later(clock, 1) /\ elapsed' = elapsed + 1)
  BY <1>2
<1>8. BudgetBy(g)'
  <2>1. work' >= work /\ work' \in Int
    BY <1>1, <1>3
  <2>2. pc \notin {"idle", "pass", "release"}
    BY <1>1
  <2> QED BY <1>1, <1>3, <1>7, <2>1, <2>2, BudgetStays
<1>9. clock' \in 0 .. WRAP - 1 /\ elapsed' \in Nat /\ elapsed' \in Int /\ work' \in 0 .. MaxWork
      /\ work' = work
  <2>1. clock' \in 0 .. WRAP - 1
    BY <1>3, <1>7, Times DEF Later
  <2>2. elapsed' \in Nat
    BY <1>3, <1>7
  <2> QED BY <1>1, <1>3, <2>1, <2>2
<1> PICK j \in Int : j = index'
  BY <1>1, <1>3
(* The moment waited for, which work has not put far behind.                 *)
<1>10. ASSUME NEW u \in Int, until = At(u), elapsed <= u + work, u <= elapsed + WRAP \div 2
       PROVE  /\ Reached(until) <=> u <= elapsed
              /\ (until = At(u))' /\ u <= elapsed' + WRAP \div 2
  <2>1. elapsed - u < WRAP \div 2 /\ u - elapsed <= WRAP \div 2
    BY <1>3, <1>10, Times
  <2>2. Reached(until) <=> u <= elapsed
    <3>1. /\ u <= elapsed /\ elapsed - u < WRAP \div 2 => Reached(At(u))
          /\ u > elapsed /\ u - elapsed <= WRAP \div 2 => ~Reached(At(u))
      BY <1>3, Moments
    <3>2. u > elapsed <=> ~(u <= elapsed)
      BY <1>3
    <3>3. Reached(At(u)) <=> u <= elapsed
      BY <2>1, <3>1, <3>2, Zenon
    <3> QED BY <1>10, <3>3
  <2>3. until' = At(u)'
    BY <1>1, <1>3, <1>7, <1>10, MomentsStay
  <2>4. u <= elapsed' + WRAP \div 2
    BY <1>3, <1>7, <1>10, Times
  <2> QED BY <2>2, <2>3, <2>4
<1>11. CASE back \in {"record", "typed"}
  <2>1. PICK u \in Int : Awaits(u) /\ elapsed <= u /\ Timely(g, u, work, 0)
    BY <1>1, <1>11 DEF ClockBy, Waits
  <2>2. until = At(u) /\ u <= elapsed + WRAP \div 2 /\ elapsed <= u + work
    BY <1>3, <2>1 DEF Awaits
  <2>3. /\ Reached(until) <=> u <= elapsed
        /\ (until = At(u))' /\ u <= elapsed' + WRAP \div 2
    BY <1>10, <2>2
  <2>4. CASE pc' = "wait"
    <3>1. elapsed' = elapsed + 1 /\ ~(u <= elapsed)
      BY <1>1, <1>2, <1>11, <2>3, <2>4
    <3>2. elapsed' <= u
      BY <1>3, <3>1
    <3>3. Awaits(u)'
      BY <2>3 DEF Awaits
    <3>4. Timely(g, u, work, 0)'
      <4> PICK x \in Int, z \in Int : x = work /\ z = 0
        BY <1>3
      <4>1. (u + z) + g <= (u + z) + g + (x - x) /\ (u + z) + g <= (u + z) + g + (j - index)
        BY <1>1, <1>3
      <4>2. Timely(g, u, x, z)
        BY <2>1
      <4>3. Timely(g, u, x, z)'
        BY <1>1, <1>3, <4>1, <4>2, TimelyLater
      <4> QED BY <1>1, <4>3 DEF Timely
    <3>5. ClockBy(g)'
      BY <1>1, <1>9, <1>11, <2>4, <3>2, <3>3, <3>4, ClockAtWait
    <3> QED BY <1>5, <1>6, <1>8, <3>5, Plays
  <2>5. CASE pc' # "wait"
    <3>1. pc' = back /\ elapsed' = elapsed /\ (aborted' \/ u <= elapsed)
      BY <1>2, <2>3, <2>5
    <3>2. Timely(g, elapsed, work, 0)'
      <4> PICK x \in Int, e \in Int, z \in Int : x = work /\ e = elapsed /\ z = 0
        BY <1>3
      <4>1. (e + z) + g <= (u + z) + g + (x - x)
        BY <1>3, <2>1
      <4>2. ~aborted' => (u + z) + g <= (e + z) + g + (j - index)
        BY <1>1, <1>3, <3>1
      <4>3. Timely(g, u, x, z)
        BY <2>1
      <4>4. Timely(g, e, x, z)'
        BY <1>1, <1>3, <4>1, <4>2, <4>3, TimelyLater
      <4> QED BY <1>1, <3>1, <4>4 DEF Timely
    <3>3. pc' \in BetweenWaits
      BY <1>11, <3>1 DEF BetweenWaits
    <3>4. ClockBy(g)'
      BY <1>9, <3>2, <3>3, ClockAtRecord
    <3> QED BY <1>5, <1>6, <1>8, <3>4, Plays
  <2> QED BY <2>4, <2>5
<1>12. CASE back \in {"step", "moved"}
  <2>1. PICK f \in Int, w \in 0 .. work : EmitInv(g, f, w)
    BY <1>1, <1>12 DEF ClockBy, Emitting, Waits
  <2>2. w \in Int /\ w <= work /\ w >= 0 /\ w \in 0 .. work'
    BY <1>1
  <2>3. /\ move.from = At(f) /\ f <= elapsed /\ Timely(g, f, w, Rest(move.at))
        /\ until = At(f + NextDue) /\ elapsed <= f + NextDue + (work - w)
    BY <1>1, <2>1 DEF EmitInv
  <2>4. /\ move.over \in Nat /\ move.over <= WRAP \div 2 /\ move.rest \in Nat
        /\ move.at \in Nat /\ move.end \in Nat /\ move.at < move.end
        /\ back = "step" => move.steps \in Nat \ {0} /\ move.step \in 1 .. move.steps
    BY <1>1, <1>12 DEF PlayInv, RunInv, Moving, Emitting, Waits
  <2>5. NextDue \in Int /\ 0 <= NextDue /\ NextDue <= move.over
    <3>1. CASE back = "step"
      <4>1. move.step - 1 \in 0 .. move.steps
        BY <2>4, <3>1
      <4>2. Part(move.step - 1) \in 0 .. move.over
        BY <2>4, <3>1, <4>1, Shares, Zenon DEF Part
      <4> QED BY <2>4, <3>1, <4>2 DEF NextDue
    <3>2. CASE back # "step"
      BY <2>4, <3>2 DEF NextDue
    <3> QED BY <3>1, <3>2
  <2> PICK d \in Int : d = NextDue
    BY <2>5
  <2> PICK u \in Int : u = f + d
    OBVIOUS
  <2>6. until = At(u) /\ u <= elapsed + WRAP \div 2 /\ elapsed <= u + work
    BY <1>3, <2>2, <2>3, <2>4, <2>5, Times
  <2>7. /\ Reached(until) <=> u <= elapsed
        /\ (until = At(u))' /\ u <= elapsed' + WRAP \div 2
    BY <1>10, <2>6
  <2>8. NextDue' = d /\ Rest(move.at)' = Rest(move.at) /\ (move.from = At(f))'
    <3>1. NextDue' = d
      BY <1>1 DEF NextDue, Part
    <3>2. At(f)' = At(f)
      BY <1>3, <1>7, MomentsStay
    <3> QED BY <1>1, <2>3, <3>1, <3>2 DEF Rest
  <2>9. Rest(move.at) \in Int /\ Rest(move.at + 1) \in Int
        /\ Rest(move.at) = Rest(move.at + 1) + move.over
    <3>1. PICK n \in Int, o \in Int, r \in Int : n = move.end - move.at /\ o = move.over /\ r = move.rest
      BY <2>4
    <3>2. n * o \in Int /\ (n - 1) * o \in Int /\ n * o = (n - 1) * o + o
      OBVIOUS
    <3>3. move.end - (move.at + 1) = n - 1
      BY <2>4, <3>1
    <3> QED BY <3>1, <3>2, <3>3 DEF Rest
  <2>10. Timely(g, f, w, Rest(move.at))'
    <3> PICK r \in Int : r = Rest(move.at)
      BY <2>9
    <3>1. Timely(g, f, w, r)
      BY <2>3
    <3>2. (f + r) + g <= (f + r) + g + (w - w) /\ (f + r) + g <= (f + r) + g + (j - index)
      BY <1>1, <1>3, <2>2
    <3>3. Timely(g, f, w, r)'
      BY <1>1, <1>3, <2>2, <3>1, <3>2, TimelyLater
    <3> QED BY <2>8, <3>3 DEF Timely
  <2>11. f <= elapsed'
    BY <1>3, <1>7, <2>3
  <2>12. CASE pc' = "wait"
    <3>1. elapsed' = elapsed + 1 /\ ~(u <= elapsed)
      BY <1>1, <1>2, <1>12, <2>7, <2>12
    <3>2. elapsed' <= u + (work - w)
      BY <1>3, <2>2, <3>1
    <3>3. elapsed' <= f + NextDue' + (work' - w)
      BY <1>9, <2>8, <3>2
    <3>4. EmitInv(g, f, w)'
      BY <2>7, <2>8, <2>10, <2>11, <2>12, <3>3 DEF EmitInv
    <3>5. ClockBy(g)'
      BY <1>1, <1>9, <1>12, <2>2, <2>12, <3>4 DEF ClockBy, BetweenWaits, RecordTypes, Waits
    <3> QED BY <1>5, <1>6, <1>8, <3>5, Plays
  <2>13. CASE pc' = "step"
    <3>1. back = "step" /\ elapsed' = elapsed
      BY <1>2, <1>4, <2>13
    <3>2. elapsed' <= f + Part(move.step - 1)' + (work' - w)
      <4>1. Part(move.step - 1)' = d
        BY <1>1, <3>1 DEF NextDue, Part
      <4>2. elapsed <= f + d + (work - w)
        BY <2>3
      <4> QED BY <1>9, <3>1, <4>1, <4>2
    <3>3. EmitInv(g, f, w)'
      BY <2>8, <2>10, <2>11, <2>13, <3>2 DEF EmitInv
    <3>4. ClockBy(g)'
      BY <1>9, <2>2, <2>13, <3>3 DEF ClockBy, BetweenWaits, RecordTypes, Waits
    <3> QED BY <1>5, <1>6, <1>8, <3>4, Plays
  <2>14. CASE pc' = "moved"
    <3>1. back = "moved" /\ elapsed' = elapsed /\ (aborted' \/ u <= elapsed) /\ d = move.over
      BY <1>2, <1>4, <2>7, <2>14 DEF NextDue
    <3>2. Timely(g, elapsed, work, Rest(move.at + 1))'
      <4> PICK r \in Int, q \in Int, e \in Int, x \in Int :
               r = Rest(move.at) /\ q = Rest(move.at + 1) /\ e = elapsed /\ x = work
        BY <1>3, <2>9
      <4>1. r = q + d /\ e <= u + (x - w) /\ u = f + d
        BY <2>3, <2>9, <3>1
      <4>2. (e + q) + g <= (f + r) + g + (x - w)
        BY <2>2, <4>1
      <4>3. ~aborted' => (f + r) + g <= (e + q) + g + (j - index)
        <5> SUFFICES ASSUME ~aborted' PROVE (f + r) + g <= (e + q) + g + (j - index)
          OBVIOUS
        <5>1. j - index = 0 /\ u <= e
          BY <1>1, <1>3, <3>1
        <5> QED BY <4>1, <5>1
      <4>4. Timely(g, f, w, r)
        BY <2>3
      <4>5. Timely(g, e, x, q)'
        BY <1>1, <1>3, <2>2, <4>2, <4>3, <4>4, TimelyLater
      <4>6. Rest(move.at + 1)' = q
        BY <1>1 DEF Rest
      <4> QED BY <1>1, <3>1, <4>5, <4>6 DEF Timely
    <3>3. ClockBy(g)'
      BY <1>9, <2>14, <3>2 DEF ClockBy, BetweenWaits, RecordTypes, Emitting, Waits
    <3> QED BY <1>5, <1>6, <1>8, <3>3, Plays
  <2> QED BY <1>4, <1>12, <2>12, <2>13, <2>14
<1> QED BY <1>1, <1>11, <1>12

LEMMA PlayMoves ==
  ASSUME IInv, IInv', PlayInv, Moves
  PROVE  PlayInv'
<1> PICK g \in Int : g = Granted /\ ClockBy(g) /\ BudgetBy(g)
  BY DEF PlayInv
<1> PICK e : e = EndOfMoves
  OBVIOUS
<1> PICK pause : pause = Pause(e)
  OBVIOUS
<1> PICK spread : spread = Spread(pause)
  OBVIOUS
<1> PICK n : n = e - index
  OBVIOUS
<1> PICK over : over = spread \div n
  OBVIOUS
<1> PICK rest : rest = Max({pause - spread, 0})
  OBVIOUS
<1> PICK j : j = index'
  OBVIOUS
<1>1. /\ UNCHANGED <<slot, left, clock, elapsed, work, aborted, cut>> /\ pc = "move" /\ pc' = "moves"
      /\ j = (IF Paused(e) THEN e + 1 ELSE e)
      /\ Extend(IF pause = 0 THEN spread ELSE pause)
      /\ move' = [NoMove EXCEPT !.at = index, !.end = e, !.over = over, !.rest = rest]
  BY DEF Moves, run, pumped, history, Paid
<1>2. /\ index \in DOMAIN slot /\ Here.type = "move" /\ slot \in Slots /\ Sound(index)
      /\ left = 0 /\ g = Due(index) /\ index \in Int /\ index >= 1
  <2>1. pc \in RecordTypes
    BY <1>1 DEF RecordTypes
  <2>2. left = 0 /\ g = Due(index)
    BY <1>1, NothingLeft, GrantedIs DEF IInv, Typing, Waits
  <2> QED BY <1>1, <2>1, <2>2, AtRecord, IndexIs DEF IInv
<1>3. /\ e \in index + 1 .. Count + 1 /\ Count \in Nat
      /\ \A k \in index .. e - 1 : k \in DOMAIN slot /\ slot[k].type = "move"
  BY <1>2, RunIs, Slot
<1>4. pause \in 0 .. WRAP \div 2 /\ n \in Nat \ {0} /\ e \in Int /\ e \in 1 .. Count + 1
  <2>1. e \in 1 .. Count + 1 /\ n \in Nat \ {0}
    BY <1>2, <1>3
  <2> QED BY <1>2, <2>1, PauseIs
<1>5. /\ over \in Nat /\ over <= WRAP \div 2 /\ rest \in Nat /\ rest <= WRAP \div 2
      /\ n * over + rest <= Length(pause)
      /\ Length(pause) <= n * over + rest + (n - 1)
      /\ (IF pause = 0 THEN spread ELSE pause) = Length(pause)
  BY <1>4, Spreads
<1>6. Length(pause) \in Int
  BY <1>4, Times DEF Length
<1> PICK length \in Int : length = Length(pause)
  BY <1>6
<1>7. Due(j) = g + length
  BY <1>1, <1>2, DueMoves
<1>8. j \in Int /\ j >= index + n
  BY <1>1, <1>2, <1>4
<1> PICK h \in Int : h = g + length
  OBVIOUS
<1>9. h = Granted'
  <2>1. ~Typing' /\ pc' # "text"
    BY <1>1 DEF Typing, Waits
  <2> QED BY <1>1, <1>2, <1>7, <1>8, <2>1, GrantedNext
<1>10. /\ clock \in Int /\ elapsed \in Int /\ work \in Int /\ elapsed \in Nat /\ work \in 0 .. MaxWork
       /\ clock \in 0 .. WRAP - 1
  BY ClockIs
<1>11. BudgetBy(h)'
  <2>1. Extend(length)
    BY <1>1, <1>5
  <2>2. pc \notin {"idle", "pass", "release"}
    BY <1>1
  <2>3. length \in Nat /\ 0 <= h
    BY <1>4, <1>9, GrantedNow, Times DEF Length
  <2> QED BY <1>1, <1>10, <2>1, <2>2, <2>3, BudgetGrows
<1>12. move' = [at |-> index, end |-> e, rest |-> rest, over |-> over, step |-> 0, steps |-> 0,
                from |-> 0]
  BY <1>1 DEF NoMove
<1>13. RunInv'
  <2>1. /\ move' = [at |-> move'.at, end |-> move'.end, rest |-> move'.rest, over |-> move'.over,
                    step |-> move'.step, steps |-> move'.steps, from |-> move'.from]
        /\ move'.at = index /\ move'.end = e /\ move'.over = over /\ move'.rest = rest
    BY <1>12
  <2>2. index \in Nat /\ e \in Nat /\ index <= e
    BY <1>2, <1>3
  <2>3. \A k \in move'.at .. move'.end - 1 : k \in DOMAIN slot' /\ slot'[k].type = "move"
    BY <1>1, <1>3, <2>1
  <2> QED BY <1>1, <1>5, <2>1, <2>2, <2>3 DEF RunInv, Waits
<1>14. Timely(h, elapsed, work, Rest(move.at))'
  <2>1. PICK o \in Int : o = n * over
    BY <1>4, <1>5
  <2>2. PICK q \in Int : q = o + rest
    BY <1>5, <2>1
  <2>3. Rest(move.at)' = q
    BY <1>12, <2>1, <2>2 DEF Rest
  <2>4. Timely(g, elapsed, work, 0)
    BY <1>1 DEF ClockBy, BetweenWaits, RecordTypes
  <2> PICK t \in Int, x \in Int, z \in Int : t = elapsed /\ x = work /\ z = 0
    BY <1>10
  <2>5. q <= length /\ length <= q + (n - 1)
    BY <1>5, <2>1, <2>2
  <2>6. (t + q) + g <= (t + z) + h + (x - x)
    BY <2>5
  <2>7. ~aborted' => (t + z) + h <= (t + q) + g + (j - index)
    <3>1. (t + z) + h <= (t + q) + g + (j - index)
      BY <1>2, <1>4, <1>8, <2>5
    <3> QED BY <3>1
  <2>8. Timely(g, t, x, z)
    BY <2>4
  <2>9. Timely(h, t, x, q)'
    <3>1. j \in Int /\ index \in Int /\ j = index' /\ (aborted => aborted')
      BY <1>1, <1>2, <1>8
    <3> QED BY <2>6, <2>7, <2>8, <3>1, TimelyLater, ZenonT(60)
  <2> QED BY <1>1, <2>3, <2>9 DEF Timely
<1>15. ClockBy(h)'
  BY <1>1, <1>10, <1>14 DEF ClockBy, BetweenWaits, RecordTypes, Emitting, Waits
<1> QED BY <1>9, <1>11, <1>13, <1>15, Plays

LEMMA PlayEachMove ==
  ASSUME IInv, IInv', PlayInv, EachMove
  PROVE  PlayInv'
<1> PICK g \in Int : g = Granted /\ ClockBy(g) /\ BudgetBy(g)
  BY DEF PlayInv
<1>1. /\ UNCHANGED <<slot, index, left, clock, elapsed, work, aborted, deadline, zeroed, cut>>
      /\ pc = "moves" /\ pc' \in {"wait", "step"} /\ (pc' = "wait" => back' \in {"record", "moved"})
  <2>1. /\ UNCHANGED <<slot, index, left, clock, elapsed, work, aborted, deadline, zeroed, cut>>
        /\ pc = "moves"
    BY DEF EachMove, run, pumped, history, flags
  <2>2. pc' \in {"wait", "step"} /\ (pc' = "wait" => back' \in {"record", "moved"})
    BY DEF EachMove, Wait
  <2> QED BY <2>1, <2>2
<1>2. /\ clock \in Int /\ elapsed \in Int /\ work \in Int /\ elapsed \in Nat /\ work \in 0 .. MaxWork
      /\ clock \in 0 .. WRAP - 1 /\ index \in Int
  BY ClockIs, IndexIs DEF IInv
<1>3. Granted' = g
  BY <1>1, GrantedStays DEF Typing, Waits
<1>4. BudgetBy(g)'
  <2>1. work' >= work /\ work' \in Int
    BY <1>1, <1>2
  <2>2. pc \notin {"idle", "pass", "release"}
    BY <1>1
  <2> QED BY <1>1, <1>2, <2>1, <2>2, BudgetStays
<1>5. /\ move.at \in Nat /\ move.end \in Nat /\ move.over \in Nat /\ move.rest \in Nat
      /\ move.over <= WRAP \div 2 /\ move.rest <= WRAP \div 2 /\ move.at <= move.end
      /\ \A k \in move.at .. move.end - 1 : k \in DOMAIN slot /\ slot[k].type = "move"
      /\ slot \in Slots
  BY <1>1 DEF PlayInv, RunInv, Moving, IInv, PlaceInv
<1>6. Timely(g, elapsed, work, Rest(move.at))
  BY <1>1 DEF ClockBy
<1>7. clock' \in 0 .. WRAP - 1 /\ elapsed' \in Nat /\ work' \in 0 .. MaxWork
  BY <1>1, <1>2
<1> PICK j \in Int : j = index'
  BY <1>1, <1>2
<1> PICK t \in Int, x \in Int : t = elapsed /\ x = work
  BY <1>2
<1>8. CASE move.at = move.end
  <2>1. pc' = "wait" /\ back' = "record" /\ until' = Later(clock, move.rest)
    BY <1>8 DEF EachMove, Wait
  <2>2. PICK r \in Int : r = move.rest
    BY <1>5
  <2>3. Rest(move.at) = r
    <3>1. (move.end - move.at) * move.over = 0
      <4>1. move.end - move.at = 0 /\ 0 * move.over = 0
        BY <1>5, <1>8
      <4> QED BY <4>1
    <3> QED BY <2>2, <3>1 DEF Rest
  <2>4. PICK u \in Int, z \in Int : u = t + r /\ z = 0
    OBVIOUS
  <2>5. Timely(g, u, work, 0)'
    <3>1. (u + z) + g <= (t + r) + g + (x - x) /\ (t + r) + g <= (u + z) + g + (j - index)
      BY <1>1, <1>2, <2>4
    <3>2. Timely(g, t, x, r)
      BY <1>6, <2>3
    <3>3. j \in Int /\ index \in Int /\ j = index' /\ (aborted => aborted')
      BY <1>1, <1>2
    <3>4. Timely(g, u, x, z)'
      BY <3>1, <3>2, <3>3, TimelyLater, ZenonT(60)
    <3> QED BY <1>1, <2>4, <3>4 DEF Timely
  <2>6. Awaits(u)' /\ elapsed' <= u
    <3>1. until' = At(u)
      BY <1>2, <2>1, <2>2, <2>4, Moments
    <3>2. At(u)' = At(u)
      BY <1>1, <1>2, MomentsStay
    <3>3. elapsed <= u /\ u <= elapsed + WRAP \div 2
      BY <1>2, <1>5, <2>2, <2>4, Times
    <3> QED BY <1>1, <3>1, <3>2, <3>3 DEF Awaits
  <2>7. ClockBy(g)'
    BY <1>7, <2>1, <2>5, <2>6, ClockAtWait
  <2>8. RunInv'
    BY <2>1, NoRun
  <2> QED BY <1>3, <1>4, <2>7, <2>8, Plays
<1>9. CASE move.at # move.end
  <2> DEFINE m == slot[move.at]
  <2>1. /\ move' = [at |-> move.at, end |-> move.end, rest |-> move.rest, over |-> move.over,
                    step |-> 1, steps |-> StepsOf(m), from |-> clock]
        /\ gone' = <<0, 0>>
        /\ \/ Span(m) = 0 /\ pc' = "wait" /\ back' = "moved" /\ until' = Later(clock, move.over)
           \/ pc' = "step"
    BY <1>9 DEF EachMove, Wait
  <2>2. m.a \in Int /\ m.b \in Int
    <3>1. move.at \in DOMAIN slot /\ slot[move.at].type = "move"
      BY <1>5, <1>9
    <3> QED BY <1>5, <3>1, Records
  <2>3. StepsOf(m) \in Nat \ {0} /\ (Span(m) = 0 => m.a = 0 /\ m.b = 0)
    BY <1>5, <2>2, Steps, Spans
  <2>4. RunInv'
    <3> HIDE DEF m
    <3>1. /\ move' = [at |-> move'.at, end |-> move'.end, rest |-> move'.rest, over |-> move'.over,
                      step |-> move'.step, steps |-> move'.steps, from |-> move'.from]
          /\ move'.at = move.at /\ move'.end = move.end /\ move'.over = move.over
          /\ move'.rest = move.rest /\ move'.step = 1 /\ move'.steps = StepsOf(m)
      BY <2>1
    <3>2. move.at < move.end /\ 1 \in 1 .. StepsOf(m) /\ 0 \in Int
      BY <1>5, <1>9, <2>3
    <3>3. pc' = "wait" => gone' = <<slot'[move'.at].a, slot'[move'.at].b>>
      BY <1>1, <2>1, <2>3, <3>1 DEF m
    <3>4. gone' = <<gone'[1], gone'[2]>> /\ gone'[1] \in Int /\ gone'[2] \in Int
      BY <2>1
    <3>5. pc' \in {"wait", "step"} /\ (pc' = "wait" => back' = "moved")
      BY <2>1
    <3>6. \A k \in move'.at .. move'.end - 1 : k \in DOMAIN slot' /\ slot'[k].type = "move"
      BY <1>1, <1>5, <3>1
    <3>7. ASSUME pc' = "step" \/ Waits("step")'
          PROVE  move'.steps \in Nat \ {0} /\ move'.step \in 1 .. move'.steps
      BY <2>3, <3>1, <3>2
    <3>8. move'.at \in Nat /\ move'.end \in Nat /\ move'.over \in Nat /\ move'.rest \in Nat
          /\ move'.over <= WRAP \div 2 /\ move'.rest <= WRAP \div 2 /\ move'.at < move'.end
          /\ move'.at <= move'.end
      BY <1>5, <3>1, <3>2
    <3> QED BY <3>1, <3>3, <3>4, <3>5, <3>6, <3>7, <3>8 DEF RunInv, Waits
  <2>5. move'.from = At(t)' /\ t = elapsed'
    <3>1. clock = At(t)
      BY <1>2, Moments
    <3>2. At(t)' = At(t)
      BY <1>1, <1>2, MomentsStay
    <3> QED BY <1>1, <2>1, <3>1, <3>2
  <2>6. Timely(g, t, x, Rest(move.at))'
    <3>1. Rest(move.at)' = Rest(move.at)
      BY <2>1 DEF Rest
    <3>2. Timely(g, t, x, Rest(move.at))
      BY <1>6
    <3> QED BY <1>1, <3>1, <3>2 DEF Timely
  <2>7. EmitInv(g, t, x)'
    <3>1. t <= elapsed' /\ work' - x = 0
      BY <1>1, <1>2, <2>5
    <3>2. CASE pc' = "step"
      <4>1. Part(move.step - 1)' \in Int /\ 0 <= Part(move.step - 1)'
        <5> PICK n \in Nat \ {0}, o \in Nat : n = StepsOf(m) /\ o = move.over
          BY <1>5, <2>3
        <5>1. Shared(o, 0, n) \in 0 .. o
          BY Shares
        <5>2. Part(move.step - 1)' = Shared(o, 0, n)
          BY <2>1 DEF Part
        <5> QED BY <5>1, <5>2
      <4>2. elapsed' <= t + Part(move.step - 1)' + (work' - x)
        BY <1>1, <1>2, <2>5, <3>1, <4>1
      <4> QED BY <2>5, <2>6, <3>1, <3>2, <4>2 DEF EmitInv
    <3>3. CASE pc' # "step"
      <4>1. pc' = "wait" /\ back' = "moved" /\ until' = Later(clock, move.over)
        BY <2>1, <3>3
      <4>2. PICK o \in Nat : o = move.over
        BY <1>5
      <4>3. NextDue' = o
        BY <2>1, <4>1, <4>2 DEF NextDue
      <4>4. until' = At(t + o)
        <5>1. \A s \in Int : Later(clock, s) = At(elapsed + s)
          BY <1>2, Moments
        <5>2. o \in Int
          OBVIOUS
        <5> QED BY <4>1, <4>2, <5>1, <5>2
      <4>5. At(t + o)' = At(t + o)
        <5>1. t + o \in Int
          OBVIOUS
        <5> QED BY <1>1, <1>2, <5>1, MomentsStay
      <4>6. elapsed' <= t + o + (work' - x)
        BY <1>2, <2>5, <3>1
      <4>7. (until = At(t + NextDue))' /\ elapsed' <= t + NextDue' + (work' - x)
        BY <4>3, <4>4, <4>5, <4>6
      <4> QED BY <2>5, <2>6, <3>1, <4>1, <4>7 DEF EmitInv
    <3> QED BY <3>2, <3>3
  <2>8. ClockBy(g)'
    <3>1. x \in 0 .. work'
      BY <1>1, <1>2
    <3>2. pc' = "step" \/ (pc' = "wait" /\ back' = "moved")
      BY <2>1
    <3> QED BY <1>7, <2>7, <3>1, <3>2 DEF ClockBy, BetweenWaits, RecordTypes, Waits
  <2> QED BY <1>3, <1>4, <2>4, <2>8, Plays
<1> QED BY <1>8, <1>9

LEMMA PlayStep ==
  ASSUME IInv, IInv', PlayInv, Step
  PROVE  PlayInv'
<1> PICK g \in Int : g = Granted /\ ClockBy(g) /\ BudgetBy(g)
  BY DEF PlayInv
<1> DEFINE m == slot[move.at]
           last == move.step = move.steps
<1>1. /\ UNCHANGED <<slot, index, left, clock, elapsed, work, aborted, deadline, zeroed, cut>>
      /\ pc = "step" /\ pc' = "wait" /\ back' = (IF last THEN "moved" ELSE "step")
      /\ until' = Later(move.from, (move.over * move.step) \div move.steps)
      /\ gone' = <<gone[1] + Share(m.a, gone[1]), gone[2] + Share(m.b, gone[2])>>
      /\ move' = [move EXCEPT !.step = @ + 1]
  BY DEF Step, run, pumped, history, flags, Wait
<1>2. /\ clock \in Int /\ elapsed \in Int /\ work \in Int /\ elapsed \in Nat /\ work \in 0 .. MaxWork
      /\ clock \in 0 .. WRAP - 1
  BY ClockIs
<1>3. Granted' = g
  BY <1>1, GrantedStays DEF Typing, Waits
<1>4. BudgetBy(g)'
  <2>1. work' >= work /\ work' \in Int
    BY <1>1, <1>2
  <2>2. pc \notin {"idle", "pass", "release"}
    BY <1>1
  <2> QED BY <1>1, <1>2, <2>1, <2>2, BudgetStays
<1>5. /\ move = [at |-> move.at, end |-> move.end, rest |-> move.rest, over |-> move.over,
                 step |-> move.step, steps |-> move.steps, from |-> move.from]
      /\ move.at \in Nat /\ move.end \in Nat /\ move.over \in Nat /\ move.rest \in Nat
      /\ move.over <= WRAP \div 2 /\ move.rest <= WRAP \div 2 /\ move.at < move.end
      /\ \A k \in move.at .. move.end - 1 : k \in DOMAIN slot /\ slot[k].type = "move"
      /\ move.steps \in Nat \ {0} /\ move.step \in 1 .. move.steps
      /\ gone[1] \in Int /\ gone[2] \in Int /\ slot \in Slots
  BY <1>1 DEF PlayInv, RunInv, Moving, Emitting, IInv, PlaceInv
<1>6. move' = [at |-> move.at, end |-> move.end, rest |-> move.rest, over |-> move.over,
               step |-> move.step + 1, steps |-> move.steps, from |-> move.from]
  BY <1>1, <1>5
<1>7. m.a \in Int /\ m.b \in Int
  <2>1. move.at \in DOMAIN slot /\ slot[move.at].type = "move"
    BY <1>5
  <2> QED BY <1>5, <2>1, Records
<1> HIDE DEF m
<1>8. /\ gone'[1] \in Int /\ gone'[2] \in Int /\ gone' = <<gone'[1], gone'[2]>>
      /\ last => gone' = <<m.a, m.b>>
  <2>1. ASSUME NEW whole \in Int, NEW done \in Int
        PROVE  /\ done + Share(whole, done) = Quotient(whole * move.step, move.steps)
               /\ done + Share(whole, done) \in Int
               /\ last => done + Share(whole, done) = whole
    <3>1. PICK n \in Nat \ {0}, k \in Int : n = move.steps /\ k = move.step
      BY <1>5
    <3>2. whole * k \in Int
      OBVIOUS
    <3>3. PICK q \in Int : q = Quotient(whole * k, n)
      BY <3>2, QuotientInt
    <3>4. Share(whole, done) = q - done
      BY <3>1, <3>3 DEF Share
    <3>5. done + (q - done) = q
      OBVIOUS
    <3>6. last => q = whole
      BY <3>1, <3>3, WholeGone
    <3> QED BY <3>1, <3>3, <3>4, <3>5, <3>6
  <2>2. gone[1] + Share(m.a, gone[1]) \in Int /\ (last => gone[1] + Share(m.a, gone[1]) = m.a)
    BY <1>5, <1>7, <2>1
  <2>3. gone[2] + Share(m.b, gone[2]) \in Int /\ (last => gone[2] + Share(m.b, gone[2]) = m.b)
    BY <1>5, <1>7, <2>1
  <2> HIDE DEF last
  <2> QED BY <1>1, <2>2, <2>3
<1>9. RunInv'
  <2>1. /\ move' = [at |-> move'.at, end |-> move'.end, rest |-> move'.rest, over |-> move'.over,
                    step |-> move'.step, steps |-> move'.steps, from |-> move'.from]
        /\ move'.at = move.at /\ move'.end = move.end /\ move'.over = move.over
        /\ move'.rest = move.rest /\ move'.step = move.step + 1 /\ move'.steps = move.steps
    BY <1>6
  <2>2. move'.at \in Nat /\ move'.end \in Nat /\ move'.over \in Nat /\ move'.rest \in Nat
        /\ move'.over <= WRAP \div 2 /\ move'.rest <= WRAP \div 2 /\ move'.at < move'.end
        /\ move'.at <= move'.end
    BY <1>5, <2>1
  <2>3. \A k \in move'.at .. move'.end - 1 : k \in DOMAIN slot' /\ slot'[k].type = "move"
    BY <1>1, <1>5, <2>1
  <2>4. ASSUME Waits("step")' PROVE move'.steps \in Nat \ {0} /\ move'.step \in 1 .. move'.steps
    <3>1. move.step # move.steps
      BY <1>1, <2>4 DEF Waits
    <3> QED BY <1>5, <2>1, <3>1
  <2>5. ASSUME Waits("moved")' PROVE gone' = <<slot'[move'.at].a, slot'[move'.at].b>>
    <3>1. last
      BY <1>1, <2>5 DEF Waits
    <3> QED BY <1>1, <1>8, <2>1, <3>1 DEF m
  <2>6. pc' = "wait"
    BY <1>1
  <2> QED BY <1>8, <2>1, <2>2, <2>3, <2>4, <2>5, <2>6 DEF RunInv
<1>10. ClockBy(g)'
  <2>1. PICK f \in Int, w \in 0 .. work : EmitInv(g, f, w)
    BY <1>1 DEF ClockBy, Emitting
  <2>2. w \in Int /\ w <= work /\ w \in 0 .. work'
    BY <1>1
  <2>3. /\ move.from = At(f) /\ f <= elapsed /\ Timely(g, f, w, Rest(move.at))
        /\ elapsed <= f + Part(move.step - 1) + (work - w)
    BY <1>1, <2>1 DEF EmitInv
  <2>4. PICK o \in Nat, n \in Nat \ {0}, k \in Int : o = move.over /\ n = move.steps /\ k = move.step
    BY <1>5
  <2>5. PICK p \in Int, d \in Int : p = Shared(o, k - 1, n) /\ d = Shared(o, k, n)
    <3>1. k \in 0 .. n /\ k - 1 \in 0 .. n
      BY <1>5, <2>4
    <3>2. Shared(o, k - 1, n) \in 0 .. o /\ Shared(o, k, n) \in 0 .. o
      BY <3>1, Shares
    <3> QED BY <3>2
  <2>6. p <= d /\ (k = n => d = o)
    <3>1. k - 1 \in 0 .. n /\ k - 1 < n /\ (k - 1) + 1 = k
      BY <1>5, <2>4
    <3>2. k - 1 < n => Shared(o, k - 1, n) <= Shared(o, (k - 1) + 1, n)
      BY <3>1, Shares
    <3>3. k = n => Shared(o, k, n) = o
      <4>1. n \in 0 .. n
        OBVIOUS
      <4>2. Shared(o, n, n) = o
        BY <4>1, Shares
      <4> QED BY <4>2
    <3> QED BY <2>5, <3>1, <3>2, <3>3
  <2>7. NextDue' = d
    <3>1. CASE last
      <4>1. back' = "moved" /\ move'.over = o
        BY <1>1, <1>6, <2>4, <3>1
      <4> QED BY <2>4, <2>6, <3>1, <4>1 DEF NextDue
    <3>2. CASE ~last
      <4>1. back' = "step" /\ move'.over = o /\ move'.steps = n /\ move'.step = k + 1
        BY <1>1, <1>6, <2>4, <3>2
      <4>2. (k + 1) - 1 = k
        OBVIOUS
      <4> QED BY <2>5, <4>1, <4>2 DEF NextDue, Part
    <3> QED BY <3>1, <3>2
  <2>8. until' = At(f + d)
    <3>1. until' = Later(At(f), d)
      BY <1>1, <2>3, <2>4, <2>5 DEF Shared
    <3> QED BY <1>2, <3>1, Moments
  <2>9. At(f)' = At(f) /\ At(f + d)' = At(f + d)
    <3>1. f + d \in Int
      OBVIOUS
    <3> QED BY <1>1, <1>2, <3>1, MomentsStay
  <2>10. elapsed' <= f + d + (work' - w)
    <3>1. elapsed <= f + p + (work - w)
      BY <2>3, <2>4, <2>5 DEF Part
    <3> QED BY <1>1, <1>2, <2>2, <2>6, <3>1
  <2>11. Timely(g, f, w, Rest(move.at))'
    BY <1>1, <1>6, <2>3 DEF Timely, Rest
  <2>12. EmitInv(g, f, w)'
    <3>1. (move.from = At(f))' /\ f <= elapsed'
      BY <1>1, <1>6, <2>3, <2>9
    <3>2. (until = At(f + NextDue))' /\ elapsed' <= f + NextDue' + (work' - w)
      BY <2>7, <2>8, <2>9, <2>10
    <3> QED BY <1>1, <2>11, <3>1, <3>2 DEF EmitInv
  <2>13. pc' = "wait" /\ back' \in {"step", "moved"}
    BY <1>1
  <2>14. clock' \in 0 .. WRAP - 1 /\ elapsed' \in Nat /\ work' \in 0 .. MaxWork
    BY <1>1, <1>2
  <2> QED BY <2>2, <2>12, <2>13, <2>14 DEF ClockBy, BetweenWaits, RecordTypes, Waits
<1> QED BY <1>3, <1>4, <1>9, <1>10, Plays

LEMMA PlayMoved ==
  ASSUME IInv, IInv', PlayInv, Moved
  PROVE  PlayInv'
<1> PICK g \in Int : g = Granted /\ ClockBy(g) /\ BudgetBy(g)
  BY DEF PlayInv
<1>1. /\ UNCHANGED <<slot, index, left, gone, clock, elapsed, work, aborted, deadline, zeroed, cut>>
      /\ pc = "moved" /\ pc' = (IF aborted THEN "record" ELSE "moves")
      /\ pc' = "moves" => move' = [move EXCEPT !.at = @ + 1]
  BY DEF Moved, AfterMove, run, pumped, history, flags
<1>2. /\ clock \in Int /\ elapsed \in Int /\ work \in Int /\ elapsed \in Nat /\ work \in 0 .. MaxWork
      /\ clock \in 0 .. WRAP - 1 /\ index \in Int
  BY ClockIs, IndexIs DEF IInv
<1>3. Granted' = g
  BY <1>1, GrantedStays DEF Typing, Waits
<1>4. BudgetBy(g)'
  <2>1. work' >= work /\ work' \in Int
    BY <1>1, <1>2
  <2>2. pc \notin {"idle", "pass", "release"}
    BY <1>1
  <2> QED BY <1>1, <1>2, <2>1, <2>2, BudgetStays
<1>5. /\ move = [at |-> move.at, end |-> move.end, rest |-> move.rest, over |-> move.over,
                 step |-> move.step, steps |-> move.steps, from |-> move.from]
      /\ move.at \in Nat /\ move.end \in Nat /\ move.over \in Nat /\ move.rest \in Nat
      /\ move.over <= WRAP \div 2 /\ move.rest <= WRAP \div 2 /\ move.at < move.end
      /\ \A k \in move.at .. move.end - 1 : k \in DOMAIN slot /\ slot[k].type = "move"
  BY <1>1 DEF PlayInv, RunInv, Moving
<1>6. clock' \in 0 .. WRAP - 1 /\ elapsed' \in Nat /\ work' \in 0 .. MaxWork
  BY <1>1, <1>2
<1>7. PICK r \in Nat : r = Rest(move.at + 1)
  <2>1. PICK n \in Nat, o \in Nat : n = move.end - (move.at + 1) /\ o = move.over
    BY <1>5
  <2>2. n * o \in Nat
    <3>1. \A a, b \in Int : a >= 0 /\ b >= 0 => a * b >= 0
      OBVIOUS
    <3>2. n * o >= 0 /\ n * o \in Int
      BY <3>1
    <3> QED BY <3>2
  <2> QED BY <1>5, <2>1, <2>2 DEF Rest
<1>8. Timely(g, elapsed, work, r)
  BY <1>1, <1>7 DEF ClockBy
<1>9. CASE aborted
  <2>1. pc' = "record" /\ aborted'
    BY <1>1, <1>9
  <2>2. elapsed + 0 <= g + work
    BY <1>2, <1>8 DEF Timely
  <2>3. Timely(g, elapsed, work, 0)'
    BY <1>1, <2>1, <2>2 DEF Timely
  <2>4. ClockBy(g)'
    BY <1>6, <2>1, <2>3, ClockAtRecord DEF BetweenWaits
  <2>5. RunInv'
    BY <2>1, NoRun
  <2> QED BY <1>3, <1>4, <2>4, <2>5, Plays
<1>10. CASE ~aborted
  <2>1. pc' = "moves" /\ move' = [at |-> move.at + 1, end |-> move.end, rest |-> move.rest,
                                  over |-> move.over, step |-> move.step, steps |-> move.steps,
                                  from |-> move.from]
    BY <1>1, <1>5, <1>10
  <2>2. Timely(g, elapsed, work, Rest(move.at))'
    <3>1. Rest(move.at)' = r
      BY <1>7, <2>1 DEF Rest
    <3> QED BY <1>1, <1>8, <3>1 DEF Timely
  <2>3. ClockBy(g)'
    BY <1>6, <2>1, <2>2 DEF ClockBy, BetweenWaits, RecordTypes, Emitting, Waits
  <2>4. RunInv'
    <3>1. /\ move' = [at |-> move'.at, end |-> move'.end, rest |-> move'.rest, over |-> move'.over,
                      step |-> move'.step, steps |-> move'.steps, from |-> move'.from]
          /\ move'.at = move.at + 1 /\ move'.end = move.end /\ move'.over = move.over
          /\ move'.rest = move.rest
      BY <2>1
    <3>2. move'.at \in Nat /\ move'.end \in Nat /\ move'.over \in Nat /\ move'.rest \in Nat
          /\ move'.over <= WRAP \div 2 /\ move'.rest <= WRAP \div 2 /\ move'.at <= move'.end
      BY <1>5, <3>1
    <3>3. \A k \in move'.at .. move'.end - 1 : k \in DOMAIN slot' /\ slot'[k].type = "move"
      BY <1>1, <1>5, <3>1
    <3>4. pc' = "moves" /\ ~Waits("step")' /\ ~Waits("moved")'
      BY <2>1 DEF Waits
    <3> QED BY <3>1, <3>2, <3>3, <3>4 DEF RunInv
  <2> QED BY <1>3, <1>4, <2>3, <2>4, Plays
<1> QED BY <1>9, <1>10

LEMMA PlaySame ==
  ASSUME PlayInv, UNCHANGED vars
  PROVE  PlayInv'
<1> PICK g \in Int : g = Granted /\ ClockBy(g) /\ BudgetBy(g)
  BY DEF PlayInv
<1>1. UNCHANGED <<slot, index, pc, back, clock, until, deadline, aborted, left, move, elapsed, work,
                  zeroed, cut, gone>>
  BY DEF vars, run, pumped, history, flags
<1>2. Granted' = g
  BY <1>1, GrantedStays DEF Typing, Waits
<1>3. RunInv'
  BY <1>1 DEF PlayInv, RunInv, Moving, Emitting, Waits
<1>4. \A u : At(u)' = At(u)
  BY <1>1 DEF At
<1>5. AllAuthored' = AllAuthored
  <2> PICK n : n = index'
    OBVIOUS
  <2> QED BY <1>1, SameDue
<1>6. ClockBy(g)'
  BY <1>1, <1>4, <1>5
     DEF ClockBy, BetweenWaits, Waits, Emitting, Awaits, Timely, Rest, EmitInv, NextDue, Part
<1>7. BudgetBy(g)'
  BY <1>1, <1>4 DEF BudgetBy, BudgetForWork, ZeroBy
<1> QED BY <1>2, <1>3, <1>6, <1>7, Plays

LEMMA PlayInit == IInv /\ Init => PlayInv
<1> SUFFICES ASSUME IInv, Init PROVE PlayInv
  OBVIOUS
<1>1. /\ slot \in Slots /\ index = 1 /\ pc = "idle" /\ left = 0 /\ clock \in Starts
      /\ elapsed = 0 /\ work = 0 /\ zeroed = FALSE /\ cut = FALSE
  BY DEF Init
<1>2. Granted = 0
  <2>1. Due(index) = 0 /\ ~Typing /\ pc # "text"
    BY <1>1, DueFirst DEF Typing, Waits
  <2> QED BY <2>1 DEF Granted
<1>3. RunInv
  BY <1>1 DEF RunInv, Moving, Emitting, Waits
<1>4. ClockBy(0)
  <2>1. clock \in 0 .. WRAP - 1 /\ elapsed \in Nat /\ work \in 0 .. MaxWork
    BY <1>1, TimeAssumption, Times
  <2>2. elapsed <= AllAuthored + work
    <3>1. AllAuthored \in Nat
      BY <1>1, TicksFinite
    <3>2. \A n \in Nat : 0 <= n + 0
      OBVIOUS
    <3> QED BY <1>1, <3>1, <3>2
  <2>3. pc \notin BetweenWaits /\ ~Emitting /\ pc \notin {"wait", "moves", "moved"}
    BY <1>1 DEF BetweenWaits, RecordTypes, Emitting, Waits
  <2> QED BY <2>1, <2>2, <2>3 DEF ClockBy, Waits
<1>5. BudgetBy(0)
  BY <1>1 DEF BudgetBy, BudgetForWork
<1> QED BY <1>2, <1>3, <1>4, <1>5 DEF PlayInv

LEMMA PlayInvariance == Spec => []PlayInv
<1>1. IInv /\ IInv' /\ PlayInv /\ [Next]_vars => PlayInv'
  BY PlayBegins, PlayNextRecord, PlayRelease, PlayDispatch, PlayText, PlayMoves, PlayEachMove,
     PlayStep, PlayMoved, PlayWaiting, PlayWork, PlaySame DEF Next
<1> QED BY PlayInit, Invariance, <1>1, PTL DEF Spec

(* What a pass was granted is part of what its slot says.                    *)
LEMMA GrantedInAll ==
  ASSUME PlaceInv
  PROVE  Granted <= AllAuthored /\ AllAuthored \in Int
<1>1. slot \in Slots /\ Sound(index) /\ index \in Int /\ left \in Nat /\ AllAuthored \in Int
      /\ Due(index) <= AllAuthored
  <2>1. slot \in Slots /\ index \in Int
    BY IndexIs
  <2> QED BY <2>1, TicksFinite, DueIs DEF PlaceInv
<1>2. CASE Typing \/ (pc = "text" /\ left > 0)
  <2>1. index \in DOMAIN slot /\ Here.type = "text" /\ AfterText <= Count + 1
    <3>1. "text" \in RecordTypes
      BY DEF RecordTypes
    <3> QED BY <1>2, <3>1, AtRecord DEF PlaceInv
  <2>2. /\ AfterText \in Int /\ Here.a \in Nat
        /\ Due(index) \in Int /\ Due(AfterText) = Due(index) + Here.a * TEXT_DELAY
    BY <2>1, TextDue
  <2>3. Due(AfterText) <= AllAuthored
    BY <1>1, <2>2, DueIs
  <2>4. PICK a \in Nat, l \in Nat, t \in Nat, d \in Int :
             a = Here.a /\ l = left /\ t = TEXT_DELAY /\ d = Due(index)
    BY <1>1, <2>2, Times
  <2>5. d + (a - l) * t <= d + a * t /\ (a - l) * t \in Int /\ a * t \in Int
    BY Letters
  <2>6. Granted = d + (a - l) * t
    BY <1>2, <2>4 DEF Granted
  <2>7. d + a * t <= AllAuthored
    BY <2>2, <2>3, <2>4
  <2> QED BY <1>1, <2>5, <2>6, <2>7
<1>3. CASE ~(Typing \/ (pc = "text" /\ left > 0))
  <2>1. Granted = Due(index) + 0 /\ Due(index) \in Nat
    BY <1>3, IndexIs DEF Granted
  <2> QED BY <1>1, <2>1
<1> QED BY <1>2, <1>3

(* Within a run of moves no pass is ahead of what its record says.            *)
LEMMA AheadOfNone ==
  ASSUME IInv, RunInv, NEW g \in Int, ClockBy(g), g <= AllAuthored, AllAuthored \in Int
  PROVE  elapsed <= AllAuthored + work
<1>1. elapsed \in Int /\ work \in Int
  BY ClockIs
<1>2. ASSUME elapsed <= g + work PROVE elapsed <= AllAuthored + work
  BY <1>1, <1>2
<1>3. CASE pc \in {"idle", "pass"}
  BY <1>3 DEF ClockBy
<1>4. CASE pc \in BetweenWaits
  <2>1. elapsed + 0 <= g + work
    BY <1>4 DEF ClockBy, Timely
  <2> QED BY <1>1, <1>2, <2>1
<1>5. CASE Waits("record") \/ Waits("typed")
  <2>1. PICK u \in Int : elapsed <= u /\ u + 0 <= g + work
    BY <1>5 DEF ClockBy, Timely
  <2> QED BY <1>1, <1>2, <2>1
<1>6. CASE Moving
  <2>1. /\ move.at \in Nat /\ move.end \in Nat /\ move.over \in Nat /\ move.rest \in Nat
        /\ move.at <= move.end /\ (pc # "moves" => move.at < move.end)
        /\ pc = "step" \/ Waits("step") =>
             move.steps \in Nat \ {0} /\ move.step \in 1 .. move.steps
    BY <1>6 DEF RunInv
  <2>2. ASSUME NEW at \in Nat, at <= move.end
        PROVE  Rest(at) \in Nat /\ (at < move.end => move.over <= Rest(at))
    <3>1. PICK n \in Nat, o \in Nat, r \in Nat : n = move.end - at /\ o = move.over /\ r = move.rest
      BY <2>1, <2>2
    <3>2. \A a, b \in Int : a >= 0 /\ b >= 0 => a * b >= 0
      OBVIOUS
    <3>3. n * o >= 0 /\ n * o \in Int
      BY <3>2
    <3>4. n > 0 => n * o >= o
      <4>1. n > 0 => (n - 1) * o >= 0
        BY <3>2
      <4>2. (n - 1) * o = n * o - o
        OBVIOUS
      <4> QED BY <3>3, <4>1, <4>2
    <3>5. Rest(at) = n * o + r
      BY <3>1 DEF Rest
    <3>6. at < move.end => n > 0
      BY <2>1, <3>1
    <3> QED BY <3>1, <3>3, <3>4, <3>5, <3>6
  <2>3. CASE pc = "moves"
    <3>1. PICK r \in Nat : r = Rest(move.at)
      BY <2>1, <2>2
    <3>2. elapsed + r <= g + work
      BY <2>3, <3>1 DEF ClockBy, Timely
    <3> QED BY <1>1, <1>2, <3>2
  <2>4. CASE pc = "moved"
    <3>1. PICK r \in Nat : r = Rest(move.at + 1)
      BY <2>1, <2>2, <2>4
    <3>2. elapsed + r <= g + work
      BY <2>4, <3>1 DEF ClockBy, Timely
    <3> QED BY <1>1, <1>2, <3>2
  <2>5. CASE Emitting
    <3>1. PICK f \in Int, w \in 0 .. work : EmitInv(g, f, w)
      BY <2>5 DEF ClockBy
    <3>2. pc = "step" \/ (pc = "wait" /\ back \in {"step", "moved"})
      BY <2>5 DEF Emitting, Waits
    <3>3. PICK o \in Nat, r \in Nat : o = move.over /\ r = Rest(move.at) /\ o <= r
      <4>1. move.at < move.end
        BY <2>1, <3>2
      <4> QED BY <2>1, <2>2, <4>1
    <3>4. pc = "step" \/ Waits("step") => Part(move.step - 1) \in 0 .. o
      <4> SUFFICES ASSUME pc = "step" \/ Waits("step") PROVE Part(move.step - 1) \in 0 .. o
        OBVIOUS
      <4>1. PICK n \in Nat \ {0}, k \in Int : n = move.steps /\ k = move.step /\ k - 1 \in 0 .. n
        BY <2>1
      <4>2. Shared(o, k - 1, n) \in 0 .. o
        BY <4>1, Shares
      <4> QED BY <3>3, <4>1, <4>2 DEF Part
    <3>5. PICK d \in Int : d <= o /\ elapsed <= f + d + (work - w)
      <4>1. CASE pc = "step"
        BY <3>1, <3>4, <4>1 DEF EmitInv
      <4>2. CASE pc = "wait"
        <5>1. elapsed <= f + NextDue + (work - w)
          BY <3>1, <4>2 DEF EmitInv
        <5>2. NextDue \in Int /\ NextDue <= o
          BY <3>3, <3>4, <4>2 DEF NextDue, Waits
        <5> QED BY <5>1, <5>2
      <4> QED BY <3>2, <4>1, <4>2
    <3>6. f + r <= g + w
      BY <3>1, <3>3 DEF EmitInv, Timely
    <3>7. w \in Int
      BY <1>1
    <3>8. elapsed <= g + work
      BY <1>1, <3>3, <3>5, <3>6, <3>7
    <3> QED BY <1>2, <3>8
  <2> QED BY <1>6, <2>3, <2>4, <2>5 DEF Moving
<1>7. \/ pc \in {"idle", "pass"} \/ pc \in BetweenWaits \/ Waits("record") \/ Waits("typed") \/ Moving
  BY DEF IInv, PlaceInv, BetweenWaits, Moving, Emitting, Waits
<1> QED BY <1>3, <1>4, <1>5, <1>6, <1>7

LEMMA PlayedInTime == IInv /\ PlayInv => PlaysAsRecorded
<1> SUFFICES ASSUME IInv, PlayInv PROVE PlaysAsRecorded
  OBVIOUS
<1> PICK g \in Int : g = Granted /\ ClockBy(g) /\ BudgetBy(g)
  BY DEF PlayInv
<1>1. g <= AllAuthored /\ AllAuthored \in Int
  BY GrantedInAll DEF IInv
<1>2. elapsed <= AllAuthored + work
  BY <1>1, AheadOfNone DEF PlayInv
<1>3. pc = "moved" => gone = <<slot[move.at].a, slot[move.at].b>>
  BY DEF PlayInv, RunInv, Moving
<1> QED BY <1>2, <1>3 DEF PlaysAsRecorded

(* No pass takes longer than its records say plus what sending took, wherever  *)
(* it was stopped or cut off, across the wrap of the clock and whatever the    *)
(* divisions of a move leave over; and the reports of a move that nobody       *)
(* stopped add up to it (macroWait, runText, runMoves, emitMove).             *)
THEOREM NoLongerThanRecorded == Spec => []PlaysAsRecorded
<1> QED BY PlayedInTime, Invariance, PlayInvariance, PTL

(* A pass is only cut short when sending has taken all of the budget: what the *)
(* records say they take is never counted against it, though the divisions of  *)
(* a run of moves lose ticks and the clock may wrap; but for a deadline that   *)
(* lands on 0 (macroWait, runMoves, Config.h:158).                           *)
THEOREM PausesCostNothing == Spec => []BudgetForWork
<1>1. PlayInv => BudgetForWork
  BY DEF PlayInv, BudgetBy
<1> QED BY <1>1, PlayInvariance, PTL

---------------------------------------------------------------------------
(* When serial may write the profile                                         *)

(* The flag serial goes by is down inside a pass only if its deadline landed   *)
(* on 0, and that happens at a moment the pass could name in advance.         *)
ZeroInv ==
    /\ zeroed => \E t \in 0 .. AllAuthored : ZeroAhead(t)
    /\ pc \notin {"idle", "pass"} /\ deadline = 0 => zeroed
    /\ rewritten => zeroed

LEMMA AheadIs ==
  clock \in Int /\ elapsed \in Int => \A t \in Int : ZeroAhead(t) <=> At(MAX_RUN + t) = 0
<1> HAVE clock \in Int /\ elapsed \in Int
<1> TAKE t \in Int
<1>1. clock - elapsed + MAX_RUN + t = clock + ((MAX_RUN + t) - elapsed)
  BY Times
<1> QED BY <1>1 DEF ZeroAhead, At

(* Inside a pass the moments, and what the slot says, stay what they are.     *)
LEMMA AheadStays ==
  ASSUME clock \in Int, elapsed \in Int, slot' = slot, AllAuthored \in Int,
         \/ UNCHANGED <<clock, elapsed>>
         \/ clock' = Later(clock, 1) /\ elapsed' = elapsed + 1,
         \E t \in 0 .. AllAuthored : ZeroAhead(t)
  PROVE  (\E t \in 0 .. AllAuthored : ZeroAhead(t))'
<1>1. AllAuthored' = AllAuthored
  <2> PICK n : n = index'
    OBVIOUS
  <2> QED BY SameDue
<1>2. PICK u \in 0 .. AllAuthored : ZeroAhead(u)
  OBVIOUS
<1>3. MAX_RUN + u \in Int /\ u \in Int
  BY Times
<1>4. At(MAX_RUN + u)' = At(MAX_RUN + u) /\ clock' \in Int /\ elapsed' \in Int
  BY <1>3, MomentsStay
<1>5. ZeroAhead(u)' <=> At(MAX_RUN + u)' = 0
  <2>1. clock' - elapsed' + MAX_RUN + u = clock' + ((MAX_RUN + u) - elapsed')
    BY <1>3, <1>4, Times
  <2> QED BY <2>1 DEF ZeroAhead, At
<1>6. ZeroAhead(u)'
  BY <1>2, <1>3, <1>4, <1>5, AheadIs
<1> QED BY <1>1, <1>6

(* A deadline that lands on 0 does so at a moment of what was granted.        *)
Landed == IInv /\ PlayInv /\ zeroed /\ ~aborted /\ pc \notin {"idle", "pass", "release"}

LEMMA LandsAhead == Landed => \E t \in 0 .. AllAuthored : ZeroAhead(t)
<1> SUFFICES ASSUME Landed PROVE \E t \in 0 .. AllAuthored : ZeroAhead(t)
  OBVIOUS
<1> USE DEF Landed
<1>1. PICK g \in Int : g = Granted /\ ClockBy(g) /\ BudgetBy(g)
  BY DEF PlayInv
<1>2. PICK t \in Int : 0 <= t /\ t <= g /\ At(MAX_RUN + t) = 0
  BY <1>1 DEF BudgetBy, ZeroBy
<1>3. g <= AllAuthored /\ AllAuthored \in Int
  BY <1>1, GrantedInAll DEF IInv
<1>4. ZeroAhead(t)
  BY <1>1, <1>2, ClockIs, AheadIs
<1> QED BY <1>2, <1>3, <1>4

LEMMA LandsThen == Landed' => (\E t \in 0 .. AllAuthored : ZeroAhead(t))'
<1>1. (Landed => \E t \in 0 .. AllAuthored : ZeroAhead(t))'
  BY LandsAhead, PTL
<1> QED BY <1>1

LEMMA ZeroKeeps ==
  ASSUME IInv, IInv', PlayInv, PlayInv', ZeroInv, [Next]_vars
  PROVE  ZeroInv'
<1> USE DEF ZeroInv
<1>1. clock \in Int /\ elapsed \in Int /\ AllAuthored \in Int /\ AllAuthored \in Nat
  BY ClockIs, FreshClock DEF PlayInv, IInv, PlaceInv
<1>2. CASE Start
  BY <1>2 DEF Start
<1>3. CASE BeginPass
  <2>1. /\ zeroed' = (deadline' = 0) /\ rewritten' = FALSE /\ deadline' = (clock + MAX_RUN) % WRAP
        /\ clock' = clock /\ elapsed' = 0 /\ slot' = slot
    BY <1>3 DEF BeginPass, Budget, Later, run
  <2>2. ASSUME zeroed' PROVE (\E t \in 0 .. AllAuthored : ZeroAhead(t))'
    <3>1. clock' - elapsed' + MAX_RUN + 0 = clock + MAX_RUN
      BY <1>1, <2>1, Times
    <3>2. (clock' - elapsed' + MAX_RUN + 0) % WRAP = 0
      BY <2>1, <2>2, <3>1
    <3>3. ZeroAhead(0)'
      BY <3>2 DEF ZeroAhead
    <3>4. AllAuthored' = AllAuthored
      <4> PICK n : n = index'
        OBVIOUS
      <4> QED BY <2>1, SameDue
    <3>5. 0 \in 0 .. AllAuthored'
      BY <1>1, <3>4
    <3> QED BY <3>3, <3>5
  <2> QED BY <2>1, <2>2
<1>4. CASE Delay \/ Type \/ Moves
  <2>1. /\ UNCHANGED <<slot, clock, elapsed, aborted, rewritten>>
        /\ pc \in RecordTypes /\ pc' \in {"wait", "moves"}
        /\ \E ticks : Extend(ticks)
    BY <1>4 DEF Delay, Type, Moves, Paid, Wait, RecordTypes, run, pumped, history
  <2>2. zeroed' = (zeroed \/ deadline' = 0)
    BY <2>1 DEF Extend
  <2>3. ~aborted'
    BY <2>1 DEF IInv, StopInv
  <2>4. zeroed' => (\E t \in 0 .. AllAuthored : ZeroAhead(t))'
    <3>1. pc' \notin {"idle", "pass", "release"}
      BY <2>1
    <3> QED BY <2>3, <3>1, LandsThen DEF Landed
  <2> QED BY <2>1, <2>2, <2>4
<1>5. CASE NextRecord \/ Waiting
  <2>1. /\ UNCHANGED <<slot, zeroed, deadline>> /\ pc \notin {"idle", "pass"}
        /\ rewritten' => rewritten \/ deadline = 0
        /\ UNCHANGED <<clock, elapsed>> \/ (clock' = Later(clock, 1) /\ elapsed' = elapsed + 1)
    BY <1>5 DEF NextRecord, Waiting, Pump, MayWrite, run, flags, pumped, history
  <2>2. zeroed' => (\E t \in 0 .. AllAuthored : ZeroAhead(t))'
    BY <1>1, <2>1, AheadStays
  <2>3. rewritten' => zeroed'
    BY <2>1
  <2>4. deadline' = 0 => zeroed'
    BY <2>1
  <2> QED BY <2>2, <2>3, <2>4
<1>6. CASE Release
  <2>1. /\ UNCHANGED <<slot, zeroed, rewritten, clock, elapsed>> /\ pc' \in {"idle", "pass"}
    BY <1>6 DEF Release, run, history, flags
  <2>2. zeroed' => (\E t \in 0 .. AllAuthored : ZeroAhead(t))'
    BY <1>1, <2>1, AheadStays
  <2> QED BY <2>1, <2>2
<1>7. CASE Dispatch \/ Text \/ Typed \/ EachMove \/ Step \/ Moved \/ Work
  <2>1. /\ UNCHANGED <<slot, zeroed, deadline, rewritten>> /\ pc \notin {"idle", "pass"}
        /\ UNCHANGED <<clock, elapsed>> \/ (clock' = Later(clock, 1) /\ elapsed' = elapsed + 1)
    BY <1>7 DEF Dispatch, Text, Typed, EachMove, Step, Moved, Work, run, flags, pumped, history
  <2>2. zeroed' => (\E t \in 0 .. AllAuthored : ZeroAhead(t))'
    BY <1>1, <2>1, AheadStays
  <2> QED BY <2>1, <2>2
<1>8. CASE UNCHANGED vars
  <2>1. UNCHANGED <<slot, zeroed, deadline, rewritten, pc, clock, elapsed>>
    BY <1>8 DEF vars, run, flags, pumped, history
  <2>2. zeroed' => (\E t \in 0 .. AllAuthored : ZeroAhead(t))'
    BY <1>1, <2>1, AheadStays
  <2> QED BY <2>1, <2>2
<1> QED BY <1>2, <1>3, <1>4, <1>5, <1>6, <1>7, <1>8 DEF Next

(* The profile a macro reads its records from is not written under it, unless  *)
(* the pass began at a moment from which its budget and part of what its       *)
(* records take lead to the wrap of millis() to the tick; for any slot, pass,   *)
(* stop and timing, the flag being a deadline that every wait pushes out       *)
(* (macroRunning, runMacro, macroWait, runMoves).                            *)
THEOREM WrittenOnlyAtTheWrap == Spec => []MacroReadsStableProfile
<1>1. Init => ZeroInv
  BY DEF Init, ZeroInv
<1>2. IInv /\ IInv' /\ PlayInv /\ PlayInv' /\ ZeroInv /\ [Next]_vars => ZeroInv'
  BY ZeroKeeps
<1>3. ZeroInv => MacroReadsStableProfile
  BY DEF ZeroInv, MacroReadsStableProfile
<1> QED BY <1>1, <1>2, <1>3, Invariance, PlayInvariance, PTL DEF Spec
================================================================================
