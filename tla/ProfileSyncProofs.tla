--------------------------- MODULE ProfileSyncProofs ---------------------------
(* What the editor, its worker and the record worker keep between them, for   *)
(* any keys and slots and any number of changes, operations and failures: the *)
(* run has two changes, one operation and one failure.                        *)
EXTENDS ProfileSync, TLAPS, FiniteSetTheorems

Flags == {"connecting", "syncing", "resetting"}
JobsOf == [connecting |-> {"connect", "compare", "connected"},
           syncing |-> {"pull", "push"}, resetting |-> {"reset"}]
SignalsOf == [connecting |-> {}, syncing |-> {"adopt", "synced", "syncFailed"},
              resetting |-> {"reset", "resetFailed"}]
JobKinds == {"connect", "compare", "connected", "write", "pull", "push", "reset"}
SignalKinds == {"mismatch", "adopt", "synced", "syncFailed", "reset", "resetFailed"}

IsQueue(q) == q \in Seq({q[i] : i \in DOMAIN q})
Jobs == 1 .. Len(jobs)
Signals == 1 .. Len(signals)
Posted(kinds) == \E n \in Signals : signals[n].kind \in kinds

QueueInv ==
    /\ IsQueue(jobs) /\ \A i \in Jobs : jobs[i].kind \in JobKinds
    /\ IsQueue(signals) /\ \A n \in Signals : signals[n].kind \in SignalKinds

(* Edits wait in front; what began before a reset may still wait for it.      *)
OrderInv == \A i, j \in Jobs : i < j => jobs[i].kind = "write" \/ jobs[j].kind = "reset"

(* Each lock has one owner, the job or its report, and no owner lacks a lock.  *)
OwnerInv ==
    /\ LocksAreOwned
    /\ \A f \in Flags :
          /\ \A i \in Jobs : jobs[i].kind \in JobsOf[f] =>
                f \in flags /\ ~Posted(SignalsOf[f])
                /\ \A j \in Jobs : jobs[j].kind \in JobsOf[f] => i = j
          /\ \A n \in Signals : signals[n].kind \in SignalsOf[f] =>
                f \in flags /\ \A m \in Signals : signals[m].kind \in SignalsOf[f] => m = n

FlagInv ==
    /\ flags \subseteq Flags
    /\ "syncing" \in flags => flags = {"syncing"}
    /\ dialog = "sync" => flags = {}
    /\ dialog \in {"edit", "file", "reset"} => flags \subseteq {"connecting"}
    /\ Posted({"reset"}) => "connecting" \notin flags
    /\ ~plugged => ~link
    /\ \A i \in Jobs : jobs[i].kind = "connect" => ~link
    /\ Posted({"adopt", "synced", "reset"}) => Writes(jobs) = {}

(* The reports that change what the editor takes the pad to hold.              *)
Loud == {"adopt", "synced", "reset"}

(* On a link that was not cut off before the compare, a profile this computer  *)
(* never saw is known to differ, or is about to be compared, and nothing is     *)
(* under way that would write over it.                                         *)
StrangeInv ==
    link /\ strange /\ ~uncompared =>
        /\ Writes(jobs) = {} /\ (diverged \/ Working("compare"))
        /\ ~Posted(Loud)

(* The file has what the editor shows, or is about to get it.                  *)
FileInv == unsaved \/ disk = mem \/ settling \/ keeper.at \in {"bind", "save"}

(* A recording that nothing came in between of has the pad to itself.          *)
KeeperInv ==
    /\ "at" \in DOMAIN keeper
    /\ keeper.at \in {"idle", "find", "place", "bind", "save", "push"}
    /\ recording # NoKey => ~Keeping
    /\ ~crossed /\ Keeping => Writes(jobs) = {} /\ ~Posted(Loud)

(* The pad has what the editor shows once the edits that wait have been        *)
(* written, unless a slider or a recording is about to see to it.              *)
Level ==
    /\ Writes(jobs) = {} => pad = mem
    /\ \A i \in Writes(jobs) : (\A j \in Writes(jobs) : j <= i) => jobs[i].blob = mem
MatchInv ==
    link /\ ~crossed =>
        /\ ~diverged /\ ~behind /\ ~Working("compare") /\ ~Posted({"adopt", "reset"})
             => Level \/ settling \/ keeper.at \in {"bind", "save", "push"}
        /\ Posted({"synced"}) /\ ~behind => pad = mem \/ settling
        /\ \A n \in Signals : signals[n].kind = "adopt" => pad = signals[n].blob
        /\ Posted({"reset"}) => pad = Default

IInv == /\ QueueInv /\ OrderInv /\ OwnerInv /\ FlagInv
        /\ StrangeInv /\ FileInv /\ KeeperInv /\ MatchInv

LockInv == QueueInv /\ OrderInv /\ OwnerInv /\ FlagInv

---------------------------------------------------------------------------
(* Queues, whatever they hold                                                *)

LEMMA Entries ==
  ASSUME NEW S, NEW q \in Seq(S)
  PROVE  IsQueue(q)
<1>1. q \in [1 .. Len(q) -> {q[i] : i \in DOMAIN q}] /\ Len(q) \in Nat
  OBVIOUS
<1> QED BY <1>1 DEF IsQueue

LEMMA Grown ==
  ASSUME NEW q, IsQueue(q), NEW x, NEW r, r = Append(q, x)
  PROVE  /\ IsQueue(r) /\ Len(q) \in Nat /\ Len(r) = Len(q) + 1
         /\ \A i \in 1 .. Len(q) : i \in 1 .. Len(r) /\ r[i] = q[i]
         /\ r[Len(r)] = x /\ Len(r) \in 1 .. Len(r) /\ Len(r) \notin 1 .. Len(q)
         /\ \A i \in 1 .. Len(r) : i \in 1 .. Len(q) \/ i = Len(r)
<1> DEFINE S == {q[i] : i \in DOMAIN q} \cup {x}
<1>1. q \in Seq(S)
  BY DEF IsQueue
<1>2. r \in Seq(S)
  BY <1>1
<1> HIDE DEF S
<1>3. IsQueue(r)
  BY <1>2, Entries, Zenon
<1> QED BY <1>1, <1>2, <1>3

LEMMA Shortened ==
  ASSUME NEW q, IsQueue(q), q # <<>>, NEW r, r = Tail(q)
  PROVE  /\ IsQueue(r) /\ Len(q) \in Nat /\ Len(r) = Len(q) - 1 /\ 1 \in 1 .. Len(q) /\ Head(q) = q[1]
         /\ \A i \in 1 .. Len(r) : i + 1 \in 1 .. Len(q) /\ r[i] = q[i + 1]
         /\ \A i \in 1 .. Len(q) : i = 1 \/ (i - 1 \in 1 .. Len(r) /\ r[i - 1] = q[i])
<1> DEFINE S == {q[i] : i \in DOMAIN q}
<1>1. q \in Seq(S)
  BY DEF IsQueue
<1>2. r \in Seq(S)
  BY <1>1
<1> HIDE DEF S
<1>3. IsQueue(r)
  BY <1>2, Entries, Zenon
<1> QED BY <1>1, <1>2, <1>3

LEMMA Replaced ==
  ASSUME NEW q, IsQueue(q), q # <<>>, NEW x, NEW r, r = <<x>> \o Tail(q)
  PROVE  /\ IsQueue(r) /\ Len(q) \in Nat /\ Len(r) = Len(q) /\ 1 \in 1 .. Len(q) /\ Head(q) = q[1]
         /\ r[1] = x /\ r # <<>> /\ Head(r) = x
         /\ \A i \in 1 .. Len(q) : i = 1 \/ r[i] = q[i]
<1> DEFINE S == {q[i] : i \in DOMAIN q} \cup {x}
<1>1. q \in Seq(S) /\ x \in S
  BY DEF IsQueue
<1>2. r \in Seq(S) /\ <<x>> \in Seq(S)
  BY <1>1
<1> HIDE DEF S
<1>3. IsQueue(r)
  BY <1>2, Entries, Zenon
<1> QED BY <1>1, <1>2, <1>3

LEMMA FirstOf ==
  ASSUME NEW q, IsQueue(q)
  PROVE  /\ Len(q) \in Nat /\ DOMAIN q = 1 .. Len(q) /\ (q = <<>> <=> 1 .. Len(q) = {})
         /\ q # <<>> => Head(q) = q[1] /\ 1 \in 1 .. Len(q)
<1> DEFINE S == {q[i] : i \in DOMAIN q}
<1>1. q \in Seq(S)
  BY DEF IsQueue
<1> HIDE DEF S
<1> QED BY <1>1

---------------------------------------------------------------------------
(* The locks of the window and what holds them                               *)

(* The kinds that own a lock, as facts the provers can use.                   *)
LEMMA Kinds ==
  /\ \A f \in Flags : JobsOf[f] \subseteq JobKinds /\ SignalsOf[f] \subseteq SignalKinds
                      /\ "write" \notin JobsOf[f] /\ "mismatch" \notin SignalsOf[f]
  /\ \A f, g \in Flags : \A k \in JobKinds : k \in JobsOf[f] /\ k \in JobsOf[g] => f = g
  /\ \A f, g \in Flags : \A k \in SignalKinds : k \in SignalsOf[f] /\ k \in SignalsOf[g] => f = g
  /\ \A k \in JobKinds : k # "write" => \E f \in Flags : k \in JobsOf[f]
  /\ \A k \in JobKinds : /\ k \in JobsOf["connecting"] <=> k \in {"connect", "compare", "connected"}
                         /\ k \in JobsOf["syncing"] <=> k \in {"pull", "push"}
                         /\ k \in JobsOf["resetting"] <=> k = "reset"
  /\ \A k \in SignalKinds : /\ k \notin SignalsOf["connecting"]
                            /\ k \in SignalsOf["syncing"] <=> k \in {"adopt", "synced", "syncFailed"}
                            /\ k \in SignalsOf["resetting"] <=> k \in {"reset", "resetFailed"}
  BY DEF Flags, JobsOf, SignalsOf, JobKinds, SignalKinds

Holders == \A f \in flags : \/ \E i \in Jobs : jobs[i].kind \in JobsOf[f]
                            \/ Posted(SignalsOf[f])

LEMMA HeldIs ==
  ASSUME QueueInv, flags \subseteq Flags
  PROVE  LocksAreOwned <=> Holders
<1>1. DOMAIN jobs = Jobs /\ DOMAIN signals = Signals
  BY FirstOf DEF QueueInv, Jobs, Signals
<1> DEFINE OwnedBy(f) ==
        \/ \E i \in DOMAIN jobs : jobs[i].kind \in
              CASE f = "connecting" -> {"connect", "compare", "connected"}
                [] f = "syncing"    -> {"pull", "push"}
                [] f = "resetting"  -> {"reset"}
        \/ \E i \in DOMAIN signals : signals[i].kind \in
              CASE f = "connecting" -> {}
                [] f = "syncing"    -> {"adopt", "synced", "syncFailed"}
                [] f = "resetting"  -> {"reset", "resetFailed"}
<1> DEFINE Has(f) == (\E i \in Jobs : jobs[i].kind \in JobsOf[f]) \/ Posted(SignalsOf[f])
<1>2. OwnedBy("connecting") <=> Has("connecting")
  BY <1>1 DEF JobsOf, SignalsOf, Posted
<1>3. OwnedBy("syncing") <=> Has("syncing")
  BY <1>1 DEF JobsOf, SignalsOf, Posted
<1>4. OwnedBy("resetting") <=> Has("resetting")
  BY <1>1 DEF JobsOf, SignalsOf, Posted
<1>5. LocksAreOwned <=> \A f \in flags : OwnedBy(f)
  BY DEF LocksAreOwned
<1>6. Holders <=> \A f \in flags : Has(f)
  BY DEF Holders
<1> HIDE DEF OwnedBy, Has
<1> QED BY <1>2, <1>3, <1>4, <1>5, <1>6 DEF Flags

(* The owners of a lock, one at a time.                                       *)
Sole(f) ==
    /\ f \in flags => (\E i \in Jobs : jobs[i].kind \in JobsOf[f]) \/ Posted(SignalsOf[f])
    /\ \A i \in Jobs : jobs[i].kind \in JobsOf[f] =>
          f \in flags /\ ~Posted(SignalsOf[f])
          /\ \A j \in Jobs : jobs[j].kind \in JobsOf[f] => i = j
    /\ \A n \in Signals : signals[n].kind \in SignalsOf[f] =>
          f \in flags /\ \A m \in Signals : signals[m].kind \in SignalsOf[f] => m = n

LEMMA Soles ==
  ASSUME QueueInv, flags \subseteq Flags
  PROVE  OwnerInv <=> \A f \in Flags : Sole(f)
<1>1. LocksAreOwned <=> Holders
  BY HeldIs
<1> QED BY <1>1 DEF OwnerInv, Sole, Holders

LEMMA Unlocked ==
  ASSUME LockInv
  PROVE  /\ \A f \in Flags : Sole(f)
         /\ Writes(jobs) = {i \in Jobs : jobs[i].kind = "write"}
         /\ flags = {} => /\ \A i \in Jobs : jobs[i].kind = "write"
                          /\ \A n \in Signals : signals[n].kind = "mismatch"
<1>1. \A f \in Flags : Sole(f)
  BY Soles DEF LockInv, FlagInv
<1>2. Writes(jobs) = {i \in Jobs : jobs[i].kind = "write"}
  BY FirstOf DEF LockInv, QueueInv, Writes, Jobs
<1>3. ASSUME flags = {}, NEW i \in Jobs PROVE jobs[i].kind = "write"
  BY <1>1, <1>3, Kinds DEF LockInv, QueueInv, Sole
<1>4. ASSUME flags = {}, NEW n \in Signals PROVE signals[n].kind = "mismatch"
  <2>1. \A f \in Flags : signals[n].kind \notin SignalsOf[f]
    BY <1>1, <1>4 DEF Sole
  <2>2. {"syncing", "resetting"} \subseteq Flags /\ signals[n].kind \in SignalKinds
    BY DEF Flags, LockInv, QueueInv
  <2> QED BY <2>1, <2>2, Kinds DEF SignalKinds
<1> QED BY <1>1, <1>2, <1>3, <1>4

LEMMA Locked ==
  QueueInv /\ OrderInv /\ FlagInv /\ (\A f \in Flags : Sole(f)) => LockInv
  BY Soles DEF LockInv, FlagInv

LEMMA LocksNext ==
  ASSUME QueueInv', OrderInv', FlagInv', \A f \in Flags : Sole(f)'
  PROVE  LockInv'
<1>1. (QueueInv /\ OrderInv /\ FlagInv /\ (\A f \in Flags : Sole(f)))' => LockInv'
  BY Locked, PTL
<1> QED BY <1>1

(* What the queues and the locks have to do with it stays as it is.           *)
Dialogs ==
    /\ dialog' = "sync" => flags' = {}
    /\ dialog' \in {"edit", "file", "reset"} => flags' \subseteq {"connecting"}

LEMMA LockStill ==
  ASSUME LockInv, UNCHANGED <<jobs, signals, flags>>, link' => link, Dialogs,
         ~plugged' => ~link'
  PROVE  LockInv'
<1>1. QueueInv' /\ OrderInv'
  BY DEF LockInv, QueueInv, OrderInv, Jobs, Signals
<1>2. \A f \in Flags : Sole(f)'
  BY Unlocked DEF Sole, Posted, Jobs, Signals
<1>3. FlagInv'
  BY DEF LockInv, FlagInv, Posted, Jobs, Signals, Dialogs
<1> QED BY <1>1, <1>2, <1>3, LocksNext

(* A job is queued behind the others.                                         *)
LEMMA JobsGrow ==
  ASSUME LockInv, NEW x, x.kind \in JobKinds, jobs' = Append(jobs, x)
  PROVE  /\ IsQueue(jobs') /\ Jobs \subseteq Jobs' /\ Len(jobs') \in Jobs' /\ Len(jobs') \notin Jobs
         /\ jobs'[Len(jobs')] = x /\ \A i \in Jobs : jobs'[i] = jobs[i] /\ i < Len(jobs')
         /\ \A i \in Jobs' : (i \in Jobs \/ i = Len(jobs')) /\ i \in Int /\ jobs'[i].kind \in JobKinds
<1>1. IsQueue(jobs)
  BY DEF LockInv, QueueInv
<1>2. IsQueue(jobs')
  BY <1>1, Grown, Zenon
<1>3. /\ Len(jobs) \in Nat /\ Len(jobs') = Len(jobs) + 1
      /\ \A i \in 1 .. Len(jobs) : i \in 1 .. Len(jobs') /\ jobs'[i] = jobs[i]
      /\ jobs'[Len(jobs')] = x /\ Len(jobs') \in 1 .. Len(jobs') /\ Len(jobs') \notin 1 .. Len(jobs)
      /\ \A i \in 1 .. Len(jobs') : i \in 1 .. Len(jobs) \/ i = Len(jobs')
  BY <1>1, Grown
<1> QED BY <1>2, <1>3 DEF LockInv, QueueInv, Jobs

LEMMA SignalsGrow ==
  ASSUME LockInv, NEW s, s.kind \in SignalKinds, signals' = Append(signals, s)
  PROVE  /\ IsQueue(signals') /\ Signals \subseteq Signals'
         /\ Len(signals') \in Signals' /\ Len(signals') \notin Signals
         /\ signals'[Len(signals')] = s /\ \A n \in Signals : signals'[n] = signals[n]
         /\ \A n \in Signals' : (n \in Signals \/ n = Len(signals'))
                                /\ n \in Int /\ signals'[n].kind \in SignalKinds
<1>1. IsQueue(signals)
  BY DEF LockInv, QueueInv
<1>2. IsQueue(signals')
  BY <1>1, Grown, Zenon
<1>3. /\ Len(signals) \in Nat /\ Len(signals') = Len(signals) + 1
      /\ \A i \in 1 .. Len(signals) : i \in 1 .. Len(signals') /\ signals'[i] = signals[i]
      /\ signals'[Len(signals')] = s
      /\ Len(signals') \in 1 .. Len(signals') /\ Len(signals') \notin 1 .. Len(signals)
      /\ \A i \in 1 .. Len(signals') : i \in 1 .. Len(signals) \/ i = Len(signals')
  BY <1>1, Grown
<1> QED BY <1>2, <1>3 DEF LockInv, QueueInv, Signals

(* The job in front is done.                                                  *)
LEMMA JobsShrink ==
  ASSUME LockInv, jobs # <<>>, jobs' = Tail(jobs)
  PROVE  /\ IsQueue(jobs') /\ 1 \in Jobs /\ Head(jobs) = jobs[1]
         /\ \A i \in Jobs' : i + 1 \in Jobs /\ jobs'[i] = jobs[i + 1] /\ i \in Int /\ i + 1 # 1
                             /\ jobs'[i].kind \in JobKinds
         /\ \A i \in Jobs : i \in Int /\ (i = 1 \/ (i - 1 \in Jobs' /\ jobs'[i - 1] = jobs[i]))
<1>1. IsQueue(jobs)
  BY DEF LockInv, QueueInv
<1>2. IsQueue(jobs')
  BY <1>1, Shortened, Zenon
<1>3. /\ Len(jobs) \in Nat /\ Len(jobs') = Len(jobs) - 1
      /\ 1 \in 1 .. Len(jobs) /\ Head(jobs) = jobs[1]
      /\ \A i \in 1 .. Len(jobs') : i + 1 \in 1 .. Len(jobs) /\ jobs'[i] = jobs[i + 1]
      /\ \A i \in 1 .. Len(jobs) : i = 1 \/ (i - 1 \in 1 .. Len(jobs') /\ jobs'[i - 1] = jobs[i])
  BY <1>1, Shortened
<1> QED BY <1>2, <1>3 DEF LockInv, QueueInv, Jobs

LEMMA SignalsShrink ==
  ASSUME LockInv, signals # <<>>, signals' = Tail(signals)
  PROVE  /\ IsQueue(signals') /\ 1 \in Signals /\ Head(signals) = signals[1]
         /\ \A n \in Signals' : n + 1 \in Signals /\ signals'[n] = signals[n + 1]
                                /\ n \in Int /\ n + 1 # 1 /\ signals'[n].kind \in SignalKinds
         /\ \A n \in Signals : n \in Int
              /\ (n = 1 \/ (n - 1 \in Signals' /\ signals'[n - 1] = signals[n]))
<1>1. IsQueue(signals)
  BY DEF LockInv, QueueInv
<1>2. IsQueue(signals')
  BY <1>1, Shortened, Zenon
<1>3. /\ Len(signals) \in Nat /\ Len(signals') = Len(signals) - 1
      /\ 1 \in 1 .. Len(signals) /\ Head(signals) = signals[1]
      /\ \A i \in 1 .. Len(signals') : i + 1 \in 1 .. Len(signals) /\ signals'[i] = signals[i + 1]
      /\ \A i \in 1 .. Len(signals) :
            i = 1 \/ (i - 1 \in 1 .. Len(signals') /\ signals'[i - 1] = signals[i])
  BY <1>1, Shortened
<1> QED BY <1>2, <1>3 DEF LockInv, QueueInv, Signals

(* The job in front goes on as another one.                                   *)
LEMMA JobsGoOn ==
  ASSUME LockInv, jobs # <<>>, NEW x, x.kind \in JobKinds, jobs' = <<x>> \o Tail(jobs)
  PROVE  /\ IsQueue(jobs') /\ 1 \in Jobs /\ Head(jobs) = jobs[1] /\ Jobs' = Jobs
         /\ jobs'[1] = x /\ jobs' # <<>> /\ Head(jobs') = x
         /\ \A i \in Jobs : i \in Int /\ jobs'[i].kind \in JobKinds /\ (i = 1 \/ jobs'[i] = jobs[i])
<1>1. IsQueue(jobs)
  BY DEF LockInv, QueueInv
<1>2. IsQueue(jobs')
  BY <1>1, Replaced, Zenon
<1>3. /\ Len(jobs) \in Nat /\ Len(jobs') = Len(jobs)
      /\ 1 \in 1 .. Len(jobs) /\ Head(jobs) = jobs[1]
      /\ jobs'[1] = x /\ jobs' # <<>> /\ Head(jobs') = x
      /\ \A i \in 1 .. Len(jobs) : i = 1 \/ jobs'[i] = jobs[i]
  BY <1>1, Replaced
<1> QED BY <1>2, <1>3 DEF LockInv, QueueInv, Jobs

LEMMA WritesOf ==
  ASSUME NEW q, IsQueue(q)
  PROVE  Writes(q) = {i \in 1 .. Len(q) : q[i].kind = "write"}
  BY FirstOf DEF Writes

LEMMA WritesNext ==
  ASSUME IsQueue(jobs')
  PROVE  Writes(jobs') = {i \in Jobs' : jobs'[i].kind = "write"}
<1>1. Writes(jobs') = {i \in 1 .. Len(jobs') : jobs'[i].kind = "write"}
  BY WritesOf, Zenon
<1> QED BY <1>1 DEF Jobs

(* A write is queued while nothing is locked.                                 *)
LEMMA LockWrite ==
  ASSUME LockInv, NEW x, x.kind = "write", jobs' = Append(jobs, x), flags = {},
         UNCHANGED <<signals, flags, link, plugged>>, Dialogs
  PROVE  LockInv'
<1>1. x.kind \in JobKinds
  BY DEF JobKinds
<1>2. /\ IsQueue(jobs') /\ Jobs \subseteq Jobs' /\ jobs'[Len(jobs')] = x
      /\ \A i \in Jobs : jobs'[i] = jobs[i] /\ i < Len(jobs')
      /\ \A i \in Jobs' : (i \in Jobs \/ i = Len(jobs')) /\ i \in Int /\ jobs'[i].kind \in JobKinds
  BY <1>1, JobsGrow
<1>3. /\ \A i \in Jobs : jobs[i].kind = "write"
      /\ \A n \in Signals : signals[n].kind = "mismatch"
  BY Unlocked
<1>4. \A i \in Jobs' : jobs'[i].kind = "write"
  BY <1>2, <1>3
<1>5. QueueInv'
  BY <1>2 DEF LockInv, QueueInv, Jobs, Signals
<1>6. OrderInv'
  BY <1>4 DEF OrderInv
<1>7. ASSUME NEW f \in Flags PROVE Sole(f)'
  <2>1. /\ f \notin flags' /\ \A i \in Jobs' : jobs'[i].kind \notin JobsOf[f]
        /\ \A n \in Signals' : signals'[n].kind \notin SignalsOf[f]
    <3>1. "write" \notin JobsOf[f] /\ "mismatch" \notin SignalsOf[f]
      BY Kinds
    <3>2. flags' = {} /\ Signals' = Signals /\ signals' = signals
      BY DEF Signals
    <3> QED BY <1>3, <1>4, <3>1, <3>2
  <2> QED BY <2>1 DEF Sole
<1>8. FlagInv'
  BY <1>3, <1>4 DEF LockInv, FlagInv, Dialogs, Posted, Signals
<1> QED BY <1>5, <1>6, <1>7, <1>8, LocksNext

(* A lock is taken, and its job queued.                                       *)
LEMMA LockBegin ==
  ASSUME LockInv, NEW f \in Flags, NEW x, x.kind \in JobsOf[f], jobs' = Append(jobs, x),
         flags' = flags \cup {f}, UNCHANGED <<signals, link, plugged>>, Dialogs,
         x.kind = "connect" => ~link,
         \/ flags = {}
         \/ f = "resetting" /\ flags \subseteq {"connecting"}
  PROVE  LockInv'
<1>1. x.kind \in JobKinds /\ x.kind # "write"
  BY Kinds
<1>2. /\ IsQueue(jobs') /\ Jobs \subseteq Jobs' /\ jobs'[Len(jobs')] = x /\ Len(jobs') \in Jobs'
      /\ \A i \in Jobs : jobs'[i] = jobs[i] /\ i < Len(jobs')
      /\ \A i \in Jobs' : (i \in Jobs \/ i = Len(jobs')) /\ i \in Int /\ jobs'[i].kind \in JobKinds
  BY <1>1, JobsGrow
<1>3. f \notin flags
  BY DEF Flags
<1>4. /\ \A g \in Flags : Sole(g)
      /\ flags = {} => /\ \A i \in Jobs : jobs[i].kind = "write"
                       /\ \A n \in Signals : signals[n].kind = "mismatch"
  BY Unlocked
<1>5. QueueInv'
  BY <1>2 DEF LockInv, QueueInv, Jobs, Signals
<1>6. OrderInv'
  <2> SUFFICES ASSUME NEW i \in Jobs', NEW j \in Jobs', i < j
               PROVE  jobs'[i].kind = "write" \/ jobs'[j].kind = "reset"
    BY DEF OrderInv
  <2>1. i \in Jobs
    BY <1>2
  <2>2. CASE j \in Jobs
    BY <1>2, <2>1, <2>2 DEF LockInv, OrderInv
  <2>3. CASE j = Len(jobs')
    <3>1. CASE flags = {}
      BY <1>2, <1>4, <2>1, <3>1
    <3>2. CASE f = "resetting"
      BY <1>1, <1>2, <2>3, <3>2, Kinds
    <3> QED BY <3>1, <3>2
  <2> QED BY <1>2, <2>2, <2>3
<1>7. ASSUME NEW g \in Flags PROVE Sole(g)'
  <2>1. /\ Sole(g) /\ (g # f => x.kind \notin JobsOf[g])
        /\ \A i \in Jobs : jobs[i].kind \notin JobsOf[f]
        /\ \A n \in Signals : signals[n].kind \notin SignalsOf[f]
    BY <1>1, <1>3, <1>4, Kinds DEF Sole
  <2>2. Posted(SignalsOf[g])' <=> Posted(SignalsOf[g])
    BY DEF Posted, Signals
  <2>3. CASE g = f
    <3>1. ~Posted(SignalsOf[f])
      BY <2>1 DEF Posted
    <3>2. \A i \in Jobs' : jobs'[i].kind \in JobsOf[f] => i = Len(jobs')
      BY <1>2, <2>1
    <3> QED BY <1>2, <2>1, <2>2, <2>3, <3>1, <3>2 DEF Sole, Signals
  <2>4. CASE g # f
    <3>1. \A i \in Jobs' : jobs'[i].kind \in JobsOf[g] => i \in Jobs /\ jobs'[i] = jobs[i]
      BY <1>2, <2>1, <2>4
    <3>2. \A i \in Jobs : i \in Jobs' /\ jobs'[i] = jobs[i]
      BY <1>2
    <3> QED BY <2>1, <2>2, <2>4, <3>1, <3>2 DEF Sole, Signals
  <2> QED BY <2>3, <2>4
<1>8. FlagInv'
  <2>1. flags' \subseteq Flags /\ ("syncing" \in flags' => flags' = {"syncing"})
    BY DEF LockInv, FlagInv, Flags
  <2>2. \A i \in Jobs' : jobs'[i].kind = "connect" => ~link'
    BY <1>2 DEF LockInv, FlagInv
  <2>3. flags = {} => ~Posted({"adopt", "synced", "reset"})'
    BY <1>4 DEF Posted, Signals
  <2>4. flags # {} => ~Posted({"adopt", "synced", "reset"})'
    <3> SUFFICES ASSUME flags = {"connecting"}, f = "resetting", NEW n \in Signals
                 PROVE  signals[n].kind \notin {"adopt", "synced", "reset"}
      BY <1>3 DEF Posted, Signals
    <3>1. "syncing" \notin flags /\ "resetting" \notin flags
          /\ "syncing" \in Flags /\ "resetting" \in Flags
      BY DEF Flags
    <3>2. signals[n].kind \in SignalKinds
      BY DEF LockInv, QueueInv
    <3> QED BY <1>4, <3>1, <3>2, Kinds DEF Sole
  <2>5. ~Posted({"adopt", "synced", "reset"})' /\ ~Posted({"reset"})'
    BY <2>3, <2>4 DEF Posted
  <2> QED BY <2>1, <2>2, <2>5 DEF LockInv, FlagInv, Dialogs
<1> QED BY <1>5, <1>6, <1>7, <1>8, LocksNext

(* A report that holds no lock is heard.                                      *)
LEMMA LockHeard ==
  ASSUME LockInv, Reported("mismatch"), UNCHANGED <<jobs, flags, link, plugged>>, Dialogs
  PROVE  LockInv'
<1>1. /\ IsQueue(signals') /\ 1 \in Signals /\ signals[1].kind = "mismatch"
      /\ \A n \in Signals' : n + 1 \in Signals /\ signals'[n] = signals[n + 1]
                             /\ n \in Int /\ signals'[n].kind \in SignalKinds
      /\ \A n \in Signals : n \in Int /\ (n = 1 \/ (n - 1 \in Signals' /\ signals'[n - 1] = signals[n]))
  BY SignalsShrink DEF Reported
<1>2. QueueInv' /\ OrderInv'
  BY <1>1 DEF LockInv, QueueInv, OrderInv, Jobs
<1>3. ASSUME NEW f \in Flags PROVE Sole(f)'
  <2>1. Sole(f) /\ "mismatch" \notin SignalsOf[f]
    BY Unlocked, Kinds
  <2>2. Posted(SignalsOf[f])' <=> Posted(SignalsOf[f])
    BY <1>1, <2>1 DEF Posted
  <2>3. ASSUME NEW n \in Signals', NEW m \in Signals',
               signals'[n].kind \in SignalsOf[f], signals'[m].kind \in SignalsOf[f]
        PROVE  f \in flags /\ m = n
    <3>1. m + 1 = n + 1
      BY <1>1, <2>1, <2>3 DEF Sole
    <3> QED BY <1>1, <2>1, <2>3, <3>1 DEF Sole
  <2> QED BY <2>1, <2>2, <2>3 DEF Sole, Jobs
<1>4. FlagInv'
  <2>1. \A K : Posted(K)' => Posted(K)
    BY <1>1 DEF Posted
  <2> QED BY <2>1 DEF LockInv, FlagInv, Dialogs, Jobs
<1> QED BY <1>2, <1>3, <1>4, LocksNext

(* The owner of a lock reports, and the lock goes with it.                    *)
LEMMA LockReported ==
  ASSUME LockInv, NEW f \in Flags, NEW kind \in SignalsOf[f], Reported(kind),
         flags' = flags \ {f}, UNCHANGED <<jobs, link, plugged, dialog>>
  PROVE  LockInv'
<1>1. /\ IsQueue(signals') /\ 1 \in Signals /\ signals[1].kind = kind
      /\ \A n \in Signals' : n + 1 \in Signals /\ signals'[n] = signals[n + 1]
                             /\ n \in Int /\ n + 1 # 1 /\ signals'[n].kind \in SignalKinds
      /\ \A n \in Signals : n \in Int /\ (n = 1 \/ (n - 1 \in Signals' /\ signals'[n - 1] = signals[n]))
  BY SignalsShrink DEF Reported
<1>2. QueueInv' /\ OrderInv'
  BY <1>1 DEF LockInv, QueueInv, OrderInv, Jobs
<1>3. ASSUME NEW g \in Flags PROVE Sole(g)'
  <2>1. Sole(g) /\ (g # f => kind \notin SignalsOf[g])
    BY Unlocked, Kinds
  <2>2. CASE g = f
    <3>1. Posted(SignalsOf[f])
      BY <1>1 DEF Posted
    <3>2. \A i \in Jobs' : jobs'[i].kind \notin JobsOf[f]
      BY <2>1, <2>2, <3>1 DEF Sole, Jobs
    <3>3. \A n \in Signals' : signals'[n].kind \notin SignalsOf[f]
      BY <1>1, <2>1, <2>2 DEF Sole
    <3> QED BY <2>2, <3>2, <3>3 DEF Sole
  <2>3. CASE g # f
    <3>1. Posted(SignalsOf[g])' <=> Posted(SignalsOf[g])
      BY <1>1, <2>1, <2>3 DEF Posted
    <3>2. ASSUME NEW n \in Signals', NEW m \in Signals',
                 signals'[n].kind \in SignalsOf[g], signals'[m].kind \in SignalsOf[g]
          PROVE  g \in flags' /\ m = n
      <4>1. m + 1 = n + 1
        BY <1>1, <2>1, <3>2 DEF Sole
      <4> QED BY <1>1, <2>1, <2>3, <3>2, <4>1 DEF Sole
    <3> QED BY <2>1, <2>3, <3>1, <3>2 DEF Sole, Jobs
  <2> QED BY <2>2, <2>3
<1>4. FlagInv'
  <2>1. \A K : Posted(K)' => Posted(K)
    BY <1>1 DEF Posted
  <2> QED BY <2>1 DEF LockInv, FlagInv, Jobs
<1> QED BY <1>2, <1>3, <1>4, LocksNext

(* A write is done, or fails.                                                 *)
LEMMA LockDone ==
  ASSUME LockInv, Working("write"), Done, UNCHANGED <<signals, flags, link, plugged, dialog>>
  PROVE  LockInv'
<1>1. /\ IsQueue(jobs') /\ 1 \in Jobs /\ jobs[1].kind = "write"
      /\ \A i \in Jobs' : i + 1 \in Jobs /\ jobs'[i] = jobs[i + 1] /\ i \in Int
                          /\ jobs'[i].kind \in JobKinds
      /\ \A i \in Jobs : i \in Int /\ (i = 1 \/ (i - 1 \in Jobs' /\ jobs'[i - 1] = jobs[i]))
  BY JobsShrink DEF Working, Done
<1>2. QueueInv'
  BY <1>1 DEF LockInv, QueueInv, Signals
<1>3. OrderInv'
  BY <1>1 DEF LockInv, OrderInv
<1>4. ASSUME NEW f \in Flags PROVE Sole(f)'
  <2>1. Sole(f) /\ "write" \notin JobsOf[f]
    BY Unlocked, Kinds
  <2>2. Posted(SignalsOf[f])' <=> Posted(SignalsOf[f])
    BY DEF Posted, Signals
  <2>3. (\E i \in Jobs : jobs[i].kind \in JobsOf[f]) <=> \E i \in Jobs' : jobs'[i].kind \in JobsOf[f]
    BY <1>1, <2>1
  <2>4. ASSUME NEW i \in Jobs', NEW j \in Jobs',
               jobs'[i].kind \in JobsOf[f], jobs'[j].kind \in JobsOf[f]
        PROVE  f \in flags /\ ~Posted(SignalsOf[f]) /\ i = j
    <3>1. i + 1 = j + 1
      BY <1>1, <2>1, <2>4 DEF Sole
    <3> QED BY <1>1, <2>1, <2>4, <3>1 DEF Sole
  <2> QED BY <2>1, <2>2, <2>3, <2>4 DEF Sole, Signals
<1>5. FlagInv'
  <2>1. Writes(jobs') = {i \in Jobs' : jobs'[i].kind = "write"}
        /\ Writes(jobs) = {i \in Jobs : jobs[i].kind = "write"}
    BY <1>1, WritesNext, Unlocked
  <2>2. \A K : Posted(K)' <=> Posted(K)
    BY DEF Posted, Signals
  <2> QED BY <1>1, <2>1, <2>2 DEF LockInv, FlagInv
<1> QED BY <1>2, <1>3, <1>4, <1>5, LocksNext

(* The job that holds a lock is done, and its report holds the lock instead.  *)
LEMMA LockTold ==
  ASSUME LockInv, NEW f \in Flags, NEW kind \in JobsOf[f], Working(kind), Done,
         NEW s, s.kind \in SignalsOf[f], signals' = Append(signals, s),
         UNCHANGED <<flags, link, plugged, dialog>>
  PROVE  LockInv' /\ Writes(jobs) = {} /\ Writes(jobs') = {}
<1>1. /\ IsQueue(jobs') /\ 1 \in Jobs /\ jobs[1].kind = kind
      /\ \A i \in Jobs' : i + 1 \in Jobs /\ jobs'[i] = jobs[i + 1] /\ i \in Int /\ i + 1 # 1
                          /\ jobs'[i].kind \in JobKinds
      /\ \A i \in Jobs : i \in Int /\ (i = 1 \/ (i - 1 \in Jobs' /\ jobs'[i - 1] = jobs[i]))
  BY JobsShrink DEF Working, Done
<1>2. s.kind \in SignalKinds /\ kind \in JobKinds /\ kind # "write" /\ kind \notin {"write"}
  BY Kinds
<1>3. /\ IsQueue(signals') /\ Signals \subseteq Signals'
      /\ Len(signals') \in Signals' /\ Len(signals') \notin Signals
      /\ signals'[Len(signals')] = s /\ \A n \in Signals : signals'[n] = signals[n]
      /\ \A n \in Signals' : (n \in Signals \/ n = Len(signals'))
                             /\ n \in Int /\ signals'[n].kind \in SignalKinds
  BY <1>2, SignalsGrow
<1>4. \A i \in Jobs : i # 1 => jobs[i].kind = "reset"
  <2>1. \A i \in Jobs : i \in Int /\ (i # 1 => 1 < i)
    BY DEF Jobs
  <2> QED BY <1>1, <1>2, <2>1 DEF LockInv, OrderInv
<1>5. \A i \in Jobs' : jobs'[i].kind = "reset"
  BY <1>1, <1>4
<1>6. Writes(jobs) = {} /\ Writes(jobs') = {}
  <2>1. Writes(jobs') = {i \in Jobs' : jobs'[i].kind = "write"}
        /\ Writes(jobs) = {i \in Jobs : jobs[i].kind = "write"}
    BY <1>1, WritesNext, Unlocked
  <2> QED BY <1>1, <1>2, <1>4, <1>5, <2>1
<1>7. QueueInv' /\ OrderInv'
  BY <1>1, <1>3, <1>5 DEF QueueInv, OrderInv
<1>8. ASSUME NEW g \in Flags PROVE Sole(g)'
  <2>1. Sole(g) /\ (g # f => kind \notin JobsOf[g] /\ s.kind \notin SignalsOf[g])
    BY <1>2, Unlocked, Kinds
  <2>2. CASE g = f
    <3>1. /\ f \in flags /\ ~Posted(SignalsOf[f])
          /\ \A j \in Jobs : jobs[j].kind \in JobsOf[f] => j = 1
      BY <1>1, <2>1, <2>2 DEF Sole
    <3>2. \A i \in Jobs' : jobs'[i].kind \notin JobsOf[f]
      BY <1>1, <3>1
    <3>3. \A n \in Signals' : signals'[n].kind \in SignalsOf[f] => n = Len(signals')
      BY <1>3, <3>1 DEF Posted
    <3>4. Posted(SignalsOf[f])'
      BY <1>3 DEF Posted
    <3> QED BY <2>2, <3>1, <3>2, <3>3, <3>4 DEF Sole
  <2>3. CASE g # f
    <3>1. Posted(SignalsOf[g])' <=> Posted(SignalsOf[g])
      BY <1>3, <2>1, <2>3 DEF Posted
    <3>2. (\E i \in Jobs : jobs[i].kind \in JobsOf[g])
            <=> \E i \in Jobs' : jobs'[i].kind \in JobsOf[g]
      BY <1>1, <2>1, <2>3
    <3>3. ASSUME NEW i \in Jobs', NEW j \in Jobs',
                 jobs'[i].kind \in JobsOf[g], jobs'[j].kind \in JobsOf[g]
          PROVE  g \in flags /\ ~Posted(SignalsOf[g]) /\ i = j
      <4>1. i + 1 = j + 1
        BY <1>1, <2>1, <3>3 DEF Sole
      <4> QED BY <1>1, <2>1, <3>3, <4>1 DEF Sole
    <3>4. ASSUME NEW n \in Signals', NEW m \in Signals',
                 signals'[n].kind \in SignalsOf[g], signals'[m].kind \in SignalsOf[g]
          PROVE  g \in flags /\ m = n
      BY <1>3, <2>1, <2>3, <3>4 DEF Sole
    <3> QED BY <2>1, <3>1, <3>2, <3>3, <3>4 DEF Sole
  <2> QED BY <2>2, <2>3
<1>9. FlagInv'
  <2>1. ASSUME s.kind = "reset" PROVE "connecting" \notin flags
    <3>1. kind = "reset" /\ "connecting" \in Flags
      BY <1>2, <2>1, Kinds DEF Flags
    <3>2. \A i \in Jobs : jobs[i].kind = "reset"
      BY <1>1, <1>4, <3>1
    <3>3. ~Posted(SignalsOf["connecting"])
      BY Kinds DEF Posted, LockInv, QueueInv
    <3>4. \A i \in Jobs : jobs[i].kind \notin JobsOf["connecting"]
      BY <1>2, <3>1, <3>2, Kinds
    <3>5. Sole("connecting")
      BY <3>1, Unlocked
    <3> QED BY <3>3, <3>4, <3>5 DEF Sole
  <2>2. Posted({"reset"})' => s.kind = "reset" \/ Posted({"reset"})
    BY <1>3 DEF Posted
  <2>3. \A i \in Jobs' : jobs'[i].kind # "connect"
    BY <1>5
  <2> QED BY <1>6, <2>1, <2>2, <2>3 DEF LockInv, FlagInv
<1> QED BY <1>6, <1>7, <1>8, <1>9, LocksNext

(* Connecting goes on, with the same lock.                                    *)
LEMMA LockOpened ==
  ASSUME LockInv, NEW kind \in {"connect", "compare"}, Working(kind),
         NEW x, x.kind \in {"compare", "connected"}, jobs' = <<x>> \o Tail(jobs),
         UNCHANGED <<signals, flags, plugged, dialog>>, link' => link \/ (plugged /\ kind = "connect")
  PROVE  LockInv' /\ Writes(jobs) = {} /\ Writes(jobs') = {}
<1>1. x.kind \in JobKinds
  BY DEF JobKinds
<1>2. /\ IsQueue(jobs') /\ 1 \in Jobs /\ jobs[1].kind = kind /\ Jobs' = Jobs /\ jobs'[1] = x
      /\ \A i \in Jobs : i \in Int /\ jobs'[i].kind \in JobKinds /\ (i = 1 \/ jobs'[i] = jobs[i])
  BY <1>1, JobsGoOn DEF Working
<1>3. \A i \in Jobs : i # 1 => jobs[i].kind = "reset"
  <2>1. \A i \in Jobs : i \in Int /\ (i # 1 => 1 < i)
    BY DEF Jobs
  <2> QED BY <1>2, <2>1 DEF LockInv, OrderInv
<1> DEFINE Gone == \A i \in Jobs : /\ jobs[i].kind # "write" /\ jobs'[i].kind # "write"
                                   /\ i # 1 => jobs'[i].kind = "reset"
<1>4. Gone
  <2>1. jobs[1].kind # "write" /\ jobs'[1].kind # "write"
    BY <1>2
  <2> QED BY <1>2, <1>3, <2>1
<1>5. Writes(jobs) = {} /\ Writes(jobs') = {}
  <2>1. Writes(jobs') = {i \in Jobs' : jobs'[i].kind = "write"}
        /\ Writes(jobs) = {i \in Jobs : jobs[i].kind = "write"}
    BY <1>2, WritesNext, Unlocked
  <2> QED BY <1>2, <1>4, <2>1
<1>6. QueueInv'
  BY <1>2 DEF LockInv, QueueInv, Signals
<1>7. OrderInv'
  <2>1. \A i \in Jobs : i \in Int /\ (i # 1 => 1 < i)
    BY DEF Jobs
  <2> SUFFICES ASSUME NEW i \in Jobs', NEW j \in Jobs', i < j
               PROVE  jobs'[j].kind = "reset"
    BY DEF OrderInv
  <2>2. i \in Jobs /\ j \in Jobs /\ j # 1
    BY <1>2, <2>1
  <2> QED BY <1>4, <2>2
<1>8. ASSUME NEW f \in Flags PROVE Sole(f)'
  <2>1. Sole(f) /\ (kind \in JobsOf[f] <=> x.kind \in JobsOf[f])
    <3>1. \A k \in {"connect", "compare", "connected"} : k \in JobsOf[f] <=> f = "connecting"
      BY Kinds DEF Flags, JobKinds
    <3> QED BY <3>1, Unlocked
  <2>2. \A i \in Jobs : jobs'[i].kind \in JobsOf[f] <=> jobs[i].kind \in JobsOf[f]
    BY <1>2, <2>1
  <2>3. Posted(SignalsOf[f])' <=> Posted(SignalsOf[f])
    BY DEF Posted, Signals
  <2> QED BY <1>2, <2>1, <2>2, <2>3 DEF Sole, Signals
<1>9. FlagInv'
  <2>1. \A i \in Jobs' : jobs'[i].kind # "connect"
    BY <1>2, <1>3
  <2>2. \A K : Posted(K)' <=> Posted(K)
    BY DEF Posted, Signals
  <2> QED BY <1>5, <2>1, <2>2 DEF LockInv, FlagInv
<1> QED BY <1>5, <1>6, <1>7, <1>8, <1>9, LocksNext

(* Connecting ends, with a question perhaps.                                  *)
LEMMA LockEnded ==
  ASSUME LockInv, NEW kind \in {"connect", "connected"}, Working(kind), Done,
         flags' = flags \ {"connecting"}, UNCHANGED <<plugged, dialog>>, link' => link \/ plugged,
         signals' = signals \/ \E s : s.kind = "mismatch" /\ signals' = Append(signals, s)
  PROVE  LockInv' /\ Writes(jobs) = {} /\ Writes(jobs') = {} /\ jobs[1].kind = kind
<1>1. /\ IsQueue(jobs') /\ 1 \in Jobs /\ jobs[1].kind = kind
      /\ \A i \in Jobs' : i + 1 \in Jobs /\ jobs'[i] = jobs[i + 1] /\ i \in Int /\ i + 1 # 1
                          /\ jobs'[i].kind \in JobKinds
      /\ \A i \in Jobs : i \in Int /\ (i = 1 \/ (i - 1 \in Jobs' /\ jobs'[i - 1] = jobs[i]))
  BY JobsShrink DEF Working, Done
<1>2. /\ IsQueue(signals') /\ \A n \in Signals' : signals'[n].kind \in SignalKinds
      /\ Signals \subseteq Signals' /\ \A n \in Signals : signals'[n] = signals[n]
      /\ \A n \in Signals' : n \in Signals \/ signals'[n].kind = "mismatch"
  <2>1. CASE signals' = signals
    BY <2>1 DEF LockInv, QueueInv, Signals
  <2>2. CASE \E s : s.kind = "mismatch" /\ signals' = Append(signals, s)
    <3>1. PICK s : s.kind = "mismatch" /\ signals' = Append(signals, s)
      BY <2>2
    <3>2. s.kind \in SignalKinds
      BY <3>1 DEF SignalKinds
    <3> QED BY <3>1, <3>2, SignalsGrow
  <2> QED BY <2>1, <2>2
<1>3. \A i \in Jobs : i # 1 => jobs[i].kind = "reset"
  <2>1. \A i \in Jobs : i \in Int /\ (i # 1 => 1 < i)
    BY DEF Jobs
  <2> QED BY <1>1, <2>1 DEF LockInv, OrderInv
<1>4. \A i \in Jobs' : jobs'[i].kind = "reset"
  BY <1>1, <1>3
<1>5. Writes(jobs) = {} /\ Writes(jobs') = {}
  <2>1. Writes(jobs') = {i \in Jobs' : jobs'[i].kind = "write"}
        /\ Writes(jobs) = {i \in Jobs : jobs[i].kind = "write"}
    BY <1>1, WritesNext, Unlocked
  <2> QED BY <1>1, <1>3, <1>4, <2>1
<1>6. QueueInv' /\ OrderInv'
  BY <1>1, <1>2, <1>4 DEF QueueInv, OrderInv
<1>7. ASSUME NEW f \in Flags PROVE Sole(f)'
  <2>1. Sole(f) /\ (kind \in JobsOf[f] <=> f = "connecting") /\ "mismatch" \notin SignalsOf[f]
    <3>1. \A k \in {"connect", "compare", "connected"} : k \in JobsOf[f] <=> f = "connecting"
      BY Kinds DEF Flags, JobKinds
    <3> QED BY <3>1, Unlocked, Kinds
  <2>2. Posted(SignalsOf[f])' <=> Posted(SignalsOf[f])
    BY <1>2, <2>1 DEF Posted
  <2>3. CASE f = "connecting"
    <3>1. \A j \in Jobs : jobs[j].kind \in JobsOf[f] => j = 1
      BY <1>1, <2>1, <2>3 DEF Sole
    <3>2. \A i \in Jobs' : jobs'[i].kind \notin JobsOf[f]
      BY <1>1, <3>1
    <3>3. \A n \in Signals' : signals'[n].kind \notin SignalsOf[f]
      BY <1>2, <2>3, Kinds
    <3> QED BY <2>3, <3>2, <3>3 DEF Sole
  <2>4. CASE f # "connecting"
    <3>1. (\E i \in Jobs : jobs[i].kind \in JobsOf[f])
            <=> \E i \in Jobs' : jobs'[i].kind \in JobsOf[f]
      BY <1>1, <2>1, <2>4
    <3>2. ASSUME NEW i \in Jobs', NEW j \in Jobs',
                 jobs'[i].kind \in JobsOf[f], jobs'[j].kind \in JobsOf[f]
          PROVE  f \in flags' /\ ~Posted(SignalsOf[f]) /\ i = j
      <4>1. i + 1 = j + 1
        BY <1>1, <2>1, <3>2 DEF Sole
      <4> QED BY <1>1, <2>1, <2>4, <3>2, <4>1 DEF Sole
    <3>3. ASSUME NEW n \in Signals', NEW m \in Signals',
                 signals'[n].kind \in SignalsOf[f], signals'[m].kind \in SignalsOf[f]
          PROVE  f \in flags' /\ m = n
      BY <1>2, <2>1, <2>4, <3>3 DEF Sole
    <3> QED BY <2>1, <2>2, <2>4, <3>1, <3>2, <3>3 DEF Sole
  <2> QED BY <2>3, <2>4
<1>8. FlagInv'
  <2>1. \A i \in Jobs' : jobs'[i].kind # "connect"
    BY <1>4
  <2>2. Posted({"reset"})' => Posted({"reset"})
    BY <1>2 DEF Posted
  <2> QED BY <1>5, <2>1, <2>2 DEF LockInv, FlagInv
<1> QED BY <1>1, <1>5, <1>6, <1>7, <1>8, LocksNext

LEMMA FlagNames ==
  Flags = {"connecting", "syncing", "resetting"} /\ {"connecting", "syncing", "resetting"} \subseteq Flags
  BY DEF Flags

LEMMA ClicksLock ==
  ASSUME LockInv,
         \/ \E what \in {"edit", "file", "reset"} : OpenDialog(what)
         \/ \E k \in Keys : Edit(k)
         \/ Cancel \/ Drag \/ Settle \/ AdoptLocal \/ PollSeesLink \/ Disconnect \/ LeaveBoth
         \/ ResetAlone \/ Dismiss \/ \E k \in Keys : Record(k)
         \/ Finish \/ Abort \/ KeeperActs \/ Unplug \/ Plug
  PROVE  LockInv'
<1>1. /\ dialog = "sync" => flags = {}
      /\ dialog \in {"edit", "file", "reset"} => flags \subseteq {"connecting"}
      /\ ~plugged => ~link
  BY DEF LockInv, FlagInv
<1> USE DEF profiles, cable, window, recorder, history, Dialogs
<1>2. CASE \E what \in {"edit", "file", "reset"} : OpenDialog(what)
  BY <1>1, <1>2, LockStill DEF OpenDialog, Enabled, Busy
<1>3. ASSUME NEW p, NEW paid, Apply(p, paid), UNCHANGED <<signals, flags, link, plugged>>, Dialogs
      PROVE  LockInv'
  <2>1. CASE jobs' = Append(jobs, WriteJob(p)) /\ Pushes(p)
    <3>1. flags = {} /\ WriteJob(p).kind = "write"
      BY <2>1 DEF Pushes, Busy, WriteJob
    <3> QED BY <1>3, <2>1, <3>1, LockWrite
  <2>2. CASE UNCHANGED jobs
    BY <1>1, <1>3, <2>2, LockStill
  <2> QED BY <1>3, <2>1, <2>2 DEF Apply
<1>4. ASSUME NEW k \in Keys, Edit(k) PROVE LockInv'
  <2>1. PICK p : Apply(p, [used EXCEPT !.changes = @ + 1])
    BY <1>4 DEF Edit
  <2> QED BY <1>1, <1>3, <1>4, <2>1 DEF Edit
<1>5. CASE Settle
  BY <1>1, <1>3, <1>5 DEF Settle
<1>6. CASE Cancel \/ LeaveBoth \/ Dismiss
  BY <1>1, <1>6, LockStill DEF Cancel, LeaveBoth, Dismiss
<1>7. CASE Drag \/ AdoptLocal
  BY <1>1, <1>7, LockStill DEF Drag, AdoptLocal
<1>8. CASE PollSeesLink \/ Disconnect
  BY <1>1, <1>8, LockStill DEF PollSeesLink, Disconnect
<1>9. CASE ResetAlone
  <2>1. flags' = flags
    BY <1>1, <1>9 DEF ResetAlone, FinishReset
  <2> QED BY <1>1, <1>9, <2>1, LockStill DEF ResetAlone
<1>10. CASE (\E k \in Keys : Record(k)) \/ Finish \/ Abort
  BY <1>1, <1>10, LockStill DEF Record, Finish, Abort
<1>11. CASE KeeperActs
  BY <1>1, <1>11, LockStill
     DEF KeeperActs, Find, BindShortcut, Place, Bind, KeepSave, KeepPush, KeepFails
<1>12. CASE Unplug \/ Plug
  BY <1>1, <1>12, LockStill DEF Unplug, Plug
<1> QED
  BY <1>2, <1>4, <1>5, <1>6, <1>7, <1>8, <1>9, <1>10, <1>11, <1>12

LEMMA LocksTaken ==
  ASSUME LockInv, Connect \/ AskSide \/ Answer \/ Reset
  PROVE  LockInv'
<1>1. /\ dialog = "sync" => flags = {}
      /\ dialog \in {"edit", "file", "reset"} => flags \subseteq {"connecting"}
  BY DEF LockInv, FlagInv
<1> USE FlagNames, Kinds DEF profiles, cable, window, recorder, history, Dialogs, Begin, Job, JobKinds
<1>2. CASE Connect
  <2>1. Job("connect").kind = "connect" /\ "connect" \in JobsOf["connecting"]
    OBVIOUS
  <2> QED BY <1>1, <1>2, <2>1, LockBegin DEF Connect, Enabled
<1>3. CASE AskSide
  <2>1. CASE UNCHANGED signals
    BY <1>3, <2>1, LockStill DEF AskSide, Busy, LockInv, FlagInv
  <2>2. CASE Reported("mismatch")
    BY <1>3, <2>2, LockHeard DEF AskSide, Busy
  <2> QED BY <1>3, <2>1, <2>2 DEF AskSide, Reported
<1>4. CASE Answer
  <2>1. CASE recording # NoKey
    BY <1>1, <1>4, <2>1, LockStill DEF Answer, LockInv, FlagInv
  <2>2. ASSUME NEW side \in {"pull", "push"}, Begin("syncing", side)
        PROVE  LockInv'
    <3>1. Job(side).kind = side /\ side \in JobsOf["syncing"]
      OBVIOUS
    <3> QED BY <1>1, <1>4, <2>2, <3>1, LockBegin DEF Answer
  <2> QED BY <1>4, <2>1, <2>2 DEF Answer
<1>5. CASE Reset
  <2>1. Job("reset").kind = "reset" /\ "reset" \in JobsOf["resetting"]
    OBVIOUS
  <2> QED BY <1>1, <1>5, <2>1, LockBegin DEF Reset
<1> QED BY <1>2, <1>3, <1>4, <1>5

LEMMA WindowLock ==
  ASSUME LockInv, WindowActs
  PROVE  LockInv'
<1>1. /\ dialog = "sync" => flags = {}
      /\ dialog \in {"edit", "file", "reset"} => flags \subseteq {"connecting"}
  BY DEF LockInv, FlagInv
<1>2. {"adopt", "synced", "syncFailed"} \subseteq SignalsOf["syncing"]
      /\ {"reset", "resetFailed"} \subseteq SignalsOf["resetting"]
  BY DEF SignalsOf
<1> USE FlagNames DEF profiles, cable, window, recorder, history
<1>3. CASE AskNot
  BY <1>1, <1>3, LockHeard DEF AskNot, Reported, Dialogs
<1>4. CASE ResetReady
  <2>1. Reported("reset") /\ flags' = flags \ {"resetting"} /\ UNCHANGED <<jobs, link, plugged, dialog>>
    BY <1>4 DEF ResetReady, FinishReset
  <2> QED BY <1>2, <2>1, LockReported
<1>5. CASE ResetFailed
  <2>1. Reported("resetFailed") /\ flags' = flags \ {"resetting"}
        /\ UNCHANGED <<jobs, link, plugged, dialog>>
    BY <1>5 DEF ResetFailed
  <2> QED BY <1>2, <2>1, LockReported
<1>6. CASE Adopt \/ Synced \/ SyncFailed
  <2>1. PICK kind \in {"adopt", "synced", "syncFailed"} : Reported(kind)
    BY <1>6 DEF Adopt, Synced, SyncFailed
  <2>2. flags' = flags \ {"syncing"} /\ UNCHANGED <<jobs, link, plugged, dialog>>
    BY <1>6 DEF Adopt, Synced, SyncFailed
  <2>3. kind \in SignalsOf["syncing"]
    BY <1>2
  <2> QED BY <2>1, <2>2, <2>3, LockReported
<1> QED BY <1>3, <1>4, <1>5, <1>6 DEF WindowActs

LEMMA WorkerLock ==
  ASSUME LockInv, WorkerActs
  PROVE  LockInv'
<1>1. "pull" \in JobsOf["syncing"] /\ "push" \in JobsOf["syncing"] /\ "reset" \in JobsOf["resetting"]
      /\ {"adopt", "synced", "syncFailed"} \subseteq SignalsOf["syncing"]
      /\ {"reset", "resetFailed"} \subseteq SignalsOf["resetting"]
  BY DEF JobsOf, SignalsOf
<1> USE FlagNames DEF profiles, cable, window, recorder, history, Job
<1>2. CASE Write \/ WriteFails
  BY <1>2, LockDone DEF Write, WriteFails
<1>3. CASE Open
  BY <1>3, LockOpened DEF Open
<1>4. CASE OpenUncompared \/ OpenFails
  BY <1>4, LockEnded DEF OpenUncompared, OpenFails
<1>5. CASE Compare
  BY <1>5, LockOpened DEF Compare
<1>6. CASE Connected
  <2>1. signals' = signals \/ \E s : s.kind = "mismatch" /\ signals' = Append(signals, s)
    BY <1>6 DEF Connected, Tell
  <2> QED BY <1>6, <2>1, LockEnded DEF Connected
<1>7. ASSUME NEW f \in {"syncing", "resetting"}, NEW kind \in JobsOf[f], Working(kind), Done,
             NEW told \in SignalsOf[f], NEW p, Tell(told, p), UNCHANGED <<flags, link, plugged, dialog>>
      PROVE  LockInv'
  <2>1. [kind |-> told, blob |-> p].kind \in SignalsOf[f]
    OBVIOUS
  <2> QED BY <1>7, <2>1, LockTold DEF Tell
<1>8. CASE Pull \/ Push
  BY <1>1, <1>7, <1>8 DEF Pull, Push
<1>9. CASE SyncBreaks
  BY <1>1, <1>7, <1>9 DEF SyncBreaks
<1>10. CASE ResetPad \/ ResetBreaks
  BY <1>1, <1>7, <1>10 DEF ResetPad, ResetBreaks
<1> QED BY <1>2, <1>3, <1>4, <1>5, <1>6, <1>8, <1>9, <1>10 DEF WorkerActs

LEMMA LockNext == LockInv /\ [Next]_vars => LockInv'
<1> SUFFICES ASSUME LockInv, [Next]_vars PROVE LockInv'
  OBVIOUS
<1>1. CASE UNCHANGED vars
  <2>1. /\ dialog = "sync" => flags = {}
        /\ dialog \in {"edit", "file", "reset"} => flags \subseteq {"connecting"}
        /\ ~plugged => ~link
    BY DEF LockInv, FlagInv
  <2>2. UNCHANGED <<jobs, signals, flags, link, plugged, dialog>>
    BY <1>1 DEF vars, cable, window
  <2> QED BY <2>1, <2>2, LockStill DEF Dialogs
<1>2. CASE Next
  <2>1. \/ /\ \/ \E what \in {"edit", "file", "reset"} : OpenDialog(what)
              \/ \E k \in Keys : Edit(k)
              \/ Cancel \/ Drag \/ Settle \/ AdoptLocal \/ PollSeesLink \/ Disconnect \/ LeaveBoth
              \/ ResetAlone \/ Dismiss \/ \E k \in Keys : Record(k)
              \/ Finish \/ Abort \/ KeeperActs \/ Unplug \/ Plug
        \/ Connect \/ AskSide \/ Answer \/ Reset
        \/ WindowActs
        \/ WorkerActs
    BY <1>2 DEF Next
  <2>2. CASE Connect \/ AskSide \/ Answer \/ Reset
    BY <2>2, LocksTaken
  <2>3. CASE WindowActs
    BY <2>3, WindowLock
  <2>4. CASE WorkerActs
    BY <2>4, WorkerLock
  <2> QED BY <2>1, <2>2, <2>3, <2>4, ClicksLock
<1> QED BY <1>1, <1>2

LEMMA LockInit == Init => LockInv
<1> SUFFICES ASSUME Init PROVE LockInv
  OBVIOUS
<1>1. /\ signals = <<>> /\ ~link /\ dialog = "none"
      /\ \/ flags = {} /\ jobs = <<>>
         \/ flags = {"connecting"} /\ jobs = <<Job("connect")>>
  BY DEF Init
<1> DEFINE x == Job("connect")
<1>2. x.kind = "connect"
  BY DEF Job
<1> HIDE DEF x
<1>3. jobs \in Seq({x}) /\ signals \in Seq({}) /\ Signals = {}
  <2>1. jobs = <<>> \/ jobs = <<x>>
    BY <1>1 DEF x
  <2>2. <<>> \in Seq({x}) /\ <<x>> \in Seq({x})
    OBVIOUS
  <2>3. signals \in Seq({}) /\ Signals = {}
    BY <1>1 DEF Signals
  <2> QED BY <2>1, <2>2, <2>3
<1>4. IsQueue(jobs) /\ IsQueue(signals)
  BY <1>3, Entries, Zenon
<1>5. \A i \in Jobs : flags = {"connecting"} /\ i = 1 /\ jobs[i].kind = "connect"
  <2>1. CASE jobs = <<>>
    BY <2>1 DEF Jobs
  <2>2. CASE flags = {"connecting"} /\ jobs = <<x>>
    BY <1>2, <2>2 DEF Jobs
  <2> QED BY <1>1, <2>1, <2>2 DEF x
<1>6. QueueInv
  BY <1>3, <1>4, <1>5 DEF QueueInv, JobKinds
<1>7. OrderInv
  BY <1>5 DEF OrderInv
<1>8. ASSUME NEW f \in Flags PROVE Sole(f)
  <2>1. f = "connecting" \/ "connect" \notin JobsOf[f]
    BY Kinds DEF Flags, JobKinds
  <2>2. flags = {"connecting"} => 1 \in Jobs /\ jobs[1].kind \in JobsOf["connecting"]
    BY <1>1, Kinds DEF Jobs, Job, JobKinds
  <2> QED BY <1>1, <1>3, <1>5, <2>1, <2>2 DEF Sole, Posted
<1>9. FlagInv
  BY <1>1, <1>3, <1>5 DEF FlagInv, Flags, Posted
<1> QED BY <1>6, <1>7, <1>8, <1>9, Locked

---------------------------------------------------------------------------
(* What the profiles have to do with the queues                              *)

(* What a lock, or a kind of job at work, says of the rest.                   *)
LEMMA Room ==
  ASSUME LockInv
  PROVE  /\ flags = {} => ~Posted(Loud) /\ \A k : k # "write" => ~Working(k)
         /\ flags \subseteq {"connecting"} => ~Posted({"adopt"}) /\ ~Posted({"synced"})
         /\ Working("compare") => flags # {}
         /\ Working("connect") => ~link
         /\ \A k \in {"connect", "compare", "connected", "pull", "push", "reset"} :
               Working(k) => ~Posted(Loud) /\ Writes(jobs) = {}
         /\ Working("write") => 1 \in Writes(jobs) /\ ~Posted(Loud)
         /\ Posted(Loud) => Writes(jobs) = {} /\ ~Working("compare")
<1>1. /\ \A f \in Flags : Sole(f)
      /\ Writes(jobs) = {i \in Jobs : jobs[i].kind = "write"}
      /\ flags = {} => /\ \A i \in Jobs : jobs[i].kind = "write"
                       /\ \A n \in Signals : signals[n].kind = "mismatch"
  BY Unlocked
<1>2. \A k : Working(k) => 1 \in Jobs /\ jobs[1].kind = k
  BY FirstOf DEF LockInv, QueueInv, Working, Jobs
<1>3. /\ "syncing" \in flags => flags = {"syncing"}
      /\ Posted({"reset"}) => "connecting" \notin flags
      /\ \A i \in Jobs : jobs[i].kind = "connect" => ~link
      /\ Posted(Loud) => Writes(jobs) = {}
  BY DEF LockInv, FlagInv, Loud
<1>4. /\ Posted({"adopt"}) \/ Posted({"synced"}) => Posted(SignalsOf["syncing"])
      /\ Posted({"reset"}) => Posted(SignalsOf["resetting"])
      /\ Posted(Loud) => Posted({"adopt"}) \/ Posted({"synced"}) \/ Posted({"reset"})
      /\ \A k \in {"adopt", "synced", "reset"} : Posted({k}) => Posted(Loud)
  BY DEF Posted, SignalsOf, Loud
<1>5. /\ Posted(SignalsOf["syncing"]) => "syncing" \in flags
      /\ Posted(SignalsOf["resetting"]) => "resetting" \in flags
  BY <1>1, FlagNames DEF Sole, Posted
<1>6. ASSUME NEW k \in {"connect", "compare", "connected", "pull", "push", "reset"}, Working(k)
      PROVE  ~Posted(Loud) /\ Writes(jobs) = {} /\ flags # {}
  <2>1. \A i \in Jobs : i # 1 => jobs[i].kind = "reset"
    <3>1. \A i \in Jobs : i \in Int /\ (i # 1 => 1 < i)
      BY DEF Jobs
    <3> QED BY <1>2, <1>6, <3>1 DEF LockInv, OrderInv
  <2>2. Writes(jobs) = {}
    BY <1>1, <1>2, <1>6, <2>1
  <2>3. CASE k \in {"connect", "compare", "connected"}
    <3>1. "connecting" \in flags
      BY <1>1, <1>2, <1>6, <2>3, FlagNames, Kinds DEF Sole, JobKinds
    <3> QED BY <1>3, <1>4, <1>5, <2>2, <3>1
  <2>4. CASE k \in {"pull", "push"}
    <3>1. "syncing" \in flags /\ ~Posted(SignalsOf["syncing"])
      BY <1>1, <1>2, <1>6, <2>4, FlagNames, Kinds DEF Sole, JobKinds
    <3>2. "resetting" \notin flags
      BY <1>3, <3>1
    <3> QED BY <1>4, <1>5, <2>2, <3>1, <3>2
  <2>5. CASE k = "reset"
    <3>1. "resetting" \in flags /\ ~Posted(SignalsOf["resetting"])
      BY <1>1, <1>2, <1>6, <2>5, FlagNames, Kinds DEF Sole, JobKinds
    <3>2. "syncing" \notin flags
      BY <1>3, <3>1
    <3> QED BY <1>4, <1>5, <2>2, <3>1, <3>2
  <2> QED BY <1>6, <2>3, <2>4, <2>5
<1>7. Working("write") => 1 \in Writes(jobs) /\ ~Posted(Loud)
  BY <1>1, <1>2, <1>3
<1>8. flags = {} => ~Posted(Loud) /\ \A k : k # "write" => ~Working(k)
  BY <1>1, <1>2 DEF Posted, Loud
<1>9. flags \subseteq {"connecting"} => ~Posted({"adopt"}) /\ ~Posted({"synced"})
  BY <1>4, <1>5
<1> QED BY <1>2, <1>3, <1>6, <1>7, <1>8, <1>9

(* One report more or less, told by its kind.                                 *)
LEMMA PostedMore ==
  ASSUME LockInv, NEW s, s.kind \in SignalKinds, signals' = Append(signals, s)
  PROVE  /\ \A K : Posted(K)' <=> Posted(K) \/ s.kind \in K
         /\ \A n \in Signals' : (n \in Signals /\ signals'[n] = signals[n]) \/ signals'[n] = s
<1>1. /\ Signals \subseteq Signals' /\ Len(signals') \in Signals' /\ signals'[Len(signals')] = s
      /\ \A n \in Signals : signals'[n] = signals[n]
      /\ \A n \in Signals' : n \in Signals \/ n = Len(signals')
  BY SignalsGrow
<1> QED BY <1>1 DEF Posted

LEMMA PostedLess ==
  ASSUME LockInv, NEW kind, Reported(kind)
  PROVE  /\ \A K : Posted(K)' => Posted(K)
         /\ \A K : kind \notin K => (Posted(K)' <=> Posted(K))
         /\ 1 \in Signals /\ Head(signals) = signals[1] /\ signals[1].kind = kind
         /\ \A n \in Signals' : n + 1 \in Signals /\ signals'[n] = signals[n + 1]
<1>1. /\ 1 \in Signals /\ Head(signals) = signals[1] /\ signals[1].kind = kind
      /\ \A n \in Signals' : n + 1 \in Signals /\ signals'[n] = signals[n + 1]
      /\ \A n \in Signals : n = 1 \/ (n - 1 \in Signals' /\ signals'[n - 1] = signals[n])
  BY SignalsShrink DEF Reported
<1> QED BY <1>1 DEF Posted

(* What the only report of a lock leaves behind when it is heard.             *)
LEMMA LastReport ==
  ASSUME LockInv, NEW f \in Flags, NEW kind \in SignalsOf[f], Reported(kind)
  PROVE  ~Posted(SignalsOf[f])'
<1>1. Sole(f)
  BY Unlocked
<1>2. /\ 1 \in Signals /\ signals[1].kind = kind
      /\ \A n \in Signals' : n + 1 \in Signals /\ signals'[n] = signals[n + 1] /\ n + 1 # 1
  BY SignalsShrink DEF Reported
<1> QED BY <1>1, <1>2 DEF Sole, Posted

(* A job that writes no edit, queued.                                         *)
LEMMA JobWaits ==
  ASSUME LockInv, NEW x, x.kind \in JobKinds \ {"write"}, jobs' = Append(jobs, x)
  PROVE  /\ Writes(jobs') = Writes(jobs) /\ \A i \in Writes(jobs) : jobs'[i] = jobs[i]
         /\ \A k : k # x.kind => (Working(k)' <=> Working(k))
<1>1. /\ IsQueue(jobs') /\ Jobs \subseteq Jobs' /\ Len(jobs') \in Jobs' /\ Len(jobs') \notin Jobs
      /\ jobs'[Len(jobs')] = x /\ \A i \in Jobs : jobs'[i] = jobs[i]
      /\ \A i \in Jobs' : i \in Jobs \/ i = Len(jobs')
  BY JobsGrow
<1>2. Writes(jobs') = {i \in Jobs' : jobs'[i].kind = "write"}
      /\ Writes(jobs) = {i \in Jobs : jobs[i].kind = "write"}
  BY <1>1, WritesNext, Unlocked
<1>3. Writes(jobs') = Writes(jobs) /\ \A i \in Writes(jobs) : jobs'[i] = jobs[i]
  BY <1>1, <1>2
<1>4. /\ IsQueue(jobs)
      /\ jobs # <<>> => 1 \in Jobs /\ Head(jobs) = jobs[1]
      /\ jobs = <<>> => Jobs = {}
  <2>1. IsQueue(jobs)
    BY DEF LockInv, QueueInv
  <2> QED BY <2>1, FirstOf DEF Jobs
<1>5. jobs' # <<>> /\ Head(jobs') = jobs'[1] /\ 1 \in Jobs'
  <2>1. IsQueue(jobs') => (jobs' # <<>> => Head(jobs') = jobs'[1] /\ 1 \in Jobs')
                          /\ (jobs' = <<>> => Jobs' = {})
    BY FirstOf DEF Jobs
  <2> QED BY <1>1, <2>1
<1>6. jobs # <<>> => Head(jobs') = Head(jobs)
  BY <1>1, <1>4, <1>5
<1>7. jobs = <<>> => Head(jobs') = x
  BY <1>1, <1>4, <1>5
<1>8. \A k : k # x.kind => (Working(k)' <=> Working(k))
  BY <1>5, <1>6, <1>7 DEF Working
<1> QED BY <1>3, <1>8

(* An edit queued while nothing is locked is the last to be written.          *)
LEMMA WriteWaits ==
  ASSUME LockInv, flags = {}, NEW x, x.kind = "write", jobs' = Append(jobs, x)
  PROVE  /\ Writes(jobs') # {} /\ \A k : k # "write" => ~Working(k)'
         /\ \A i \in Writes(jobs') : (\A j \in Writes(jobs') : j <= i) => jobs'[i] = x
<1>1. x.kind \in JobKinds
  BY DEF JobKinds
<1>2. /\ IsQueue(jobs') /\ Len(jobs') \in Jobs'
      /\ jobs'[Len(jobs')] = x /\ \A i \in Jobs : jobs'[i] = jobs[i] /\ i < Len(jobs')
      /\ \A i \in Jobs' : (i \in Jobs \/ i = Len(jobs')) /\ i \in Int
  BY <1>1, JobsGrow
<1>3. Writes(jobs') = {i \in Jobs' : jobs'[i].kind = "write"}
  BY <1>2, WritesNext
<1>4. \A i \in Jobs' : jobs'[i].kind = "write"
  BY <1>2, Unlocked
<1>5. \A k : k # "write" => ~Working(k)'
  <2>1. IsQueue(jobs') => (jobs' # <<>> => Head(jobs') = jobs'[1] /\ 1 \in Jobs')
    BY FirstOf DEF Jobs
  <2> QED BY <1>2, <1>4, <2>1 DEF Working
<1>6. ASSUME NEW i \in Writes(jobs'), \A j \in Writes(jobs') : j <= i
      PROVE  jobs'[i] = x
  <2>1. Len(jobs') <= i /\ (i < Len(jobs') \/ i = Len(jobs')) /\ i \in Int /\ Len(jobs') \in Int
    BY <1>2, <1>3, <1>4, <1>6
  <2>2. i = Len(jobs')
    BY <2>1
  <2> QED BY <1>2, <2>2
<1> QED BY <1>2, <1>3, <1>4, <1>5, <1>6

(* An edit written is the next to wait no more.                               *)
LEMMA WriteGoes ==
  ASSUME LockInv, Working("write"), Done
  PROVE  /\ 1 \in Writes(jobs) /\ Head(jobs) = jobs[1]
         /\ \A i \in Writes(jobs') : i + 1 \in Writes(jobs) /\ jobs'[i] = jobs[i + 1]
                                     /\ i \in Int /\ i + 1 # 1
         /\ \A i \in Writes(jobs) : i \in Int
              /\ (i = 1 \/ (i - 1 \in Writes(jobs') /\ jobs'[i - 1] = jobs[i]))
         /\ ~Working("compare")
<1>1. /\ IsQueue(jobs') /\ 1 \in Jobs /\ Head(jobs) = jobs[1] /\ jobs[1].kind = "write"
      /\ \A i \in Jobs' : i + 1 \in Jobs /\ jobs'[i] = jobs[i + 1] /\ i \in Int /\ i + 1 # 1
      /\ \A i \in Jobs : i \in Int /\ (i = 1 \/ (i - 1 \in Jobs' /\ jobs'[i - 1] = jobs[i]))
  BY JobsShrink DEF Working, Done
<1>2. Writes(jobs') = {i \in Jobs' : jobs'[i].kind = "write"}
      /\ Writes(jobs) = {i \in Jobs : jobs[i].kind = "write"}
  BY <1>1, WritesNext, Unlocked
<1> QED BY <1>1, <1>2 DEF Working

(* A job of a lock ends, and no edit waits for it.                            *)
LEMMA NoneWaits ==
  ASSUME LockInv, LockInv',
         NEW kind \in {"connect", "compare", "connected", "pull", "push", "reset"}, Working(kind),
         Done \/ \E x : x.kind \in {"compare", "connected"} /\ jobs' = <<x>> \o Tail(jobs)
  PROVE  Writes(jobs) = {} /\ Writes(jobs') = {}
<1>1. Writes(jobs) = {}
  BY Room
<1>2. Writes(jobs) = {i \in Jobs : jobs[i].kind = "write"}
  BY Unlocked
<1>3. CASE Done
  <2>1. /\ IsQueue(jobs') /\ \A i \in Jobs' : i + 1 \in Jobs /\ jobs'[i] = jobs[i + 1]
    BY <1>3, JobsShrink DEF Working, Done
  <2> QED BY <1>1, <1>2, <2>1, WritesNext
<1>4. CASE \E x : x.kind \in {"compare", "connected"} /\ jobs' = <<x>> \o Tail(jobs)
  <2>1. PICK x : x.kind \in {"compare", "connected"} /\ jobs' = <<x>> \o Tail(jobs)
    BY <1>4
  <2>2. x.kind \in JobKinds /\ x.kind # "write"
    BY <2>1 DEF JobKinds
  <2>3. /\ IsQueue(jobs') /\ Jobs' = Jobs /\ jobs'[1] = x
        /\ \A i \in Jobs : i = 1 \/ jobs'[i] = jobs[i]
    BY <2>1, <2>2, JobsGoOn DEF Working
  <2>4. Writes(jobs') = {i \in Jobs' : jobs'[i].kind = "write"}
    BY <2>3, WritesNext
  <2> QED BY <1>1, <1>2, <2>2, <2>3, <2>4
<1> QED BY <1>1, <1>3, <1>4

---------------------------------------------------------------------------
(* The four facts about the profiles, step by step                           *)

LEMMA StrangeNext ==
  ASSUME LockInv, LockInv', StrangeInv, Next
  PROVE  StrangeInv'
<1> SUFFICES ASSUME link', strange', ~uncompared'
             PROVE  /\ Writes(jobs') = {} /\ (diverged' \/ Working("compare")')
                    /\ ~Posted(Loud)'
  BY DEF StrangeInv
<1>1. link /\ strange /\ ~uncompared =>
        Writes(jobs) = {} /\ (diverged \/ Working("compare")) /\ ~Posted(Loud)
  BY DEF StrangeInv
<1>2. /\ Working("compare") => flags # {}
      /\ Working("connect") => ~link
      /\ \A k \in {"connect", "compare", "connected", "pull", "push", "reset"} :
            Working(k) => ~Posted(Loud) /\ Writes(jobs) = {}
      /\ Working("write") => 1 \in Writes(jobs)
      /\ ~plugged => ~link
      /\ dialog = "sync" => flags = {}
  BY Room DEF LockInv, FlagInv
<1>3. UNCHANGED jobs => (Working("compare")' <=> Working("compare"))
  BY DEF Working
<1>4. UNCHANGED signals => (Posted(Loud)' <=> Posted(Loud))
  BY DEF Posted, Signals
<1> USE DEF profiles, cable, window, recorder, history
(* What queues and clears nothing. *)
<1>5. ASSUME UNCHANGED <<jobs, signals, cable>>, diverged => diverged'
      PROVE  /\ Writes(jobs') = {} /\ (diverged' \/ Working("compare")') /\ ~Posted(Loud)'
  BY <1>1, <1>3, <1>4, <1>5
<1>6. ASSUME NEW p, NEW paid, Apply(p, paid), UNCHANGED <<signals, cable, diverged>>
      PROVE  /\ Writes(jobs') = {} /\ (diverged' \/ Working("compare")') /\ ~Posted(Loud)'
  <2>1. ~Pushes(p)
    BY <1>1, <1>2, <1>6 DEF Pushes, Busy
  <2> QED BY <1>5, <1>6, <2>1 DEF Apply
<1>7. CASE \E what \in {"edit", "file", "reset"} : OpenDialog(what)
  <2>1. UNCHANGED <<jobs, signals, cable, diverged>>
    BY <1>7 DEF OpenDialog
  <2> QED BY <1>5, <2>1
<1>8. CASE \E k \in Keys : Edit(k)
  <2>1. PICK k \in Keys : Edit(k)
    BY <1>8
  <2>2. PICK p : Apply(p, [used EXCEPT !.changes = @ + 1])
    BY <2>1 DEF Edit
  <2> QED BY <1>6, <2>1, <2>2 DEF Edit
<1>9. CASE Settle
  BY <1>6, <1>9 DEF Settle
<1>10. CASE Cancel \/ Drag \/ PollSeesLink \/ LeaveBoth
  BY <1>5, <1>10 DEF Cancel, Drag, PollSeesLink, LeaveBoth
<1>11. CASE AdoptLocal
  <2>1. UNCHANGED <<jobs, signals, cable>> /\ (diverged' = link \/ diverged' = diverged)
    BY <1>11 DEF AdoptLocal
  <2>2. diverged => diverged'
    BY <2>1
  <2> QED BY <1>5, <2>1, <2>2
<1>12. CASE Disconnect \/ Connect
  BY <1>12 DEF Disconnect, Connect
<1>13. CASE AskSide \/ AskNot
  <2>1. CASE Reported("mismatch")
    <3>1. Posted(Loud)' <=> Posted(Loud)
      BY <2>1, PostedLess DEF Loud
    <3> QED BY <1>1, <1>3, <1>13, <3>1 DEF AskSide, AskNot
  <2>2. CASE ~Reported("mismatch")
    BY <1>5, <1>13, <2>2 DEF AskSide, AskNot, Reported
  <2> QED BY <2>1, <2>2
<1>14. CASE Answer
  <2>1. CASE recording # NoKey
    BY <1>5, <1>14, <2>1 DEF Answer
  <2>2. ASSUME NEW side \in {"pull", "push"}, Begin("syncing", side)
        PROVE  /\ Writes(jobs') = {} /\ (diverged' \/ Working("compare")') /\ ~Posted(Loud)'
    <3>1. Job(side).kind \in JobKinds \ {"write"}
      BY DEF Job, JobKinds
    <3> QED BY <1>1, <1>2, <1>4, <1>14, <2>2, <3>1, JobWaits DEF Answer, Begin
  <2> QED BY <1>14, <2>1, <2>2 DEF Answer
<1>15. CASE Reset
  <2>1. Job("reset").kind \in JobKinds \ {"write"} /\ Job("reset").kind # "compare"
    BY DEF Job, JobKinds
  <2> QED BY <1>1, <1>4, <1>15, <2>1, JobWaits DEF Reset, Begin
<1>16. CASE ResetAlone
  BY <1>16 DEF ResetAlone
<1>17. CASE ResetReady \/ Adopt \/ Synced
  <2>1. PICK kind \in Loud : Reported(kind)
    BY <1>17 DEF ResetReady, Adopt, Synced, Loud
  <2>2. Posted(Loud)
    BY <2>1, PostedLess DEF Posted
  <2>3. UNCHANGED cable
    BY <1>17 DEF ResetReady, Adopt, Synced
  <2>4. link /\ strange /\ ~uncompared
    BY <2>3
  <2> QED BY <1>1, <2>2, <2>4
<1>18. CASE ResetFailed \/ SyncFailed
  <2>1. PICK kind \in {"resetFailed", "syncFailed"} : Reported(kind)
    BY <1>18 DEF ResetFailed, SyncFailed
  <2>2. Posted(Loud)' <=> Posted(Loud)
    BY <2>1, PostedLess DEF Loud
  <2> QED BY <1>1, <1>3, <1>18, <2>2 DEF ResetFailed, SyncFailed
<1>19. CASE Write
  BY <1>19 DEF Write
<1>20. CASE WriteFails
  BY <1>1, <1>2, <1>20 DEF WriteFails
<1>21. CASE Open
  <2>1. Job("compare").kind = "compare" /\ "compare" \in JobKinds
    BY DEF Job, JobKinds
  <2>2. Writes(jobs') = {}
    <3>1. \E x : x.kind \in {"compare", "connected"} /\ jobs' = <<x>> \o Tail(jobs)
      BY <1>21, <2>1 DEF Open
    <3> QED BY <1>21, <3>1, NoneWaits DEF Open
  <2>3. Working("compare")'
    BY <1>21, <2>1, JobsGoOn DEF Open, Working
  <2> QED BY <1>2, <1>4, <1>21, <2>2, <2>3 DEF Open
<1>22. CASE OpenUncompared \/ OpenFails
  BY <1>2, <1>22 DEF OpenUncompared, OpenFails
<1>23. CASE Compare
  <2>1. Job("connected").kind = "connected"
    BY DEF Job
  <2>2. Writes(jobs') = {}
    <3>1. \E x : x.kind \in {"compare", "connected"} /\ jobs' = <<x>> \o Tail(jobs)
      BY <1>23, <2>1 DEF Compare
    <3> QED BY <1>23, <3>1, NoneWaits DEF Compare
  <2>3. diverged'
    BY <1>23 DEF Compare
  <2> QED BY <1>2, <1>4, <1>23, <2>2, <2>3 DEF Compare
<1>24. CASE Connected
  <2>1. Writes(jobs') = {}
    BY <1>24, NoneWaits DEF Connected
  <2>2. ~Posted(Loud)'
    <3>1. CASE UNCHANGED signals
      BY <1>2, <1>4, <1>24, <3>1 DEF Connected
    <3>2. CASE Tell("mismatch", Default)
      <4>1. [kind |-> "mismatch", blob |-> Default].kind \in SignalKinds \ Loud
        BY DEF SignalKinds, Loud
      <4> QED BY <1>2, <1>24, <3>2, <4>1, PostedMore DEF Tell, Connected
    <3> QED BY <1>24, <3>1, <3>2 DEF Connected
  <2>3. diverged' = diverged /\ UNCHANGED cable /\ ~Working("compare")
    BY <1>24 DEF Connected, Working
  <2>4. link /\ strange /\ ~uncompared
    BY <2>3
  <2> QED BY <1>1, <2>1, <2>2, <2>3, <2>4
<1>25. CASE Pull \/ Push \/ ResetPad
  BY <1>25 DEF Pull, Push, ResetPad
<1>26. CASE SyncBreaks \/ ResetBreaks
  <2>1. PICK kind \in {"pull", "push", "reset"} : Working(kind) /\ Done
    BY <1>26 DEF SyncBreaks, ResetBreaks
  <2>2. Writes(jobs') = {} /\ ~Posted(Loud) /\ ~Working("compare")
    BY <1>2, <2>1, NoneWaits DEF Working
  <2>3. ~Posted(Loud)'
    <3>1. \A k \in {"syncFailed", "resetFailed"} :
             [kind |-> k, blob |-> Default].kind \in SignalKinds \ Loud
      BY DEF SignalKinds, Loud
    <3>2. PICK k \in {"syncFailed", "resetFailed"} : Tell(k, Default)
      BY <1>26 DEF SyncBreaks, ResetBreaks
    <3> QED BY <2>2, <3>1, <3>2, PostedMore DEF Tell
  <2>4. diverged' = diverged /\ link' = link /\ (strange' => strange) /\ uncompared' = uncompared
    BY <1>26 DEF SyncBreaks, ResetBreaks
  <2>5. link /\ strange /\ ~uncompared
    BY <2>4
  <2> QED BY <1>1, <2>2, <2>3, <2>4, <2>5
<1>27. CASE (\E k \in Keys : Record(k)) \/ Dismiss \/ Finish \/ Abort
  BY <1>5, <1>27 DEF Record, Dismiss, Finish, Abort
<1>28. CASE Find \/ BindShortcut \/ Place \/ Bind \/ KeepSave \/ KeepPush \/ KeepFails
  BY <1>5, <1>28 DEF Find, BindShortcut, Place, Bind, KeepSave, KeepPush, KeepFails
<1>29. CASE Unplug \/ Plug
  BY <1>2, <1>29 DEF Unplug, Plug
<1> QED
  BY <1>7, <1>8, <1>9, <1>10, <1>11, <1>12, <1>13, <1>14, <1>15, <1>16, <1>17, <1>18, <1>19,
     <1>20, <1>21, <1>22, <1>23, <1>24, <1>25, <1>26, <1>27, <1>28, <1>29
     DEF Next, WindowActs, WorkerActs, KeeperActs

(* Where the record worker goes, step by step.                                *)
LEMMA KeeperGoes ==
  ASSUME KeeperInv
  PROVE  /\ ~Keeping <=> keeper.at = "idle"
         /\ \A s : Keeps("find", IF s = NoSlot THEN Idle ELSE
                 [at |-> "place", key |-> keeper.key, id |-> keeper.id, slot |-> s])
                     => keeper.at = "find" /\ keeper'.at \in {"idle", "place"} /\ "at" \in DOMAIN keeper'
         /\ \A a, b \in {"find", "place", "bind", "save", "push"} :
               Keeps(a, [keeper EXCEPT !.at = b])
                 => keeper.at = a /\ keeper'.at = b /\ "at" \in DOMAIN keeper'
         /\ \A a : Keeps(a, Idle) => keeper.at = a /\ keeper'.at = "idle" /\ "at" \in DOMAIN keeper'
         /\ \A k, i : keeper' = [Idle EXCEPT !.at = "find", !.key = k, !.id = i]
                        => keeper'.at = "find" /\ "at" \in DOMAIN keeper'
<1>1. ~Keeping <=> keeper.at = "idle"
  BY DEF Keeping
<1>2. "at" \in DOMAIN keeper
  BY DEF KeeperInv
<1>3. Idle.at = "idle" /\ "at" \in DOMAIN Idle
  BY DEF Idle
<1>4. ASSUME NEW s, Keeps("find", IF s = NoSlot THEN Idle ELSE
                 [at |-> "place", key |-> keeper.key, id |-> keeper.id, slot |-> s])
      PROVE  keeper.at = "find" /\ keeper'.at \in {"idle", "place"} /\ "at" \in DOMAIN keeper'
  BY <1>2, <1>3, <1>4 DEF Keeps
<1>5. ASSUME NEW a, NEW b, Keeps(a, [keeper EXCEPT !.at = b])
      PROVE  keeper.at = a /\ keeper'.at = b /\ "at" \in DOMAIN keeper'
  BY <1>2, <1>5 DEF Keeps
<1>6. ASSUME NEW k, NEW i, keeper' = [Idle EXCEPT !.at = "find", !.key = k, !.id = i]
      PROVE  keeper'.at = "find" /\ "at" \in DOMAIN keeper'
  BY <1>6 DEF Idle
<1>7. ASSUME NEW a, Keeps(a, Idle)
      PROVE  keeper.at = a /\ keeper'.at = "idle" /\ "at" \in DOMAIN keeper'
  BY <1>3, <1>7 DEF Keeps
<1> QED BY <1>1, <1>4, <1>5, <1>6, <1>7

LEMMA FileNext ==
  ASSUME FileInv, KeeperInv, Next
  PROVE  FileInv'
<1> SUFFICES unsaved' \/ disk' = mem' \/ settling' \/ keeper'.at \in {"bind", "save"}
  BY DEF FileInv
<1>1. unsaved \/ disk = mem \/ settling \/ keeper.at \in {"bind", "save"}
  BY DEF FileInv
<1>2. recording # NoKey => keeper.at = "idle"
  BY KeeperGoes DEF KeeperInv
<1> USE DEF profiles, cable, window, recorder, history
<1> DEFINE Same == unsaved' = unsaved /\ disk' = disk /\ mem' = mem /\ settling' = settling
                   /\ (keeper'.at = keeper.at \/ keeper.at \notin {"bind", "save"})
<1>3. Same => unsaved' \/ disk' = mem' \/ settling' \/ keeper'.at \in {"bind", "save"}
  BY <1>1
<1> DEFINE Saved == unsaved' \/ disk' = mem'
<1>4. CASE \/ \E what \in {"edit", "file", "reset"} : OpenDialog(what)
           \/ Cancel \/ PollSeesLink \/ LeaveBoth \/ Disconnect \/ Connect
  <2>1. Same
    BY <1>4 DEF OpenDialog, Cancel, PollSeesLink, LeaveBoth, Disconnect, Connect
  <2> QED BY <1>3, <2>1
<1>5. CASE \E k \in Keys : Edit(k)
  <2>1. Saved
    BY <1>5 DEF Edit, Apply
  <2> QED BY <2>1
<1>6. CASE Settle
  <2>1. Saved
    BY <1>6 DEF Settle, Apply
  <2> QED BY <2>1
<1>7. CASE Drag
  BY <1>7 DEF Drag
<1>8. CASE AdoptLocal
  <2>1. Saved \/ Same
    BY <1>8 DEF AdoptLocal
  <2> QED BY <1>3, <2>1
<1>9. CASE AskSide \/ AskNot \/ Answer \/ Reset
  <2>1. Same
    BY <1>9 DEF AskSide, AskNot, Answer, Reset
  <2> QED BY <1>3, <2>1
<1>10. CASE ResetAlone \/ ResetReady
  <2>1. Saved
    BY <1>10 DEF ResetAlone, ResetReady, FinishReset
  <2> QED BY <2>1
<1>11. CASE Adopt
  <2>1. Saved
    BY <1>11 DEF Adopt
  <2> QED BY <2>1
<1>12. CASE Synced \/ ResetFailed \/ SyncFailed
  <2>1. Same
    BY <1>12 DEF Synced, ResetFailed, SyncFailed
  <2> QED BY <1>3, <2>1
<1>13. CASE Write \/ WriteFails \/ Open \/ OpenUncompared \/ OpenFails \/ Compare \/ Connected
  <2>1. Same
    BY <1>13 DEF Write, WriteFails, Open, OpenUncompared, OpenFails, Compare, Connected
  <2> QED BY <1>3, <2>1
<1>14. CASE Pull \/ Push \/ SyncBreaks \/ ResetPad \/ ResetBreaks
  <2>1. Same
    BY <1>14 DEF Pull, Push, SyncBreaks, ResetPad, ResetBreaks
  <2> QED BY <1>3, <2>1
<1>15. CASE (\E k \in Keys : Record(k)) \/ Dismiss \/ Abort \/ Unplug \/ Plug
  <2>1. Same
    BY <1>15 DEF Record, Dismiss, Abort, Unplug, Plug
  <2> QED BY <1>3, <2>1
<1>16. CASE Finish
  <2>1. Same
    BY <1>2, <1>16 DEF Finish
  <2> QED BY <1>3, <2>1
<1>17. CASE Find
  <2>1. Same
    BY <1>17, KeeperGoes DEF Find
  <2> QED BY <1>3, <2>1
<1>18. CASE BindShortcut \/ Place \/ Bind
  BY <1>18, KeeperGoes DEF BindShortcut, Place, Bind
<1>19. CASE KeepSave
  BY <1>19 DEF KeepSave
<1>20. CASE KeepPush
  <2>1. Same
    BY <1>20, KeeperGoes DEF KeepPush
  <2> QED BY <1>3, <2>1
<1>21. CASE KeepFails
  <2>1. unsaved' \/ Same
    BY <1>21, KeeperGoes DEF KeepFails
  <2> QED BY <1>3, <2>1
<1> QED
  BY <1>4, <1>5, <1>6, <1>7, <1>8, <1>9, <1>10, <1>11, <1>12, <1>13, <1>14, <1>15, <1>16, <1>17,
     <1>18, <1>19, <1>20, <1>21 DEF Next, WindowActs, WorkerActs, KeeperActs

(* Reports that change nothing of the pad's.                                  *)
LEMMA QuietlyTold ==
  ASSUME LockInv,
         \/ UNCHANGED signals
         \/ \E k \in {"mismatch", "syncFailed", "resetFailed"} : Tell(k, Default) \/ Reported(k)
  PROVE  /\ \A K : K \subseteq Loud => (Posted(K)' <=> Posted(K))
         /\ \A n \in Signals' : signals'[n].kind \in Loud =>
               \E m \in Signals : signals[m] = signals'[n]
<1>1. CASE UNCHANGED signals
  BY <1>1 DEF Posted, Signals
<1>2. ASSUME NEW k \in {"mismatch", "syncFailed", "resetFailed"}, Tell(k, Default)
      PROVE  /\ \A K : K \subseteq Loud => (Posted(K)' <=> Posted(K))
             /\ \A n \in Signals' : signals'[n].kind \in Loud =>
                   \E m \in Signals : signals[m] = signals'[n]
  <2> DEFINE s == [kind |-> k, blob |-> Default]
  <2>1. s.kind = k /\ s.kind \in SignalKinds \ Loud /\ signals' = Append(signals, s)
    BY <1>2 DEF SignalKinds, Loud, Tell
  <2> HIDE DEF s
  <2>2. /\ \A K : Posted(K)' <=> Posted(K) \/ s.kind \in K
        /\ \A n \in Signals' : (n \in Signals /\ signals'[n] = signals[n]) \/ signals'[n] = s
    BY <2>1, PostedMore
  <2> QED BY <2>1, <2>2
<1>3. ASSUME NEW k \in {"mismatch", "syncFailed", "resetFailed"}, Reported(k)
      PROVE  /\ \A K : K \subseteq Loud => (Posted(K)' <=> Posted(K))
             /\ \A n \in Signals' : signals'[n].kind \in Loud =>
                   \E m \in Signals : signals[m] = signals'[n]
  <2>1. k \notin Loud
    BY DEF Loud
  <2>2. /\ \A K : k \notin K => (Posted(K)' <=> Posted(K))
        /\ \A n \in Signals' : n + 1 \in Signals /\ signals'[n] = signals[n + 1]
    BY <1>3, PostedLess
  <2> QED BY <2>1, <2>2
<1> QED BY <1>1, <1>2, <1>3

LEMMA KeeperNext ==
  ASSUME LockInv, LockInv', KeeperInv, Next
  PROVE  KeeperInv'
<1>1. /\ "at" \in DOMAIN keeper
      /\ keeper.at \in {"idle", "find", "place", "bind", "save", "push"}
      /\ recording # NoKey => ~Keeping
      /\ ~crossed /\ Keeping => Writes(jobs) = {} /\ ~Posted(Loud)
  BY DEF KeeperInv
<1>2. /\ Working("write") => 1 \in Writes(jobs)
      /\ \A k \in {"connect", "compare", "connected", "pull", "push", "reset"} :
            Working(k) => ~Posted(Loud) /\ Writes(jobs) = {}
  BY Room
<1> USE DEF profiles, cable, window, recorder, history
(* What other than the record worker moves. *)
<1>3. ASSUME UNCHANGED keeper, recording' = recording \/ recording' = NoKey \/ ~Keeping,
             ~crossed' /\ Keeping => Writes(jobs') = {} /\ ~Posted(Loud)'
      PROVE  KeeperInv'
  BY <1>1, <1>3 DEF KeeperInv, Keeping
<1>4. ASSUME UNCHANGED keeper, recording' = recording \/ recording' = NoKey \/ ~Keeping,
             UNCHANGED <<jobs, signals, crossed>>
      PROVE  KeeperInv'
  <2>1. Posted(Loud)' <=> Posted(Loud)
    BY <1>4, QuietlyTold
  <2> QED BY <1>1, <1>3, <1>4, <2>1
<1>5. ASSUME UNCHANGED recorder, crossed' = (crossed \/ Keeping)
      PROVE  KeeperInv'
  BY <1>3, <1>5
(* What the record worker does. *)
<1>6. ASSUME keeper'.at \in {"idle", "find", "place", "bind", "save", "push"},
             "at" \in DOMAIN keeper', UNCHANGED <<jobs, signals, crossed, recording>>, Keeping
      PROVE  KeeperInv'
  <2>1. Posted(Loud)' <=> Posted(Loud)
    BY <1>6, QuietlyTold
  <2> QED BY <1>1, <1>6, <2>1 DEF KeeperInv, Keeping
<1>7. CASE \/ \E what \in {"edit", "file", "reset"} : OpenDialog(what)
           \/ Cancel \/ PollSeesLink \/ LeaveBoth \/ Disconnect
  BY <1>4, <1>7 DEF OpenDialog, Cancel, PollSeesLink, LeaveBoth, Disconnect
<1>8. CASE (\E k \in Keys : Edit(k)) \/ Drag \/ Settle \/ AdoptLocal \/ ResetAlone
  BY <1>5, <1>8 DEF Edit, Drag, Settle, AdoptLocal, ResetAlone, FinishReset
<1>9. CASE ResetReady \/ Adopt \/ Write \/ Compare \/ Pull \/ Push \/ ResetPad
  BY <1>5, <1>9 DEF ResetReady, FinishReset, Adopt, Write, Compare, Pull, Push, ResetPad
<1>10. CASE Connect \/ Answer \/ Reset
  <2>1. CASE \E kind \in {"connect", "pull", "push", "reset"} : jobs' = Append(jobs, Job(kind))
    <3>1. \A kind \in {"connect", "pull", "push", "reset"} : Job(kind).kind \in JobKinds \ {"write"}
      BY DEF Job, JobKinds
    <3>2. Writes(jobs') = Writes(jobs)
      BY <2>1, <3>1, JobWaits
    <3>3. UNCHANGED <<recorder, crossed, signals>>
      BY <1>10 DEF Connect, Answer, Reset
    <3>4. Posted(Loud)' <=> Posted(Loud)
      BY <3>3, QuietlyTold
    <3> QED BY <1>1, <1>3, <3>2, <3>3, <3>4
  <2>2. CASE UNCHANGED jobs
    BY <1>4, <1>10, <2>2 DEF Connect, Answer, Reset
  <2> QED BY <1>10, <2>1, <2>2 DEF Connect, Answer, Reset, Begin
<1>11. CASE AskSide \/ AskNot \/ ResetFailed \/ SyncFailed
  <2>1. UNCHANGED <<recorder, crossed, jobs>>
    BY <1>11 DEF AskSide, AskNot, ResetFailed, SyncFailed
  <2>2. UNCHANGED signals \/ \E k \in {"mismatch", "syncFailed", "resetFailed"} : Reported(k)
    BY <1>11 DEF AskSide, AskNot, ResetFailed, SyncFailed, Reported
  <2>3. Posted(Loud)' <=> Posted(Loud)
    BY <2>2, QuietlyTold
  <2> QED BY <1>1, <1>3, <2>1, <2>3
<1>12. CASE Synced
  <2>1. UNCHANGED <<recorder, crossed, jobs>> /\ Reported("synced")
    BY <1>12 DEF Synced
  <2>2. Posted(Loud)' => Posted(Loud)
    BY <2>1, PostedLess
  <2> QED BY <1>1, <1>3, <2>1, <2>2
<1>13. CASE WriteFails
  <2>1. UNCHANGED <<recorder, crossed>> /\ Working("write")
    BY <1>13 DEF WriteFails
  <2> QED BY <1>1, <1>2, <1>3, <2>1
<1>14. CASE Open \/ OpenUncompared \/ OpenFails \/ Connected \/ SyncBreaks \/ ResetBreaks
  <2>1. PICK kind \in {"connect", "connected", "pull", "push", "reset"} : Working(kind)
    BY <1>14 DEF Open, OpenUncompared, OpenFails, Connected, SyncBreaks, ResetBreaks
  <2>2. Done \/ \E x : x.kind \in {"compare", "connected"} /\ jobs' = <<x>> \o Tail(jobs)
    <3>1. Job("compare").kind = "compare"
      BY DEF Job
    <3> QED BY <1>14, <3>1 DEF Open, OpenUncompared, OpenFails, Connected, SyncBreaks, ResetBreaks
  <2>3. UNCHANGED <<recorder, crossed>>
    BY <1>14 DEF Open, OpenUncompared, OpenFails, Connected, SyncBreaks, ResetBreaks
  <2>4. UNCHANGED signals \/ \E k \in {"mismatch", "syncFailed", "resetFailed"} : Tell(k, Default)
    BY <1>14 DEF Open, OpenUncompared, OpenFails, Connected, SyncBreaks, ResetBreaks
  <2>5. Writes(jobs') = {}
    BY <2>1, <2>2, NoneWaits
  <2>6. Posted(Loud)' <=> Posted(Loud)
    BY <2>4, QuietlyTold
  <2> QED BY <1>2, <1>3, <2>1, <2>3, <2>5, <2>6
<1>15. CASE \E k \in Keys : Record(k)
  BY <1>4, <1>15 DEF Record
<1>16. CASE Dismiss \/ Abort \/ Unplug \/ Plug
  BY <1>4, <1>16 DEF Dismiss, Abort, Unplug, Plug
<1>17. CASE Finish
  <2>1. /\ keeper'.at = "find" /\ "at" \in DOMAIN keeper'
        /\ recording' = NoKey /\ UNCHANGED <<jobs, signals>>
    BY <1>17, KeeperGoes DEF Finish
  <2>2. ~crossed' => jobs = <<>> /\ signals = <<>>
    BY <1>17 DEF Finish
  <2>3. jobs = <<>> => Writes(jobs) = {}
    BY Unlocked, FirstOf DEF LockInv, QueueInv, Jobs
  <2>4. signals = <<>> => ~Posted(Loud)
    BY FirstOf DEF LockInv, QueueInv, Signals, Posted
  <2>5. Posted(Loud)' <=> Posted(Loud)
    BY <2>1, QuietlyTold
  <2> QED BY <2>1, <2>2, <2>3, <2>4, <2>5 DEF KeeperInv
<1>18. CASE Find
  BY <1>6, <1>18, KeeperGoes DEF Find
<1>19. CASE BindShortcut \/ Place \/ Bind
  BY <1>6, <1>19, KeeperGoes DEF BindShortcut, Place, Bind
<1>20. CASE KeepSave \/ KeepPush \/ KeepFails
  BY <1>6, <1>20, KeeperGoes DEF KeepSave, KeepPush, KeepFails
<1> QED
  BY <1>7, <1>8, <1>9, <1>10, <1>11, <1>12, <1>13, <1>14, <1>15, <1>16, <1>17, <1>18, <1>19, <1>20
     DEF Next, WindowActs, WorkerActs, KeeperActs

(* Four promises about what the pad holds: what MatchInv is made of.          *)
Agrees == Level \/ settling \/ keeper.at \in {"bind", "save", "push"}
Matched ==
    ~diverged /\ ~behind /\ ~Working("compare") /\ ~Posted({"adopt", "reset"}) => Agrees
Pushed == Posted({"synced"}) /\ ~behind => pad = mem \/ settling
Pulled == \A n \in Signals : signals[n].kind = "adopt" => pad = signals[n].blob
Cleared == Posted({"reset"}) => pad = Default

LEMMA MatchParts ==
  MatchInv <=> (link /\ ~crossed => Matched /\ Pushed /\ Pulled /\ Cleared)
  BY DEF MatchInv, Matched, Agrees, Pushed, Pulled, Cleared

LEMMA MatchPartsNext ==
  MatchInv' <=> (link' /\ ~crossed' => Matched' /\ Pushed' /\ Pulled' /\ Cleared')
<1>1. (MatchInv <=> (link /\ ~crossed => Matched /\ Pushed /\ Pulled /\ Cleared))'
  BY MatchParts, PTL
<1> QED BY <1>1

(* Nothing that counts is reported: the last three promise nothing.           *)
LEMMA NothingTold ==
  ASSUME ~Posted(Loud)
  PROVE  Pushed /\ Pulled /\ Cleared /\ ~Posted({"adopt", "reset"})
  BY DEF Posted, Loud, Pushed, Pulled, Cleared

LEMMA NothingToldNext ==
  ASSUME ~Posted(Loud)'
  PROVE  Pushed' /\ Pulled' /\ Cleared'
<1>1. (~Posted(Loud) => Pushed /\ Pulled /\ Cleared)'
  BY NothingTold, PTL
<1> QED BY <1>1

(* Reports aside, what leaves the profiles alone keeps the promises.          *)
LEMMA PromisesStay ==
  ASSUME LockInv, Pulled, Cleared, UNCHANGED pad,
         \/ UNCHANGED signals
         \/ \E k \in {"mismatch", "syncFailed", "resetFailed"} : Tell(k, Default) \/ Reported(k)
  PROVE  Pulled' /\ Cleared'
<1>1. /\ Posted({"reset"})' <=> Posted({"reset"})
      /\ \A n \in Signals' : signals'[n].kind = "adopt" => \E m \in Signals : signals[m] = signals'[n]
  BY QuietlyTold DEF Loud
<1> QED BY <1>1 DEF Pulled, Cleared

LEMMA LevelStays ==
  ASSUME Level, UNCHANGED <<mem, pad>>, Writes(jobs') = Writes(jobs),
         \A i \in Writes(jobs) : jobs'[i] = jobs[i]
  PROVE  Level'
  BY DEF Level

(* Nothing that bears on the promises moves, or a difference is noted.        *)
LEMMA MatchStays ==
  ASSUME LockInv, MatchInv, UNCHANGED <<mem, pad, settling, crossed>>, link' => link,
         Writes(jobs') = Writes(jobs), \A i \in Writes(jobs) : jobs'[i] = jobs[i],
         ~Working("compare")' => ~Working("compare"),
         ~diverged' => ~diverged, ~behind' => ~behind,
         keeper'.at = keeper.at \/ keeper.at \notin {"bind", "save", "push"},
         \/ UNCHANGED signals
         \/ \E k \in {"mismatch", "syncFailed", "resetFailed"} : Tell(k, Default) \/ Reported(k)
  PROVE  MatchInv'
<1>1. link' /\ ~crossed' => Matched /\ Pushed /\ Pulled /\ Cleared
  BY MatchParts
<1>2. \A K \in {{"adopt", "reset"}, {"synced"}} : Posted(K)' <=> Posted(K)
  BY QuietlyTold DEF Loud
<1>3. Level => Level'
  BY LevelStays
<1>4. Pulled /\ Cleared => Pulled' /\ Cleared'
  BY PromisesStay
<1>5. Matched => Matched'
  BY <1>2, <1>3 DEF Matched, Agrees
<1>6. Pushed => Pushed'
  BY <1>2 DEF Pushed
<1> QED BY <1>1, <1>4, <1>5, <1>6, MatchPartsNext

(* What the window does to the profiles.                                      *)
LEMMA MatchEdits ==
  ASSUME LockInv, LockInv', KeeperInv, MatchInv,
         (\E k \in Keys : Edit(k)) \/ Settle \/ Drag \/ AdoptLocal \/ ResetAlone
  PROVE  MatchInv'
<1>1. link /\ ~crossed => Matched /\ Pushed /\ Pulled /\ Cleared
  BY MatchParts
<1>2. /\ flags = {} => ~Posted(Loud)
      /\ flags \subseteq {"connecting"} => ~Posted({"adopt"}) /\ ~Posted({"synced"})
      /\ dialog \in {"edit", "file", "reset"} => flags \subseteq {"connecting"}
  BY Room DEF LockInv, FlagInv
<1> USE DEF profiles, cable, window, recorder, history
<1>3. ASSUME NEW p, NEW paid, Apply(p, paid), mem' = p, link, ~crossed,
             UNCHANGED <<pad, signals, link, diverged>>
      PROVE  Matched' /\ Pushed' /\ Pulled' /\ Cleared'
  <2>1. Pulled' /\ Cleared'
    BY <1>1, <1>3, PromisesStay
  <2>2. ~Posted(Loud) => Pushed'
    <3>1. ~Posted(Loud) => ~Posted(Loud)'
      BY <1>3, QuietlyTold
    <3> QED BY <3>1, NothingToldNext
  <2>3. CASE behind'
    BY <2>1, <2>3 DEF Matched, Pushed
  <2>4. CASE jobs' = Append(jobs, WriteJob(p)) /\ Pushes(p)
    <3>1. flags = {} /\ WriteJob(p).kind = "write" /\ WriteJob(p).blob = p
      BY <2>4 DEF Pushes, Busy, WriteJob
    <3>2. /\ Writes(jobs') # {}
          /\ \A i \in Writes(jobs') : (\A j \in Writes(jobs') : j <= i) => jobs'[i] = WriteJob(p)
      BY <2>4, <3>1, WriteWaits
    <3>3. Level'
      BY <1>3, <3>1, <3>2 DEF Level
    <3> QED BY <1>2, <2>1, <2>2, <3>1, <3>3 DEF Matched, Agrees
  <2>5. CASE ~Pushes(p) /\ ~behind'
    <3>1. ~Busy
      BY <1>3, <2>5 DEF Apply
    <3>2. diverged' /\ flags = {}
      BY <1>3, <2>5, <3>1 DEF Pushes, Busy
    <3> QED BY <1>2, <2>1, <2>2, <3>2 DEF Matched
  <2> QED BY <1>3, <2>3, <2>4, <2>5 DEF Apply
<1>4. CASE \E k \in Keys : Edit(k)
  <2>1. PICK k \in Keys : Edit(k)
    BY <1>4
  <2>2. PICK p :
           mem' = p /\ Apply(p, [used EXCEPT !.changes = @ + 1])
    BY <2>1 DEF Edit
  <2> QED BY <1>3, <2>1, <2>2, MatchPartsNext DEF Edit
<1>5. CASE Settle
  <2>1. Apply(mem, used) /\ mem' = mem
    BY <1>5 DEF Settle
  <2> QED BY <1>3, <1>5, <2>1, MatchPartsNext DEF Settle
<1>6. CASE Drag
  <2>1. UNCHANGED <<pad, signals, link>> /\ settling' /\ (~crossed' => ~crossed)
    BY <1>6 DEF Drag
  <2>2. link /\ ~crossed => Pulled' /\ Cleared'
    BY <1>1, <2>1, PromisesStay
  <2> QED BY <2>1, <2>2, MatchPartsNext DEF Matched, Agrees, Pushed
<1>7. CASE AdoptLocal
  <2>1. UNCHANGED <<pad, signals, link, jobs, settling, keeper, behind>> /\ (~crossed' => ~crossed)
        /\ flags \subseteq {"connecting"}
    BY <1>2, <1>7 DEF AdoptLocal
  <2>2. link /\ ~crossed => Pulled' /\ Cleared'
    BY <1>1, <2>1, PromisesStay
  <2>3. Pushed'
    <3>1. Posted({"synced"})' <=> Posted({"synced"})
      BY <2>1, QuietlyTold DEF Loud
    <3> QED BY <1>2, <2>1, <3>1 DEF Pushed
  <2>4. CASE diverged' = link
    BY <2>1, <2>2, <2>3, <2>4, MatchPartsNext DEF Matched
  <2>5. CASE UNCHANGED <<mem, diverged>>
    <3>1. Posted({"adopt", "reset"})' <=> Posted({"adopt", "reset"})
      BY <2>1, QuietlyTold DEF Loud
    <3>2. Matched => Matched'
      BY <2>1, <2>5, <3>1 DEF Matched, Agrees, Level, Working
    <3> QED BY <1>1, <2>1, <2>2, <2>3, <3>2, MatchPartsNext
  <2> QED BY <1>7, <2>4, <2>5 DEF AdoptLocal
<1>8. CASE ResetAlone
  <2>1. ~link'
    BY <1>8 DEF ResetAlone
  <2> QED BY <2>1, MatchPartsNext
<1> QED BY <1>4, <1>5, <1>6, <1>7, <1>8

(* What leaves the profiles alone: clicks, questions, and failures told.      *)
LEMMA MatchClicks ==
  ASSUME LockInv, LockInv', KeeperInv, MatchInv,
         \/ \E what \in {"edit", "file", "reset"} : OpenDialog(what)
         \/ Cancel \/ PollSeesLink \/ LeaveBoth \/ Disconnect \/ Connect
         \/ AskSide \/ AskNot \/ Answer \/ Reset \/ ResetFailed \/ SyncFailed
         \/ (\E k \in Keys : Record(k)) \/ Dismiss \/ Abort \/ Finish \/ Unplug \/ Plug
  PROVE  MatchInv'
<1>1. ~plugged => ~link
  BY DEF LockInv, FlagInv
<1> USE DEF profiles, cable, window, recorder, history
<1>2. UNCHANGED jobs => /\ Writes(jobs') = Writes(jobs) /\ \A i \in Writes(jobs) : jobs'[i] = jobs[i]
                        /\ Working("compare")' <=> Working("compare")
  BY DEF Working
<1>3. CASE \/ \E what \in {"edit", "file", "reset"} : OpenDialog(what)
           \/ Cancel \/ PollSeesLink \/ (\E k \in Keys : Record(k)) \/ Abort
  <2>1. UNCHANGED <<mem, pad, settling, crossed, link, jobs, diverged, behind, keeper, signals>>
    BY <1>3 DEF OpenDialog, Cancel, PollSeesLink, Record, Abort
  <2> QED BY <1>2, <2>1, MatchStays
<1>4. CASE LeaveBoth \/ Dismiss
  <2>1. UNCHANGED <<mem, pad, settling, crossed, link, jobs, behind, keeper, signals>>
        /\ (~diverged' => ~diverged)
    BY <1>4 DEF LeaveBoth, Dismiss
  <2> QED BY <1>2, <2>1, MatchStays
<1>5. CASE Disconnect \/ Connect \/ Unplug
  <2>1. ~link'
    BY <1>5 DEF Disconnect, Connect, Unplug
  <2> QED BY <2>1, MatchPartsNext
<1>6. CASE Plug
  <2>1. ~link'
    BY <1>1, <1>6 DEF Plug
  <2> QED BY <2>1, MatchPartsNext
<1>7. CASE AskSide \/ AskNot
  <2>1. UNCHANGED <<mem, pad, settling, crossed, link, jobs, diverged, behind, keeper>>
    BY <1>7 DEF AskSide, AskNot
  <2>2. UNCHANGED signals \/ Reported("mismatch")
    BY <1>7 DEF AskSide, AskNot, Reported
  <2> QED BY <1>2, <2>1, <2>2, MatchStays
<1>8. CASE ResetFailed
  <2>1. UNCHANGED <<mem, pad, settling, crossed, link, jobs, diverged, behind, keeper>>
        /\ Reported("resetFailed")
    BY <1>8 DEF ResetFailed
  <2> QED BY <1>2, <2>1, MatchStays
<1>9. CASE SyncFailed
  <2>1. UNCHANGED <<mem, pad, settling, crossed, link, jobs, behind, keeper>>
        /\ diverged' /\ Reported("syncFailed")
    BY <1>9 DEF SyncFailed
  <2> QED BY <1>2, <2>1, MatchStays
<1>10. CASE Answer \/ Reset
  <2>1. UNCHANGED <<mem, pad, settling, crossed, link, diverged, behind, keeper, signals>>
    BY <1>10 DEF Answer, Reset
  <2>2. UNCHANGED jobs \/ \E kind \in {"pull", "push", "reset"} : jobs' = Append(jobs, Job(kind))
    BY <1>10 DEF Answer, Reset, Begin
  <2>3. \A kind \in {"pull", "push", "reset"} :
           Job(kind).kind \in JobKinds \ {"write"} /\ Job(kind).kind # "compare"
    BY DEF Job, JobKinds
  <2>4. /\ Writes(jobs') = Writes(jobs) /\ \A i \in Writes(jobs) : jobs'[i] = jobs[i]
        /\ Working("compare")' <=> Working("compare")
    BY <1>2, <2>2, <2>3, JobWaits
  <2> QED BY <2>1, <2>4, MatchStays
<1>11. CASE Finish
  <2>1. keeper'.at = "find"
    BY <1>11, KeeperGoes DEF Finish
  <2>2. CASE crossed'
    BY <2>2, MatchPartsNext
  <2>3. CASE ~crossed'
    <3>1. UNCHANGED <<mem, pad, settling, link, jobs, diverged, behind, signals>>
      BY <1>11 DEF Finish
    <3>2. ~crossed /\ jobs = <<>> /\ signals = <<>>
      BY <1>11, <2>3 DEF Finish
    <3>3. keeper.at \notin {"bind", "save", "push"}
      BY <1>11, KeeperGoes DEF Finish, KeeperInv
    <3>4. ~Posted(Loud)
      BY <3>2, FirstOf DEF LockInv, QueueInv, Signals, Posted
    <3>5. ~Posted(Loud)'
      BY <3>1, <3>4, QuietlyTold
    <3>6. link => Matched'
      BY <3>1, <3>2, <3>3, <3>4, MatchParts, NothingTold DEF Matched, Agrees, Level, Working
    <3> QED BY <3>1, <3>5, <3>6, NothingToldNext, MatchPartsNext
  <2> QED BY <2>2, <2>3
<1> QED
  BY <1>3, <1>4, <1>5, <1>6, <1>7, <1>8, <1>9, <1>10, <1>11

(* What the worker's reports make of the profiles.                            *)
LEMMA MatchReports ==
  ASSUME LockInv, LockInv', KeeperInv, MatchInv, ResetReady \/ Adopt \/ Synced
  PROVE  MatchInv'
<1>1. link /\ ~crossed => Matched /\ Pushed /\ Pulled /\ Cleared
  BY MatchParts
<1>2. /\ Posted(Loud) => Writes(jobs) = {}
      /\ Posted({"reset"}) => ~Posted({"adopt"}) /\ ~Posted({"synced"})
      /\ Posted({"adopt"}) \/ Posted({"synced"}) => ~Posted({"reset"})
  <2>1. /\ Posted({"adopt"}) \/ Posted({"synced"}) => Posted(SignalsOf["syncing"])
        /\ Posted({"reset"}) => Posted(SignalsOf["resetting"])
    BY DEF Posted, SignalsOf
  <2>2. /\ Posted(SignalsOf["syncing"]) => "syncing" \in flags
        /\ Posted(SignalsOf["resetting"]) => "resetting" \in flags
    BY Unlocked, FlagNames DEF Sole, Posted
  <2>3. "syncing" \in flags => flags = {"syncing"}
    BY DEF LockInv, FlagInv
  <2> QED BY <2>1, <2>2, <2>3, Room
<1> USE DEF profiles, cable, window, recorder, history
<1>3. ASSUME NEW kind \in Loud, Reported(kind)
      PROVE  /\ Posted({kind}) /\ Writes(jobs) = {} /\ ~Posted(Loud)'
  <2>1. PICK f \in Flags : kind \in SignalsOf[f]
    BY FlagNames DEF Loud, SignalsOf
  <2>2. ~Posted(SignalsOf[f])'
    BY <1>3, <2>1, LastReport
  <2>3. Posted({kind}) /\ Posted(Loud) /\ \A K : Posted(K)' => Posted(K)
    BY <1>3, PostedLess DEF Posted
  <2>4. CASE kind = "reset"
    <3>1. ~Posted({"adopt"})' /\ ~Posted({"synced"})' /\ ~Posted({"reset"})'
      <4>1. f = "resetting"
        BY <2>1, <2>4 DEF Flags, SignalsOf
      <4>2. ~Posted({"reset"})'
        BY <2>2, <4>1 DEF Posted, SignalsOf
      <4> QED BY <1>2, <2>3, <2>4, <4>2
    <3> QED BY <1>2, <2>3, <3>1 DEF Posted, Loud
  <2>5. CASE kind \in {"adopt", "synced"}
    <3>1. ~Posted({"adopt"})' /\ ~Posted({"synced"})' /\ ~Posted({"reset"})'
      <4>1. f = "syncing"
        BY <2>1, <2>5 DEF Flags, SignalsOf
      <4>2. ~Posted({"adopt"})' /\ ~Posted({"synced"})'
        BY <2>2, <4>1 DEF Posted, SignalsOf
      <4>3. Posted({"adopt"}) \/ Posted({"synced"})
        BY <2>3, <2>5
      <4> QED BY <1>2, <2>3, <4>2, <4>3
    <3> QED BY <1>2, <2>3, <3>1 DEF Posted, Loud
  <2> QED BY <1>2, <2>3, <2>4, <2>5 DEF Loud
<1>4. ASSUME NEW kind \in Loud, Reported(kind), UNCHANGED <<pad, jobs, link>>,
             ~crossed' => ~crossed,
             link /\ ~crossed /\ ~behind' => pad = mem' \/ settling'
      PROVE  MatchInv'
  <2>1. Writes(jobs') = {}
    BY <1>3, <1>4
  <2>2. link' /\ ~crossed' => Matched'
    BY <1>4, <2>1 DEF Matched, Agrees, Level
  <2> QED BY <1>3, <1>4, <2>2, NothingToldNext, MatchPartsNext
<1>5. CASE ResetReady
  <2>1. link /\ ~crossed => pad = Default
    BY <1>1, <1>3, <1>5 DEF ResetReady, Loud, Cleared
  <2>2. mem' = Default /\ UNCHANGED <<pad, jobs, link>> /\ (~crossed' => ~crossed)
        /\ Reported("reset")
    BY <1>5 DEF ResetReady, FinishReset
  <2> QED BY <1>4, <2>1, <2>2 DEF Loud
<1>6. CASE Adopt
  <2>1. 1 \in Signals /\ Head(signals) = signals[1] /\ signals[1].kind = "adopt"
    BY <1>6, PostedLess DEF Adopt
  <2>2. link /\ ~crossed => pad = Head(signals).blob
    BY <1>1, <2>1 DEF Pulled
  <2>3. mem' = Head(signals).blob /\ UNCHANGED <<pad, jobs, link>> /\ (~crossed' => ~crossed)
        /\ Reported("adopt")
    BY <1>6 DEF Adopt
  <2> QED BY <1>4, <2>2, <2>3 DEF Loud
<1>7. CASE Synced
  <2>1. Posted({"synced"})
    BY <1>3, <1>7 DEF Synced, Loud
  <2>2. link /\ ~crossed /\ ~behind => pad = mem \/ settling
    BY <1>1, <2>1 DEF Pushed
  <2>3. UNCHANGED <<mem, settling, behind, crossed, pad, jobs, link>> /\ Reported("synced")
    BY <1>7 DEF Synced
  <2> QED BY <1>4, <2>2, <2>3 DEF Loud
<1> QED BY <1>5, <1>6, <1>7

(* What the worker puts on the pad, reads from it, or fails to.               *)
LEMMA MatchWrites ==
  ASSUME LockInv, LockInv', KeeperInv, MatchInv, Write \/ WriteFails
  PROVE  MatchInv'
<1>1. link /\ ~crossed => Matched
  BY MatchParts
<1> USE DEF profiles, cable, window, recorder, history
<1>2. Working("write") /\ Done /\ UNCHANGED <<signals, mem, settling, keeper, diverged, link>>
  BY DEF Write, WriteFails
<1>3. ~Posted(Loud) /\ ~Posted(Loud)'
  BY <1>2, Room, QuietlyTold
<1>4. /\ 1 \in Writes(jobs) /\ Head(jobs) = jobs[1]
      /\ \A i \in Writes(jobs') : i + 1 \in Writes(jobs) /\ jobs'[i] = jobs[i + 1]
                                  /\ i \in Int /\ i + 1 # 1
      /\ \A i \in Writes(jobs) : i \in Int
           /\ (i = 1 \/ (i - 1 \in Writes(jobs') /\ jobs'[i - 1] = jobs[i]))
      /\ ~Working("compare")
  BY <1>2, WriteGoes
<1>5. CASE WriteFails
  <2>1. behind'
    BY <1>5 DEF WriteFails
  <2>2. Matched'
    BY <2>1 DEF Matched
  <2> QED BY <1>3, <2>2, NothingToldNext, MatchPartsNext
<1>6. CASE Write
  <2>1. /\ pad' = jobs[1].blob
        /\ behind' <=> behind /\ (jobs[1].blob # mem \/ Writes(jobs) # {1})
        /\ ~crossed' => ~crossed /\ ~Keeping
        /\ link
    BY <1>4, <1>6 DEF Write
  <2> SUFFICES ASSUME ~crossed, ~Keeping, ~diverged, ~behind', ~settling
               PROVE  Level'
    BY <1>2, <1>3, <2>1, NothingToldNext, MatchPartsNext DEF Matched, Agrees
  <2>2. CASE behind
    <3>1. jobs[1].blob = mem /\ Writes(jobs) = {1}
      BY <2>1, <2>2
    <3>2. Writes(jobs') = {}
      BY <1>4, <3>1
    <3> QED BY <1>2, <2>1, <3>1, <3>2 DEF Level
  <2>3. CASE ~behind
    <3>1. Level
      <4>1. keeper.at \notin {"bind", "save", "push"}
        BY KeeperGoes
      <4>2. ~Posted({"adopt", "reset"})
        BY <1>3, NothingTold
      <4> QED BY <1>1, <1>4, <2>1, <2>3, <4>1, <4>2 DEF Matched, Agrees
    <3>2. ASSUME Writes(jobs') = {} PROVE pad' = mem'
      <4>1. \A j \in Writes(jobs) : j <= 1
        BY <1>4, <3>2
      <4> QED BY <1>2, <1>4, <2>1, <3>1, <4>1 DEF Level
    <3>3. ASSUME NEW i \in Writes(jobs'), \A j \in Writes(jobs') : j <= i
          PROVE  jobs'[i].blob = mem'
      <4>1. i \in Int /\ i + 1 \in Writes(jobs) /\ jobs'[i] = jobs[i + 1]
        BY <1>4
      <4>2. ASSUME NEW j \in Writes(jobs) PROVE j <= i + 1
        <5>1. CASE j # 1
          <6>1. j - 1 <= i /\ j \in Int
            BY <1>4, <3>3, <5>1
          <6> QED BY <4>1, <6>1
        <5>2. CASE j = 1
          <6>1. IsQueue(jobs')
            BY DEF LockInv, QueueInv
          <6>2. i \in 1 .. Len(jobs')
            BY <6>1, WritesNext DEF Jobs
          <6>3. Len(jobs') \in Nat
            <7>1. IsQueue(jobs') => Len(jobs') \in Nat
              BY FirstOf
            <7> QED BY <6>1, <7>1
          <6> QED BY <5>2, <6>2, <6>3
        <5> QED BY <5>1, <5>2
      <4> QED BY <1>2, <3>1, <4>1, <4>2 DEF Level
    <3> QED BY <3>2, <3>3 DEF Level
  <2> QED BY <2>2, <2>3
<1> QED BY <1>5, <1>6

LEMMA MatchConnects ==
  ASSUME LockInv, LockInv', KeeperInv, MatchInv,
         Open \/ OpenUncompared \/ OpenFails \/ Compare \/ Connected
  PROVE  MatchInv'
<1> USE DEF profiles, cable, window, recorder, history
<1>1. PICK kind \in {"connect", "compare", "connected"} : Working(kind)
  BY DEF Open, OpenUncompared, OpenFails, Compare, Connected
<1>2. Done \/ \E x : x.kind \in {"compare", "connected"} /\ jobs' = <<x>> \o Tail(jobs)
  <2>1. Job("compare").kind = "compare" /\ Job("connected").kind = "connected"
    BY DEF Job
  <2>2. CASE Open \/ Compare
    BY <2>1, <2>2 DEF Open, Compare
  <2>3. CASE OpenUncompared \/ OpenFails \/ Connected
    BY <2>3 DEF OpenUncompared, OpenFails, Connected
  <2> QED BY <2>2, <2>3
<1>3. Writes(jobs) = {} /\ Writes(jobs') = {} /\ ~Posted(Loud)
  BY <1>1, <1>2, NoneWaits, Room
<1>4. UNCHANGED signals \/ Tell("mismatch", Default)
  BY DEF Open, OpenUncompared, OpenFails, Compare, Connected
<1>5. ~Posted(Loud)'
  BY <1>3, <1>4, QuietlyTold
<1>6. CASE Open
  <2>1. Working("compare")'
    <3>1. Job("compare").kind = "compare" /\ "compare" \in JobKinds
      BY DEF Job, JobKinds
    <3> QED BY <1>6, <3>1, JobsGoOn DEF Open, Working
  <2>2. Matched'
    BY <2>1 DEF Matched
  <2> QED BY <1>5, <2>2, NothingToldNext, MatchPartsNext
<1>7. CASE OpenFails
  <2>1. ~link'
    BY <1>7, Room DEF OpenFails
  <2> QED BY <2>1, MatchPartsNext
<1>10. CASE OpenUncompared
  <2>1. Matched'
    BY <1>10 DEF OpenUncompared, Matched
  <2> QED BY <1>5, <2>1, NothingToldNext, MatchPartsNext
<1>8. CASE Compare
  <2>1. ~diverged' => pad' = mem'
    BY <1>8 DEF Compare
  <2>2. Matched'
    BY <1>3, <2>1 DEF Matched, Agrees, Level
  <2> QED BY <1>5, <2>2, NothingToldNext, MatchPartsNext
<1>9. CASE Connected
  <2>1. UNCHANGED <<mem, pad, settling, crossed, link, diverged, behind, keeper>>
    BY <1>9 DEF Connected
  <2>2. ~Working("compare")
    BY <1>9 DEF Connected, Working
  <2> QED BY <1>3, <1>4, <2>1, <2>2, MatchStays
<1> QED BY <1>6, <1>7, <1>8, <1>9, <1>10

LEMMA MatchTransfers ==
  ASSUME LockInv, LockInv', KeeperInv, MatchInv,
         Pull \/ Push \/ SyncBreaks \/ ResetPad \/ ResetBreaks
  PROVE  MatchInv'
<1> USE DEF profiles, cable, window, recorder, history
<1>1. PICK kind \in {"pull", "push", "reset"} : Working(kind) /\ Done
  BY DEF Pull, Push, SyncBreaks, ResetPad, ResetBreaks
<1>2. Writes(jobs) = {} /\ Writes(jobs') = {} /\ ~Posted(Loud) /\ ~Working("compare")
  <2>1. ~Working("compare")
    BY <1>1 DEF Working
  <2> QED BY <1>1, <2>1, NoneWaits, Room
<1>3. ASSUME NEW k \in {"adopt", "synced", "reset"}, NEW p, Tell(k, p)
      PROVE  /\ \A K : Posted(K)' <=> Posted(K) \/ k \in K
             /\ \A n \in Signals' : signals'[n].kind = "adopt" => k = "adopt" /\ signals'[n].blob = p
  <2> DEFINE s == [kind |-> k, blob |-> p]
  <2>1. s.kind = k /\ s.blob = p /\ s.kind \in SignalKinds /\ signals' = Append(signals, s)
    BY <1>3 DEF SignalKinds, Tell
  <2> HIDE DEF s
  <2>2. /\ \A K : Posted(K)' <=> Posted(K) \/ s.kind \in K
        /\ \A n \in Signals' : (n \in Signals /\ signals'[n] = signals[n]) \/ signals'[n] = s
    BY <2>1, PostedMore
  <2>3. \A n \in Signals : signals[n].kind # "adopt"
    BY <1>2 DEF Posted, Loud
  <2> QED BY <2>1, <2>2, <2>3
<1>4. \A k \in Loud : ~Posted({k})
  BY <1>2 DEF Posted
<1>5. CASE Pull
  <2>1. Tell("adopt", pad) /\ UNCHANGED pad
    BY <1>5 DEF Pull
  <2>2. Posted({"adopt"})' /\ ~Posted({"synced"})' /\ ~Posted({"reset"})' /\ Pulled'
    BY <1>3, <1>4, <2>1 DEF Loud, Pulled
  <2>3. Matched'
    BY <2>2 DEF Matched, Posted
  <2> QED BY <2>2, <2>3, MatchPartsNext DEF Pushed, Cleared
<1>6. CASE Push
  <2>1. Tell("synced", Default) /\ pad' = mem /\ mem' = mem
    BY <1>6 DEF Push
  <2>2. ~Posted({"adopt"})' /\ ~Posted({"reset"})' /\ Pulled'
    BY <1>3, <1>4, <2>1 DEF Loud, Pulled
  <2>3. Matched'
    BY <1>2, <2>1 DEF Matched, Agrees, Level
  <2> QED BY <2>1, <2>2, <2>3, MatchPartsNext DEF Pushed, Cleared
<1>7. CASE ResetPad
  <2>1. Tell("reset", Default) /\ pad' = Default
    BY <1>7 DEF ResetPad
  <2>2. Posted({"reset"})' /\ ~Posted({"synced"})' /\ Pulled'
    BY <1>3, <1>4, <2>1 DEF Loud, Pulled
  <2>3. Matched'
    BY <2>2 DEF Matched, Posted
  <2> QED BY <2>1, <2>2, <2>3, MatchPartsNext DEF Pushed, Cleared
<1>8. CASE SyncBreaks \/ ResetBreaks
  <2>1. \E k \in {"syncFailed", "resetFailed"} : Tell(k, Default)
    BY <1>8 DEF SyncBreaks, ResetBreaks
  <2>2. ~Posted(Loud)'
    BY <1>2, <2>1, QuietlyTold
  <2>3. CASE UNCHANGED pad
    <3>1. UNCHANGED <<mem, settling, crossed, link, diverged, keeper>>
      BY <1>8 DEF SyncBreaks, ResetBreaks
    <3>2. behind' = behind \/ behind' = (behind \/ pad' # pad)
      BY <1>8 DEF SyncBreaks, ResetBreaks
    <3>3. ~behind' => ~behind
      BY <3>2, Zenon
    <3> QED BY <1>2, <2>1, <2>3, <3>1, <3>3, MatchStays
  <2>4. CASE pad' # pad
    <3>1. behind'
      BY <1>8, <2>4 DEF SyncBreaks, ResetBreaks
    <3>2. Matched'
      BY <3>1 DEF Matched
    <3> QED BY <2>2, <3>2, NothingToldNext, MatchPartsNext
  <2> QED BY <2>3, <2>4
<1> QED BY <1>5, <1>6, <1>7, <1>8

(* What the record worker does to the profiles.                               *)
LEMMA MatchKeeps ==
  ASSUME LockInv, LockInv', KeeperInv, KeeperInv', MatchInv, KeeperActs
  PROVE  MatchInv'
<1>1. link /\ ~crossed => Matched /\ Pushed /\ Pulled /\ Cleared
  BY MatchParts
<1>2. ~crossed /\ Keeping => Writes(jobs) = {} /\ ~Posted(Loud)
  BY DEF KeeperInv
<1> USE DEF profiles, cable, window, recorder, history
<1>3. UNCHANGED <<jobs, signals, link, crossed, diverged, settling>>
  BY DEF KeeperActs, Find, BindShortcut, Place, Bind, KeepSave, KeepPush, KeepFails
<1>4. /\ Writes(jobs') = Writes(jobs) /\ \A i \in Writes(jobs) : jobs'[i] = jobs[i]
      /\ Working("compare")' <=> Working("compare")
  BY <1>3 DEF Working
<1>5. Keeping
  BY KeeperGoes DEF KeeperActs, Find, BindShortcut, Place, Bind, KeepSave, KeepPush, KeepFails
<1>6. ~crossed => ~Posted(Loud)'
  BY <1>2, <1>3, <1>5, QuietlyTold
<1>7. CASE Find
  <2>1. UNCHANGED <<mem, pad, behind>> /\ keeper'.at \notin {"bind", "save", "push"}
        /\ keeper.at = "find"
    BY <1>7, KeeperGoes DEF Find
  <2>2. keeper'.at = keeper.at \/ keeper.at \notin {"bind", "save", "push"}
    BY <2>1
  <2> QED BY <1>3, <1>4, <2>1, <2>2, MatchStays
<1>8. CASE BindShortcut \/ Place \/ Bind \/ KeepSave
  <2>1. keeper'.at \in {"bind", "save", "push"}
    BY <1>8, KeeperGoes DEF BindShortcut, Place, Bind, KeepSave
  <2>2. Matched'
    BY <2>1 DEF Matched, Agrees
  <2> QED BY <1>3, <1>6, <2>2, NothingToldNext, MatchPartsNext
<1>9. CASE KeepPush
  <2>1. pad' = mem /\ mem' = mem
    BY <1>9 DEF KeepPush
  <2>2. ~crossed => Matched'
    BY <1>2, <1>4, <1>5, <2>1 DEF Matched, Agrees, Level
  <2> QED BY <1>3, <1>6, <2>2, NothingToldNext, MatchPartsNext
<1>10. CASE KeepFails
  <2>1. behind'
    BY <1>10 DEF KeepFails
  <2>2. Matched'
    BY <2>1 DEF Matched
  <2> QED BY <1>3, <1>6, <2>2, NothingToldNext, MatchPartsNext
<1> QED BY <1>7, <1>8, <1>9, <1>10 DEF KeeperActs

---------------------------------------------------------------------------
(* The invariant and what follows from it                                    *)

LEMMA IInvInit == Init => IInv
<1> SUFFICES ASSUME Init PROVE IInv
  OBVIOUS
<1>1. LockInv
  BY LockInit
<1>2. /\ ~link /\ disk = mem /\ keeper = Idle /\ recording = NoKey
  BY DEF Init
<1>3. StrangeInv /\ FileInv /\ MatchInv
  BY <1>2 DEF StrangeInv, FileInv, MatchInv
<1>4. KeeperInv
  BY <1>2 DEF KeeperInv, Keeping, Idle
<1> QED BY <1>1, <1>3, <1>4 DEF IInv, LockInv

LEMMA MatchNext ==
  ASSUME LockInv, LockInv', KeeperInv, KeeperInv', MatchInv, Next
  PROVE  MatchInv'
<1> SUFFICES
      \/ (\E k \in Keys : Edit(k)) \/ Settle \/ Drag \/ AdoptLocal \/ ResetAlone
      \/ \/ \E what \in {"edit", "file", "reset"} : OpenDialog(what)
         \/ Cancel \/ PollSeesLink \/ LeaveBoth \/ Disconnect \/ Connect
         \/ AskSide \/ AskNot \/ Answer \/ Reset \/ ResetFailed \/ SyncFailed
         \/ (\E k \in Keys : Record(k)) \/ Dismiss \/ Abort \/ Finish \/ Unplug \/ Plug
      \/ ResetReady \/ Adopt \/ Synced
      \/ Write \/ WriteFails
      \/ Open \/ OpenUncompared \/ OpenFails \/ Compare \/ Connected
      \/ Pull \/ Push \/ SyncBreaks \/ ResetPad \/ ResetBreaks
      \/ KeeperActs
  BY MatchEdits, MatchClicks, MatchReports, MatchWrites, MatchConnects, MatchTransfers, MatchKeeps
<1> QED BY DEF Next, WindowActs, WorkerActs

LEMMA IInvNext == IInv /\ [Next]_vars => IInv'
<1> SUFFICES ASSUME IInv, [Next]_vars PROVE IInv'
  OBVIOUS
<1>1. LockInv /\ LockInv'
  BY LockNext DEF IInv, LockInv
<1>2. CASE UNCHANGED vars
  BY <1>1, <1>2
     DEF vars, profiles, cable, window, recorder, history, IInv, LockInv, StrangeInv, FileInv,
         KeeperInv, MatchInv, Level, Posted, Signals, Working, Keeping
<1>3. CASE Next
  <2>1. StrangeInv' /\ FileInv' /\ KeeperInv'
    BY <1>1, <1>3, StrangeNext, FileNext, KeeperNext DEF IInv
  <2>2. MatchInv'
    BY <1>1, <1>3, <2>1, MatchNext DEF IInv
  <2> QED BY <1>1, <2>1, <2>2 DEF IInv, LockInv
<1> QED BY <1>2, <1>3

LEMMA Invariant == Spec => []IInv
  BY IInvInit, IInvNext, PTL DEF Spec

(* No lock is forgotten: whatever fails, and whenever the link ends, the job   *)
(* or the report that gives the editor back is still to come                  *)
(* (_set_editing_enabled, _finish_sync, _finish_reset).                       *)
THEOREM LocksComeOff == Spec => []LocksAreOwned
<1>1. IInv => LocksAreOwned
  BY DEF IInv, OwnerInv
<1> QED BY <1>1, Invariant, PTL

(* The file has what the editor shows whenever all is quiet and the last save *)
(* did not fail (_apply, _adopt_profile, _finish_reset, assign_recording).    *)
THEOREM SavedWhenQuiet == Spec => []FileKeepsUp
<1>1. IInv => FileKeepsUp
  <2> SUFFICES ASSUME IInv, Quiet, ~unsaved PROVE disk = mem
    BY DEF FileKeepsUp
  <2>1. keeper.at = "idle" /\ ~settling
    BY DEF Quiet, Keeping
  <2> QED BY <2>1 DEF IInv, FileInv
<1> QED BY <1>1, Invariant, PTL

(* The pad runs what the editor shows whenever all is quiet and neither a      *)
(* difference nor a failure was told: however edits, sliders, imports, syncs,  *)
(* resets, recordings, the queue and the cable interleave.                     *)
THEOREM ShownIsOnThePad == Spec => []MatchShown
<1>1. IInv => MatchShown
  <2> SUFFICES ASSUME IInv, Quiet, link, ~diverged, ~behind, ~crossed PROVE pad = mem
    BY DEF MatchShown
  <2>1. keeper.at = "idle" /\ ~settling /\ jobs = <<>> /\ signals = <<>>
    BY DEF Quiet, Keeping
  <2>2. LockInv
    BY DEF IInv, LockInv
  <2>3. ~Posted({"adopt", "reset"}) /\ ~Working("compare") /\ Writes(jobs) = {}
    BY <2>1, <2>2, FirstOf, Unlocked
       DEF LockInv, QueueInv, Posted, Signals, Jobs, Working
  <2> QED BY <2>1, <2>3 DEF IInv, MatchInv, Level
<1> QED BY <1>1, Invariant, PTL

(* A profile this computer never saw is written over only by a choice (or by   *)
(* the record worker): what an edit queued can never do it, however long it    *)
(* waited and whatever was plugged in meanwhile (_apply, compare_with_device). *)
(* The link must have been compared: a connect that fails to save the settings *)
(* leaves one that was not.                                                    *)
THEOREM NeverUnasked == Spec => AskedFirst
<1>1. IInv /\ [Next]_vars =>
        [strange /\ ~uncompared /\ pad' # pad
           => Working("push") \/ Working("reset") \/ keeper.at = "push" \/ ~plugged]_vars
  <2> SUFFICES ASSUME IInv, Next, strange, ~uncompared, pad' # pad
               PROVE  Working("push") \/ Working("reset") \/ keeper.at = "push" \/ ~plugged
    BY DEF vars, profiles
  <2>1. CASE Write
    <3>1. LockInv /\ link /\ Working("write")
      BY <2>1 DEF IInv, LockInv, Write
    <3>2. 1 \in Writes(jobs)
      BY <3>1, Room
    <3> QED BY <3>1, <3>2 DEF IInv, StrangeInv
  <2>2. CASE Push \/ ResetPad \/ ResetBreaks \/ KeepPush \/ Plug
    BY <2>2 DEF Push, ResetPad, ResetBreaks, KeepPush, Plug, Keeps
  <2>3. CASE \/ \E what \in {"edit", "file", "reset"} : OpenDialog(what)
             \/ (\E k \in Keys : Edit(k))
             \/ Cancel \/ Drag \/ Settle \/ AdoptLocal
             \/ Connect \/ PollSeesLink \/ Disconnect \/ AskSide \/ Answer \/ LeaveBoth
             \/ Reset \/ ResetAlone
    BY <2>3 DEF profiles, OpenDialog, Edit, Cancel, Drag, Settle, AdoptLocal, Connect, PollSeesLink,
                Disconnect, AskSide, Answer, LeaveBoth, Reset, ResetAlone
  <2>4. CASE WindowActs
    BY <2>4 DEF profiles, WindowActs, AskNot, ResetReady, ResetFailed, Adopt, Synced, SyncFailed
  <2>5. CASE WriteFails \/ Open \/ OpenUncompared \/ OpenFails \/ Compare \/ Connected \/ Pull \/ SyncBreaks
    BY <2>5 DEF profiles, WriteFails, Open, OpenUncompared, OpenFails, Compare, Connected, Pull, SyncBreaks
  <2>6. CASE (\E k \in Keys : Record(k)) \/ Dismiss \/ Finish \/ Abort \/ Unplug
    BY <2>6 DEF profiles, Record, Dismiss, Finish, Abort, Unplug
  <2>7. CASE Find \/ BindShortcut \/ Place \/ Bind \/ KeepSave \/ KeepFails
    BY <2>7 DEF profiles, Find, BindShortcut, Place, Bind, KeepSave, KeepFails
  <2> QED BY <2>1, <2>2, <2>3, <2>4, <2>5, <2>6, <2>7 DEF Next, WorkerActs, KeeperActs
<1> QED BY <1>1, Invariant, PTL DEF Spec, AskedFirst

--------------------------------------------------------------------------------
(* What a profile is like whose keys keep their macros: a binding that plays  *)
(* a slot has that slot to itself and finds a macro there, no other slot has  *)
(* one, and what there is fits the pool.                                     *)
IsMacro(m) == m = NoMacro \/ m = Recorded(m[2]) \/ m = Wrapped(m[2])
IsBinding(b) ==
    /\ b = [kind |-> b.kind, shortcut |-> b.shortcut, slot |-> b.slot, passes |-> b.passes]
    /\ \/ b.kind \in {"none", "key"} /\ b.slot = NoSlot
       \/ b.kind = "sequence" /\ b.slot \in MacroSlot
IsProfile(p) ==
    /\ p = [keys |-> p.keys, macros |-> p.macros, light |-> p.light]
    /\ p.keys = [k \in Keys |-> p.keys[k]] /\ \A k \in Keys : IsBinding(p.keys[k])
    /\ p.macros = [s \in MacroSlot |-> p.macros[s]]
    /\ \A s \in MacroSlot : IsMacro(p.macros[s])
Plays(p, k) == p.keys[k].kind = "sequence"
SlotsKept(p) ==
    /\ \A k \in Keys : Plays(p, k) => p.macros[p.keys[k].slot] # NoMacro
    /\ \A j, k \in Keys : Plays(p, j) /\ Plays(p, k) /\ p.keys[j].slot = p.keys[k].slot => j = k
Fits(p) == UsedRecords(p, NoSlot) <= PoolRecords
NoneLeft(p) == \A s \in MacroSlot : p.macros[s] # NoMacro => s \in Referenced(p)
Sound(p) == IsProfile(p) /\ SlotsKept(p) /\ Fits(p) /\ NoneLeft(p)

(* The least element is what a search for the first slot returns.            *)
LEMMA LeastExists ==
  ASSUME NEW S \in SUBSET Nat, S # {}
  PROVE  \E m \in S : \A k \in S : m <= k
<1> PICK n \in S : TRUE
  OBVIOUS
<1>1. \A k \in S : k \in Nat
  OBVIOUS
<1> DEFINE Below(k) == {j \in S : j <= k}
           F == {T \in SUBSET (0 .. n) : \E k \in S : T = Below(k)}
           R == StrictSubsetOrdering(0 .. n)
<1>2. IsWellFoundedOn(R, SUBSET (0 .. n))
  <2>1. IsFiniteSet(0 .. n)
    BY <1>1, FS_Interval
  <2>2. FiniteSubsetsOf(0 .. n) = SUBSET (0 .. n)
    BY <2>1, FS_FiniteSubsetsOfFinite
  <2> QED BY <2>2, FS_StrictSubsetOrderingWellFounded
<1>3. \A T, U \in SUBSET (0 .. n) : T \subseteq U /\ T # U => <<T, U>> \in R
  BY DEF StrictSubsetOrdering
<1>4. \A k, j : j \in Below(k) <=> j \in S /\ j <= k
  OBVIOUS
<1> HIDE DEF Below
<1>5. Below(n) \subseteq 0 .. n
  <2>1. ASSUME NEW j \in Below(n) PROVE j \in 0 .. n
    <3>1. j \in S /\ j <= n
      BY <1>4
    <3> QED BY <1>1, <3>1
  <2> QED BY <2>1
<1> HIDE DEF R
<1>6. F \subseteq SUBSET (0 .. n) /\ Below(n) \in F
  <2> QED BY <1>5
<1>7. PICK T \in F : \A U \in F : ~ (<<U, T>> \in R)
  <2> HIDE DEF F
  <2> QED BY <1>2, <1>6, WFMin
<1>8. PICK m \in S : T = Below(m)
  <2> QED BY <1>7
<1>9. ASSUME NEW k \in S, k < m PROVE FALSE
  <2>1. Below(k) \subseteq Below(m) /\ m \in Below(m) /\ m \notin Below(k)
    <3>1. ASSUME NEW j \in Below(k) PROVE j \in Below(m)
      <4>1. j \in S /\ j <= k
        BY <1>4
      <4>2. j <= m
        BY <1>1, <1>9, <4>1
      <4> QED BY <1>4, <4>1, <4>2
    <3>2. m <= m /\ ~ (m <= k)
      BY <1>1, <1>9
    <3> QED BY <1>4, <3>1, <3>2
  <2>2. Below(k) \in F
    BY <1>6, <1>7, <1>8, <2>1
  <2> HIDE DEF F
  <2> QED BY <1>3, <1>6, <1>7, <1>8, <2>1, <2>2
<1> QED BY <1>1, <1>9

LEMMA Shapes ==
  /\ \A x : Recorded(x) # NoMacro /\ Wrapped(x) # NoMacro
            /\ ~IsWrapped(Recorded(x)) /\ IsWrapped(Wrapped(x)) /\ Wrapped(x)[2] = x
            /\ IsMacro(Recorded(x)) /\ IsMacro(Wrapped(x))
            /\ SizeOf(Recorded(x)) = 1 /\ SizeOf(Wrapped(x)) = 2
  /\ ~IsWrapped(NoMacro) /\ SizeOf(NoMacro) = 0 /\ IsMacro(NoMacro)
  /\ \A m : SizeOf(m) \in 0 .. 2
  BY DEF Recorded, Wrapped, NoMacro, IsWrapped, SizeOf, IsMacro

LEMMA Bindings ==
  /\ \A x : /\ Shortcut(x).kind = "key" /\ Shortcut(x).shortcut = x /\ Shortcut(x).slot = NoSlot
            /\ IsBinding(Shortcut(x))
  /\ \A s, n : /\ Sequence(s, n).kind = "sequence" /\ Sequence(s, n).slot = s
               /\ Sequence(s, n).passes = n /\ (s \in MacroSlot => IsBinding(Sequence(s, n)))
  /\ Nothing.kind = "none" /\ IsBinding(Nothing)
<1>3. \A x : IsBinding(Shortcut(x))
  BY DEF Shortcut, IsBinding
<1>4. ASSUME NEW s \in MacroSlot, NEW n PROVE IsBinding(Sequence(s, n))
  BY DEF Sequence, IsBinding
<1>5. IsBinding(Nothing)
  BY DEF Nothing, IsBinding
<1> QED BY <1>3, <1>4, <1>5 DEF Nothing, Shortcut, Sequence

LEMMA Slots == SlotCount \in Nat /\ PoolRecords \in Nat /\ NoSlot \notin MacroSlot /\ MacroSlot \subseteq Nat
  BY SlotAssumption DEF MacroSlot, NoSlot

LEMMA Counted ==
  ASSUME NEW p, NEW i
  PROVE  IsFiniteSet(Taken(p, i)) /\ UsedRecords(p, i) \in Nat
<1>1. IsFiniteSet(MacroSlot \X (1 .. 2))
  <2>1. IsFiniteSet(MacroSlot)
    BY Slots, FS_Interval DEF MacroSlot
  <2>2. IsFiniteSet(1 .. 2)
    <3>1. \A n \in Nat : IsFiniteSet(1 .. n)
      BY FS_Interval
    <3> QED BY <3>1
  <2> QED BY <2>1, <2>2, FS_Product
<1>2. Taken(p, i) \in SUBSET (MacroSlot \X (1 .. 2))
  BY DEF Taken
<1>3. IsFiniteSet(Taken(p, i))
  BY <1>1, <1>2, FS_Subset
<1> QED BY <1>3, FS_CardinalityType DEF UsedRecords

LEMMA NoMore ==
  ASSUME NEW p, NEW i, NEW q, NEW j, Taken(q, j) \subseteq Taken(p, i)
  PROVE  UsedRecords(q, j) <= UsedRecords(p, i)
<1>1. Taken(q, j) \in SUBSET Taken(p, i)
  OBVIOUS
<1> QED BY <1>1, Counted, FS_Subset DEF UsedRecords

(* A macro that is put into a slot takes as many records as it has.           *)
LEMMA OneMore ==
  ASSUME NEW p, NEW i, NEW q, NEW s \in MacroSlot, NEW n \in 0 .. 2,
         Taken(q, NoSlot) \subseteq Taken(p, i) \cup ({s} \X (1 .. n))
  PROVE  UsedRecords(q, NoSlot) <= UsedRecords(p, i) + n
<1>1. /\ IsFiniteSet(Taken(p, i)) /\ Cardinality(Taken(p, i)) \in Nat
      /\ Cardinality(Taken(q, NoSlot)) \in Nat
  BY Counted DEF UsedRecords
<1> DEFINE S1 == Taken(p, i) \cup {<<s, 1>>}
           S2 == S1 \cup {<<s, 2>>}
<1>2. IsFiniteSet(S1) /\ Cardinality(S1) \in Nat /\ Cardinality(S1) <= Cardinality(Taken(p, i)) + 1
  <2>1. /\ IsFiniteSet(S1)
        /\ Cardinality(S1) = IF <<s, 1>> \in Taken(p, i) THEN Cardinality(Taken(p, i))
                                                        ELSE Cardinality(Taken(p, i)) + 1
    BY <1>1, FS_AddElement
  <2> HIDE DEF S1
  <2> QED BY <1>1, <2>1
<1>3. IsFiniteSet(S2) /\ Cardinality(S2) \in Nat /\ Cardinality(S2) <= Cardinality(Taken(p, i)) + 2
  <2> HIDE DEF S1
  <2> QED BY <1>1, <1>2, FS_AddElement
<1>4. CASE n = 0
  <2>1. Taken(q, NoSlot) \subseteq Taken(p, i)
    BY <1>4
  <2> QED BY <2>1, <1>4, NoMore, Counted
<1>5. CASE n = 1
  <2>1. Taken(q, NoSlot) \in SUBSET S1
    BY <1>5
  <2>2. Cardinality(Taken(q, NoSlot)) <= Cardinality(S1)
    <3> HIDE DEF S1
    <3> QED BY <2>1, <1>2, FS_Subset
  <2> HIDE DEF S1
  <2> QED BY <1>1, <1>2, <2>2, <1>5 DEF UsedRecords
<1>6. CASE n = 2
  <2>1. Taken(q, NoSlot) \in SUBSET S2
    BY <1>6
  <2>2. Cardinality(Taken(q, NoSlot)) <= Cardinality(S2)
    <3> HIDE DEF S2
    <3> QED BY <2>1, <1>3, FS_Subset
  <2> HIDE DEF S2
  <2> QED BY <1>1, <1>3, <2>2, <1>6 DEF UsedRecords
<1> QED BY <1>4, <1>5, <1>6

LEMMA Reclaimed ==
  ASSUME NEW p, IsProfile(p)
  PROVE  /\ IsProfile(Reclaim(p)) /\ Reclaim(p).keys = p.keys
         /\ Referenced(Reclaim(p)) = Referenced(p)
         /\ \A s \in MacroSlot : Reclaim(p).macros[s] = IF s \in Referenced(p) THEN p.macros[s] ELSE NoMacro
         /\ \A k \in Keys : Plays(p, k) => p.keys[k].slot \in Referenced(p)
<1> DEFINE q == Reclaim(p)
<1>1. q = [keys |-> p.keys, light |-> p.light,
           macros |-> [s \in MacroSlot |-> IF s \in Referenced(p) THEN p.macros[s] ELSE NoMacro]]
  BY DEF IsProfile, Reclaim
<1>2. q.keys = p.keys /\ q.light = p.light
      /\ q.macros = [s \in MacroSlot |-> IF s \in Referenced(p) THEN p.macros[s] ELSE NoMacro]
  BY <1>1
<1>3. Referenced(q) = Referenced(p)
  BY <1>2 DEF Referenced
<1>4. \A s \in MacroSlot : q.macros[s] = IF s \in Referenced(p) THEN p.macros[s] ELSE NoMacro
  BY <1>2
<1>5. IsProfile(q)
  BY <1>1, <1>2, <1>4, Shapes DEF IsProfile
<1>6. \A k \in Keys : Plays(p, k) => p.keys[k].slot \in Referenced(p)
  BY DEF Plays, Referenced
<1> QED BY <1>2, <1>3, <1>4, <1>5, <1>6

LEMMA ReclaimSound ==
  ASSUME NEW p, IsProfile(p), SlotsKept(p), Fits(p)
  PROVE  Sound(Reclaim(p)) /\ Meanings(Reclaim(p)) = Meanings(p)
<1> DEFINE q == Reclaim(p)
<1>1. /\ IsProfile(q) /\ q.keys = p.keys /\ Referenced(q) = Referenced(p)
      /\ \A s \in MacroSlot : q.macros[s] = IF s \in Referenced(p) THEN p.macros[s] ELSE NoMacro
      /\ \A k \in Keys : Plays(p, k) => p.keys[k].slot \in Referenced(p)
  BY Reclaimed
<1> HIDE DEF q
<1>2. \A k \in Keys : Plays(p, k) => p.keys[k].slot \in MacroSlot
  BY DEF IsProfile, IsBinding, Plays
<1>3. \A k \in Keys : Plays(p, k) => q.macros[p.keys[k].slot] = p.macros[p.keys[k].slot]
  BY <1>1, <1>2
<1>4. SlotsKept(q)
  BY <1>1, <1>2, <1>3 DEF SlotsKept, Plays
<1>5. NoneLeft(q)
  BY <1>1 DEF NoneLeft
<1>6. Taken(q, NoSlot) \subseteq Taken(p, NoSlot)
  <2>1. \A s \in MacroSlot : \A n \in 1 .. 2 : n <= SizeOf(q.macros[s]) => n <= SizeOf(p.macros[s])
    BY <1>1, Shapes
  <2> QED BY <2>1 DEF Taken
<1>7. Fits(q)
  BY <1>6, NoMore, Counted, Slots DEF Fits
<1>8. \A k \in Keys : Meaning(q, k) = Meaning(p, k)
  BY <1>1, <1>3 DEF Meaning, Plays
<1>9. Meanings(q) = Meanings(p)
  BY <1>8 DEF Meanings
<1> QED BY <1>1, <1>4, <1>5, <1>7, <1>9 DEF Sound, q

LEMMA Asked ==
  ASSUME NEW p, IsProfile(p), NEW k \in Keys, NEW b, IsBinding(b)
  PROVE  /\ IsProfile(SetAction(p, k, b)) /\ SetAction(p, k, b).macros = p.macros
         /\ SetAction(p, k, b).keys[k] = b
         /\ \A j \in Keys \ {k} : SetAction(p, k, b).keys[j] = p.keys[j]
         /\ SetAction(p, k, b).light = p.light
<1> DEFINE q == SetAction(p, k, b)
<1>1. q = [keys |-> [p.keys EXCEPT ![k] = b], macros |-> p.macros, light |-> p.light]
  BY DEF IsProfile, SetAction
<1>2. q.keys = [j \in Keys |-> IF j = k THEN b ELSE p.keys[j]] /\ q.macros = p.macros
      /\ q.light = p.light
  BY <1>1 DEF IsProfile
<1>3. IsProfile(q)
  BY <1>1, <1>2 DEF IsProfile
<1> QED BY <1>2, <1>3

(* A key that no longer plays a slot leaves the others theirs.                *)
LEMMA Unbound ==
  ASSUME NEW p, IsProfile(p), SlotsKept(p), Fits(p), NEW k \in Keys,
         NEW b, IsBinding(b), b.kind # "sequence"
  PROVE  LET q == SetAction(p, k, b)
         IN  /\ IsProfile(q) /\ SlotsKept(q) /\ Fits(q)
             /\ Meanings(q) = [Meanings(p) EXCEPT ![k] = <<b.kind, b.shortcut, 1>>]
<1> DEFINE q == SetAction(p, k, b)
<1>1. /\ IsProfile(q) /\ q.macros = p.macros /\ q.keys[k] = b
      /\ \A j \in Keys \ {k} : q.keys[j] = p.keys[j]
  BY Asked
<1> HIDE DEF q
<1>2. SlotsKept(q)
  BY <1>1 DEF SlotsKept, Plays
<1>3. Fits(q)
  BY <1>1 DEF Fits, UsedRecords, Taken
<1>4. /\ Meaning(q, k) = <<b.kind, b.shortcut, 1>>
      /\ \A j \in Keys \ {k} : Meaning(q, j) = Meaning(p, j)
  BY <1>1 DEF Meaning
<1>5. Meanings(q) = [Meanings(p) EXCEPT ![k] = <<b.kind, b.shortcut, 1>>]
  BY <1>4 DEF Meanings
<1> QED BY <1>1, <1>2, <1>3, <1>5 DEF q

(* A slot that is found is empty or about to be, and the pool has the room.   *)
LEMMA Found ==
  ASSUME NEW p, NEW macro, NEW alsoFree, alsoFree \in MacroSlot \cup {NoSlot},
         FindSlot(p, macro, alsoFree) # NoSlot
  PROVE  LET s == FindSlot(p, macro, alsoFree)
         IN  /\ s \in MacroSlot /\ (s = alsoFree \/ p.macros[s] = NoMacro)
             /\ UsedRecords(p, alsoFree) + SizeOf(macro) <= PoolRecords
<1> DEFINE free == {s \in MacroSlot : s = alsoFree \/ p.macros[s] = NoMacro}
<1>1. /\ ~(UsedRecords(p, alsoFree) + SizeOf(macro) > PoolRecords) /\ free # {}
      /\ FindSlot(p, macro, alsoFree) = Min(free)
  BY DEF FindSlot
<1>2. free \in SUBSET Nat
  BY Slots
<1>3. PICK m \in free : \A k \in free : m <= k
  <2> HIDE DEF free
  <2> QED BY <1>1, <1>2, LeastExists
<1>4. Min(free) \in free
  BY <1>3 DEF Min
<1>5. SizeOf(macro) \in 0 .. 2 /\ UsedRecords(p, alsoFree) \in Nat
  BY Shapes, Counted
<1>6. UsedRecords(p, alsoFree) + SizeOf(macro) <= PoolRecords
  BY <1>1, <1>5, Slots
<1> QED BY <1>1, <1>4, <1>6

(* A macro put into an empty slot, for a key that plays none yet: nothing of  *)
(* another key's is touched.                                                  *)
LEMMA Filled ==
  ASSUME NEW p, Sound(p), NEW k \in Keys, ~Plays(p, k), NEW n, NEW macro, IsMacro(macro), macro # NoMacro,
         NEW s \in MacroSlot, p.macros[s] = NoMacro,
         UsedRecords(p, NoSlot) + SizeOf(macro) <= PoolRecords
  PROVE  LET q == SetAction([p EXCEPT !.macros[s] = macro], k, Sequence(s, n))
         IN  /\ IsProfile(q) /\ SlotsKept(q) /\ Fits(q)
             /\ Meanings(q) = [Meanings(p) EXCEPT ![k] = Meaning(q, k)]
             /\ q.keys[k] = Sequence(s, n) /\ q.macros[s] = macro
<1> DEFINE r == [p EXCEPT !.macros[s] = macro]
           q == SetAction(r, k, Sequence(s, n))
<1>1. /\ IsProfile(r) /\ r.keys = p.keys /\ r.macros[s] = macro
      /\ \A t \in MacroSlot \ {s} : r.macros[t] = p.macros[t]
  <2>1. r = [keys |-> p.keys, macros |-> [p.macros EXCEPT ![s] = macro], light |-> p.light]
    BY DEF Sound, IsProfile
  <2>2. /\ r.keys = p.keys /\ r.light = p.light
        /\ r.macros = [t \in MacroSlot |-> IF t = s THEN macro ELSE p.macros[t]]
    BY <2>1 DEF Sound, IsProfile
  <2>3. IsProfile(r)
    BY <2>1, <2>2 DEF Sound, IsProfile
  <2> QED BY <2>2, <2>3
<1> HIDE DEF r
<1>2. IsBinding(Sequence(s, n)) /\ Sequence(s, n).slot = s /\ Sequence(s, n).kind = "sequence"
  BY Bindings
<1>3. /\ IsProfile(q) /\ q.macros = r.macros /\ q.keys[k] = Sequence(s, n)
      /\ \A j \in Keys \ {k} : q.keys[j] = p.keys[j]
  BY <1>1, <1>2, Asked
<1> HIDE DEF q
<1>4. ASSUME NEW j \in Keys, Plays(p, j)
      PROVE  /\ p.keys[j].slot \in MacroSlot \ {s}
             /\ q.macros[p.keys[j].slot] = p.macros[p.keys[j].slot]
  <2>1. p.keys[j].slot \in MacroSlot
    BY <1>4 DEF Sound, IsProfile, IsBinding, Plays
  <2>2. p.macros[p.keys[j].slot] # NoMacro
    BY <1>4 DEF Sound, SlotsKept
  <2> QED BY <1>1, <1>3, <2>1, <2>2
<1>5. SlotsKept(q)
  BY <1>1, <1>2, <1>3, <1>4 DEF Sound, SlotsKept, Plays
<1>6. Taken(q, NoSlot) \subseteq Taken(p, NoSlot) \cup ({s} \X (1 .. SizeOf(macro)))
  <2> SUFFICES ASSUME NEW t \in MacroSlot, NEW m \in 1 .. 2, m <= SizeOf(q.macros[t]), t # NoSlot
               PROVE  \/ m <= SizeOf(p.macros[t])
                      \/ t = s /\ m \in 1 .. SizeOf(macro)
    BY DEF Taken
  <2> QED BY <1>1, <1>3, Shapes
<1>7. Fits(q)
  <2>1. SizeOf(macro) \in 0 .. 2
    BY Shapes
  <2>2. UsedRecords(q, NoSlot) <= UsedRecords(p, NoSlot) + SizeOf(macro)
    BY <1>6, <2>1, OneMore
  <2> QED BY <2>1, <2>2, Counted, Slots DEF Fits
<1>8. \A j \in Keys \ {k} : Meaning(q, j) = Meaning(p, j)
  BY <1>3, <1>4 DEF Meaning, Plays
<1>9. Meanings(q) = [Meanings(p) EXCEPT ![k] = Meaning(q, k)]
  BY <1>8 DEF Meanings
<1> QED BY <1>1, <1>3, <1>5, <1>7, <1>9 DEF q, r

(* Asking for a number of passes changes that key's passes and nothing else,  *)
(* or nothing at all.                                                         *)
LEMMA Repeated ==
  ASSUME NEW p, Sound(p), NEW k \in Keys, NEW n \in {1, 2}
  PROVE  LET q == SetRepeat(p, k, n)
         IN  \/ q = p
             \/ /\ IsProfile(q) /\ SlotsKept(q) /\ Fits(q)
                /\ Meanings(q) = [Meanings(p) EXCEPT ![k] = <<Meaning(p, k)[1], Meaning(p, k)[2], n>>]
<1> DEFINE b == p.keys[k]
           wrapped == b.kind = "sequence" /\ IsWrapped(p.macros[b.slot])
           slot == FindSlot(p, Wrapped(b.shortcut), NoSlot)
           q == SetRepeat(p, k, n)
<1>1. IsProfile(p) /\ SlotsKept(p) /\ Fits(p) /\ IsBinding(b)
  BY DEF Sound, IsProfile
<1>2. CASE wrapped /\ n = 1
  <2> DEFINE c == Shortcut(p.macros[b.slot][2])
             r == SetAction(p, k, c)
  <2>1. IsBinding(c) /\ c.kind = "key" /\ c.shortcut = p.macros[b.slot][2]
    BY Bindings
  <2>2. q = Reclaim(r)
    BY <1>2 DEF SetRepeat
  <2> HIDE DEF c
  <2>3. /\ IsProfile(r) /\ SlotsKept(r) /\ Fits(r)
        /\ Meanings(r) = [Meanings(p) EXCEPT ![k] = <<c.kind, c.shortcut, 1>>]
    BY <1>1, <2>1, Unbound
  <2>4. Meaning(p, k) = <<"key", p.macros[b.slot][2], b.passes>>
    BY <1>2 DEF Meaning
  <2> HIDE DEF r, b
  <2>5. Sound(q) /\ Meanings(q) = Meanings(r)
    BY <2>2, <2>3, ReclaimSound
  <2> QED BY <1>2, <2>1, <2>3, <2>4, <2>5 DEF Sound
<1>3. CASE b.kind = "sequence" /\ ~(wrapped /\ n = 1)
  <2> DEFINE c == Sequence(b.slot, n)
  <2>1. q = SetAction(p, k, c)
    BY <1>3 DEF SetRepeat
  <2>2. IsBinding(c) /\ c.kind = "sequence" /\ c.slot = b.slot /\ c.passes = n
    BY <1>1, <1>3, Bindings DEF IsBinding
  <2> HIDE DEF c
  <2>3. /\ IsProfile(q) /\ q.macros = p.macros /\ q.keys[k] = c
        /\ \A j \in Keys \ {k} : q.keys[j] = p.keys[j]
    BY <1>1, <2>1, <2>2, Asked
  <2> HIDE DEF q
  <2>4. SlotsKept(q)
    BY <1>1, <1>3, <2>2, <2>3 DEF SlotsKept, Plays
  <2>5. Fits(q)
    BY <1>1, <2>3 DEF Fits, UsedRecords, Taken
  <2>6. \A j \in Keys \ {k} : Meaning(q, j) = Meaning(p, j)
    BY <2>3 DEF Meaning
  <2>7. Meaning(q, k) = <<Meaning(p, k)[1], Meaning(p, k)[2], n>>
    <3>1. CASE IsWrapped(p.macros[b.slot])
      BY <1>3, <2>2, <2>3, <3>1 DEF Meaning
    <3>2. CASE ~IsWrapped(p.macros[b.slot])
      BY <1>3, <2>2, <2>3, <3>2 DEF Meaning
    <3> QED BY <3>1, <3>2
  <2>8. Meanings(q) = [Meanings(p) EXCEPT ![k] = <<Meaning(p, k)[1], Meaning(p, k)[2], n>>]
    BY <2>6, <2>7 DEF Meanings
  <2> QED BY <2>3, <2>4, <2>5, <2>8 DEF q
<1>4. CASE b.kind = "key" /\ n > 1 /\ slot # NoSlot
  <2> DEFINE m == Wrapped(b.shortcut)
             r == SetAction([p EXCEPT !.macros[slot] = m], k, Sequence(slot, n))
  <2>1. q = Reclaim(r)
    BY <1>4 DEF SetRepeat
  <2>2. IsMacro(m) /\ m # NoMacro /\ IsWrapped(m) /\ m[2] = b.shortcut
    BY Shapes
  <2>3. /\ slot \in MacroSlot /\ (slot = NoSlot \/ p.macros[slot] = NoMacro)
        /\ UsedRecords(p, NoSlot) + SizeOf(m) <= PoolRecords
    BY <1>4, Found
  <2> HIDE DEF m, slot
  <2>4. /\ IsProfile(r) /\ SlotsKept(r) /\ Fits(r)
        /\ Meanings(r) = [Meanings(p) EXCEPT ![k] = Meaning(r, k)]
        /\ r.keys[k] = Sequence(slot, n) /\ r.macros[slot] = m
    BY <1>4, <2>2, <2>3, Filled DEF Plays
  <2> HIDE DEF r
  <2>5. Meaning(r, k) = <<"key", b.shortcut, n>> /\ Meaning(p, k) = <<"key", b.shortcut, 1>>
    BY <1>4, <2>2, <2>4 DEF Meaning, Sequence, Nothing
  <2>6. Sound(q) /\ Meanings(q) = Meanings(r)
    BY <2>1, <2>4, ReclaimSound
  <2> HIDE DEF q
  <2>7. Meanings(q) = [Meanings(p) EXCEPT ![k] = <<Meaning(p, k)[1], Meaning(p, k)[2], n>>]
    <3>1. Meaning(p, k)[1] = "key" /\ Meaning(p, k)[2] = b.shortcut
      BY <2>5
    <3> QED BY <2>4, <2>5, <2>6, <3>1
  <2> QED BY <2>6, <2>7 DEF q, Sound
<1>5. CASE /\ ~(wrapped /\ n = 1) /\ ~(b.kind = "sequence" /\ ~(wrapped /\ n = 1))
           /\ ~(b.kind = "key" /\ n > 1 /\ slot # NoSlot)
  BY <1>5 DEF SetRepeat
<1> QED BY <1>2, <1>3, <1>4, <1>5

LEMMA Unreclaimed ==
  ASSUME NEW p, Sound(p)
  PROVE  Reclaim(p) = p
<1>1. \A s \in MacroSlot : p.macros[s] = IF s \in Referenced(p) THEN p.macros[s] ELSE NoMacro
  BY DEF Sound, NoneLeft
<1>2. p = [keys |-> p.keys, macros |-> p.macros, light |-> p.light]
      /\ p.macros = [s \in MacroSlot |-> p.macros[s]]
  BY DEF Sound, IsProfile
<1>3. Reclaim(p) = [keys |-> p.keys, light |-> p.light,
           macros |-> [s \in MacroSlot |-> IF s \in Referenced(p) THEN p.macros[s] ELSE NoMacro]]
  BY <1>2 DEF Reclaim
<1>4. [s \in MacroSlot |-> IF s \in Referenced(p) THEN p.macros[s] ELSE NoMacro] = p.macros
  BY <1>1, <1>2
<1> QED BY <1>2, <1>3, <1>4

(* A recording that is put where room was found for it: the other keys keep   *)
(* theirs, and what its key had is gone.                                      *)
LEMMA Placement ==
  ASSUME NEW p, Sound(p), NEW k \in Keys, NEW s \in MacroSlot, NEW id,
         s = Owned(p, k) \/ p.macros[s] = NoMacro,
         UsedRecords(p, Owned(p, k)) + 1 <= PoolRecords
  PROVE  LET r == Placed(p, k, s, Recorded(id))
             q == SetAction(r, k, Sequence(s, 1))
         IN  /\ Sound(q) /\ Fits(r)
             /\ Meanings(q) = [Meanings(p) EXCEPT ![k] = <<"sequence", Recorded(id), 1>>]
<1> DEFINE own == Owned(p, k)
           m == Recorded(id)
           r == Placed(p, k, s, m)
           q == SetAction(r, k, Sequence(s, 1))
<1>1. IsMacro(m) /\ m # NoMacro /\ ~IsWrapped(m) /\ SizeOf(m) = 1
  BY Shapes
<1> HIDE DEF m
<1>2. /\ IsProfile(r) /\ r.keys = p.keys /\ r.macros[s] = m
      /\ \A t \in MacroSlot \ {s} : r.macros[t] = IF t = own THEN NoMacro ELSE p.macros[t]
  <2> DEFINE new == [t \in MacroSlot |-> CASE t = s -> m
                                           [] t # s /\ t = own -> NoMacro
                                           [] OTHER -> p.macros[t]]
  <2>1. r = [keys |-> p.keys, macros |-> new, light |-> p.light]
    BY DEF Sound, IsProfile, Placed
  <2>2. \A t \in MacroSlot : new[t] = IF t = s THEN m ELSE IF t = own THEN NoMacro ELSE p.macros[t]
    OBVIOUS
  <2>3. new = [t \in MacroSlot |-> new[t]]
    OBVIOUS
  <2>4. r.keys = p.keys /\ r.light = p.light /\ r.macros = new
    BY <2>1
  <2> HIDE DEF new, r
  <2>5. IsProfile(r)
    BY <1>1, <2>1, <2>2, <2>3, <2>4, Shapes DEF Sound, IsProfile
  <2> QED BY <2>2, <2>4, <2>5
<1> HIDE DEF r
<1>3. /\ IsProfile(q) /\ q.macros = r.macros /\ q.keys[k] = Sequence(s, 1)
      /\ \A j \in Keys \ {k} : q.keys[j] = p.keys[j]
  BY <1>2, Bindings, Asked
<1> HIDE DEF q
<1>4. ASSUME NEW j \in Keys \ {k}, Plays(p, j)
      PROVE  /\ p.keys[j].slot \in MacroSlot \ {s, own}
             /\ q.macros[p.keys[j].slot] = p.macros[p.keys[j].slot]
  <2>1. p.keys[j].slot \in MacroSlot /\ p.macros[p.keys[j].slot] # NoMacro
    BY <1>4 DEF Sound, SlotsKept, IsProfile, IsBinding, Plays
  <2>2. p.keys[j].slot # own
    <3>1. CASE Plays(p, k)
      BY <1>4, <3>1 DEF Sound, SlotsKept, Owned
    <3>2. CASE ~Plays(p, k)
      <4>1. own = NoSlot
        BY <3>2 DEF Sound, IsProfile, IsBinding, Plays, Owned
      <4> QED BY <2>1, <4>1, Slots
    <3> QED BY <3>1, <3>2
  <2> QED BY <1>2, <1>3, <2>1, <2>2
<1>5. Sequence(s, 1).kind = "sequence" /\ Sequence(s, 1).slot = s /\ Sequence(s, 1).passes = 1
  BY Bindings
<1>6. SlotsKept(q)
  BY <1>1, <1>2, <1>3, <1>4, <1>5 DEF Sound, SlotsKept, Plays
<1>7. NoneLeft(q)
  <2> SUFFICES ASSUME NEW t \in MacroSlot, q.macros[t] # NoMacro, t # s
               PROVE  \E j \in Keys : Plays(q, j) /\ q.keys[j].slot = t
    BY <1>3, <1>5 DEF NoneLeft, Referenced, Plays
  <2>1. t # own /\ p.macros[t] # NoMacro
    BY <1>2, <1>3
  <2>2. PICK j \in Keys : Plays(p, j) /\ p.keys[j].slot = t
    BY <2>1 DEF Sound, NoneLeft, Referenced, Plays
  <2>3. j # k
    BY <2>1, <2>2 DEF Owned
  <2> QED BY <1>3, <2>2, <2>3 DEF Plays
<1>8. Fits(r) /\ Fits(q)
  <2>1. Taken(r, NoSlot) \subseteq Taken(p, own) \cup ({s} \X (1 .. 1))
    <3> SUFFICES ASSUME NEW t \in MacroSlot, NEW n \in 1 .. 2, n <= SizeOf(r.macros[t])
                 PROVE  \/ t # own /\ n <= SizeOf(p.macros[t])
                        \/ t = s /\ n = 1
      BY DEF Taken
    <3> QED BY <1>1, <1>2, Shapes
  <2>2. UsedRecords(r, NoSlot) <= UsedRecords(p, own) + 1
    BY <2>1, OneMore
  <2>3. Fits(r)
    BY <2>2, Counted, Slots DEF Fits
  <2> QED BY <1>3, <2>3 DEF Fits, UsedRecords, Taken
<1>9. \A j \in Keys \ {k} : Meaning(q, j) = Meaning(p, j)
  BY <1>3, <1>4 DEF Meaning, Plays
<1>10. Meaning(q, k) = <<"sequence", m, 1>>
  BY <1>1, <1>2, <1>3, <1>5 DEF Meaning
<1>11. Meanings(q) = [Meanings(p) EXCEPT ![k] = <<"sequence", m, 1>>]
  BY <1>9, <1>10 DEF Meanings
<1> QED BY <1>3, <1>6, <1>7, <1>8, <1>11 DEF Sound, q, r, m

(* The profiles that are given whole.                                         *)
LEMMA Plain ==
  ASSUME NEW p, IsProfile(p), \A k \in Keys : ~Plays(p, k), \A s \in MacroSlot : p.macros[s] = NoMacro
  PROVE  Sound(p)
<1>1. Taken(p, NoSlot) = {}
  <2>1. \A s \in MacroSlot : SizeOf(p.macros[s]) = 0
    BY Shapes
  <2> QED BY <2>1 DEF Taken
<1>2. UsedRecords(p, NoSlot) = 0
  BY <1>1, FS_EmptySet DEF UsedRecords
<1> QED BY <1>2, Slots DEF Sound, SlotsKept, NoneLeft, Fits

LEMMA Given == Sound(Default) /\ Sound(Foreign) /\ Sound(Imported)
<1>1. Default.macros = [s \in MacroSlot |-> NoMacro] /\ Default.light = 0
      /\ Default.keys = [k \in Keys |-> Shortcut(<<"hyper", k>>)]
      /\ Default = [keys |-> Default.keys, macros |-> Default.macros, light |-> Default.light]
  BY DEF Default
<1>2. Sound(Default)
  <2>1. IsProfile(Default)
    BY <1>1, Bindings, Shapes DEF IsProfile
  <2>2. \A k \in Keys : ~Plays(Default, k)
    BY <1>1, Bindings DEF Plays
  <2>3. \A s \in MacroSlot : Default.macros[s] = NoMacro
    BY <1>1
  <2> QED BY <2>1, <2>2, <2>3, Plain
<1>3. ASSUME NEW x PROVE Sound(Other(x))
  <2> DEFINE p == Other(x)
             new == [k \in Keys |-> Shortcut(<<x, k>>)]
  <2>1. p = [keys |-> new, macros |-> Default.macros, light |-> 0]
    <3>1. p = [Default EXCEPT !.keys = new]
      BY Zenon DEF Other
    <3> HIDE DEF p, new
    <3> QED BY <1>1, <3>1
  <2>2. p.keys = [k \in Keys |-> Shortcut(<<x, k>>)] /\ p.macros = [s \in MacroSlot |-> NoMacro]
        /\ p = [keys |-> p.keys, macros |-> p.macros, light |-> p.light]
    BY <1>1, <2>1
  <2> HIDE DEF p
  <2>3. IsProfile(p)
    BY <2>2, Bindings, Shapes DEF IsProfile
  <2>4. \A k \in Keys : ~Plays(p, k)
    BY <2>2, Bindings DEF Plays
  <2>5. \A s \in MacroSlot : p.macros[s] = NoMacro
    BY <2>2
  <2>6. Sound(p)
    BY <2>3, <2>4, <2>5, Plain
  <2> QED BY <2>6 DEF p
<1> QED BY <1>2, <1>3 DEF Foreign, Imported

(* Every profile that is anywhere is sound, but for the editor's while a       *)
(* recording is between its slot and its key.                                 *)
Bound == SetAction(mem, keeper.key, Sequence(keeper.slot, 1))
RoomFor(slot) ==
    LET own == Owned(mem, keeper.key)
    IN  /\ slot \in MacroSlot /\ (slot = own \/ mem.macros[slot] = NoMacro)
        /\ UsedRecords(mem, own) + 1 <= PoolRecords
JobsSound == \A i \in Jobs : jobs[i].kind = "write" => Sound(jobs[i].blob)
SignalsSound == \A n \in Signals : signals[n].kind = "adopt" => Sound(signals[n].blob)
EditorSound ==
    /\ keeper.at # "bind" => Sound(mem) /\ Meanings(mem) = meant
    /\ keeper.at = "place" => RoomFor(keeper.slot)
    /\ keeper.at = "bind" =>
         /\ Sound(Bound) /\ Fits(mem)
         /\ Meanings(Bound) = [meant EXCEPT ![keeper.key] = <<"sequence", Recorded(keeper.id), 1>>]
WorkerShape ==
    /\ keeper = [at |-> keeper.at, key |-> keeper.key, id |-> keeper.id, slot |-> keeper.slot]
    /\ recording \in Keys \cup {NoKey} /\ (Keeping => keeper.key \in Keys)
SoundInv ==
    /\ WorkerShape
    /\ ~crossed => Sound(pad) /\ JobsSound /\ SignalsSound /\ EditorSound

LEMMA JobsStaySound ==
  ASSUME LockInv, JobsSound,
         \/ UNCHANGED jobs
         \/ \E x : x.kind \in JobKinds /\ jobs' = Append(jobs, x) /\ (x.kind = "write" => Sound(x.blob))
         \/ jobs # <<>> /\ jobs' = Tail(jobs)
         \/ jobs # <<>> /\ \E x : x.kind # "write" /\ jobs' = <<x>> \o Tail(jobs)
  PROVE  JobsSound'
<1>1. CASE UNCHANGED jobs
  BY <1>1 DEF JobsSound, Jobs
<1>2. ASSUME NEW x, x.kind \in JobKinds, jobs' = Append(jobs, x), x.kind = "write" => Sound(x.blob)
      PROVE  JobsSound'
  <2>1. \A i \in Jobs' : (i \in Jobs /\ jobs'[i] = jobs[i]) \/ jobs'[i] = x
    BY <1>2, JobsGrow
  <2> QED BY <1>2, <2>1 DEF JobsSound
<1>3. CASE jobs # <<>> /\ jobs' = Tail(jobs)
  <2>1. \A i \in Jobs' : i + 1 \in Jobs /\ jobs'[i] = jobs[i + 1]
    BY <1>3, JobsShrink
  <2> QED BY <2>1 DEF JobsSound
<1>4. ASSUME NEW x, x.kind # "write", jobs # <<>>, jobs' = <<x>> \o Tail(jobs)
      PROVE  JobsSound'
  <2>1. IsQueue(jobs)
    BY DEF LockInv, QueueInv
  <2>2. /\ Len(jobs') = Len(jobs) /\ jobs'[1] = x
        /\ \A i \in 1 .. Len(jobs) : i = 1 \/ jobs'[i] = jobs[i]
    BY <1>4, <2>1, Replaced
  <2> QED BY <1>4, <2>2 DEF JobsSound, Jobs
<1> QED BY <1>1, <1>2, <1>3, <1>4

LEMMA SignalsStaySound ==
  ASSUME LockInv, SignalsSound,
         \/ UNCHANGED signals
         \/ \E s : s.kind \in SignalKinds /\ signals' = Append(signals, s)
                   /\ (s.kind = "adopt" => Sound(s.blob))
         \/ signals # <<>> /\ signals' = Tail(signals)
  PROVE  SignalsSound'
<1>1. CASE UNCHANGED signals
  BY <1>1 DEF SignalsSound, Signals
<1>2. ASSUME NEW s, s.kind \in SignalKinds, signals' = Append(signals, s),
             s.kind = "adopt" => Sound(s.blob)
      PROVE  SignalsSound'
  <2>1. \A n \in Signals' : (n \in Signals /\ signals'[n] = signals[n]) \/ signals'[n] = s
    BY <1>2, SignalsGrow
  <2> QED BY <1>2, <2>1 DEF SignalsSound
<1>3. CASE signals # <<>> /\ signals' = Tail(signals)
  <2>1. \A n \in Signals' : n + 1 \in Signals /\ signals'[n] = signals[n + 1]
    BY <1>3, SignalsShrink
  <2> QED BY <2>1 DEF SignalsSound
<1> QED BY <1>1, <1>2, <1>3

LEMMA EditorStays ==
  ASSUME EditorSound, UNCHANGED <<mem, keeper, meant>>
  PROVE  EditorSound'
<1>1. /\ Sound(mem)' <=> Sound(mem)
      /\ Sound(Bound)' <=> Sound(Bound)
      /\ Fits(mem)' <=> Fits(mem)
      /\ Meanings(mem)' = Meanings(mem) /\ Meanings(Bound)' = Meanings(Bound)
      /\ RoomFor(keeper.slot)' <=> RoomFor(keeper.slot)
  BY DEF Sound, Bound, Fits, Meanings, RoomFor
<1> QED BY <1>1 DEF EditorSound

(* Nothing of the editor or of the record worker changes.                     *)
LEMMA SoundStays ==
  ASSUME LockInv, SoundInv, crossed => crossed', UNCHANGED <<mem, keeper, meant>>,
         recording' \in Keys \cup {NoKey},
         ~crossed' => /\ Sound(pad)' /\ JobsSound' /\ SignalsSound'
  PROVE  SoundInv'
<1>1. WorkerShape'
  BY DEF SoundInv, WorkerShape, Keeping
<1>2. ~crossed' => EditorSound'
  BY EditorStays DEF SoundInv
<1> QED BY <1>1, <1>2 DEF SoundInv

(* The editor's profile is edited or replaced, by the window.                 *)
LEMMA SoundEdited ==
  ASSUME LockInv, SoundInv, UNCHANGED <<pad, keeper, recording>>, crossed' = (crossed \/ Keeping),
         ~crossed' => /\ Sound(mem') /\ Meanings(mem') = meant'
                      /\ JobsSound' /\ SignalsSound'
  PROVE  SoundInv'
<1>1. WorkerShape'
  BY DEF SoundInv, WorkerShape, Keeping
<1>2. ~crossed' => keeper.at = "idle" /\ ~crossed
  BY DEF Keeping
<1>3. ~crossed' => EditorSound'
  BY <1>2 DEF EditorSound
<1>4. ~crossed' => Sound(pad)'
  BY <1>2 DEF SoundInv
<1> QED BY <1>1, <1>3, <1>4 DEF SoundInv

LEMMA AppliedJobs ==
  ASSUME LockInv, JobsSound, NEW p, NEW paid, Sound(p), Apply(p, paid)
  PROVE  JobsSound'
<1>1. jobs' = jobs \/ jobs' = Append(jobs, WriteJob(p))
  BY DEF Apply
<1>2. WriteJob(p).kind = "write" /\ WriteJob(p).blob = p
  BY DEF WriteJob
<1> HIDE DEF WriteJob
<1>3. WriteJob(p).kind \in JobKinds
  BY <1>2 DEF JobKinds
<1> QED BY <1>1, <1>2, <1>3, JobsStaySound

LEMMA SoundEdits ==
  ASSUME LockInv, SoundInv, (\E k \in Keys : Edit(k)) \/ Drag \/ Settle \/ AdoptLocal \/ ResetAlone
  PROVE  SoundInv'
<1> USE DEF profiles, cable, window, recorder, history
<1>1. ASSUME NEW k \in Keys, Edit(k) PROVE SoundInv'
  <2>1. PICK e \in Edited(k) :
          /\ e[1] # mem /\ mem' = e[1]
          /\ meant' = IF Keeping THEN meant ELSE [meant EXCEPT ![k] = e[2]]
          /\ Apply(e[1], [used EXCEPT !.changes = @ + 1])
    BY <1>1 DEF Edit
  <2>2. UNCHANGED <<pad, keeper, recording, signals>> /\ crossed' = (crossed \/ Keeping)
    BY <1>1 DEF Edit
  <2>3. ASSUME ~crossed' PROVE Sound(mem') /\ Meanings(mem') = meant' /\ JobsSound' /\ SignalsSound'
    <3>1. ~crossed /\ ~Keeping /\ Sound(mem) /\ Meanings(mem) = meant /\ JobsSound /\ SignalsSound
      BY <2>2, <2>3 DEF SoundInv, EditorSound, Keeping
    <3>2. IsProfile(mem) /\ SlotsKept(mem) /\ Fits(mem) /\ meant[k] = Meaning(mem, k)
      BY <3>1 DEF Sound, Meanings
    <3>3. Sound(e[1]) /\ Meanings(e[1]) = [meant EXCEPT ![k] = e[2]]
      <4>1. ASSUME NEW b \in {Shortcut(<<"new", k>>), Nothing},
                   e = <<Reclaim(SetAction(mem, k, b)), <<b.kind, b.shortcut, 1>>>>
            PROVE  Sound(e[1]) /\ Meanings(e[1]) = [meant EXCEPT ![k] = e[2]]
        <5>1. IsBinding(b) /\ b.kind # "sequence"
          BY Bindings
        <5> DEFINE q == SetAction(mem, k, b)
        <5>2. /\ IsProfile(q) /\ SlotsKept(q) /\ Fits(q)
              /\ Meanings(q) = [Meanings(mem) EXCEPT ![k] = <<b.kind, b.shortcut, 1>>]
          BY <3>2, <5>1, Unbound
        <5>3. e[1] = Reclaim(q) /\ e[2] = <<b.kind, b.shortcut, 1>>
          BY <4>1
        <5> HIDE DEF q
        <5> QED BY <3>1, <5>2, <5>3, ReclaimSound
      <4>2. ASSUME NEW n \in {1, 2},
                   e = <<Reclaim(SetRepeat(mem, k, n)), <<meant[k][1], meant[k][2], n>>>>
            PROVE  Sound(e[1]) /\ Meanings(e[1]) = [meant EXCEPT ![k] = e[2]]
        <5> DEFINE q == SetRepeat(mem, k, n)
        <5>1. e[1] = Reclaim(q) /\ e[2] = <<Meaning(mem, k)[1], Meaning(mem, k)[2], n>>
          BY <3>2, <4>2
        <5>2. q # mem
          BY <2>1, <3>1, <5>1, Unreclaimed
        <5>3. /\ IsProfile(q) /\ SlotsKept(q) /\ Fits(q)
              /\ Meanings(q) = [Meanings(mem) EXCEPT ![k] = <<Meaning(mem, k)[1], Meaning(mem, k)[2], n>>]
          BY <3>1, <5>2, Repeated
        <5> HIDE DEF q
        <5> QED BY <3>1, <5>1, <5>3, ReclaimSound
      <4> QED BY <4>1, <4>2 DEF Edited
    <3>4. JobsSound'
      BY <2>1, <3>1, <3>3, AppliedJobs
    <3>5. SignalsSound'
      BY <2>2, <3>1, SignalsStaySound
    <3> QED BY <2>1, <3>1, <3>3, <3>4, <3>5
  <2> QED BY <2>2, <2>3, SoundEdited
<1>2. CASE Drag
  <2>1. UNCHANGED <<pad, keeper, recording, signals, jobs, meant>> /\ crossed' = (crossed \/ Keeping)
        /\ mem' = [mem EXCEPT !.light = used.changes + 1]
    BY <1>2 DEF Drag
  <2>2. ASSUME ~crossed' PROVE Sound(mem') /\ Meanings(mem') = meant' /\ JobsSound' /\ SignalsSound'
    <3>1. ~crossed /\ Sound(mem) /\ Meanings(mem) = meant /\ JobsSound /\ SignalsSound
      BY <2>1, <2>2 DEF SoundInv, EditorSound, Keeping
    <3>2. mem' = [keys |-> mem.keys, macros |-> mem.macros, light |-> used.changes + 1]
      BY <2>1, <3>1 DEF Sound, IsProfile
    <3>3. mem'.keys = mem.keys /\ mem'.macros = mem.macros /\ mem'.light = used.changes + 1
      BY <3>2
    <3>4. IsProfile(mem') /\ SlotsKept(mem') /\ NoneLeft(mem')
      BY <3>1, <3>2, <3>3 DEF Sound, IsProfile, SlotsKept, NoneLeft, Referenced, Plays
    <3>5. Fits(mem') /\ Meanings(mem') = Meanings(mem)
      BY <3>1, <3>3 DEF Sound, Fits, UsedRecords, Taken, Meanings, Meaning
    <3> QED BY <2>1, <3>1, <3>4, <3>5, JobsStaySound, SignalsStaySound DEF Sound
  <2> QED BY <2>1, <2>2, SoundEdited
<1>3. CASE Settle
  <2>1. UNCHANGED <<mem, pad, keeper, recording, signals, meant>> /\ crossed' = (crossed \/ Keeping)
        /\ Apply(mem, used)
    BY <1>3 DEF Settle
  <2>2. ASSUME ~crossed' PROVE Sound(mem') /\ Meanings(mem') = meant' /\ JobsSound' /\ SignalsSound'
    <3>1. ~crossed /\ Sound(mem) /\ Meanings(mem) = meant /\ JobsSound /\ SignalsSound
      BY <2>1, <2>2 DEF SoundInv, EditorSound, Keeping
    <3> QED BY <2>1, <3>1, AppliedJobs, SignalsStaySound
  <2> QED BY <2>1, <2>2, SoundEdited
<1>4. CASE AdoptLocal
  <2>1. UNCHANGED <<pad, keeper, recording, signals, jobs>> /\ crossed' = (crossed \/ Keeping)
        /\ ((mem' = Imported /\ Note(Imported)) \/ UNCHANGED <<mem, meant>>)
    BY <1>4 DEF AdoptLocal
  <2>2. ASSUME ~crossed' PROVE Sound(mem') /\ Meanings(mem') = meant' /\ JobsSound' /\ SignalsSound'
    <3>1. ~crossed /\ ~Keeping /\ Sound(mem) /\ Meanings(mem) = meant /\ JobsSound /\ SignalsSound
      BY <2>1, <2>2 DEF SoundInv, EditorSound, Keeping
    <3> QED BY <2>1, <3>1, Given, JobsStaySound, SignalsStaySound DEF Note
  <2> QED BY <2>1, <2>2, SoundEdited
<1>5. CASE ResetAlone
  <2>1. UNCHANGED <<pad, keeper, recording, signals, jobs>> /\ crossed' = (crossed \/ Keeping)
        /\ mem' = Default /\ Note(Default)
    BY <1>5 DEF ResetAlone, FinishReset
  <2>2. ASSUME ~crossed' PROVE Sound(mem') /\ Meanings(mem') = meant' /\ JobsSound' /\ SignalsSound'
    <3>1. ~crossed /\ ~Keeping /\ JobsSound /\ SignalsSound
      BY <2>1, <2>2 DEF SoundInv
    <3> QED BY <2>1, <3>1, Given, JobsStaySound, SignalsStaySound DEF Note
  <2> QED BY <2>1, <2>2, SoundEdited
<1> QED BY <1>1, <1>2, <1>3, <1>4, <1>5

LEMMA JobKind ==
  ASSUME NEW kind \in JobKinds \ {"write"}
  PROVE  Job(kind).kind \in JobKinds /\ Job(kind).kind # "write"
  BY DEF Job

LEMMA SoundClicks ==
  ASSUME LockInv, SoundInv,
         \/ \E what \in {"edit", "file", "reset"} : OpenDialog(what)
         \/ Cancel \/ PollSeesLink \/ LeaveBoth \/ Disconnect \/ Connect
         \/ AskSide \/ AskNot \/ Answer \/ Reset \/ ResetFailed \/ Synced \/ SyncFailed
         \/ (\E k \in Keys : Record(k)) \/ Dismiss \/ Abort \/ Unplug \/ Plug
  PROVE  SoundInv'
<1> USE DEF profiles, cable, window, recorder, history
<1>1. UNCHANGED <<mem, keeper, meant, crossed>> /\ (pad' = pad \/ pad' = Foreign)
  BY DEF OpenDialog, Cancel, PollSeesLink, LeaveBoth, Disconnect, Connect, AskSide, AskNot, Answer,
         Reset, ResetFailed, Synced, SyncFailed, Record, Dismiss, Abort, Unplug, Plug
<1>2. recording' \in Keys \cup {NoKey}
  BY DEF SoundInv, WorkerShape, OpenDialog, Cancel, PollSeesLink, LeaveBoth, Disconnect, Connect,
         AskSide, AskNot, Answer, Reset, ResetFailed, Synced, SyncFailed, Record, Dismiss, Abort,
         Unplug, Plug
<1>3. jobs' = jobs \/ \E kind \in JobKinds \ {"write"} : jobs' = Append(jobs, Job(kind))
  <2>1. CASE Connect \/ Answer \/ Reset
    BY <2>1 DEF Connect, Answer, Reset, Begin, JobKinds
  <2>2. CASE \/ \E what \in {"edit", "file", "reset"} : OpenDialog(what)
             \/ Cancel \/ PollSeesLink \/ LeaveBoth \/ Disconnect
             \/ AskSide \/ AskNot \/ ResetFailed \/ Synced \/ SyncFailed
             \/ (\E k \in Keys : Record(k)) \/ Dismiss \/ Abort \/ Unplug \/ Plug
    BY <2>2 DEF OpenDialog, Cancel, PollSeesLink, LeaveBoth, Disconnect, AskSide, AskNot,
                ResetFailed, Synced, SyncFailed, Record, Dismiss, Abort, Unplug, Plug
  <2> QED BY <2>1, <2>2
<1>4. signals' = signals \/ (signals # <<>> /\ signals' = Tail(signals))
  BY DEF OpenDialog, Cancel, PollSeesLink, LeaveBoth, Disconnect, Connect, AskSide, AskNot, Answer,
         Reset, ResetFailed, Synced, SyncFailed, Record, Dismiss, Abort, Unplug, Plug, Reported
<1>5. ASSUME ~crossed' PROVE Sound(pad)' /\ JobsSound' /\ SignalsSound'
  <2>1. Sound(pad) /\ JobsSound /\ SignalsSound
    BY <1>1, <1>5 DEF SoundInv
  <2>2. Sound(pad')
    BY <1>1, <2>1, Given
  <2>3. JobsSound'
    BY <1>3, <2>1, JobKind, JobsStaySound
  <2>4. SignalsSound'
    BY <1>4, <2>1, SignalsStaySound
  <2> QED BY <2>2, <2>3, <2>4
<1> QED BY <1>1, <1>2, <1>5, SoundStays

LEMMA SoundReports ==
  ASSUME LockInv, SoundInv, ResetReady \/ Adopt
  PROVE  SoundInv'
<1> USE DEF profiles, cable, window, recorder, history
<1> DEFINE given == IF ResetReady THEN Default ELSE Head(signals).blob
<1>1. /\ UNCHANGED <<pad, keeper, recording, jobs>> /\ crossed' = (crossed \/ Keeping)
      /\ signals # <<>> /\ signals' = Tail(signals)
      /\ mem' = given /\ Note(given)
      /\ ~ResetReady => Head(signals).kind = "adopt"
  BY DEF ResetReady, FinishReset, Adopt, Reported
<1>2. ASSUME ~crossed' PROVE Sound(mem') /\ Meanings(mem') = meant' /\ JobsSound' /\ SignalsSound'
  <2>1. ~crossed /\ ~Keeping /\ JobsSound /\ SignalsSound
    BY <1>1, <1>2 DEF SoundInv
  <2>2. Sound(given)
    <3>1. 1 \in Signals /\ Head(signals) = signals[1]
      BY <1>1, SignalsShrink
    <3> QED BY <1>1, <2>1, <3>1, Given DEF SignalsSound
  <2> HIDE DEF given
  <2> QED BY <1>1, <2>1, <2>2, JobsStaySound, SignalsStaySound DEF Note
<1> QED BY <1>1, <1>2, SoundEdited

LEMMA SoundWorker ==
  ASSUME LockInv, SoundInv, WorkerActs
  PROVE  SoundInv'
<1> USE DEF profiles, cable, window, recorder, history
<1>1. UNCHANGED <<mem, keeper, meant, recording>> /\ (crossed => crossed')
  <2>1. UNCHANGED <<mem, keeper, meant, recording>>
    BY DEF WorkerActs, Write, WriteFails, Open, OpenUncompared, OpenFails, Compare, Connected, Pull, Push, SyncBreaks,
           ResetPad, ResetBreaks
  <2>2. CASE Write \/ Compare \/ Pull \/ Push \/ ResetPad
    <3>1. crossed' = (crossed \/ Keeping)
      BY <2>2, Zenon DEF Write, Compare, Pull, Push, ResetPad
    <3> QED BY <2>1, <3>1
  <2>3. CASE WriteFails \/ Open \/ OpenUncompared \/ OpenFails \/ Connected \/ SyncBreaks \/ ResetBreaks
    <3>1. crossed' = crossed
      BY <2>3 DEF WriteFails, Open, OpenUncompared, OpenFails, Connected, SyncBreaks, ResetBreaks
    <3> QED BY <2>1, <3>1
  <2> QED BY <2>2, <2>3 DEF WorkerActs
<1>2. /\ jobs # <<>>
      /\ jobs' = Tail(jobs) \/ \E kind \in JobKinds \ {"write"} : jobs' = <<Job(kind)>> \o Tail(jobs)
  <2>1. {"compare", "connected"} \subseteq JobKinds \ {"write"}
    BY DEF JobKinds
  <2>2. CASE Open
    BY <2>1, <2>2 DEF Open, Working
  <2>3. CASE Compare
    BY <2>1, <2>3 DEF Compare, Working
  <2>4. CASE Write \/ WriteFails \/ OpenUncompared \/ OpenFails \/ Connected
    BY <2>4 DEF Write, WriteFails, OpenUncompared, OpenFails, Connected, Working, Done
  <2>5. CASE Pull \/ Push \/ SyncBreaks \/ ResetPad \/ ResetBreaks
    BY <2>5 DEF Pull, Push, SyncBreaks, ResetPad, ResetBreaks, Working, Done
  <2> QED BY <2>2, <2>3, <2>4, <2>5 DEF WorkerActs
<1>3. \/ signals' = signals
      \/ \E kind \in SignalKinds \ {"adopt"} : Tell(kind, Default)
      \/ Tell("adopt", pad)
  <2>1. CASE Write \/ WriteFails \/ Open \/ OpenUncompared \/ OpenFails \/ Compare
    BY <2>1 DEF Write, WriteFails, Open, OpenUncompared, OpenFails, Compare
  <2>2. CASE Connected \/ Pull \/ Push \/ SyncBreaks \/ ResetPad \/ ResetBreaks
    <3>1. \/ signals' = signals \/ Tell("adopt", pad) \/ Tell("mismatch", Default)
          \/ Tell("synced", Default) \/ Tell("syncFailed", Default)
          \/ Tell("reset", Default) \/ Tell("resetFailed", Default)
      BY <2>2 DEF Connected, Pull, Push, SyncBreaks, ResetPad, ResetBreaks
    <3>2. {"mismatch", "synced", "syncFailed", "reset", "resetFailed"} \subseteq SignalKinds \ {"adopt"}
      BY DEF SignalKinds
    <3> QED BY <3>1, <3>2
  <2> QED BY <2>1, <2>2 DEF WorkerActs
<1>4. \/ pad' \in {pad, Default}
      \/ pad' = Head(jobs).blob /\ Head(jobs).kind = "write"
      \/ pad' = mem /\ crossed' = (crossed \/ Keeping)
  BY DEF WorkerActs, Write, WriteFails, Open, OpenUncompared, OpenFails, Compare, Connected, Pull, Push, SyncBreaks,
         ResetPad, ResetBreaks, Working
<1>5. ASSUME ~crossed' PROVE Sound(pad)' /\ JobsSound' /\ SignalsSound'
  <2>1. Sound(pad) /\ JobsSound /\ SignalsSound /\ EditorSound
    BY <1>1, <1>5 DEF SoundInv
  <2>2. JobsSound'
    BY <1>2, <2>1, JobKind, JobsStaySound
  <2>3. SignalsSound'
    <3>1. CASE signals' = signals
      BY <2>1, <3>1, SignalsStaySound
    <3>2. ASSUME NEW kind \in SignalKinds, NEW p, Tell(kind, p), kind = "adopt" => Sound(p)
          PROVE  SignalsSound'
      <4> DEFINE s == [kind |-> kind, blob |-> p]
      <4>1. s.kind = kind /\ s.blob = p /\ signals' = Append(signals, s)
        BY <3>2 DEF Tell
      <4> HIDE DEF s
      <4> QED BY <2>1, <3>2, <4>1, SignalsStaySound
    <3>3. "adopt" \in SignalKinds
      BY DEF SignalKinds
    <3> QED BY <1>3, <2>1, <3>1, <3>2, <3>3
  <2>4. Sound(pad')
    <3>1. CASE pad' \in {pad, Default}
      BY <2>1, <3>1, Given
    <3>2. CASE pad' = Head(jobs).blob /\ Head(jobs).kind = "write"
      <4>1. 1 \in Jobs /\ Head(jobs) = jobs[1]
        BY <1>2, FirstOf DEF LockInv, QueueInv, Jobs
      <4> QED BY <2>1, <3>2, <4>1 DEF JobsSound
    <3>3. CASE pad' = mem /\ crossed' = (crossed \/ Keeping)
      BY <1>5, <2>1, <3>3 DEF EditorSound, Keeping
    <3> QED BY <1>4, <3>1, <3>2, <3>3
  <2> QED BY <2>2, <2>3, <2>4
<1>6. recording' \in Keys \cup {NoKey}
  BY <1>1 DEF SoundInv, WorkerShape
<1> QED BY <1>1, <1>5, <1>6, SoundStays

(* What the record worker is at, one statement after the other.               *)
LEMMA KeeperMoves ==
  ASSUME WorkerShape, NEW at
  PROVE  [keeper EXCEPT !.at = at]
           = [at |-> at, key |-> keeper.key, id |-> keeper.id, slot |-> keeper.slot]
<1>1. keeper = [at |-> keeper.at, key |-> keeper.key, id |-> keeper.id, slot |-> keeper.slot]
  BY DEF WorkerShape
<1> QED BY <1>1

LEMMA SoundKeeps ==
  ASSUME LockInv, KeeperInv, KeeperInv', SoundInv, KeeperActs \/ Finish
  PROVE  SoundInv'
<1> USE DEF profiles, cable, window, recorder, history
<1>1. UNCHANGED <<jobs, signals>> /\ (crossed => crossed')
  <2>1. CASE KeeperActs
    BY <2>1 DEF KeeperActs, Find, BindShortcut, Place, Bind, KeepSave, KeepPush, KeepFails
  <2>2. CASE Finish
    BY <2>2, Zenon DEF Finish
  <2> QED BY <2>1, <2>2
<1>2. ~crossed' => JobsSound' /\ SignalsSound'
  BY <1>1, JobsStaySound, SignalsStaySound DEF SoundInv
<1>3. WorkerShape
  BY DEF SoundInv
<1>4. ~crossed' => Sound(pad) /\ EditorSound
  BY <1>1 DEF SoundInv
<1> DEFINE Shape(at, s) == [at |-> at, key |-> keeper.key, id |-> keeper.id, slot |-> s]
<1>5. ASSUME NEW at, NEW s, keeper' = Shape(at, s), keeper.at # "idle", recording' = recording
      PROVE  /\ WorkerShape' /\ keeper'.at = at /\ keeper'.key = keeper.key
             /\ keeper'.id = keeper.id /\ keeper'.slot = s
  <2>1. keeper'.at = at /\ keeper'.key = keeper.key /\ keeper'.id = keeper.id /\ keeper'.slot = s
    BY <1>5
  <2>2. keeper.key \in Keys /\ recording \in Keys \cup {NoKey}
    BY <1>3, <1>5 DEF WorkerShape, Keeping
  <2> QED BY <1>5, <2>1, <2>2 DEF WorkerShape
<1>6. ASSUME keeper' = Idle, recording' = recording
      PROVE  WorkerShape' /\ keeper'.at = "idle"
  <2>1. keeper'.at = "idle" /\ keeper'.key = NoKey /\ keeper'.id = 0 /\ keeper'.slot = NoSlot
    BY <1>6 DEF Idle
  <2> QED BY <1>3, <1>6, <2>1 DEF WorkerShape, Idle, Keeping
<1>7. CASE Finish
  <2>1. /\ UNCHANGED <<mem, pad, meant>> /\ recording # NoKey /\ recording' = NoKey
        /\ keeper' = [Idle EXCEPT !.at = "find", !.key = recording, !.id = used.changes]
    BY <1>7 DEF Finish
  <2>2. keeper' = [at |-> "find", key |-> recording, id |-> used.changes, slot |-> NoSlot]
    BY <2>1 DEF Idle
  <2>3. keeper'.at = "find" /\ keeper'.key = recording
    BY <2>2
  <2>4. WorkerShape'
    BY <1>3, <2>1, <2>2, <2>3 DEF WorkerShape
  <2>5. keeper.at = "idle"
    BY <2>1 DEF KeeperInv, Keeping
  <2>6. ~crossed' => EditorSound'
    BY <1>4, <2>1, <2>3, <2>5 DEF EditorSound
  <2> QED BY <1>2, <1>4, <2>1, <2>4, <2>6 DEF SoundInv
<1>8. CASE Find
  <2> DEFINE found == FindSlot(mem, Recorded(keeper.id), Owned(mem, keeper.key))
  <2>1. /\ UNCHANGED <<mem, pad, meant, recording, crossed>> /\ keeper.at = "find"
        /\ keeper' = IF found = NoSlot THEN Idle ELSE Shape("place", found)
    BY <1>8 DEF Find, Keeps
  <2>2. CASE found = NoSlot
    <3>1. WorkerShape' /\ keeper'.at = "idle"
      BY <1>6, <2>1, <2>2
    <3>2. ~crossed' => EditorSound'
      BY <1>4, <2>1, <3>1 DEF EditorSound
    <3> QED BY <1>2, <1>4, <2>1, <3>1, <3>2 DEF SoundInv
  <2>3. CASE found # NoSlot
    <3>1. keeper' = Shape("place", found)
      BY <2>1, <2>3
    <3>2. /\ WorkerShape' /\ keeper'.at = "place" /\ keeper'.key = keeper.key /\ keeper'.slot = found
      <4> HIDE DEF found, Shape
      <4> QED BY <1>5, <2>1, <3>1
    <3>3. ASSUME ~crossed' PROVE EditorSound'
      <4>1. Sound(mem) /\ Meanings(mem) = meant /\ keeper.key \in Keys
        BY <1>3, <1>4, <2>1, <3>3 DEF EditorSound, WorkerShape, Keeping
      <4>2. Owned(mem, keeper.key) \in MacroSlot \cup {NoSlot}
        BY <4>1 DEF Sound, IsProfile, IsBinding, Owned
      <4>3. /\ found \in MacroSlot /\ (found = Owned(mem, keeper.key) \/ mem.macros[found] = NoMacro)
            /\ UsedRecords(mem, Owned(mem, keeper.key)) + SizeOf(Recorded(keeper.id)) <= PoolRecords
        BY <2>3, <4>2, Found
      <4> HIDE DEF found
      <4>4. SizeOf(Recorded(keeper.id)) = 1
        BY Shapes
      <4>5. RoomFor(keeper.slot)'
        BY <2>1, <3>2, <4>3, <4>4 DEF RoomFor
      <4> QED BY <2>1, <3>2, <4>1, <4>5 DEF EditorSound
    <3> QED BY <1>2, <1>4, <2>1, <3>2, <3>3 DEF SoundInv
  <2> QED BY <2>2, <2>3
<1>9. CASE BindShortcut
  <2> DEFINE b == Shortcut(<<"played", keeper.id>>)
             q == SetAction(mem, keeper.key, b)
  <2>1. /\ UNCHANGED <<pad, recording, crossed>> /\ keeper.at = "find"
        /\ keeper' = [keeper EXCEPT !.at = "save"] /\ mem' = Reclaim(q)
        /\ meant' = [meant EXCEPT ![keeper.key] = <<"key", <<"played", keeper.id>>, 1>>]
    BY <1>9 DEF BindShortcut, Keeps
  <2>2. keeper' = Shape("save", keeper.slot)
    BY <1>3, <2>1, KeeperMoves
  <2>3. WorkerShape' /\ keeper'.at = "save"
    <3> HIDE DEF Shape
    <3> QED BY <1>5, <2>1, <2>2
  <2>4. ASSUME ~crossed' PROVE EditorSound'
    <3>1. /\ Sound(mem) /\ Meanings(mem) = meant /\ keeper.key \in Keys
          /\ IsProfile(mem) /\ SlotsKept(mem) /\ Fits(mem)
      BY <1>3, <1>4, <2>1, <2>4 DEF EditorSound, WorkerShape, Keeping, Sound
    <3>2. IsBinding(b) /\ b.kind = "key" /\ b.shortcut = <<"played", keeper.id>>
      BY Bindings
    <3> HIDE DEF b
    <3>3. /\ IsProfile(q) /\ SlotsKept(q) /\ Fits(q)
          /\ Meanings(q) = [Meanings(mem) EXCEPT ![keeper.key] = <<b.kind, b.shortcut, 1>>]
      BY <3>1, <3>2, Unbound
    <3> HIDE DEF q
    <3>4. Sound(mem') /\ Meanings(mem') = meant'
      BY <2>1, <3>1, <3>2, <3>3, ReclaimSound
    <3> QED BY <2>3, <3>4 DEF EditorSound
  <2> QED BY <1>2, <1>4, <2>1, <2>3, <2>4 DEF SoundInv
<1>10. CASE Place
  <2> DEFINE r == Placed(mem, keeper.key, keeper.slot, Recorded(keeper.id))
             q == SetAction(r, keeper.key, Sequence(keeper.slot, 1))
  <2>1. /\ UNCHANGED <<pad, recording, crossed, meant>> /\ keeper.at = "place"
        /\ keeper' = [keeper EXCEPT !.at = "bind"] /\ mem' = r
    BY <1>10 DEF Place, Keeps
  <2>2. keeper' = Shape("bind", keeper.slot)
    BY <1>3, <2>1, KeeperMoves
  <2>3. WorkerShape' /\ keeper'.at = "bind" /\ keeper'.key = keeper.key /\ keeper'.id = keeper.id
        /\ keeper'.slot = keeper.slot
    <3> HIDE DEF Shape
    <3> QED BY <1>5, <2>1, <2>2
  <2>4. ASSUME ~crossed' PROVE EditorSound'
    <3>1. /\ Sound(mem) /\ Meanings(mem) = meant /\ keeper.key \in Keys /\ RoomFor(keeper.slot)
      BY <1>3, <1>4, <2>1, <2>4 DEF EditorSound, WorkerShape, Keeping
    <3>2. /\ Sound(q) /\ Fits(r)
          /\ Meanings(q) = [meant EXCEPT ![keeper.key] = <<"sequence", Recorded(keeper.id), 1>>]
      BY <3>1, Placement DEF RoomFor
    <3>3. Bound' = q
      BY <2>1, <2>3 DEF Bound
    <3> HIDE DEF q, r
    <3>4. /\ Sound(Bound)' /\ Fits(mem)'
          /\ Meanings(Bound)' = [meant EXCEPT ![keeper.key] = <<"sequence", Recorded(keeper.id), 1>>]'
      BY <2>1, <2>3, <3>2, <3>3
    <3> QED BY <2>3, <3>4 DEF EditorSound
  <2> QED BY <1>2, <1>4, <2>1, <2>3, <2>4 DEF SoundInv
<1>11. CASE Bind
  <2>1. /\ UNCHANGED <<pad, recording, crossed>> /\ keeper.at = "bind"
        /\ keeper' = [keeper EXCEPT !.at = "save"] /\ mem' = Reclaim(Bound)
        /\ meant' = [meant EXCEPT ![keeper.key] = <<"sequence", Recorded(keeper.id), 1>>]
    BY <1>11 DEF Bind, Keeps, Bound
  <2>2. keeper' = Shape("save", keeper.slot)
    BY <1>3, <2>1, KeeperMoves
  <2>3. WorkerShape' /\ keeper'.at = "save"
    <3> HIDE DEF Shape
    <3> QED BY <1>5, <2>1, <2>2
  <2>4. ASSUME ~crossed' PROVE EditorSound'
    <3>1. Sound(Bound)
          /\ Meanings(Bound) = [meant EXCEPT ![keeper.key] = <<"sequence", Recorded(keeper.id), 1>>]
      BY <1>4, <2>1, <2>4 DEF EditorSound
    <3>2. Sound(mem') /\ Meanings(mem') = meant'
      BY <2>1, <3>1, Unreclaimed
    <3> QED BY <2>3, <3>2 DEF EditorSound
  <2> QED BY <1>2, <1>4, <2>1, <2>3, <2>4 DEF SoundInv
<1>12. CASE KeepSave
  <2>1. /\ UNCHANGED <<mem, pad, recording, crossed, meant>> /\ keeper.at = "save"
        /\ keeper' = [keeper EXCEPT !.at = "push"]
    BY <1>12 DEF KeepSave, Keeps
  <2>2. keeper' = Shape("push", keeper.slot)
    BY <1>3, <2>1, KeeperMoves
  <2>3. WorkerShape' /\ keeper'.at = "push"
    <3> HIDE DEF Shape
    <3> QED BY <1>5, <2>1, <2>2
  <2>4. ~crossed' => EditorSound'
    BY <1>4, <2>1, <2>3 DEF EditorSound
  <2> QED BY <1>2, <1>4, <2>1, <2>3, <2>4 DEF SoundInv
<1>13. CASE KeepPush \/ KeepFails
  <2>1. /\ UNCHANGED <<mem, recording, crossed, meant>> /\ keeper.at \in {"save", "push"}
        /\ keeper' = Idle /\ pad' \in {pad, mem}
    BY <1>13 DEF KeepPush, KeepFails, Keeps
  <2>2. WorkerShape' /\ keeper'.at = "idle"
    BY <1>6, <2>1
  <2>3. ~crossed' => Sound(pad') /\ EditorSound'
    BY <1>4, <2>1, <2>2 DEF EditorSound
  <2> QED BY <1>2, <2>2, <2>3 DEF SoundInv
<1> QED BY <1>7, <1>8, <1>9, <1>10, <1>11, <1>12, <1>13 DEF KeeperActs

LEMMA SoundInit == Init => SoundInv
<1> SUFFICES ASSUME Init PROVE SoundInv
  OBVIOUS
<1>1. /\ mem = Default /\ (pad = Default \/ pad = Foreign) /\ keeper = Idle /\ recording = NoKey
      /\ signals = <<>> /\ meant = Meanings(Default)
      /\ jobs = <<>> \/ jobs = <<Job("connect")>>
  BY DEF Init
<1>2. keeper.at = "idle" /\ keeper.key = NoKey /\ keeper.id = 0 /\ keeper.slot = NoSlot
  BY <1>1 DEF Idle
<1>3. WorkerShape
  BY <1>1, <1>2 DEF WorkerShape, Keeping, Idle
<1>4. EditorSound
  BY <1>1, <1>2, Given DEF EditorSound
<1>5. JobsSound
  BY <1>1 DEF JobsSound, Jobs, Job
<1>6. SignalsSound
  BY <1>1 DEF SignalsSound, Signals
<1> QED BY <1>1, <1>3, <1>4, <1>5, <1>6, Given DEF SoundInv

LEMMA SoundNext == IInv /\ IInv' /\ SoundInv /\ [Next]_vars => SoundInv'
<1> SUFFICES ASSUME IInv, IInv', SoundInv, [Next]_vars PROVE SoundInv'
  OBVIOUS
<1>1. LockInv /\ KeeperInv /\ KeeperInv'
  BY DEF IInv, LockInv
<1>2. CASE UNCHANGED vars
  <2>1. UNCHANGED <<mem, pad, keeper, meant, recording, crossed, jobs, signals>>
    BY <1>2 DEF vars, profiles, recorder, history
  <2>2. ~crossed' => Sound(pad)' /\ JobsSound' /\ SignalsSound'
    BY <1>1, <2>1, JobsStaySound, SignalsStaySound DEF SoundInv
  <2> QED BY <1>1, <2>1, <2>2, SoundStays DEF SoundInv, WorkerShape
<1>3. CASE Next
  <2> SUFFICES
        \/ (\E k \in Keys : Edit(k)) \/ Drag \/ Settle \/ AdoptLocal \/ ResetAlone
        \/ \/ \E what \in {"edit", "file", "reset"} : OpenDialog(what)
           \/ Cancel \/ PollSeesLink \/ LeaveBoth \/ Disconnect \/ Connect
           \/ AskSide \/ AskNot \/ Answer \/ Reset \/ ResetFailed \/ Synced \/ SyncFailed
           \/ (\E k \in Keys : Record(k)) \/ Dismiss \/ Abort \/ Unplug \/ Plug
        \/ ResetReady \/ Adopt
        \/ WorkerActs
        \/ KeeperActs \/ Finish
    BY <1>1, SoundEdits, SoundClicks, SoundReports, SoundWorker, SoundKeeps
  <2> QED BY <1>3 DEF Next, WindowActs
<1> QED BY <1>2, <1>3

(* A key does what it was last given, whatever other keys are given or have   *)
(* taken away, in whichever slots their macros lie, and what the slots hold   *)
(* fits the pad (_find_macro_slot, set_repeat, assign_recording,              *)
(* reclaim_storage), unless a recording is stored while the window works.     *)
THEOREM NoneRobbed == Spec => []KeysKeepTheirs
<1>1. SoundInv => KeysKeepTheirs
  BY DEF SoundInv, EditorSound, KeysKeepTheirs, Sound, Fits
<1> QED BY <1>1, Invariant, SoundInit, SoundNext, PTL DEF Spec

================================================================================
