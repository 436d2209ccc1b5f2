--------------------------- MODULE AtomicProfile ---------------------------
(***************************************************************************)
(* What the pad promises about the profile that survives a power loss.     *)
(* `stored` is the profile a boot at this moment would come up with.  It   *)
(* only ever becomes the profile a job in progress is installing.  Where   *)
(* the store is not atomic, a job that is cut short may leave the factory  *)
(* profile, or the last whole one; it never leaves a mixture.              *)
(***************************************************************************)
CONSTANTS
  Profiles,  \* the bodies a profile can have
  Factory,   \* the profile of writeDefaults
  Nothing    \* no job, or no profile yet

VARIABLES
  atomic,  \* does the store replace a profile in one step?
  stored,  \* the profile a boot would load
  last,    \* the last profile stored whole
  job      \* the profile being installed

vars == <<atomic, stored, last, job>>

Init ==
  /\ atomic \in BOOLEAN
  /\ stored \in Profiles
  /\ last \in Profiles \cup {Nothing}
  /\ job = Nothing

Start(p) == job = Nothing /\ job' = p /\ UNCHANGED <<atomic, stored, last>>

Land ==
  /\ job \in Profiles
  /\ stored' = job
  /\ last' = job
  /\ job' \in {job, Nothing}
  /\ UNCHANGED atomic

Spoil ==
  /\ ~atomic
  /\ job \in Profiles
  /\ stored' = Factory
  /\ UNCHANGED <<atomic, last, job>>

Recover ==
  /\ ~atomic
  /\ job \in Profiles
  /\ last \in Profiles
  /\ stored' = last
  /\ UNCHANGED <<atomic, last, job>>

\* The job is done, or the power went.
Stop == job' = Nothing /\ UNCHANGED <<atomic, stored, last>>

Next ==
  \/ \E p \in Profiles : Start(p)
  \/ Land
  \/ Spoil
  \/ Recover
  \/ Stop

Spec == Init /\ [][Next]_vars
=============================================================================
