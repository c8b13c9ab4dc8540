---------------------------- MODULE ScanOwnership ----------------------------
(***************************************************************************)
(* What the scan lifecycle promises, without handlers, flags or threads: a *)
(* run is scanned by one scan at a time, only the scan that owns a run     *)
(* changes how far it is, and only the scan that owns a run, and that has  *)
(* every module of it, declares it scanned.  ScanLifecycle implements it.  *)
(***************************************************************************)
CONSTANTS
    Runs,
    Scans,
    Modules   \* selected modules of a run

VARIABLES
    owner,      \* the scans at work on a run
    progress,   \* the modules completed in a run's checkpoint
    scanned     \* the runs that say "scanned"

vars == <<owner, progress, scanned>>

Init ==
    /\ owner = [r \in Runs |-> {}]
    /\ progress = [r \in Runs |-> {}]
    /\ scanned = {}

\* A scan takes a run that nobody owns; a new scan of a run makes it unfinished.
Claim(r, s) ==
    /\ owner[r] = {}
    /\ owner' = [owner EXCEPT ![r] = {s}]
    /\ scanned' = scanned \ {r}
    /\ UNCHANGED progress

Owned(r) == owner[r] # {} /\ r \notin scanned

Advance(r) ==
    /\ Owned(r)
    /\ \E more \in SUBSET Modules : progress' = [progress EXCEPT ![r] = @ \cup more]
    /\ UNCHANGED <<owner, scanned>>

StartOver(r) ==
    /\ Owned(r)
    /\ progress' = [progress EXCEPT ![r] = {}]
    /\ UNCHANGED <<owner, scanned>>

DeclareScanned(r) ==
    /\ Owned(r)
    /\ progress[r] = Modules
    /\ scanned' = scanned \cup {r}
    /\ UNCHANGED <<owner, progress>>

Release(r) ==
    /\ owner' = [owner EXCEPT ![r] = {}]
    /\ UNCHANGED <<progress, scanned>>

\* A user ends, discards, relaunches or deletes a run.
Withdraw(r) ==
    /\ scanned' = scanned \ {r}
    /\ UNCHANGED <<owner, progress>>

\* The process dies with its scans.
Restart ==
    /\ owner' = [r \in Runs |-> {}]
    /\ UNCHANGED <<progress, scanned>>

OwnerStep(r) == Advance(r) \/ StartOver(r) \/ DeclareScanned(r) \/ Release(r)

Next ==
    \/ \E r \in Runs : (\E s \in Scans : Claim(r, s)) \/ OwnerStep(r) \/ Withdraw(r)
    \/ Restart

Spec == Init /\ [][Next]_vars
=============================================================================
