---------------------------- MODULE MCV3Assurance ----------------------------
(***************************************************************************)
(* The model-checking instances of VerificationJobs and AssuranceChecks.   *)
(*                                                                         *)
(* Neither reads a variable of the other: what a check returns is free in  *)
(* VerificationJobs.  So each is explored while the other has not begun,   *)
(* and every behaviour of either one alone is a behaviour of V3Spec.       *)
(***************************************************************************)
EXTENDS VerificationJobs, AssuranceChecks, TLC

V3Init == Init /\ ChecksInit
V3Next ==
    \/ ChecksInit /\ Next /\ UNCHANGED checksVars
    \/ Init /\ ChecksNext /\ UNCHANGED vars
V3Spec == V3Init /\ [][V3Next]_<<vars, checksVars>>

Threads == Permutations(Callers)

Candidate(key, method, placeholder) ==
    [key |-> key, method |-> method, placeholder |-> placeholder, url |-> "same",
     schema |-> TRUE]
\* A read next to a write of the same key and a foreign one; a read with a parameter.
TwoDocuments == {<<Candidate("sum", "GET", FALSE), Candidate("sum", "POST", FALSE),
                   Candidate("set", "POST", FALSE)>>,
                 <<[Candidate("far", "GET", FALSE) EXCEPT !.url = "foreign"],
                   Candidate("one", "GET", TRUE)>>}
Plain == [safe |-> TRUE, enabled |-> TRUE, auth |-> "none", fixture |-> FALSE, probe |-> FALSE]
\* Read-only whatever the method, switched off, a token that is missing or not, a negative case.
FiveRules == {Plain, [Plain EXCEPT !.enabled = FALSE], [Plain EXCEPT !.auth = "fixture"],
              [Plain EXCEPT !.auth = "fixture", !.fixture = TRUE],
              [Plain EXCEPT !.probe = TRUE]}
\* One percent, one percent and a rounding, and all of it.
ThreeFigures == {<<100>>, <<101>>, <<10000>>}
=============================================================================
