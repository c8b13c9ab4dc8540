---------------------------- MODULE RouteHealth ----------------------------
(***************************************************************************)
(* score_route of automation_framework/crawler/route_health_scorer.py: the *)
(* health of a route, from the signals that its scan has collected.        *)
(***************************************************************************)
EXTENDS Naturals, FiniteSets

Signals == [
    stable : BOOLEAN,       \* the DOM has settled
    loaded : BOOLEAN,       \* page_load_success
    broken : BOOLEAN,       \* scan_error
    login : BOOLEAN,        \* the page is a login page
    redirected : BOOLEAN,   \* the URL is not the expected one
    late : BOOLEAN,         \* readiness_timeout_reached
    api : {"none", "ok", "failed"},     \* responses of the API, and whether one is an error
    targets : Nat,          \* elements found
    visible : BOOLEAN,      \* whether the page shows controls
    attempted : Nat, succeeded : Nat]   \* interactions

\* round() of Python: a half goes to the even neighbour.
Round(a, b) ==
    LET rest == 2 * (a % b) IN
    a \div b + IF rest > b THEN 1 ELSE IF rest < b THEN 0 ELSE (a \div b) % 2

Points(s) ==
      (IF s.stable THEN 25 ELSE 0)
    + (CASE s.api = "ok" -> 20 [] s.api = "failed" -> 8 [] s.api = "none" -> 0)
    + (IF s.redirected THEN 0 ELSE 20)
    + (IF s.attempted = 0 THEN 0 ELSE Round(15 * s.succeeded, s.attempted))
    + (IF s.targets >= 5 THEN 20 ELSE IF s.targets > 0 THEN 12 ELSE 0)

\* A route without API traffic or interactions is not marked down for it.
Available(s) ==
    65 + (IF s.api = "none" THEN 0 ELSE 20) + (IF s.attempted = 0 THEN 0 ELSE 15)

NormalizedScore(s) ==
    LET score == Round(100 * Points(s), Available(s)) IN IF score > 100 THEN 100 ELSE score

\* Nothing found although controls are visible, or a page that was not ready in time.
Suspect(s) == s.late \/ (s.targets = 0 /\ s.visible)
Score(s) == IF Suspect(s) /\ NormalizedScore(s) > 65 THEN 65 ELSE NormalizedScore(s)

Status(s) ==
    IF s.broken \/ ~s.stable \/ ~s.loaded \/ s.login \/ Score(s) < 40 THEN "NON-WORKING"
    ELSE IF Score(s) < 70 \/ s.api = "failed" \/ s.redirected \/ s.targets = 0 \/ Suspect(s)
    THEN "PARTIAL"
    ELSE "WORKING"
=============================================================================
