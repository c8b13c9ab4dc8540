-------------------------- MODULE AssuranceChecks --------------------------
(***************************************************************************)
(* One bounded V3 check: v3_orchestration_service.py over                  *)
(* v3_api_contract_service.py and v3_data_assertion_service.py, with the   *)
(* registration of contracts, operations and scenarios.                    *)
(*                                                                         *)
(* A check reads its registration, the dashboard and the source one after  *)
(* the other; the application, its figure, its session and the rules of    *)
(* the operation may change between any two of them.  How a job and its    *)
(* attempts store the verdict is VerificationJobs.                         *)
(***************************************************************************)
EXTENDS Integers, Sequences, FiniteSets, FiniteSetsExt, SequencesExt

CONSTANTS
    Documents,      \* source documents: sequences of candidate operations
    Rules,          \* the rules an operator gives to an operation
    Figures,        \* what a dashboard shows: sequences of shares, in 1/10000
    Formats,        \* value formats the scenarios use
    Tolerance, Window,
    SourceStyles,   \* how a source writes a percentage: "fraction" or "points"
    Absent,
    MaxChecks, MaxChanges, MaxTime      \* bounds

One == 10000
\* normalize_scalar reads a number above one as points: shares are at most one.
ASSUME FiguresAssumption == Figures \subseteq Seq(0..One)
ASSUME RulesAssumption ==
    Rules \subseteq [safe : BOOLEAN, enabled : BOOLEAN, auth : {"none", "fixture", "required"},
                    fixture : BOOLEAN, probe : BOOLEAN]
ASSUME NumbersAssumption ==
    {Tolerance, Window, MaxChecks, MaxChanges, MaxTime} \subseteq Nat

ReadOnly == {"GET", "HEAD", "OPTIONS"}
Filters == {"none", "expected"}

VARIABLES
    contract,       \* Absent, or the approved flag and the environment
    ops,            \* the operations of the contract
    assertion,      \* Absent, or the data assertion on one of them
    scenario,       \* Absent, or the assurance scenario
    figure, stamp,  \* the figure of the source and the time it was computed
    screen,         \* what the dashboard shows: a figure, or <<>> for nothing
    session, up,    \* is the session of the browser valid, is the target reachable
    now,
    check,          \* the check at work, and its outcome once it is done
    checks, changes

registry == <<contract, ops, assertion, scenario>>
world == <<figure, stamp, screen, session, up, now>>
checksVars == <<registry, world, check, checks, changes>>

CheckIsAt(pc) == check.pc = pc
Resting == check.pc \in {"idle", "done"}

---------------------------------------------------------------------------
(* normalize_contract: candidates within the origin, the first one of      *)
(* every key; only a read-only method is marked safe and enabled.  The url *)
(* of a candidate is a path or a url of the base's origin, or else foreign, *)
(* with a variable that is not resolved, or with a query.                  *)
InScope(c) == c.url = "same"

Operation(c) ==
    [key |-> c.key, method |-> c.method, placeholder |-> c.placeholder,
     safe |-> c.method \in ReadOnly, enabled |-> c.method \in ReadOnly,
     auth |-> "none", fixture |-> FALSE, probe |-> FALSE, rules |-> c.schema]

NormalizeContract(document) ==
    LET inScope == SelectSeq(document, InScope)
        first(n) == \A k \in 1..(n - 1) : inScope[k].key # inScope[n].key
        kept == SetToSortSeq({n \in DOMAIN inScope : first(n)}, <)
    IN  [n \in DOMAIN kept |-> Operation(inScope[kept[n]])]

Readable(op) == op.enabled /\ op.safe
SafeOperation(op) == Readable(op) /\ op.method \in ReadOnly

\* A document without an operation in scope is refused.
RegisterContract ==
    /\ contract = Absent
    /\ \E d \in Documents, approved \in BOOLEAN, env \in {"staging", "production"} :
        /\ NormalizeContract(d) # <<>>
        /\ ops' = NormalizeContract(d)
        /\ contract' = [approved |-> approved, environment |-> env]
    /\ UNCHANGED <<assertion, scenario, world, check, checks, changes>>

\* PUT api-operations/rules stores what it is given: nothing compares safe with the method.
ConfigureRules ==
    /\ checks < MaxChecks /\ changes < MaxChanges /\ changes' = changes + 1
    /\ \E n \in DOMAIN ops, r \in Rules :
        ops' = [ops EXCEPT ![n].safe = r.safe, ![n].enabled = r.enabled, ![n].auth = r.auth,
                           ![n].fixture = r.fixture, ![n].probe = r.probe]
    /\ UNCHANGED <<contract, assertion, scenario, world, check, checks>>

RegisterDataAssertion ==
    /\ assertion = Absent /\ scenario = Absent
    /\ \E n \in DOMAIN ops, format \in Formats, style \in SourceStyles,
          filtered, timed, approved \in BOOLEAN :
        /\ Readable(ops[n])
        /\ assertion' = [op |-> n, format |-> format, style |-> style,
                         filtered |-> filtered, timed |-> timed, approved |-> approved]
    /\ UNCHANGED <<contract, ops, scenario, world, check, checks, changes>>

\* What an assurance scenario may refer to: an operation that may be read now,
\* or an approved assertion, whatever became of its operation since.
References ==
    {[kind |-> "api_contract", op |-> n] : n \in {m \in DOMAIN ops : Readable(ops[m])}}
    \cup IF assertion # Absent /\ assertion.approved
         THEN {[kind |-> "data_assertion", op |-> assertion.op]} ELSE {}

\* Bounds: a registry has an assertion or a scenario about an operation, not both,
\* and time starts after the registrations.
RegisterScenario ==
    /\ scenario = Absent /\ now = 0 /\ checks = 0
    /\ \E ref \in References, approved \in BOOLEAN :
        /\ ref.kind = "api_contract" => assertion = Absent
        /\ scenario' = [kind |-> ref.kind, op |-> ref.op, approved |-> approved]
    /\ UNCHANGED <<contract, ops, assertion, world, check, checks, changes>>

---------------------------------------------------------------------------
(* Numbers.  A raw scalar is a number of 1/10000 and whether a percent     *)
(* sign follows it.                                                        *)
NormalizeScalar(raw, format) ==
    IF format = "percentage" /\ (raw.percent \/ raw.number > One)
    THEN raw.number \div 100 ELSE raw.number

\* How the dashboard and the source write a share.
OnScreen(share, format) ==
    IF format = "percentage" THEN [number |-> 100 * share, percent |-> TRUE]
    ELSE [number |-> share, percent |-> FALSE]
InSource(share, format, style) ==
    [number |-> IF format = "percentage" /\ style = "points" THEN 100 * share ELSE share,
     percent |-> FALSE]

Abs(n) == IF n < 0 THEN -n ELSE n
\* The largest difference of two series of one length.
MaxDelta(a, b) == Max({0} \cup {Abs(a[n] - b[n]) : n \in DOMAIN a})

\* get_nested_value is a figure, the stamp the time at which it was computed.
FilterMismatch(expected, ui, source) ==
    IF expected # "none" THEN ui # expected \/ source # expected ELSE ui # source
Stale(scen, at, reading) == scen.timed /\ at - reading.stamp > Window

\* compare_dashboard_data, from top to bottom.
Outcome(result, category) == [result |-> result, category |-> category]
DifferenceOf(scen, shown, reading) ==
    LET ui == [n \in DOMAIN shown |-> NormalizeScalar(OnScreen(shown[n], scen.format), scen.format)]
        source == [n \in DOMAIN reading.figure |->
                     NormalizeScalar(InSource(reading.figure[n], scen.format, scen.style),
                                     scen.format)]
    IN  IF Len(ui) # Len(source) THEN One + Tolerance + 1 ELSE MaxDelta(ui, source)

CompareValues(scen, shown, reading) ==
    LET delta == DifferenceOf(scen, shown, reading)
        exact == scen.format = "table"
    IN  IF delta = 0 THEN Outcome("pass", "matched")
        ELSE IF delta <= Tolerance /\ ~exact THEN Outcome("pass", "rounding_mismatch")
        ELSE Outcome("fail", "visual_source_mismatch")

CompareAtAnyTime(scen, c) ==
    IF c.shown = <<>> THEN Outcome("fail", "ui_capture_failed")
    ELSE IF c.reading.result # "ok" THEN Outcome("blocked", c.reading.category)
    ELSE IF FilterMismatch(IF scen.filtered THEN "expected" ELSE "none", c.uiFilter, c.sourceFilter)
    THEN Outcome("fail", "filter_mismatch")
    ELSE CompareValues(scen, c.shown, c.reading)
CompareDashboardData(scen, c) ==
    IF c.shown = <<>> THEN Outcome("fail", "ui_capture_failed")
    ELSE IF c.reading.result # "ok" THEN Outcome("blocked", c.reading.category)
    ELSE IF FilterMismatch(IF scen.filtered THEN "expected" ELSE "none", c.uiFilter, c.sourceFilter)
    THEN Outcome("fail", "filter_mismatch")
    ELSE IF Stale(scen, c.at, c.reading) THEN Outcome("fail", "stale_data")
    ELSE CompareValues(scen, c.shown, c.reading)

---------------------------------------------------------------------------
(* The answers of the target.                                              *)
Blocked(category) == [result |-> "blocked", category |-> category]
NoReading == [result |-> "blocked", category |-> "none", figure |-> <<>>, stamp |-> 0]

\* What a dashboard answers to capture_dashboard_ui_value: a server that fails behind a target
\* that is up, and an expired session, have a page of their own to show.
DashboardAnswers ==
    IF ~up THEN {"timeout", "unreachable", "out of scope"}
    ELSE IF session THEN {"page", "server error"}
    ELSE {"401 or 403", "login path", "sign-in page"}

\* The value is looked up on whatever page is reached, unless its status is 401 or 403 or its
\* path is that of a login: no other status and no other page is recognised.
ValueOnPage ==
    IF screen = <<>> THEN Outcome("fail", "ui_capture_failed") ELSE Outcome("ok", "ui_captured")
CaptureOf(answer) ==
    CASE answer = "timeout"                            -> Blocked("target_timeout")
      [] answer = "unreachable"                        -> Blocked("target_unavailable")
      [] answer = "out of scope"                       -> Blocked("target_scope_invalid")
      [] answer \in {"401 or 403", "login path"}       -> Blocked("auth_expired")
      [] answer \in {"server error", "sign-in page"}   -> Outcome("fail", "ui_capture_failed")
      [] answer = "page"                               -> ValueOnPage

\* read_approved_source: the gates, then the answer; a source says when its figure was computed.
ReadGate(con, op) ==
    CASE ~con.approved -> "source_contract_not_approved"
      [] con.approved /\ ~SafeOperation(op) -> "source_operation_not_read_only"
      [] con.approved /\ SafeOperation(op) /\ op.auth = "fixture" -> "source_auth_fixture_not_available"
      [] OTHER -> "open"

SourceFaults ==
    IF up THEN {"source_authorization_failure", "source_unexpected_status", "source_not_json",
                "missing_data", "missing_source_freshness"}
    ELSE {"source_timeout", "source_unavailable", "source_scope_invalid"}
Unread(category) == [NoReading EXCEPT !.category = category]
Readings(con, op, timed) ==
    IF ReadGate(con, op) # "open" THEN {Unread(ReadGate(con, op))}
    ELSE {Unread(f) : f \in SourceFaults \ (IF timed THEN {} ELSE {"missing_source_freshness"})}
         \cup IF up THEN {[result |-> "ok", category |-> "source_read",
                           figure |-> figure, stamp |-> stamp]} ELSE {}

\* construct_safe_request needs a value for the placeholder of a path.
MissesParameter(op, given) == op.placeholder /\ given # "legal"

\* validate_registered_operation up to the request.
RequestGate(con, op, negative, given) ==
    CASE ~con.approved -> "contract_not_approved"
      [] con.approved /\ ~SafeOperation(op) -> "unsafe_or_disabled_operation"
      [] OTHER ->
         IF negative /\ (con.environment # "staging" \/ ~op.probe)
         THEN "negative_case_not_authorized"
         ELSE IF op.auth = "fixture" /\ ~op.fixture THEN "missing_approved_auth_fixture"
         ELSE IF MissesParameter(op, given) THEN "invalid_request_parameters"
         ELSE "open"

\* Its evaluation of an answer: status, latency, then the body against schema and fields.
Answers == [status : {200, 401, 500}, slow : BOOLEAN, body : {"plain", "conforms", "broken", "incomplete", "invalid_schema"}]
EvaluateAnswer(op, negative, a) ==
    IF negative
    THEN IF a.status = 401 THEN Outcome("pass", "authorization_boundary_verified")
         ELSE Outcome("fail", "authorization_boundary_violation")
    ELSE IF a.status = 401 THEN Outcome("fail", "authorization_failure")
    ELSE IF a.status # 200 THEN Outcome("fail", "unexpected_status_code")
    ELSE IF a.slow THEN Outcome("fail", "latency_threshold_exceeded")
    ELSE IF a.body = "broken" \/ (op.rules /\ a.body = "plain") THEN Outcome("fail", "response_not_json")
    ELSE IF op.rules /\ a.body = "incomplete" THEN Outcome("fail", "schema_validation_failed")
    ELSE IF op.rules /\ a.body = "invalid_schema" THEN Outcome("inconclusive", "invalid_contract_schema")
    ELSE Outcome("pass", "contract_satisfied")

Validations(con, op, negative, given) ==
    IF RequestGate(con, op, negative, given) # "open"
    THEN {Blocked(RequestGate(con, op, negative, given))}
    ELSE IF up THEN {EvaluateAnswer(op, negative, a) : a \in Answers}
    ELSE {Blocked("target_timeout"), Blocked("target_unavailable"), Blocked("target_scope_invalid")}

---------------------------------------------------------------------------
(* A check.                                                                *)
NoCheck == [pc |-> "idle", via |-> "none", contract |-> Absent, op |-> Absent,
         negative |-> FALSE, given |-> "none", shown |-> <<>>, at |-> 0,
         uiFilter |-> "none", sourceFilter |-> "none", reading |-> NoReading,
         outcome |-> Outcome("blocked", "none"), verdict |-> "none", fault |-> FALSE,
         stored |-> FALSE]

ChecksInit ==
    /\ contract = Absent /\ ops = <<>> /\ assertion = Absent /\ scenario = Absent
    /\ figure \in Figures /\ screen = figure /\ stamp = 0
    /\ session = TRUE /\ up = TRUE /\ now = 0
    /\ check = NoCheck
    /\ checks = 0 /\ changes = 0

\* plan_assurance_job: which of its gates refuses the job, if any.
PlanAssuranceJob(job) ==
    IF ~scenario.approved THEN "scenario_not_approved"
    ELSE IF job.mode = "security_only" THEN "security_mode_not_in_v3_orchestrator"
    ELSE IF ~job.role THEN "role_scope_mismatch"
    ELSE IF ~up THEN "target_scope_invalid"
    ELSE IF ~job.origin THEN "target_origin_mismatch"
    ELSE "ready"

Jobs == [mode : {"functional_only", "security_only"}, role : BOOLEAN, origin : BOOLEAN]

\* get_v3_api_operation: a check keeps the registration as it is read here.
Registered(via, n) == [NoCheck EXCEPT !.via = via, !.contract = contract, !.op = ops[n]]

\* orchestrate_job up to execute_approved_scenario: the registration is read once.
OrchestrateCheck ==
    /\ Resting /\ scenario # Absent /\ checks < MaxChecks
    /\ checks' = checks + 1
    /\ \E job \in Jobs :
        LET plan == PlanAssuranceJob(job)
            started == Registered("orchestrate", scenario.op)
        IN  check' = IF plan # "ready"
                     THEN [started EXCEPT !.pc = "done", !.verdict = "blocked",
                                          !.outcome = Blocked(plan)]
                     ELSE [started EXCEPT !.pc = IF scenario.kind = "api_contract"
                                                 THEN "validate" ELSE "capture"]
    /\ UNCHANGED <<registry, world, changes>>

\* POST data-assertion-scenarios/evaluate: the caller gives the value, or it is captured later.
\* A bound: in a registry without a scenario, which it does not read.
Evaluate ==
    /\ Resting /\ assertion # Absent /\ scenario = Absent /\ checks < MaxChecks
    /\ assertion.approved
    /\ checks' = checks + 1
    /\ \E value \in Figures \cup {<<>>}, ui, source \in Filters :
        check' = [Registered("evaluate", assertion.op) EXCEPT
                     !.pc = "read", !.shown = value, !.at = now, !.uiFilter = ui, !.sourceFilter = source]
    /\ UNCHANGED <<registry, world, changes>>

\* POST api-operations/validate, with the negative case and the parameters of the caller.
\* A bound: in a registry without an assertion, which it does not read.
Validate ==
    /\ Resting /\ contract # Absent /\ assertion = Absent /\ checks < MaxChecks
    /\ checks' = checks + 1
    /\ \E n \in DOMAIN ops, negative \in BOOLEAN, given \in {"none", "legal", "illegal"} :
        check' = [Registered("validate", n) EXCEPT !.pc = "validate", !.negative = negative, !.given = given]
    /\ UNCHANGED <<registry, world, changes>>

\* The verdict of a capture that failed, and of the comparison.
CaptureVerdict(category) ==
    IF category \in {"target_timeout", "target_unavailable", "target_scope_invalid", "auth_expired"}
    THEN "blocked" ELSE "reproduced"
VerdictByResult(o) == IF o.result = "pass" THEN "not_reproduced" ELSE "reproduced"
ComparisonVerdict(o) ==
    IF o.result = "pass" THEN "not_reproduced"
    ELSE IF o.result = "blocked" \/ o.category \in
        {"target_timeout", "target_unavailable", "target_scope_invalid", "source_unavailable",
         "source_authorization_failure", "auth_expired"}
    THEN "blocked" ELSE "reproduced"
ContractVerdict(o) ==
    IF o.result = "pass" THEN "not_reproduced"
    ELSE IF o.category \in {"target_timeout", "target_unavailable", "target_scope_invalid",
                            "contract_not_approved", "unsafe_or_disabled_operation"}
    THEN "blocked" ELSE "reproduced"

\* The filters of a capture are the ones that were asked for.
Capture ==
    /\ CheckIsAt("capture")
    /\ \E answer \in DashboardAnswers :
        LET o == CaptureOf(answer)
            seen == [check EXCEPT !.fault = @ \/ answer # "page", !.at = now]
            filter == IF assertion.filtered THEN "expected" ELSE "none"
        IN  check' = IF check.via = "evaluate"
                     THEN [seen EXCEPT !.pc = "compare",
                              !.shown = IF o.result = "ok" THEN screen ELSE <<>>,
                              !.uiFilter = IF o.result = "ok" THEN filter ELSE @]
                     ELSE IF o.result = "ok"
                     THEN [seen EXCEPT !.pc = "read", !.shown = screen, !.uiFilter = filter]
                     ELSE [seen EXCEPT !.pc = "done", !.outcome = o,
                              !.verdict = CaptureVerdict(o.category)]
    /\ UNCHANGED <<registry, world, checks, changes>>

Read ==
    /\ CheckIsAt("read")
    /\ \E r \in Readings(check.contract, check.op, assertion.timed) :
        check' = [check EXCEPT !.reading = r, !.fault = @ \/ r.result # "ok",
                     !.pc = IF check.via = "evaluate" /\ check.shown = <<>>
                            THEN "capture" ELSE "compare"]
    /\ UNCHANGED <<registry, world, checks, changes>>

Compare ==
    /\ CheckIsAt("compare")
    /\ LET o == CompareDashboardData(assertion, check)
       IN  check' = [check EXCEPT !.pc = "record", !.outcome = o,
                        !.verdict = IF check.via = "evaluate" THEN "none" ELSE ComparisonVerdict(o)]
    /\ UNCHANGED <<registry, world, checks, changes>>

RunValidation ==
    /\ CheckIsAt("validate")
    /\ \E o \in Validations(check.contract, check.op, check.negative, check.given) :
        check' = [check EXCEPT !.pc = IF check.via = "validate" THEN "record" ELSE "done", !.outcome = o,
                     !.fault = o.result = "blocked" \/ o.category = "authorization_failure",
                     !.verdict = IF check.via = "validate" THEN "none" ELSE ContractVerdict(o)]
    /\ UNCHANGED <<registry, world, checks, changes>>

(* The observation of a check.  It is refused when the job, the run or the *)
(* manifest that the caller of the endpoint names is not there; a check    *)
(* that a job runs names its own job and the manifest just made.           *)
AddObservation(linked) ==
    /\ check' = [check EXCEPT !.pc = "done", !.stored = linked]
    /\ UNCHANGED <<registry, world, checks, changes>>

RecordDataObservation ==
    /\ CheckIsAt("record") /\ check.via \in {"evaluate", "orchestrate"}
    /\ \E linked \in IF check.via = "evaluate" THEN BOOLEAN ELSE {TRUE} : AddObservation(linked)

RecordApiObservation ==
    /\ CheckIsAt("record") /\ check.via = "validate"
    /\ \E linked \in BOOLEAN : AddObservation(linked)

---------------------------------------------------------------------------
(* The application: its figure changes, a dashboard follows later or shows *)
(* nothing, the session expires, the target goes away and comes back.  A   *)
(* bound: it changes for a check at work and for one that a job may start. *)
Working == check.pc \in {"validate", "capture", "read", "compare"}
Watched == Working \/ (scenario # Absent /\ checks < MaxChecks)
WorldChanges(actions) == Watched /\ changes < MaxChanges /\ changes' = changes + 1 /\ actions
                         /\ UNCHANGED <<registry, check, checks>>
SourceComputes == WorldChanges(
    /\ figure' \in Figures /\ stamp' = now
    /\ UNCHANGED <<screen, session, up, now>>)
DashboardShows == WorldChanges(
    /\ screen' \in {figure, <<>>} \ {screen}
    /\ UNCHANGED <<figure, stamp, session, up, now>>)
SessionChanges == WorldChanges(
    /\ session' = ~session
    /\ UNCHANGED <<figure, stamp, screen, up, now>>)
TargetChanges == WorldChanges(
    /\ up' = ~up
    /\ UNCHANGED <<figure, stamp, screen, session, now>>)
Tick ==
    /\ Watched \/ (assertion # Absent /\ checks < MaxChecks)
    /\ now < MaxTime /\ now' = now + 1
    /\ UNCHANGED <<registry, figure, stamp, screen, session, up, check, checks, changes>>

ChecksNext ==
    \/ RegisterContract \/ ConfigureRules \/ RegisterDataAssertion \/ RegisterScenario
    \/ OrchestrateCheck \/ Evaluate \/ Validate
    \/ Capture \/ Read \/ Compare \/ RunValidation
    \/ RecordDataObservation \/ RecordApiObservation
    \/ SourceComputes \/ DashboardShows \/ SessionChanges \/ TargetChanges \/ Tick

ChecksSpec == ChecksInit /\ [][ChecksNext]_checksVars

---------------------------------------------------------------------------
(* A data check passes only when the share on the dashboard and the share  *)
(* of the source agree up to the tolerance, under the same filters, and    *)
(* the source was computed within the freshness window of the capture:     *)
(* read in two steps, each in a notation of its own.                       *)
OfData == check.via = "evaluate" \/ (check.via = "orchestrate" /\ scenario.kind = "data_assertion")
Agree(shown, read) ==
    /\ Len(shown) = Len(read)
    /\ \A n \in DOMAIN shown : Abs(shown[n] - read[n]) <= Tolerance
PassMeansAgreement ==
    (CheckIsAt("done") /\ OfData /\ check.outcome.result = "pass")
    => /\ Agree(check.shown, check.reading.figure)
       /\ check.uiFilter = check.sourceFilter
       /\ assertion.timed => check.at - check.reading.stamp <= Window

(* A data check that ends as reproduced, a defect of the product, has seen *)
(* one: no value on the page it reached, or a figure of the source that    *)
(* the dashboard's does not agree with, that was read under other filters, *)
(* or that was computed outside the window.  What the capture or the       *)
(* reading has told to be an outage or an expired session never ends so,   *)
(* and no defect is made of the two notations of a share.                  *)
Differ(shown, read, exact) == IF exact THEN shown # read ELSE ~Agree(shown, read)
DefectWasSeen ==
    (CheckIsAt("done") /\ OfData /\ check.verdict = "reproduced")
    => /\ check.outcome.result = "fail"
       /\ check.shown = <<>> \/
          /\ check.reading.result = "ok"
          /\ \/ Differ(check.shown, check.reading.figure, assertion.format = "table")
             \/ check.uiFilter # check.sourceFilter
             \/ assertion.timed /\ check.at - check.reading.stamp > Window

(* "infrastructure or authentication faults must not be reported as        *)
(* customer-product defects" (docs/V3_RELEASE_TASKLIST_AND_PHASE_PROMPTS.md *)
(* lines 24-25): a data check that met an outage, a failing server, an     *)
(* expired session or an unreadable source is not reproduced.  It does not *)
(* hold: a run finds a page of a failing server taken for a missing value. *)
DataFaultIsNoDefect ==
    (CheckIsAt("done") /\ check.verdict = "reproduced" /\ OfData)
    => ~check.fault
=============================================================================
