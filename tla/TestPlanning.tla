---------------------------- MODULE TestPlanning ----------------------------
(***************************************************************************)
(* How a request for tests becomes a plan: the endpoint generate_test of   *)
(* api/routers/scan.py and the job around it, the provider gateway and its *)
(* adapters (api/services/llm_provider_gateway.py), the built-in planner   *)
(* of api/services/test_planning_service.py and the normalizer of what the *)
(* user uploaded.  The answer of a provider is any of ProviderPlans.       *)
(*                                                                         *)
(* A test id is a pair: <<n, "">> is TC_n, the other members are ids of    *)
(* the user or of a provider.  The ids of a case's steps all start with    *)
(* the same text, the case's stem.                                         *)
(***************************************************************************)
EXTENDS Integers, SequencesExt

CONSTANTS
    Scans,          \* the scans that a request may come with
    Uploads,        \* the uploaded test cases: [format, rows : sequence of [id, route]]
    ProviderPlans,  \* what a model may answer
    Counts,         \* how many cases are asked for, 0 for no limit
    Destructive,    \* labels with a destructive word of the gateway's list
    Dangerous,      \* labels with a word of the classifier's longer list
    SafeClicks,     \* labels that say a click on them is harmless
    Inventory,      \* the route that "continue shopping" is expected to lead to
    Absent,         \* what is not there
    Texts,          \* labels, selectors, paths and words, and Absent
    MaxSteps,       \* _MAX_STEPS_PER_ROUTE
    Attempts        \* 1 + max_retries

\* The words that the planners write themselves.
Words == {"", "NEG", "EDGE", "ITEM", "positive", "negative", "edge", "deterministic", "service",
          "expansion", "row", "navigate", "click", "select", "type", "assert_visible",
          "assert_cart_count", "assert_url"}
TestIds == Nat \X Texts
Steps == [action : Texts, route : Texts, label : Texts, selector : Texts]
PlanCases == [id : TestIds, stem : TestIds, route : Texts, kind : Texts, by : Texts,
              textual : BOOLEAN, steps : Seq(Steps)]
Controls == [label : Texts, selector : Texts, kind : Texts, blocked : BOOLEAN]
Pages == [path : Texts, name : Texts, working : BOOLEAN, targets : Seq(Controls)]

ASSUME TextAssumption == Words \cup {Absent, Inventory} \subseteq Texts
ASSUME ScanShapes == Scans \subseteq [parked : SUBSET Texts, routes : Seq(Pages)]
ASSUME UploadShapes ==
    Uploads \subseteq [format : Texts, rows : Seq([id : TestIds \cup {Absent}, route : Texts])]
ASSUME PlanShapes == ProviderPlans \subseteq Seq(PlanCases)
ASSUME WordAssumption == Destructive \subseteq Dangerous /\ Absent \notin Destructive
ASSUME PlanningBounds == Counts \subseteq Nat /\ MaxSteps \in Nat /\ MaxSteps >= 2 /\ Attempts >= 1

VARIABLES
    job,        \* the entry of _BACKGROUND_PLAN_JOBS
    pc, request,
    attempt,    \* of the request to the provider
    fault,      \* error_category: why the built-in planner was used
    plan,       \* what plan_tests has
    cases, gaps \* what the endpoint makes of it

planningVars == <<job, pc, request, attempt, fault, plan, cases, gaps>>

\* "keyless" is Gemini or the hosted API without its key.
Providers == {"deterministic", "ollama", "gemini", "hosted", "keyless", "other"}
Request == [scan : Scans, provider : Providers, count : Counts, upload : Uploads, broad : BOOLEAN]
TC(n) == <<n, "">>

PlanningInit ==
    /\ job = "none" /\ pc = "idle" /\ request = Absent /\ attempt = 0
    /\ fault = "" /\ plan = <<>> /\ cases = <<>> /\ gaps = {}

---------------------------------------------------------------------------
(* The member of a set with one: {F(x) : x \in {e}} binds e to a name, so   *)
(* that it is evaluated once.                                              *)
The(S) == CHOOSE x \in S : TRUE

(* The members of s at the places I, in their order.                       *)
AtPlaces(s, I) ==
    LET upTo[n \in 0 .. Len(s)] ==
          IF n = 0 THEN <<>> ELSE IF n \in I THEN Append(upTo[n - 1], s[n]) ELSE upTo[n - 1]
    IN  upTo[Len(s)]
Kept(s, I) == The({The({AtPlaces(t, J) : J \in {I}}) : t \in {s}})

(* The members of s whose key, the one at the same place of keys, is not   *)
(* known and comes there for the first time.                               *)
FirstPlaces(keys, known) ==
    {i \in DOMAIN keys : keys[i] \notin known /\ \A j \in 1 .. i - 1 : keys[j] # keys[i]}
NewOnes(s, keys, known) ==
    The({The({Kept(s, FirstPlaces(ks, kn)) : kn \in {known}}) : ks \in {keys}})

SelectCases(s, ids) == Kept(s, {i \in DOMAIN s : s[i].id \in ids})
OtherCases(s, ids) == Kept(s, {i \in DOMAIN s : s[i].id \notin ids})
Ids(s) == {c.id : c \in ToSet(s)}
AtMost(n, s) == IF n > 0 /\ Len(s) > n THEN SubSeq(s, 1, n) ELSE s

\* The first free id of the form TC_n.
FreeId(n, used) == TC(CHOOSE m \in n .. n + Cardinality(used) :
                        TC(m) \notin used /\ \A k \in n .. m - 1 : TC(k) \in used)

Paths(scan) == {r.path : r \in ToSet(scan.routes)}
Targets(scan, path) == UNION {ToSet(r.targets) : r \in {x \in ToSet(scan.routes) : x.path = path}}
Names(x) == {x.label, x.selector} \ {Absent}

---------------------------------------------------------------------------
(* The built-in planner: what it does with a control, and what it expects  *)
(* of it.                                                                  *)
Step(action, route, label, selector) ==
    [action |-> action, route |-> route, label |-> label, selector |-> selector]
\* A visit is labelled with the name of the page in the menu, whatever that says.
Navigate(path, name) == Step("navigate", path, name, Absent)

ActionFor(t) ==
    CASE t.kind \in {"cart", "return", "details", "tab", "page"} -> "click"
      [] t.kind = "sort" -> "select"
      [] t.kind = "input" -> "type"
      [] OTHER -> "assert_visible"
ElementStep(path, t) == Step(ActionFor(t), path, t.label, t.selector)
FollowUp(path, t) ==
    CASE t.kind = "cart" -> <<Step("assert_cart_count", path, Absent, Absent)>>
      [] t.kind = "return" -> <<Step("assert_url", Inventory, Absent, Absent)>>
      [] OTHER -> <<>>

WithControl(steps, path, t, excluded) ==
    IF \/ Len(steps) >= MaxSteps \/ t \in excluded
       \/ t.label \in {Absent} \cup {s.label : s \in ToSet(Tail(steps))}
    THEN steps
    ELSE AtMost(MaxSteps, steps \o <<ElementStep(path, t)>> \o FollowUp(path, t))

\* A page is entered and its first controls are used, as many as there are steps for.
StepsOnRoute(route, excluded) ==
    LET upTo[n \in 0 .. Len(route.targets)] ==
          IF n = 0 THEN <<Navigate(route.path, route.name)>>
          ELSE The({WithControl(b, route.path, route.targets[n], excluded) : b \in {upTo[n - 1]}})
    IN  upTo[Len(route.targets)]

AllTargets(scan) == UNION {ToSet(r.targets) : r \in ToSet(scan.routes)}

\* One case per route that works; its number counts the other routes too.
CasePerRoute(scan, by, excluded) ==
    LET case(i) == [id |-> TC(i), stem |-> TC(i), route |-> scan.routes[i].path, kind |-> "positive",
                    by |-> by, textual |-> FALSE, steps |-> StepsOnRoute(scan.routes[i], excluded)]
    IN  Kept([i \in DOMAIN scan.routes |-> case(i)], {i \in DOMAIN scan.routes : scan.routes[i].working})

ParkedIn(scan, x) == Names(x) \cap scan.parked # {}
ExcludedByGateway(scan, t) == t.blocked \/ t.label \in Destructive \/ ParkedIn(scan, t)
ExcludedByService(t) == t.blocked \/ t.label \in Dangerous

\* A negative and an edge variant of every case, with the same steps, when the prompt asks for it.
Variants(s) ==
    LET variant(c, suffix, kind) == [c EXCEPT !.id = <<c.id[1], suffix>>, !.kind = kind]
    IN  FlattenSeq([i \in DOMAIN s |-> <<variant(s[i], "NEG", "negative"), variant(s[i], "EDGE", "edge")>>])

DeterministicPlan(r) ==
    LET base == CasePerRoute(r.scan, "deterministic",
                             {t \in AllTargets(r.scan) : ExcludedByGateway(r.scan, t)})
    IN  IF r.broad THEN base \o Variants(base) ELSE base

\* build_test_cases, for when no case of the plan could be read.
BuildTestCases(scan) ==
    CasePerRoute(scan, "service", {t \in AllTargets(scan) : ExcludedByService(t)})

---------------------------------------------------------------------------
(* validate_plan_grounding.                                                *)
PageActions == {"navigate", "assert_url", "assert_route", "assert_cart_count", "assert_count"}
AllowedActions == PageActions \cup {"assert_visible", "click", "open_menu", "expand", "apply_filter",
    "change_sorting", "select", "pagination", "search_input", "type", "add_to_cart",
    "continue_shopping", "open_details"}

\* A control is known by its label or by its selector, among those of the route of the case.
OnRoute(scan, path, s) == \E t \in Targets(scan, path) : Names(t) \cap Names(s) # {}

StepFault(scan, c, s) ==
    IF s.action \notin AllowedActions THEN "UNSUPPORTED_ACTION"
    ELSE IF s.route \notin Paths(scan) THEN "HALLUCINATION"
    ELSE IF s.label \in Destructive \/ ParkedIn(scan, s) THEN "MUTATING_ACTION_REJECTED"
    ELSE IF s.action = "click" /\ s.label \notin SafeClicks THEN "UNSUPPORTED_ACTION"
    ELSE IF s.action \in PageActions THEN ""
    ELSE IF Names(s) = {} THEN "SCHEMA_ERROR"
    ELSE IF ~OnRoute(scan, c.route, s) THEN "HALLUCINATION"
    ELSE ""

\* The category of the first thing that is wrong, "" when nothing is.
FirstFault(faults) ==
    LET found == {i \in DOMAIN faults : faults[i] # ""}
    IN  IF found = {} THEN "" ELSE faults[Min(found)]

CaseFault(scan, c) ==
    IF c.route \notin Paths(scan) THEN "HALLUCINATION"
    ELSE IF c.steps = <<>> THEN "SCHEMA_ERROR"
    ELSE FirstFault([i \in DOMAIN c.steps |-> StepFault(scan, c, c.steps[i])])

GroundingFault(scan, p) ==
    IF p = <<>> THEN "SCHEMA_ERROR" ELSE FirstFault([i \in DOMAIN p |-> CaseFault(scan, p[i])])

---------------------------------------------------------------------------
(* _expand_grounded_cases_to_requested_count: a focused case for a step of *)
(* the plan, with the assertion that follows it, and for a control of the  *)
(* scan that no step is about, until there are enough.                     *)
FollowingAssertion(steps, i) ==
    IF /\ steps[i].action \in {"click", "type", "select"} /\ i < Len(steps)
       /\ steps[i + 1].action \in {"assert_visible", "assert_url", "assert_route", "assert_cart_count", "assert_count"}
    THEN <<steps[i + 1]>> ELSE <<>>

FocusesOfCase(c) ==
    Kept([i \in DOMAIN c.steps |->
             [base |-> c, step |-> c.steps[i], follow |-> FollowingAssertion(c.steps, i)]],
         {i \in DOMAIN c.steps : c.steps[i].action # "navigate"})

\* The last case of the route, or a case that only goes there.
BaseOnRoute(p, route) ==
    LET there == {i \in DOMAIN p : p[i].route = route.path}
    IN  IF there # {} THEN p[Max(there)]
        ELSE [id |-> TC(0), stem |-> TC(0), route |-> route.path, kind |-> "positive", by |-> "expansion",
              textual |-> FALSE, steps |-> <<Navigate(route.path, route.name)>>]

AnyTarget(t) == t.label # Absent /\ ~t.blocked
HarmlessTarget(t) == t.label # Absent /\ ~t.blocked /\ t.label \notin Destructive

FocusesOfRoute(p, route) ==
    Kept([i \in DOMAIN route.targets |->
             [base |-> BaseOnRoute(p, route), follow |-> <<>>,
              step |-> Step("assert_visible", route.path, route.targets[i].label, route.targets[i].selector)]],
         {i \in DOMAIN route.targets : HarmlessTarget(route.targets[i])})

\* One focus per step of the plan, then one per control that none of them is about.
FocusList(said, left) ==
    LET start == NewOnes(said, [i \in DOMAIN said |-> said[i].step], {})
        control(step) == <<step.route, step.label, step.selector>>
    IN  start \o NewOnes(left, [i \in DOMAIN left |-> control(left[i].step)],
                         {control(f.step) : f \in ToSet(start)})
Focuses(p, scan) ==
    LET ofPlan == FlattenSeq([i \in DOMAIN p |-> FocusesOfCase(p[i])])
        ofScan == FlattenSeq([i \in DOMAIN scan.routes |-> FocusesOfRoute(p, scan.routes[i])])
    IN  The({The({FocusList(said, left) : left \in {ofScan}}) : said \in {ofPlan}})

FocusedCase(f, id) ==
    LET steps == f.base.steps
        navigation == Kept(steps, {i \in DOMAIN steps : steps[i].action = "navigate"})
    IN  [f.base EXCEPT !.id = id, !.stem = id, !.by = "expansion",
                       !.steps = AtMost(1, navigation) \o <<f.step>> \o f.follow]

WithFocus(s, f, count) ==
    IF Len(s) >= count THEN s ELSE Append(s, FocusedCase(f, FreeId(Len(s) + 1, Ids(s))))

WithFocuses(p, count, focuses) ==
    LET upTo[n \in 0 .. Len(focuses)] ==
          IF n = 0 THEN p ELSE The({WithFocus(b, focuses[n], count) : b \in {upTo[n - 1]}})
    IN  upTo[Len(focuses)]
Expanded(p, count, scan) == The({WithFocuses(p, count, focuses) : focuses \in {Focuses(p, scan)}})

---------------------------------------------------------------------------
(* TestInputNormalizer: a row without an id gets one from its place; an    *)
(* entry of a JSON document is a test case only when its id says so; free  *)
(* text has no columns.                                                    *)
SaysTest(id) == id # Absent /\ id[2] = ""

Rows(upload) ==
    LET named(i) == IF upload.rows[i].id # Absent THEN upload.rows[i].id
                    ELSE IF upload.format = "table" THEN TC(i) ELSE <<i, "ITEM">>
        row(i) == [id |-> named(i), route |-> IF upload.format = "text" THEN Absent ELSE upload.rows[i].route]
    IN  Kept([i \in DOMAIN upload.rows |-> row(i)],
             {i \in DOMAIN upload.rows : upload.format = "json" => SaysTest(upload.rows[i].id)})

\* The rows by id: the place of the first row with the id, the content of the last.
LastRow(rows, id) == rows[Max({i \in DOMAIN rows : rows[i].id = id})]
RowsById(rows) ==
    NewOnes([i \in DOMAIN rows |-> LastRow(rows, rows[i].id)], [i \in DOMAIN rows |-> rows[i].id], {})
UploadedIds(r) == Ids(Rows(r.upload))

(* A row that no case of the plan has the id of is kept as a visit.        *)
RowCase(row, scan) ==
    LET path == IF row.route # Absent THEN row.route ELSE scan.routes[1].path
    IN  [id |-> row.id, stem |-> row.id, route |-> path, kind |-> "positive", by |-> "row",
         textual |-> FALSE, steps |-> <<Navigate(path, Absent)>>]

(* What the endpoint does with a plan.  A case with a selector that is no  *)
(* object cannot be read; a second case with an id gets its number.        *)
WithRead(s, c) ==
    IF c.textual THEN s
    ELSE Append(s, IF c.id \in Ids(s) THEN [c EXCEPT !.id = TC(Len(s) + 1)] ELSE c)
Assembled(p) ==
    LET upTo[n \in 0 .. Len(p)] == IF n = 0 THEN <<>> ELSE The({WithRead(b, p[n]) : b \in {upTo[n - 1]}})
    IN  upTo[Len(p)]

Fingerprint(c) == <<c.route, c.kind, c.stem, c.steps>>
AsPlanned(s, ids) == s
UploadedFirst(s, ids) == The({SelectCases(s, known) \o OtherCases(s, known) : known \in {ids}})

WithoutRepeats(s) == NewOnes(s, [i \in DOMAIN s |-> Fingerprint(s[i])], {})
SelectedAll(s, r) == WithoutRepeats(UploadedFirst(s, UploadedIds(r)))
Selected(s, r) == AtMost(r.count, WithoutRepeats(UploadedFirst(s, UploadedIds(r))))

\* An id that is taken is replaced, in the steps too.
WithNumber(t, c) ==
    LET id == FreeId(Len(t) + 1, Ids(t))
    IN  IF c.id \notin Ids(t) THEN Append(t, c) ELSE Append(t, [c EXCEPT !.id = id, !.stem = id])
Numbered(s) ==
    LET upTo[n \in 0 .. Len(s)] == IF n = 0 THEN <<>> ELSE The({WithNumber(b, s[n]) : b \in {upTo[n - 1]}})
    IN  upTo[Len(s)]

---------------------------------------------------------------------------
(* generate-test/start: the job, and the first lines of generate_test.     *)
FirstStage(provider) ==
    CASE provider = "ollama" -> "health"
      [] provider \in {"gemini", "hosted"} -> "post"
      [] OTHER -> "built_in"

Start(r) ==
    /\ pc = "idle" /\ job = "none"
    /\ request' = r
    /\ IF r.scan.routes = <<>>
       THEN job' = "failed" /\ pc' = "refused"
       ELSE /\ job' = "running"
            /\ pc' = FirstStage(r.provider)
    /\ attempt' = 1
    /\ fault' = IF r.provider = "keyless" THEN "UNAVAILABLE" ELSE ""
    /\ UNCHANGED <<plan, cases, gaps>>

\* A failure of the provider hands the request to the built-in planner.
FallBack(category) ==
    /\ fault' = category /\ pc' = "built_in"
    /\ UNCHANGED <<job, request, attempt, plan, cases, gaps>>

(* ensure_model_available: the endpoint refuses when the model is missing. *)
HealthCheck ==
    /\ pc = "health"
    /\ \/ pc' = "post" /\ UNCHANGED <<job, request, attempt, fault, plan, cases, gaps>>
       \/ FallBack("UNAVAILABLE")
       \/ /\ pc' = "refused" /\ job' = "failed" /\ fault' = "MODEL_NOT_INSTALLED"
          /\ UNCHANGED <<request, attempt, plan, cases, gaps>>

(* _safe_http_post, the reading of the reply and the decoding of its text. *)
FailureOf == [timeout |-> "TIMEOUT", connection |-> "UNAVAILABLE", transient |-> "UNAVAILABLE"]

PostFails(why) ==
    /\ pc = "post"
    /\ IF attempt < Attempts
       THEN attempt' = attempt + 1 /\ UNCHANGED <<job, pc, request, fault, plan, cases, gaps>>
       ELSE FallBack(FailureOf[why])

PostRefused ==
    /\ pc = "post"
    /\ \E category \in {"UNAVAILABLE", "RESPONSE_LIMIT_EXCEEDED", "INVALID_JSON"} : FallBack(category)

Planned(p) ==
    /\ plan' = p /\ pc' = "validate"
    /\ UNCHANGED <<job, request, attempt, fault, cases, gaps>>

(* Ollama's text may be empty: then the envelope is read as the plan.  The *)
(* other two put the text in a list of candidates, which may be empty.     *)
OllamaAnswers ==
    /\ pc = "post" /\ request.provider = "ollama"
    /\ \E p \in ProviderPlans \cup {<<>>} : Planned(p)

GeminiAnswers ==
    /\ pc = "post" /\ request.provider = "gemini"
    /\ FallBack("INVALID_JSON") \/ \E p \in ProviderPlans : Planned(p)

HostedAnswers ==
    /\ pc = "post" /\ request.provider = "hosted"
    /\ FallBack("INVALID_JSON") \/ \E p \in ProviderPlans : Planned(p)

ValidateAgain ==
    /\ pc = "validate"
    /\ fault' = GroundingFault(request.scan, plan)
    /\ pc' = IF fault' = "" THEN "fit" ELSE "post"
    /\ UNCHANGED <<job, request, attempt, plan, cases, gaps>>
ValidatePlan ==
    /\ pc = "validate"
    /\ fault' = GroundingFault(request.scan, plan)
    /\ pc' = IF fault' = "" THEN "fit" ELSE "built_in"
    /\ UNCHANGED <<job, request, attempt, plan, cases, gaps>>

(* The built-in planner's plan is taken as it is; a provider of an unknown *)
(* name is the built-in planner too, and its plan is validated once.       *)
PlanBuiltIn ==
    /\ pc = "built_in"
    /\ plan' = DeterministicPlan(request)
    /\ pc' = IF request.provider = "other" /\ fault = "" THEN "validate" ELSE "fit"
    /\ UNCHANGED <<job, request, attempt, fault, cases, gaps>>

\* plan_tests fits the plan to the number that was asked for.
FitPlan ==
    /\ pc = "fit"
    /\ plan' = IF request.count = 0 \/ Len(plan) = request.count THEN plan
               ELSE IF Len(plan) < request.count THEN Expanded(plan, request.count, request.scan)
               ELSE AtMost(request.count, UploadedFirst(plan, UploadedIds(request)))
    /\ pc' = "assemble"
    /\ UNCHANGED <<job, request, attempt, fault, cases, gaps>>

Assemble ==
    /\ pc = "assemble"
    /\ \E read \in {Assembled(plan)} : cases' = IF read = <<>> THEN BuildTestCases(request.scan) ELSE read
    /\ pc' = "retain"
    /\ UNCHANGED <<job, request, attempt, fault, plan, gaps>>

RetainRows ==
    /\ pc = "retain"
    /\ \E rows \in {RowsById(Rows(request.upload))} :
       \E missing \in {OtherCases(rows, Ids(cases))} :
          /\ cases' = cases \o [k \in DOMAIN missing |-> RowCase(missing[k], request.scan)]
          /\ gaps' = Ids(missing)
    /\ pc' = "select"
    /\ UNCHANGED <<job, request, attempt, fault, plan>>

\* The answer of the endpoint ends the job; that it also stores the plan with the run is
\* RegressionStore's GeneratePlan.
SelectAndNumber ==
    /\ pc = "select"
    /\ \E selected \in {Selected(cases, request)} : cases' = Numbered(selected)
    /\ job' = "completed" /\ pc' = "done"
    /\ UNCHANGED <<request, attempt, fault, plan, gaps>>

(* The jobs are kept in memory; after a restart the status is a 404.       *)
ForgetJobs ==
    /\ pc # "idle"
    /\ job' = "none" /\ pc' = "idle" /\ request' = Absent /\ attempt' = 0
    /\ fault' = "" /\ plan' = <<>> /\ cases' = <<>> /\ gaps' = {}

PlanStep ==
    \/ HealthCheck \/ PostRefused \/ OllamaAnswers \/ GeminiAnswers \/ HostedAnswers
    \/ ValidatePlan \/ PlanBuiltIn
    \/ \E why \in DOMAIN FailureOf : PostFails(why)
    \/ FitPlan \/ Assemble \/ RetainRows \/ SelectAndNumber

PlanningNext == (\E r \in Request : Start(r)) \/ PlanStep \/ ForgetJobs

\* The task of the job runs on in the event loop and in its thread.
PlanningFairness == WF_planningVars(PlanStep)
PlanningSpec == PlanningInit /\ [][PlanningNext]_planningVars /\ PlanningFairness

---------------------------------------------------------------------------
(* No step of a plan that the endpoint returns has a destructive word for  *)
(* a label, but a visit, which is labelled with the name of its page; and  *)
(* each that needs a control says the label or the selector of one that    *)
(* the scan has on the route of its case.  A step that the built-in        *)
(* planners wrote has both of one control, which is neither blocked nor    *)
(* destructive: also what the expansion and the second planner of the      *)
(* endpoint add, and the plan that takes the place of a provider's.        *)
BuiltIn == request.provider \in {"deterministic", "keyless", "other"} \/ fault # ""
OnHarmlessControl(scan, path, s) ==
    \E t \in Targets(scan, path) :
        ~t.blocked /\ t.label \notin Destructive /\ s.label = t.label /\ s.selector = t.selector
PlanIsSafeAndGrounded ==
    pc = "done" => \A c \in ToSet(cases) : \A s \in ToSet(c.steps) :
        /\ s.action # "navigate" => s.label \notin Destructive
        /\ s.action \notin PageActions =>
             /\ OnRoute(request.scan, c.route, s)
             /\ BuiltIn => OnHarmlessControl(request.scan, c.route, s)

(* "Every generated step must bind to a verified `element_id` and selector *)
(* from Step 5" and "Invalid or hallucinated selectors are rejected"       *)
(* (docs/v2_release/SOFTWARE_REQUIREMENTS_DOCUMENT.md lines 143, 145):     *)
(* what a step says of its label and its selector is true of one control.  *)
(* It does not hold (MCTestPlanningBinding.cfg).                           *)
EveryStepBindsToAControl ==
    pc = "done" => \A c \in ToSet(cases) : \A s \in ToSet(c.steps) :
        s.action \notin PageActions =>
            \E t \in Targets(request.scan, c.route) :
                s.label \in {t.label, Absent} /\ s.selector \in {t.selector, Absent}

(* What is returned is no longer than what was asked for, although rows    *)
(* are added after the provider's plan was cut, and its ids are distinct,  *)
(* although the provider's, the user's and the numbered ones mix.          *)
PlanFitsRequest ==
    pc = "done" =>
        /\ request.count > 0 => Len(cases) <= request.count
        /\ \A i, j \in DOMAIN cases : cases[i].id = cases[j].id => i = j

(* An uploaded row comes to the selection under its id.  It is dropped     *)
(* there only when another case with an id of the user says the same, or   *)
(* when the cases with the user's ids fill the plan: no case that a        *)
(* planner has added takes the place of a row, whatever ids a provider     *)
(* gives to its cases.                                                     *)
SameTest(c, e) == c.route = e.route /\ c.kind = e.kind /\ c.steps = e.steps
RowsComeFirst ==
    [][pc = "select" /\ pc' = "done" =>
        LET users == {c \in ToSet(cases) : c.id \in UploadedIds(request)}
        IN  \A id \in UploadedIds(request) \ Ids(cases') :
                \/ \E c, d \in users : c.id = id /\ d # c /\ Fingerprint(c) = Fingerprint(d)
                \/ /\ Len(cases') = request.count
                   /\ \A e \in ToSet(cases') : \E c \in users : SameTest(c, e)]_planningVars

(* A planning job ends, whatever the provider does: it answers, it fails   *)
(* for good or it runs out of attempts, and the rest waits for nothing.    *)
JobEnds == job = "running" ~> job # "running"
=============================================================================
