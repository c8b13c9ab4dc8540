--------------------------- MODULE RegressionStore ---------------------------
(***************************************************************************)
(* Plans, baselines, regression suites and what executions leave in them:  *)
(* sections 1 and 3 to 5 of api/db/repository.py with the endpoints of     *)
(* api/routers/scan.py that call it.  The endpoints are coroutines that do *)
(* not await between a read and a write, so that each is one step.         *)
(*                                                                         *)
(* A suite links to cases by their row, and a row can go: SQLite, which    *)
(* the program runs on by default, is opened without foreign keys, and     *)
(* PostgreSQL deletes what refers to a deleted row.                        *)
(***************************************************************************)
EXTENDS Naturals, FiniteSets, FiniteSetsExt

CONSTANTS
    Runs, TestIds,
    ForeignKeys,    \* whether the database deletes what refers to a deleted row
    Outcomes,       \* what an execution does to a case: Pass, Fail, Skipped, or a failed step and then Skipped
    None,
    MaxCases, MaxSuites, MaxExecutions, \* bounds on what is inserted
    MaxListed                           \* bound: the cases that a request lists

ASSUME ForeignKeysAssumption == ForeignKeys \in BOOLEAN
ASSUME NoneAssumption == None \notin Runs \cup TestIds
ASSUME TestIdsAssumption == IsFiniteSet(TestIds)
ASSUME OutcomesAssumption == Outcomes \subseteq {"Pass", "Fail", "Skipped", "FailThenSkipped"}
ASSUME BoundAssumption == {MaxCases, MaxSuites, MaxExecutions, MaxListed} \subseteq Nat

VARIABLES
    runs,       \* scan_runs
    contexts,   \* the plan in the run context: a set of test ids, None without a context
    plans,      \* test_plans: a run has at most a generated plan and a baseline
    cases,      \* test_cases [id, run, baseline, tc, result]; a larger id was created later
    suites,     \* regression_suites [id, run, archived]; listed (history): the request had a list
    links,      \* regression_suite_cases [suite, case, enabled]; copy tells the rows of one case apart
    ids, executions     \* how many cases and executions there were

vars == <<runs, contexts, plans, cases, suites, links, ids, executions>>

Init ==
    /\ runs = {} /\ contexts = [r \in Runs |-> None]
    /\ plans = {} /\ cases = {} /\ suites = {} /\ links = {}
    /\ ids = 0 /\ executions = 0

CaseOf(id) == CHOOSE c \in cases : c.id = id
CasesOfRun(r) == {c \in cases : c.run = r}
PlanCases(r, baseline) == {c \in cases : c.run = r /\ c.baseline = baseline}
TestIdsOf(rows) == {c.tc : c \in rows}
HasPlan(r, baseline) == <<r, baseline>> \in plans

\* Rows for the test ids T, with new ids in some order of the ids.
NewRows(r, baseline, T, numbering) ==
    {[id |-> numbering[t], run |-> r, baseline |-> baseline, tc |-> t, result |-> "Untested"] : t \in T}
Numberings(T) == {f \in [T -> ids + 1 .. ids + Cardinality(T)] : \A s, t \in T : s # t => f[s] # f[t]}
Insert(T) == ids + Cardinality(T) <= MaxCases /\ ids' = ids + Cardinality(T)

\* A deleted row takes its links along only where the database enforces them.
LinksWithout(gone) == IF ForeignKeys THEN {l \in links : l.case \notin {c.id : c \in gone}} ELSE links

---------------------------------------------------------------------------
(* create_run_context, and the row its first save inserts: a row that is   *)
(* there already is updated.                                               *)
StoreRun(r) == runs' = runs \cup {r}

CreateRun(r) ==
    /\ contexts[r] = None /\ r \notin runs
    /\ contexts' = [contexts EXCEPT ![r] = {}]
    /\ StoreRun(r)
    /\ UNCHANGED <<plans, cases, suites, links, ids, executions>>

(* save_test_cases: the generated plan of the run is kept, its cases are   *)
(* updated by test id and new ones are added; nothing is removed.  A run   *)
(* without a context saves nothing (the call that would create it fails).  *)
PlanAgain(r, T) ==
    /\ contexts[r] # None
    /\ contexts' = [contexts EXCEPT ![r] = T]
    /\ Insert(T)
    /\ plans' = plans \cup {<<r, FALSE>>}
    /\ \E f \in Numberings(T) : cases' = (cases \ CasesOfRun(r)) \cup NewRows(r, FALSE, T, f)
    /\ UNCHANGED <<runs, suites, links, executions>>
GeneratePlan(r, T) ==
    LET new == T \ TestIdsOf(PlanCases(r, FALSE))
    IN  /\ contexts[r] # None
        /\ contexts' = [contexts EXCEPT ![r] = T]
        /\ Insert(new)
        /\ plans' = plans \cup {<<r, FALSE>>}
        /\ \E f \in Numberings(new) : cases' = cases \cup NewRows(r, FALSE, new, f)
        /\ UNCHANGED <<runs, suites, links, executions>>

(* save_baseline: an existing one is replaced only when that is confirmed; *)
(* its cases are deleted and inserted again.                               *)
MaySave(r, overwrite) == overwrite \/ ~HasPlan(r, TRUE)

\* The cases of the plan that the context holds; without any the old ones stay.
BaselineCases(r) == IF contexts[r] = None THEN {} ELSE contexts[r]

SaveBaseline(r, overwrite) ==
    LET T == BaselineCases(r)
        gone == IF T = {} THEN {} ELSE PlanCases(r, TRUE)
    IN  /\ r \in runs \/ ~ForeignKeys
        /\ MaySave(r, overwrite)
        /\ plans' = plans \cup {<<r, TRUE>>}
        /\ Insert(T)
        /\ \E f \in Numberings(T) : cases' = (cases \ gone) \cup NewRows(r, TRUE, T, f)
        /\ links' = LinksWithout(gone)
        /\ UNCHANGED <<runs, contexts, suites, executions>>

---------------------------------------------------------------------------
(* Suites.  One that is made from a baseline run takes the newest case of  *)
(* every test id.  A request may also list cases, each by its row or by a  *)
(* test id, for which some row of whatever run is taken: a list may name a *)
(* row twice, or several rows of one test, and every entry gets a link.    *)
AllOfRun(r) == CasesOfRun(r)
NewestOfRun(r) == {c \in CasesOfRun(r) : \A d \in CasesOfRun(r) : d.tc = c.tc => d.id <= c.id}

NextSuite == Cardinality(suites) + 1
LinkTo(c, copy) == [suite |-> NextSuite, copy |-> copy, case |-> c.id, enabled |-> TRUE]
Occurrence(list, i) == Cardinality({j \in 1..i : list[j] = list[i]})

AddSuite(r, listed, new) ==
    /\ NextSuite <= MaxSuites
    /\ \A s \in suites : s.id # NextSuite
    /\ suites' = suites \cup {[id |-> NextSuite, run |-> r, listed |-> listed, archived |-> FALSE]}
    /\ links' = links \cup new
    /\ UNCHANGED <<runs, contexts, plans, cases, ids, executions>>

CreateSuiteOfRun(r) == AddSuite(r, FALSE, {LinkTo(c, 1) : c \in NewestOfRun(r)})

CreateSuiteOfCases(r, n) ==
    \E list \in [1..n -> cases] : AddSuite(r, TRUE, {LinkTo(list[i], Occurrence(list, i)) : i \in 1..n})

\* update_regression_suite, duplicate_, archive_ and delete_regression_suite, delete_all_.
ToggleCase(s, id) ==
    /\ \E l \in links : l.suite = s.id /\ l.case = id
    /\ links' = {IF l.suite = s.id /\ l.case = id THEN [l EXCEPT !.enabled = ~@] ELSE l : l \in links}
    /\ UNCHANGED <<runs, contexts, plans, cases, suites, ids, executions>>

DuplicateSuite(s) ==
    /\ NextSuite <= MaxSuites /\ \A t \in suites : t.id # NextSuite
    /\ suites' = suites \cup {[s EXCEPT !.id = NextSuite, !.archived = FALSE]}
    /\ links' = links \cup {[l EXCEPT !.suite = NextSuite] : l \in {k \in links : k.suite = s.id}}
    /\ UNCHANGED <<runs, contexts, plans, cases, ids, executions>>

ArchiveSuite(s) ==
    /\ suites' = (suites \ {s}) \cup {[s EXCEPT !.archived = TRUE]}
    /\ UNCHANGED <<runs, contexts, plans, cases, links, ids, executions>>

DeleteSuites(S) ==
    /\ S # {}
    /\ suites' = suites \ S
    /\ links' = {l \in links : l.suite \notin {s.id : s \in S}}
    /\ UNCHANGED <<runs, contexts, plans, cases, ids, executions>>

(* _suite_to_dict: the linked cases that are still there, or, when none    *)
(* is, the newest case of every test id of the baseline run, all enabled.  *)
LiveLinks(s) == {l \in links : l.suite = s.id /\ \E c \in cases : c.id = l.case}

SuiteCases(s) ==
    IF LiveLinks(s) # {}
    THEN {[case |-> CaseOf(l.case), copy |-> l.copy, enabled |-> l.enabled] : l \in LiveLinks(s)}
    ELSE IF s.run # None THEN {[case |-> c, copy |-> 1, enabled |-> TRUE] : c \in NewestOfRun(s.run)}
    ELSE {}

---------------------------------------------------------------------------
(* execute_selected_regression of a suite under the run r, then            *)
(* record_execution: the last row of a case is its result, kept in the     *)
(* oldest row of the run with that test id, of the plan or of the baseline *)
(* (the query has no order; SQLite answers in that of the rows).           *)
SelectedCases(s) == {e.case : e \in {d \in SuiteCases(s) : d.enabled}}

ResultOf(outcome) == IF outcome = "FailThenSkipped" THEN "Skipped" ELSE outcome

Oldest(r, t) == CHOOSE c \in CasesOfRun(r) : c.tc = t /\ \A d \in CasesOfRun(r) : d.tc = t => c.id <= d.id

ExecuteSuite(s, r) ==
    LET known == TestIdsOf(SelectedCases(s)) \cap TestIdsOf(CasesOfRun(r))
        rows == {Oldest(r, t) : t \in known}
    IN  /\ executions < MaxExecutions /\ SelectedCases(s) # {}
        /\ r \in runs \/ ~ForeignKeys
        /\ executions' = executions + 1
        /\ \E o \in [known -> Outcomes] :
            cases' = (cases \ rows) \cup {[c EXCEPT !.result = ResultOf(o[c.tc])] : c \in rows}
        /\ UNCHANGED <<runs, contexts, plans, suites, links, ids>>

RemoveRun(r) == r \in runs /\ runs' = runs \ {r}

(* delete_run_endpoint: the row goes, and with it what refers to it where  *)
(* foreign keys are enforced; then the context.                            *)
DeleteRun(r) ==
    LET gone == IF ForeignKeys THEN CasesOfRun(r) ELSE {}
    IN  /\ RemoveRun(r)
        /\ contexts' = [contexts EXCEPT ![r] = None]
        /\ plans' = IF ForeignKeys THEN {p \in plans : p[1] # r} ELSE plans
        /\ cases' = cases \ gone
        /\ links' = LinksWithout(gone)
        /\ UNCHANGED <<suites, ids, executions>>

Next ==
    \/ \E r \in Runs :
        \/ CreateRun(r)
        \/ \E T \in SUBSET TestIds \ {{}} : GeneratePlan(r, T)
        \/ \E overwrite \in BOOLEAN : SaveBaseline(r, overwrite)
        \/ CreateSuiteOfRun(r)
        \/ DeleteRun(r)
    \/ \E r \in Runs \cup {None}, n \in 0..MaxListed : CreateSuiteOfCases(r, n)
    \/ \E s \in suites :
        \/ \E id \in 1..ids : ToggleCase(s, id)
        \/ DuplicateSuite(s) \/ ArchiveSuite(s) \/ DeleteSuites({s})
        \/ \E r \in Runs : ExecuteSuite(s, r)
    \/ DeleteSuites(suites)

Spec == Init /\ [][Next]_vars

---------------------------------------------------------------------------
(* A suite that was made from a baseline run never runs a test twice,      *)
(* however the plan was generated again and the baseline replaced under    *)
(* its links, or under those of its copies (scan.py:2285, "Select one      *)
(* current case per stable tc_id").  A suite of cases that a request lists *)
(* may: create_regression_suite links whatever the list names.  It does    *)
(* not once it has lost all its rows and shows those of its run.           *)
SuiteCasesAreDistinct ==
    \A s \in suites : ~s.listed \/ LiveLinks(s) = {} =>
        \A d, e \in SuiteCases(s) : d.case.tc = e.case.tc => d = e

(* The cases of a baseline are replaced by a confirmed overwrite, or go    *)
(* with their run; generating a plan, executions and suites leave them.    *)
BaselineIsKept ==
    [][\A r \in Runs : HasPlan(r, TRUE) =>
        \/ \A c \in PlanCases(r, TRUE) : \E d \in PlanCases(r, TRUE)' : d.id = c.id /\ d.tc = c.tc
        \/ SaveBaseline(r, TRUE)
        \/ DeleteRun(r)]_vars
=============================================================================
