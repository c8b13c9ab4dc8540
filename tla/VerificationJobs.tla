-------------------------- MODULE VerificationJobs --------------------------
(***************************************************************************)
(* The V3 incidents, verification jobs, attempts and evidence:             *)
(* api/routers/v3_assurance.py over section 6 of api/db/repository.py.     *)
(*                                                                         *)
(* Endpoints are threads and every repository call is a transaction of its *)
(* own: rows are read, then the columns whose value changed are written    *)
(* and committed.  A call is thus two steps, `read` and `write`, and what   *)
(* other threads commit between them is overwritten column by column.      *)
(* Unique indexes are checked when the row is inserted.                    *)
(***************************************************************************)
EXTENDS Naturals, Sequences, FiniteSets, FiniteSetsExt, SequencesExt

CONSTANTS
    Callers,        \* threads of the server
    Correlations,   \* correlation ids of the incidents that are delivered
    Scenarios,      \* assurance scenarios, by the operation they check
    Refused,        \* scenarios that plan_assurance_job refuses for every job
    None,
    RetryLimit,     \* retry_limit of an intake
    MaxManual,      \* bound: what an operator does by hand
    MaxCalls        \* bound: orchestrations and retries

ASSUME RefusedAssumption == Refused \subseteq Scenarios
ASSUME NoneAssumption == None \notin Scenarios \cup Correlations
ASSUME BoundAssumption == {RetryLimit, MaxManual, MaxCalls} \subseteq Nat

States == {"created", "queued", "running", "completed", "failed", "blocked",
           "inconclusive", "cancelled"}
Verdicts == {"pending", "reproduced", "not_reproduced", "blocked", "inconclusive"}

\* _V3_JOB_TRANSITIONS
Allowed == [created |-> {"queued", "cancelled"},
            queued |-> {"running", "blocked", "cancelled"},
            running |-> {"completed", "failed", "blocked", "inconclusive"},
            blocked |-> {"queued", "cancelled"},
            failed |-> {"queued", "cancelled"},
            inconclusive |-> {"queued", "cancelled"},
            completed |-> {}, cancelled |-> {}]

\* Rows; an incident has the correlation None when a schedule opened it.
Incident == [correlation : Correlations \cup {None},
             status : {"open", "assigned", "blocked", "resolved"}, last : Verdicts]
Job == [incident : Nat, state : States, verdict : Verdicts,
        scenario : Scenarios \cup {None}, limit : Nat, intake : BOOLEAN]
Attempt == [number : Nat, outcome : Verdicts, orchestrated : BOOLEAN]

VARIABLES
    incidents, jobs,    \* the tables, in the order of insertion
    attempts,           \* the attempts of every job, in the order of insertion
    evidence,           \* by job: the places of the attempts that have a manifest
    enabled,            \* is_enabled of the registered operation
    call,               \* what every thread is doing
    concluded,          \* history: the verdicts orchestrations gave
    manual, calls

tables == <<incidents, jobs, attempts, evidence>>
bounds == <<manual, calls>>
vars == <<tables, enabled, call, concluded, bounds>>

Idle == [pc |-> "idle", job |-> 0, row |-> None, incident |-> None, target |-> "queued",
         verdict |-> None, then |-> "idle", fresh |-> FALSE, scenario |-> None,
         place |-> 0, tries |-> 0]

Init ==
    /\ incidents = <<>> /\ jobs = <<>> /\ attempts = <<>> /\ evidence = <<>>
    /\ enabled = TRUE
    /\ call = [c \in Callers |-> Idle]
    /\ concluded = {}
    /\ manual = 0 /\ calls = 0

At(c, pc) == call[c].pc = pc
\* The thread goes on; the rows it read are behind it.
Goto(c, pc) == call' = [call EXCEPT ![c] = [Idle EXCEPT
    !.pc = pc, !.job = call[c].job, !.scenario = call[c].scenario,
    !.verdict = call[c].verdict, !.place = call[c].place]]
Return(c) == call' = [call EXCEPT ![c] = Idle]

IncidentOf(j) == jobs[j].incident

AddJob(row) ==
    /\ jobs' = Append(jobs, row)
    /\ attempts' = Append(attempts, <<>>)
    /\ evidence' = Append(evidence, {})

---------------------------------------------------------------------------
(* Intake: the correlation id is looked up, then an incident and its job   *)
(* are inserted in one transaction.  The losers of the unique index are    *)
(* retried and find the row.                                               *)
Delivered(k) == \E i \in DOMAIN incidents : incidents[i].correlation = k

Intake(c, k) ==
    /\ At(c, "idle")
    /\ ~Delivered(k)
    /\ call' = [call EXCEPT ![c].pc = "insert", ![c].row = k]
    /\ UNCHANGED <<tables, enabled, concluded, bounds>>

InsertIncident(k) ==
    /\ incidents' = Append(incidents, [correlation |-> k, status |-> "open", last |-> "pending"])
    /\ AddJob([incident |-> Len(incidents) + 1, state |-> "created", verdict |-> "pending",
               scenario |-> None, limit |-> RetryLimit, intake |-> TRUE])

AnyCorrelation(k) == TRUE
UniqueCorrelation(k) == ~Delivered(k)

IntakeInsert(c) ==
    /\ At(c, "insert")
    /\ \/ UniqueCorrelation(call[c].row) /\ InsertIncident(call[c].row)
       \/ ~UniqueCorrelation(call[c].row) /\ UNCHANGED tables
    /\ Return(c)
    /\ UNCHANGED <<enabled, concluded, bounds>>

---------------------------------------------------------------------------
(* A manual trigger of the monitoring schedule groups its job into an      *)
(* incident that is still reproduced, or opens one.                        *)
Manual == manual < MaxManual /\ manual' = manual + 1

StillReproduced == {i \in DOMAIN incidents :
    incidents[i].last = "reproduced" /\ incidents[i].status \in {"open", "assigned"}}

Trigger(s) ==
    /\ Manual
    /\ \E i \in IF StillReproduced = {} THEN {Len(incidents) + 1} ELSE StillReproduced :
        /\ incidents' = IF i \in DOMAIN incidents THEN incidents
                        ELSE Append(incidents, [correlation |-> None, status |-> "open",
                                                last |-> "pending"])
        /\ AddJob([incident |-> i, state |-> "created", verdict |-> "pending",
                   scenario |-> s, limit |-> 0, intake |-> FALSE])
    /\ UNCHANGED <<enabled, call, concluded, calls>>

---------------------------------------------------------------------------
(* transition_v3_job: read checks the transition, write commits it.        *)
LegalVerdict(target, verdict) ==
    /\ target = "completed" => verdict \in {"reproduced", "not_reproduced"}
    /\ target \in {"blocked", "inconclusive"} => verdict \in {target, None}

\* The thread c reads job j to move it to the target, and goes on at `then`.
Transit(c, j, target, verdict, then) ==
    IF target \in Allowed[jobs[j].state] /\ LegalVerdict(target, verdict)
    THEN call' = [call EXCEPT ![c] = [@ EXCEPT
            !.pc = "write", !.job = j, !.target = target, !.verdict = verdict,
            !.then = then, !.row = jobs[j], !.incident = incidents[IncidentOf(j)]]]
    ELSE Return(c)

VerdictOfTarget(row, target, verdict) == IF verdict = None THEN target ELSE verdict
VerdictAfter(row, target, verdict) ==
    CASE target = "queued" -> "pending"
      [] target # "queued" /\ verdict # None -> verdict
      [] target \in {"blocked", "inconclusive"} /\ verdict = None -> target
      [] OTHER -> row.verdict

StatusAfter(status, verdict) ==
    CASE verdict = "not_reproduced" -> "resolved"
      [] verdict = "reproduced" -> "open"
      [] verdict \in {"blocked", "inconclusive"} -> "blocked"
      [] OTHER -> status

\* Only a column whose value is not the one that was read is written.
Column(now, read, new) == IF new = read THEN now ELSE new

TransitWrite(c) ==
    LET me == call[c]
        j == me.job
        i == IncidentOf(j)
        verdict == VerdictAfter(me.row, me.target, me.verdict)
    IN  /\ At(c, "write")
        /\ jobs' = [jobs EXCEPT
              ![j].state = me.target,
              ![j].verdict = Column(@, me.row.verdict, verdict)]
        /\ incidents' =
              IF me.target \in {"completed", "blocked", "inconclusive", "failed"}
              THEN [incidents EXCEPT
                      ![i].last = Column(@, me.incident.last, verdict),
                      ![i].status = Column(@, me.incident.status,
                                           StatusAfter(me.incident.status, verdict))]
              ELSE incidents
        /\ concluded' = IF me.then = "concluded" THEN concluded \cup {<<j, me.verdict>>}
                        ELSE concluded
        /\ CASE me.then = "concluded" /\ me.verdict = "reproduced" -> Goto(c, "assign")
             [] me.then \in {"plan", "execute"} -> Goto(c, me.then)
             [] OTHER -> Return(c)
        /\ UNCHANGED <<attempts, evidence, enabled, bounds>>

---------------------------------------------------------------------------
(* orchestrate_job                                                         *)
Orchestrate(c, j, s) ==
    /\ At(c, "idle") /\ calls < MaxCalls
    /\ calls' = calls + 1
    /\ call' = [call EXCEPT ![c] = [Idle EXCEPT !.pc = "bind", !.job = j, !.scenario = s,
                                    !.fresh = jobs[j].state = "created"]]
    /\ UNCHANGED <<tables, enabled, concluded, manual>>

\* bind_v3_job_scenario; a conflict is answered with 409.
Bind(c) ==
    LET j == call[c].job
        free == jobs[j].state \in {"created", "queued"}
    IN  /\ At(c, "bind")
        /\ jobs' = IF free THEN [jobs EXCEPT ![j].scenario = call[c].scenario] ELSE jobs
        /\ IF ~free THEN Return(c)
           ELSE Goto(c, IF call[c].fresh THEN "queue" ELSE "plan")
        /\ UNCHANGED <<incidents, attempts, evidence, enabled, concluded, bounds>>

Enqueue(c) ==
    /\ At(c, "queue")
    /\ Transit(c, call[c].job, "queued", None, "plan")
    /\ UNCHANGED <<tables, enabled, concluded, bounds>>

PlanIsRefused(c) ==
    /\ At(c, "plan") /\ call[c].scenario \in Refused
    /\ call' = [call EXCEPT ![c].pc = "attempt", ![c].verdict = "blocked"]
    /\ UNCHANGED <<tables, enabled, concluded, bounds>>

PlanIsReady(c) ==
    /\ At(c, "plan") /\ call[c].scenario \notin Refused
    /\ Transit(c, call[c].job, "running", None, "execute")
    /\ UNCHANGED <<tables, enabled, concluded, bounds>>

\* execute_approved_scenario: what the target answers, blocked when the operation is disabled.
Outcomes == IF enabled THEN Verdicts \ {"pending"} ELSE {"blocked"}

ExecuteAndConclude(c) ==
    /\ At(c, "execute")
    /\ \E v \in Outcomes : call' = [call EXCEPT ![c].pc = "conclude", ![c].verdict = v]
    /\ UNCHANGED <<tables, enabled, concluded, bounds>>
Execute(c) ==
    /\ At(c, "execute")
    /\ \E v \in Outcomes : call' = [call EXCEPT ![c].pc = "attempt", ![c].verdict = v]
    /\ UNCHANGED <<tables, enabled, concluded, bounds>>

---------------------------------------------------------------------------
(* add_v3_attempt: the number is the largest one plus one; the unique      *)
(* index of job and number refuses the second of two equal ones, and the   *)
(* call is tried three times.                                              *)
Numbers(j) == {attempts[j][n].number : n \in DOMAIN attempts[j]}
NextNumber(j) == IF attempts[j] = <<>> THEN 1 ELSE Max(Numbers(j)) + 1

\* An attempt of a job that is neither queued nor running is a conflict.
NumberAttempt(c) ==
    LET j == call[c].job
    IN  /\ At(c, "attempt")
        /\ IF jobs[j].state \in {"queued", "running"}
           THEN call' = [call EXCEPT ![c].pc = "insertAttempt", ![c].place = NextNumber(j)]
           ELSE Return(c)
        /\ UNCHANGED <<tables, enabled, concluded, bounds>>

AnyNumber(j, number) == TRUE
UniqueAttempt(j, number) == number \notin Numbers(j)

InsertAttempt(c) ==
    LET me == call[c]
        j == me.job
        orchestrated == me.scenario # None
    IN  /\ At(c, "insertAttempt")
        /\ \/ /\ UniqueAttempt(j, me.place)
              /\ attempts' = [attempts EXCEPT ![j] =
                    Append(@, [number |-> me.place, outcome |-> me.verdict,
                               orchestrated |-> orchestrated])]
              /\ IF orchestrated THEN Goto(c, "evidence") ELSE Return(c)
           \/ /\ ~UniqueAttempt(j, me.place)
              /\ UNCHANGED attempts
              /\ IF me.tries = 2 THEN Return(c)
                 ELSE call' = [call EXCEPT ![c].pc = "attempt", ![c].tries = @ + 1]
        /\ UNCHANGED <<incidents, jobs, evidence, enabled, concluded, bounds>>

\* add_v3_evidence_manifest
AddEvidence(c) ==
    /\ At(c, "evidence")
    /\ evidence' = [evidence EXCEPT ![call[c].job] = @ \cup {call[c].place}]
    /\ Goto(c, "conclude")
    /\ UNCHANGED <<incidents, jobs, attempts, enabled, concluded, bounds>>

Conclude(c) ==
    LET v == call[c].verdict
    IN  /\ At(c, "conclude")
        /\ Transit(c, call[c].job,
                   IF v \in {"reproduced", "not_reproduced"} THEN "completed" ELSE v,
                   v, "concluded")
        /\ UNCHANGED <<tables, enabled, concluded, bounds>>

\* auto_assign_v3_incident and assign_v3_incident: the status is read, then written.  An automatic
\* assignment without an enabled rule ends before the write, as Lost does.
AutoAssign(c) ==
    /\ At(c, "assign")
    /\ call' = [call EXCEPT ![c].pc = "assignWrite",
                            ![c].incident = incidents[IncidentOf(call[c].job)]]
    /\ UNCHANGED <<tables, enabled, concluded, bounds>>

AssignWrite(c) ==
    LET i == IncidentOf(call[c].job)
    IN  /\ At(c, "assignWrite")
        /\ incidents' = IF call[c].incident.status = "open"
                        THEN [incidents EXCEPT ![i].status = "assigned"] ELSE incidents
        /\ Return(c)
        /\ UNCHANGED <<jobs, attempts, evidence, enabled, concluded, bounds>>

---------------------------------------------------------------------------
(* retry_v3_job, then an orchestration of the scenario that was bound.     *)
Retry(c, j) ==
    /\ At(c, "idle") /\ calls < MaxCalls
    /\ jobs[j].state \in {"blocked", "failed", "inconclusive"}
    /\ Len(attempts[j]) <= jobs[j].limit
    /\ calls' = calls + 1
    /\ call' = [call EXCEPT ![c] = [Idle EXCEPT !.pc = "requeue", !.job = j, !.row = jobs[j]]]
    /\ UNCHANGED <<tables, enabled, concluded, manual>>

Requeue(c) ==
    LET j == call[c].job
    IN  /\ At(c, "requeue")
        /\ jobs' = [jobs EXCEPT ![j].state = "queued",
                                ![j].verdict = Column(@, call[c].row.verdict, "pending")]
        /\ IF jobs[j].scenario = None THEN Return(c)
           ELSE call' = [call EXCEPT ![c] = [Idle EXCEPT
                    !.pc = "bind", !.job = j, !.scenario = jobs[j].scenario]]
        /\ UNCHANGED <<incidents, attempts, evidence, enabled, concluded, bounds>>

---------------------------------------------------------------------------
(* Endpoints for the operator: a transition, an attempt, an assignment,    *)
(* the rules of the operation.                                             *)
TransitionJob(c, j, target, verdict) ==
    /\ At(c, "idle") /\ Manual
    /\ target \in Allowed[jobs[j].state] /\ LegalVerdict(target, verdict)
    /\ Transit(c, j, target, verdict, "idle")
    /\ UNCHANGED <<tables, enabled, concluded, calls>>

AddAttempt(c, j, outcome) ==
    /\ At(c, "idle") /\ Manual
    /\ jobs[j].state \in {"queued", "running"}
    /\ call' = [call EXCEPT ![c] = [Idle EXCEPT !.pc = "attempt", !.job = j, !.verdict = outcome]]
    /\ UNCHANGED <<tables, enabled, concluded, calls>>

AssignIncident(c, j) ==
    /\ At(c, "idle") /\ Manual
    /\ call' = [call EXCEPT ![c] = [Idle EXCEPT !.pc = "assign", !.job = j]]
    /\ UNCHANGED <<tables, enabled, concluded, calls>>

ConfigureOperation ==
    /\ Manual
    /\ enabled' = ~enabled
    /\ UNCHANGED <<tables, call, concluded, calls>>

\* A call is lost: the process stops, or the database refuses three times.
\* What was committed stays.
Lost(c) ==
    /\ ~At(c, "idle")
    /\ Return(c)
    /\ UNCHANGED <<tables, enabled, concluded, bounds>>

Step(c) ==
    \/ IntakeInsert(c) \/ TransitWrite(c) \/ Bind(c) \/ Enqueue(c)
    \/ PlanIsRefused(c) \/ PlanIsReady(c) \/ Execute(c)
    \/ NumberAttempt(c) \/ InsertAttempt(c) \/ AddEvidence(c) \/ Conclude(c)
    \/ AutoAssign(c) \/ AssignWrite(c) \/ Requeue(c)

Request(c) ==
    \/ \E k \in Correlations : Intake(c, k)
    \/ \E j \in DOMAIN jobs :
        \/ \E s \in Scenarios : Orchestrate(c, j, s)
        \/ Retry(c, j)
        \/ \E t \in States, v \in Verdicts \cup {None} : TransitionJob(c, j, t, v)
        \/ \E v \in Verdicts : AddAttempt(c, j, v)
        \/ AssignIncident(c, j)

Next ==
    \/ \E c \in Callers : Step(c) \/ Request(c) \/ Lost(c)
    \/ \E s \in Scenarios : Trigger(s)
    \/ ConfigureOperation

Spec == Init /\ [][Next]_vars

---------------------------------------------------------------------------
TypeOK ==
    /\ incidents \in Seq(Incident)
    /\ jobs \in Seq(Job)
    /\ attempts \in Seq(Seq(Attempt)) /\ Len(attempts) = Len(jobs)
    /\ evidence \in Seq(SUBSET Nat) /\ Len(evidence) = Len(jobs)
    /\ enabled \in BOOLEAN
    /\ {manual, calls} \subseteq Nat

(* A correlation id that is delivered any number of times, also at the     *)
(* same moment by two threads, has one incident and that incident one      *)
(* intake job (repository.py:1013: exactly one pair per correlation ID).   *)
OnePairPerDelivery ==
    \A k \in Correlations :
        LET mine == {i \in DOMAIN incidents : incidents[i].correlation = k}
        IN  /\ Cardinality(mine) <= 1
            /\ \A i \in mine :
                Cardinality({j \in DOMAIN jobs : IncidentOf(j) = i /\ jobs[j].intake}) = 1

(* The attempts of a job are numbered 1, 2, 3, ... in the order they were  *)
(* recorded, whoever records them at the same time: no attempt is lost and *)
(* none hides another.                                                     *)
AttemptsAreNumbered ==
    \A j \in DOMAIN jobs : \A n \in DOMAIN attempts[j] : attempts[j][n].number = n

(* A verdict that an orchestration gave a job is backed by a recorded      *)
(* attempt with that outcome and by its evidence, wherever the process was *)
(* stopped and whatever another thread did to the job meanwhile.           *)
VerdictIsBacked ==
    \A pair \in concluded : \E n \in evidence[pair[1]] :
        /\ attempts[pair[1]][n].outcome = pair[2]
        /\ attempts[pair[1]][n].orchestrated
=============================================================================
