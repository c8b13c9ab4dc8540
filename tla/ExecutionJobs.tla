---------------------------- MODULE ExecutionJobs ----------------------------
(***************************************************************************)
(* Executions of a test plan: the selected-execution jobs, the plain       *)
(* execution jobs and the replays of api/routers/scan.py, over the         *)
(* executor of api/services/test_execution_service.py.                     *)
(*                                                                         *)
(* Handlers are coroutines of one event loop, so what a handler does       *)
(* before or after its await is one step.  The executor runs in a thread   *)
(* of its own; every step of a case, every artifact and every save is a    *)
(* step.  The run context is one object in memory, shared by all           *)
(* executions of the run, and a file.                                      *)
(***************************************************************************)
EXTENDS Naturals, Sequences

CONSTANTS
    Executions,     \* executions that may be asked for
    Plan,           \* the cases of the plan, each the sequence of its steps' actions
    None,
    HasScan,        \* whether the run has scan_results
    MaxRestarts     \* bound: restarts of the process

MAX_TRANSIENT_RETRIES == 2

Actions == {"navigate", "act", "restricted", "unsupported"}
Kinds == {"selected", "plain", "replay"}
Cases == DOMAIN Plan

\* An execution without cases is refused before it starts.
ASSUME PlanAssumption ==
    Plan \in Seq(Seq(Actions)) /\ Plan # <<>> /\ \A c \in Cases : Plan[c] # <<>>
ASSUME NoneAssumption == None \notin Executions
ASSUME ScanAssumption == HasScan \in BOOLEAN
ASSUME BoundAssumption == MaxRestarts \in Nat

VARIABLES
    registry,   \* _BACKGROUND_EXECUTION_JOBS: the state of a job, None when it has no entry
    exec,       \* the coroutine and the thread of every execution
    ctx, file,  \* the run context in memory, and what is on disk
    since,      \* history: by job, the executions whose results were stored after it started
    restarts

vars == <<registry, exec, ctx, file, since, restarts>>

Statuses == {"Pass", "Fail", "Skipped"}
\* A row without a case is EXECUTION_SETUP, of the failure that ended the loop.
Row == [case : Cases \cup {0}, step : Nat, status : Statuses]

Asleep == [pc |-> "new", kind |-> "plain", allow |-> FALSE, case |-> 1, step |-> 1,
           attempt |-> 1, failed |-> FALSE, rows |-> <<>>, expired |-> FALSE]

Init ==
    /\ registry = [e \in Executions |-> None]
    /\ exec = [e \in Executions |-> Asleep]
    /\ ctx = [status |-> IF HasScan THEN "scanned" ELSE "discovered", scanned |-> HasScan,
              results |-> None, job |-> None, jobStatus |-> "none", auth |-> "valid"]
    /\ file = ctx
    /\ since = [e \in Executions |-> {}]
    /\ restarts = 0

At(e, pc) == exec[e].pc = pc
Goto(e, pc) == exec' = [exec EXCEPT ![e].pc = pc]
ThreadOnly == UNCHANGED <<registry, ctx, file, since, restarts>>

\* save_run_context: the object is in memory; its file may not be written.
Save(new) == ctx' = new /\ file' \in {new, file}

\* What an execution leaves in the run context, and what it stored is new for every job.
Stored(c, e) == [c EXCEPT !.results = e, !.status = "executed"]
StoredNow(e) == since' = [j \in Executions |-> since[j] \cup {e}]

---------------------------------------------------------------------------
(* _persist_execution_job_state                                            *)
KeepStatus(c, e, status, expired) == [c EXCEPT !.job = e, !.jobStatus = status]
KeepExecuting(c, e, status, expired) ==
    [c EXCEPT !.job = e, !.jobStatus = status,
              !.status = IF status = "running" THEN "executing" ELSE @]
PersistJob(c, e, status, expired) ==
    [c EXCEPT !.job = e, !.jobStatus = status,
              !.status = CASE status = "running" -> "executing"
                           [] status = "failed" -> IF c.scanned THEN "scanned" ELSE "failed"
                           [] OTHER -> @,
              !.auth = IF status = "failed" /\ expired THEN "expired" ELSE @]

(* _recover_execution_job: the answer of the status endpoint to a job that *)
(* the registry does not know.                                             *)
RecoverJob(e) ==
    CASE file.job # e -> "unknown"
      [] file.job = e /\ file.jobStatus = "failed" -> "failed"
      [] file.job = e /\ (\/ file.jobStatus = "completed"
                           \/ (file.status = "executed" /\ file.results # None)) -> "completed"
      [] OTHER -> "interrupted"

---------------------------------------------------------------------------
(* The handlers.  A start registers the job and creates its task; a replay *)
(* and a direct call are one request without a job.                        *)
StartSelected(e, allow) ==
    /\ At(e, "new")
    /\ registry' = [registry EXCEPT ![e] = "running"]
    /\ Save(PersistJob(ctx, e, "running", FALSE))
    /\ exec' = [exec EXCEPT ![e] = [Asleep EXCEPT !.pc = "task", !.kind = "selected", !.allow = allow]]
    /\ since' = [since EXCEPT ![e] = {}]
    /\ UNCHANGED restarts

StartExecution(e, allow) ==
    /\ At(e, "new")
    /\ registry' = [registry EXCEPT ![e] = "running"]
    /\ exec' = [exec EXCEPT ![e] = [Asleep EXCEPT !.pc = "task", !.allow = allow]]
    /\ UNCHANGED <<ctx, file, since, restarts>>

\* regression_run replays the plan of an execution that was stored, mutating actions off.
Replay(e) ==
    /\ At(e, "new") /\ ctx.results # None
    /\ exec' = [exec EXCEPT ![e] = [Asleep EXCEPT !.pc = "task", !.kind = "replay"]]
    /\ ThreadOnly

\* Up to the await.  A plain execution needs a script and a case of the plan or the scan.
TaskPlain(e) ==
    /\ At(e, "task") /\ exec[e].kind = "plain"
    /\ Goto(e, "session") \/ Goto(e, "raised")
    /\ ThreadOnly

\* Unconfirmed, a bad run id, no candidate, or a selection that leaves none of them.
TaskSelected(e) ==
    /\ At(e, "task") /\ exec[e].kind = "selected"
    /\ Goto(e, "session") \/ Goto(e, "raised")
    /\ ThreadOnly

TaskReplay(e) ==
    /\ At(e, "task") /\ exec[e].kind = "replay"
    /\ Goto(e, "session")
    /\ ThreadOnly

\* check_auth_session_validity of the session the run has.
CheckSession(e) ==
    /\ At(e, "session")
    /\ \/ Goto(e, "open")
       \/ exec' = [exec EXCEPT ![e].pc = "raised", ![e].expired = TRUE]
    /\ ThreadOnly

---------------------------------------------------------------------------
(* The executor.  Every case has a browser of its own; a browser that does *)
(* not start, or a checkpoint that cannot be saved, ends the loop with a   *)
(* row of its own.                                                         *)
OpenBrowser(e) ==
    /\ At(e, "open")
    /\ \/ Goto(e, "case")
       \/ exec' = [exec EXCEPT ![e].pc = "write",
                               ![e].rows = Append(@, [case |-> 0, step |-> 0, status |-> "Fail"])]
    /\ ThreadOnly

Action(e) == Plan[exec[e].case][exec[e].step]

\* The row of the step; after the last step of a case the next case begins.
ReportPast(e, status) ==
    LET x == exec[e]
        inCase == x.step < Len(Plan[x.case])
    IN  exec' = [exec EXCEPT ![e] = [x EXCEPT
            !.rows = Append(@, [case |-> x.case, step |-> x.step, status |-> status]),
            !.attempt = 1,
            !.step = IF inCase THEN @ + 1 ELSE 1,
            !.case = IF inCase THEN @ ELSE @ + 1,
            !.failed = inCase /\ (@ \/ status = "Fail"),
            !.pc = IF inCase THEN "case" ELSE "open"]]
Report(e, status) ==
    LET x == exec[e]
        inCase == x.step < Len(Plan[x.case])
        more == x.case < Len(Plan)
    IN  exec' = [exec EXCEPT ![e] = [x EXCEPT
            !.rows = Append(@, [case |-> x.case, step |-> x.step, status |-> status]),
            !.attempt = 1,
            !.step = IF inCase THEN @ + 1 ELSE 1,
            !.case = IF inCase \/ ~more THEN @ ELSE @ + 1,
            !.failed = inCase /\ (@ \/ status = "Fail"),
            !.pc = IF inCase THEN "case" ELSE IF more THEN "open" ELSE "write"]]

\* Parked: after a failure in the case, or an action that needs an approval it lacks.
NotAllowed(e) == Action(e) \in {"restricted", "unsupported"} /\ ~exec[e].allow
Parked(e) == exec[e].failed \/ NotAllowed(e)

SkipStep(e) ==
    /\ At(e, "case") /\ Parked(e)
    /\ Report(e, "Skipped")
    /\ ThreadOnly

PassStep(e) ==
    /\ At(e, "case") /\ ~Parked(e) /\ Action(e) # "unsupported"
    /\ Report(e, "Pass")
    /\ ThreadOnly

\* A transient error is tried again, any other error fails the step at once.
RetryStep(e) ==
    /\ At(e, "case") /\ ~Parked(e) /\ Action(e) # "unsupported"
    /\ exec[e].attempt <= MAX_TRANSIENT_RETRIES
    /\ exec' = [exec EXCEPT ![e].attempt = @ + 1]
    /\ ThreadOnly

FailStep(e) ==
    /\ At(e, "case") /\ ~Parked(e)
    /\ Report(e, "Fail")
    /\ ThreadOnly

\* _assert_not_login after a navigation: the execution ends, its rows are dropped.
LoginSeen(e) ==
    /\ At(e, "case") /\ ~Parked(e) /\ Action(e) = "navigate"
    /\ exec' = [exec EXCEPT ![e].pc = "raised", ![e].expired = TRUE]
    /\ ThreadOnly

\* _write_artifacts, outside the try of the loop.
WriteArtifacts(e) ==
    /\ At(e, "write")
    /\ Goto(e, "project") \/ Goto(e, "raised")
    /\ ThreadOnly

\* _copy_execution_artifacts_to_run and the merge into the workbook; a failure ends both.
ProjectArtifacts(e) ==
    /\ At(e, "project")
    /\ \E next \in {"store", "resume"} :
        exec' = [exec EXCEPT ![e] = [Asleep EXCEPT !.pc = next, !.kind = exec[e].kind]]
    /\ ThreadOnly

StoreResults(e) ==
    /\ At(e, "store")
    /\ Save(Stored(ctx, e))
    /\ StoredNow(e)
    /\ Goto(e, "resume")
    /\ UNCHANGED <<registry, restarts>>

---------------------------------------------------------------------------
(* After the await.  When the database refuses the record, a plain         *)
(* execution and a replay do not touch the context either.                 *)
Done(e) == exec' = [exec EXCEPT ![e] = [Asleep EXCEPT !.pc = "done"]]

ResumePlain(e) ==
    /\ At(e, "resume") /\ exec[e].kind = "plain"
    /\ \/ StoredNow(e) /\ Save(Stored(ctx, e))
       \/ UNCHANGED <<since, ctx, file>>
    /\ registry' = [registry EXCEPT ![e] = "completed"]
    /\ Done(e)
    /\ UNCHANGED restarts

ResumeReplay(e) ==
    /\ At(e, "resume") /\ exec[e].kind = "replay"
    /\ \/ StoredNow(e) /\ Save(Stored(ctx, e))
       \/ UNCHANGED <<since, ctx, file>>
    /\ Done(e)
    /\ UNCHANGED <<registry, restarts>>

\* A selected execution goes on without its record.
ResumeSelected(e) ==
    /\ At(e, "resume") /\ exec[e].kind = "selected"
    /\ StoredNow(e)
    /\ Save(PersistJob(Stored(ctx, e), e, "completed", FALSE))
    /\ registry' = [registry EXCEPT ![e] = "completed"]
    /\ Done(e)
    /\ UNCHANGED restarts

\* What a task catches: the job is failed, and the run is not left executing.
RaisedPlain(e) ==
    /\ At(e, "raised") /\ exec[e].kind = "plain"
    /\ registry' = [registry EXCEPT ![e] = "failed"]
    /\ Done(e)
    /\ UNCHANGED <<ctx, file, since, restarts>>

Uncaught(e) == FALSE
RaisedSelected(e) ==
    /\ At(e, "raised") /\ exec[e].kind = "selected"
    /\ registry' = [registry EXCEPT ![e] = "failed"]
    /\ Save(PersistJob(ctx, e, "failed", exec[e].expired))
    /\ Done(e)
    /\ UNCHANGED <<since, restarts>>

\* A replay has no job; its caller sees the error.
RaisedReplay(e) ==
    /\ At(e, "raised") /\ exec[e].kind = "replay"
    /\ Done(e)
    /\ ThreadOnly

---------------------------------------------------------------------------
\* The process restarts: tasks, threads and the registry are gone, the context is read from disk.
Restart ==
    /\ restarts < MaxRestarts
    /\ restarts' = restarts + 1
    /\ registry' = [e \in Executions |-> None]
    /\ exec' = [e \in Executions |-> IF At(e, "new") THEN Asleep ELSE [Asleep EXCEPT !.pc = "done"]]
    /\ ctx' = file
    /\ UNCHANGED <<file, since>>

Thread(e) ==
    \/ CheckSession(e) \/ OpenBrowser(e) \/ SkipStep(e) \/ PassStep(e) \/ RetryStep(e)
    \/ FailStep(e) \/ LoginSeen(e) \/ WriteArtifacts(e) \/ ProjectArtifacts(e) \/ StoreResults(e)
Coroutine(e) ==
    \/ TaskPlain(e) \/ TaskSelected(e) \/ TaskReplay(e)
    \/ ResumePlain(e) \/ ResumeReplay(e) \/ ResumeSelected(e)
    \/ RaisedPlain(e) \/ RaisedSelected(e) \/ RaisedReplay(e)

Next ==
    \/ \E e \in Executions :
        \/ \E allow \in BOOLEAN : StartSelected(e, allow) \/ StartExecution(e, allow)
        \/ Replay(e)
        \/ Coroutine(e) \/ Thread(e)
    \/ Restart

\* The event loop runs every task; a thread that was started is scheduled.
Fairness == \A e \in Executions : WF_vars(Coroutine(e)) /\ WF_vars(Thread(e))

Spec == Init /\ [][Next]_vars /\ Fairness

---------------------------------------------------------------------------
TypeOK ==
    /\ registry \in [Executions -> {None, "running", "completed", "failed"}]
    /\ \A e \in Executions :
        /\ exec[e].rows \in Seq(Row) /\ exec[e].kind \in Kinds
        /\ exec[e].case \in Cases /\ exec[e].step \in DOMAIN Plan[exec[e].case]
        /\ exec[e].attempt \in 1..MAX_TRANSIENT_RETRIES + 1
    /\ \A c \in {ctx, file} :
        /\ {c.results, c.job} \subseteq Executions \cup {None}
        /\ c.status \in {"discovered", "scanned", "executing", "executed", "failed"}

(* After a restart the status endpoint never answers a job with results    *)
(* that were stored before the job was started, whatever was running next  *)
(* to it and whichever save did not reach the disk.                        *)
NothingStaleIsRecovered ==
    \A e \in Executions : RecoverJob(e) = "completed" => file.results \in since[e]

(* When nothing is executing, the run does not say so (scan.py:152: a run  *)
(* left `executing` after a terminal failure looks permanently busy).      *)
(* Only a restart can leave it so.                                         *)
NotLeftExecuting ==
    (restarts = 0 /\ \A e \in Executions : exec[e].pc \in {"new", "done"})
        => ctx.status # "executing"

(* Every job that was started is seen to end by the client that polls it,  *)
(* or its entry is gone with the process.                                  *)
JobsEnd == \A e \in Executions : registry[e] = "running" ~> registry[e] # "running"
=============================================================================
