---------------------------- MODULE ScanLifecycle ----------------------------
(***************************************************************************)
(* The life of a scan run inside the API process: the HTTP handlers of     *)
(* api/routers/scan.py, the control flags of scan_control_service.py and   *)
(* the worker thread of crawler_service.run_scan.                          *)
(*                                                                         *)
(* Handlers are coroutines on one event loop: two handlers never interleave *)
(* (they do not await), but a worker thread may run between any two of     *)
(* their statements.  A handler that raises a signal and then writes the   *)
(* run's status is therefore two steps, and `http` holds the handler that  *)
(* is between them.  A scan request is a job: a coroutine that waits for   *)
(* the loop, then a thread, then the coroutine's `finally`.                *)
(*                                                                         *)
(* Planning and executing tests write the status of the run, too, while no *)
(* scan, or any scan, is at work: they are here as far as they do.         *)
(***************************************************************************)
EXTENDS Naturals, FiniteSets

CONSTANTS
    Runs,         \* run ids
    Jobs,         \* identities of scan requests, reused when they end
    Executions,   \* identities of test executions, reused when they end
    Modules,      \* selected modules of a run
    MaxRequests   \* bound: requests that users send over a behaviour

ASSUME RunsAssumption == Runs # {}
ASSUME JobsAssumption == IsFiniteSet(Jobs)
ASSUME MaxRequestsAssumption == MaxRequests \in Nat

NoRun == "no context"       \* get_run_context returns None

\* run_context_service._RUN_STATUSES, and "planned", which is stored as it is;
\* save_run_context stores "discarded" as "failed".
Statuses == {"discovered", "running", "paused", "partial_scanned", "scanned",
             "planned", "executing", "executed", "failed"}

Decisions == {"none", "continue", "retry", "end"}

\* Where a job is: "queued" on the loop, then the worker thread, then "returned",
\* "unsaved" (it returned, but could not store how it ended) or "raised" until its
\* coroutine runs again.
WorkerPCs == {"thread", "boot", "crawl", "module", "review", "wrapup"}
LivePCs   == WorkerPCs \cup {"returned", "unsaved", "raised"}
PCs       == {"free", "queued"} \cup LivePCs

Handlers == {"idle", "pause", "resume", "decide", "end", "discard", "relaunch"}

\* The module a crawler is in, or was in: _active_module_id, {} when it is "".
Current == {{}} \cup {{m} : m \in Modules}

\* What a run's context keeps of its scans: whether there are scan_results, and
\* the completed and the current module of the last scan that ended.
Reports == [results : BOOLEAN, completed : SUBSET Modules, current : Current]
NoReport == [results |-> FALSE, completed |-> {}, current |-> {}]

\* An execution is free, or has not begun, or holds the context it found when it
\* did: none, the run's own, or one that was deleted since.
Holds == {"free", "queued", "none", "own", "deleted"}

VARIABLES
    status,     \* RunContext.status of every run, NoRun if it has no context
    paused,     \* _ScanControl.paused
    stop,       \* _ScanControl.stop_requested
    decision,   \* _ScanControl.pending_decision
    active,     \* _ACTIVE_SCANS
    job,        \* the scan requests: run, resume, background, pc, stopped
    done,       \* completed_modules of the run's checkpoint
    current,    \* current_module_id of the run's checkpoint
    report,     \* the results that the run's context keeps
    execution,  \* the executions of tests: run, background, the context they hold
    presumed,   \* history: runs called "scanned" by a writer that did not know it
    http,       \* the handler that holds the event loop
    requests    \* requests sent so far

control == <<paused, stop, decision>>
checkpoint == <<done, current>>
vars == <<status, paused, stop, decision, active, job, done, current, report,
          execution, presumed, http, requests>>

Idle == [op |-> "idle", run |-> CHOOSE r \in Runs : TRUE]
NoJob == [run |-> CHOOSE r \in Runs : TRUE, resume |-> FALSE, background |-> FALSE,
          interactive |-> FALSE, pc |-> "free", stopped |-> FALSE]

JobRecords == [run : Runs, resume : BOOLEAN, background : BOOLEAN,
               interactive : BOOLEAN, pc : PCs, stopped : BOOLEAN]

NoExecution == [run |-> CHOOSE r \in Runs : TRUE, background |-> FALSE, holds |-> "free",
                report |-> NoReport]
ExecutionRecords == [run : Runs, background : BOOLEAN, holds : Holds, report : Reports]

LiveJobs(r) == {j \in Jobs : job[j].run = r /\ job[j].pc \in LivePCs}

Init ==
    /\ status = [r \in Runs |-> NoRun]
    /\ paused = [r \in Runs |-> FALSE]
    /\ stop = [r \in Runs |-> FALSE]
    /\ decision = [r \in Runs |-> "none"]
    /\ active = {}
    /\ job = [j \in Jobs |-> NoJob]
    /\ done = [r \in Runs |-> {}]
    /\ current = [r \in Runs |-> {}]
    /\ report = [r \in Runs |-> NoReport]
    /\ execution = [e \in Executions |-> NoExecution]
    /\ presumed = {}
    /\ http = Idle
    /\ requests = 0

-----------------------------------------------------------------------------
(* The status of a run.                                                    *)

SetStatus(r, s) ==
    /\ status' = [status EXCEPT ![r] = s]
    /\ presumed' = presumed \ {r}

\* "scanned", from a writer that has not seen every module completed.
Presume(r) ==
    /\ status' = [status EXCEPT ![r] = "scanned"]
    /\ presumed' = presumed \cup {r}

KeepStatus == UNCHANGED <<status, presumed>>

\* Handlers and executions leave a run without a context alone.
WriteIfKnown(r, s) == IF status[r] = NoRun THEN KeepStatus ELSE SetStatus(r, s)

-----------------------------------------------------------------------------
(* Requests that begin with a signal to _ScanControl.                      *)

LoopFree == http.op = "idle"

Receive == LoopFree /\ requests < MaxRequests /\ requests' = requests + 1

\* A queued scan request: an asyncio task or the coroutine of POST /scan.
Enqueue(j, r, isResume, isBackground, isInteractive) ==
    /\ job[j].pc = "free"
    /\ job' = [job EXCEPT ![j] = [run |-> r, resume |-> isResume, background |-> isBackground,
                                  interactive |-> isInteractive, pc |-> "queued",
                                  stopped |-> FALSE]]

\* What is stored of a run besides its checkpoint.
stored == <<status, presumed, report>>

\* Mutant of StartScan: the request, not the worker, throws the old progress away.
MutantResetAtRequest(j, r) ==
    /\ Receive
    /\ \E isResume, isBackground, isInteractive \in BOOLEAN :
          /\ Enqueue(j, r, isResume, isBackground, isInteractive)
          /\ done' = [done EXCEPT ![r] = IF isResume THEN @ ELSE {}]
    /\ UNCHANGED <<status, control, active, current, report, execution, presumed, http>>

\* POST /scan/start (a background task) and POST /scan (awaited by its client).
StartScan(j, r) ==
    /\ Receive
    /\ \E isResume, isBackground, isInteractive \in BOOLEAN :
          Enqueue(j, r, isResume, isBackground, isInteractive)
    /\ UNCHANGED <<stored, control, active, checkpoint, execution, http>>

Take(op, r) == http' = [op |-> op, run |-> r]

PauseRequest(r) ==
    /\ Receive
    /\ paused' = [paused EXCEPT ![r] = TRUE]
    /\ Take("pause", r)
    /\ UNCHANGED <<stored, stop, decision, active, job, checkpoint, execution>>

\* The "resume" action of POST /scan/control: it only clears the flag.
ControlResumeRequest(r) ==
    /\ Receive
    /\ paused' = [paused EXCEPT ![r] = FALSE]
    /\ Take("resume", r)
    /\ UNCHANGED <<stored, stop, decision, active, job, checkpoint, execution>>

\* set_user_decision: a continue or a retry also resumes a paused run.
DecideRequest(r) ==
    /\ Receive
    /\ \E d \in {"continue", "retry"} : decision' = [decision EXCEPT ![r] = d]
    /\ paused' = [paused EXCEPT ![r] = FALSE]
    /\ Take("decide", r)
    /\ UNCHANGED <<stored, stop, active, job, checkpoint, execution>>

\* _ScanControl.stop: nothing ever clears stop_requested, and paused stays.
StopSignal(r) ==
    /\ stop' = [stop EXCEPT ![r] = TRUE]
    /\ decision' = [decision EXCEPT ![r] = "end"]

\* POST /runs/{id}/end-and-save, and the "end" and "stop" actions of /scan/control.
EndRequest(r) ==
    /\ Receive
    /\ StopSignal(r)
    /\ Take("end", r)
    /\ UNCHANGED <<stored, paused, active, job, checkpoint, execution>>

DiscardRequest(r) ==
    /\ Receive
    /\ StopSignal(r)
    /\ Take("discard", r)
    /\ UNCHANGED <<stored, paused, active, job, checkpoint, execution>>

\* POST /runs/{id}/resume up to resume_scan: refused without a context, and for
\* a run that is "running" and active.
RelaunchRequest(r) ==
    /\ Receive
    /\ status[r] # NoRun
    /\ ~(status[r] = "running" /\ r \in active)
    /\ \E j \in Jobs : job[j].pc = "free"
    /\ paused' = [paused EXCEPT ![r] = FALSE]
    /\ Take("relaunch", r)
    /\ UNCHANGED <<stored, stop, decision, active, job, checkpoint, execution>>

\* DELETE /runs/{id}: neither the flags, nor the guard, nor the checkpoint file.
\* An execution that holds the run's context keeps the object.
DeleteRun(r) ==
    /\ Receive
    /\ SetStatus(r, NoRun)
    /\ report' = [report EXCEPT ![r] = NoReport]
    /\ execution' = [e \in Executions |->
           IF execution[e].run = r /\ execution[e].holds = "own"
           THEN [execution[e] EXCEPT !.holds = "deleted", !.report = report[r]]
           ELSE execution[e]]
    /\ UNCHANGED <<control, active, job, checkpoint, http>>

-----------------------------------------------------------------------------
(* The same handlers after the signal: the status is written, then saved.  *)

Answer == http' = Idle


PauseAnswer ==
    /\ http.op = "pause"
    /\ WriteIfKnown(http.run, "paused")
    /\ Answer
    /\ UNCHANGED <<control, active, job, checkpoint, report, execution, requests>>

\* "resume", "continue" and "retry" write "running" over "paused" and "running"
\* only, whether or not a worker is left.
ResumeAnswer ==
    /\ http.op \in {"resume", "decide"}
    /\ IF status[http.run] \in {"paused", "running"}
       THEN SetStatus(http.run, "running") ELSE KeepStatus
    /\ Answer
    /\ UNCHANGED <<control, active, job, checkpoint, report, execution, requests>>

EndAnswer ==
    /\ http.op = "end"
    /\ WriteIfKnown(http.run, "partial_scanned")
    /\ Answer
    /\ UNCHANGED <<control, active, job, checkpoint, report, execution, requests>>

DiscardAnswer ==
    /\ http.op = "discard"
    /\ WriteIfKnown(http.run, "failed")
    /\ Answer
    /\ UNCHANGED <<control, active, job, checkpoint, report, execution, requests>>

\* The rest of POST /runs/{id}/resume: mark the run running and start a worker.
RelaunchAnswer(j) ==
    /\ http.op = "relaunch"
    /\ \E isInteractive \in BOOLEAN : Enqueue(j, http.run, TRUE, TRUE, isInteractive)
    /\ SetStatus(http.run, "running")
    /\ Answer
    /\ UNCHANGED <<control, active, checkpoint, report, execution, requests>>

-----------------------------------------------------------------------------
(* The scan coroutine on the loop.                                         *)

GoTo(j, pc) == job' = [job EXCEPT ![j].pc = pc]

\* Mutant of FailureStatus: the background task logs the error and writes nothing.
MutantFailureIgnored(j) ==
    IF job[j].background /\ status[job[j].run] = NoRun THEN "discovered" ELSE status[job[j].run]

\* _run_scan_in_background catches what scan raises: a missing context is
\* created ("discovered"), a "running" one becomes "failed", whoever runs it.
\* The client of POST /scan gets the error instead.
FailureStatus(j) ==
    LET r == job[j].run IN
    CASE job[j].background /\ status[r] = NoRun     -> "discovered"
      [] job[j].background /\ status[r] = "running" -> "failed"
      [] OTHER                                      -> status[r]

WriteFailure(j) ==
    IF FailureStatus(j) = status[job[j].run] THEN KeepStatus
    ELSE SetStatus(job[j].run, FailureStatus(j))

\* scan() is refused: the browser is missing (503), or the run is active (409).
ScanRefused(j) ==
    /\ LoopFree
    /\ job[j].pc = "queued"
    /\ WriteFailure(j)
    /\ GoTo(j, "free")
    /\ UNCHANGED <<control, active, checkpoint, report, execution, http, requests>>

\* Mutant of ScanAccepted: try_start_scan does not look before it adds.
MutantUnguardedStart(j) ==
    /\ LoopFree
    /\ job[j].pc = "queued"
    /\ active' = active \cup {job[j].run}
    /\ SetStatus(job[j].run, "running")
    /\ GoTo(j, "thread")
    /\ UNCHANGED <<control, checkpoint, report, execution, http, requests>>

\* scan() passes try_start_scan, marks the run running and starts the thread.
ScanAccepted(j) ==
    /\ LoopFree
    /\ job[j].pc = "queued"
    /\ job[j].run \notin active
    /\ active' = active \cup {job[j].run}
    /\ SetStatus(job[j].run, "running")
    /\ GoTo(j, "thread")
    /\ UNCHANGED <<control, checkpoint, report, execution, http, requests>>

\* The coroutine resumes after its thread: finish_scan, then the failure handler.
ScanLeaves(j) ==
    /\ LoopFree
    /\ job[j].pc \in {"returned", "unsaved", "raised"}
    /\ active' = active \ {job[j].run}
    /\ IF job[j].pc = "raised" THEN WriteFailure(j) ELSE KeepStatus
    /\ GoTo(j, "free")
    /\ UNCHANGED <<control, checkpoint, report, execution, http, requests>>

-----------------------------------------------------------------------------
(* The worker thread: crawler_service.run_scan and the crawler's boundaries. *)

\* The thread's steps leave the event loop's own state alone.
Thread == UNCHANGED <<active, execution, http, requests>>

\* The context is created if a delete removed it, and marked running again.
WorkerInit(j) ==
    /\ job[j].pc = "thread"
    /\ SetStatus(job[j].run, "running")
    /\ GoTo(j, "boot")
    /\ Thread /\ UNCHANGED <<control, checkpoint, report>>

StartOver(r) ==
    /\ done' = [done EXCEPT ![r] = {}]
    /\ current' = [current EXCEPT ![r] = {}]

\* The crawl's loop is over the menu: it polls the flags at the next entry, which
\* may be a module that is not selected, or it is past the last one.
NextEntry == {"crawl", "wrapup"}

\* Browser, login and navigation, up to the crawl's first checkpoint, which for a
\* scan that does not resume has no completed module.
WorkerBoot(j) ==
    /\ job[j].pc = "boot"
    /\ IF job[j].resume THEN UNCHANGED checkpoint ELSE StartOver(job[j].run)
    /\ \E pc \in NextEntry : GoTo(j, pc)
    /\ Thread /\ UNCHANGED <<stored, control>>

\* An expired session is recoverable ("paused", with what there is as the results,
\* and the engine, if there is one, saves its checkpoint); any other error is
\* final.  Neither recreates a deleted context.
WorkerBootFails(j) ==
    LET r == job[j].run IN
    /\ job[j].pc = "boot"
    /\ \/ /\ WriteIfKnown(r, "paused")
          /\ report' = [report EXCEPT ![r].results = (status[r] # NoRun)]
          /\ UNCHANGED checkpoint \/ (~job[j].resume /\ StartOver(r))
       \/ WriteIfKnown(r, "failed") /\ UNCHANGED <<checkpoint, report>>
    /\ GoTo(j, "raised")
    /\ Thread /\ UNCHANGED control

\* Mutant of WorkerStops: the pause loop does not poll the stop flag.
MutantStopWaitsForResume(j) ==
    /\ job[j].pc = "crawl"
    /\ stop[job[j].run] /\ ~paused[job[j].run]
    /\ job' = [job EXCEPT ![j].pc = "wrapup", ![j].stopped = TRUE]
    /\ Thread /\ UNCHANGED <<stored, control, checkpoint>>

\* Mutant of WorkerEntersModule: the module before is not left.
MutantAddsCurrent(j) ==
    LET r == job[j].run IN
    /\ job[j].pc = "crawl"
    /\ ~stop[r] /\ ~paused[r]
    /\ \E m \in Modules \ done[r] : current' = [current EXCEPT ![r] = @ \cup {m}]
    /\ GoTo(j, "module")
    /\ Thread /\ UNCHANGED <<stored, control, done>>

\* The menu's next entry, _check_pause_or_stop: the flags are polled, and a paused
\* crawler stays here until it is resumed or stopped.
WorkerStops(j) ==
    /\ job[j].pc = "crawl"
    /\ stop[job[j].run]
    /\ job' = [job EXCEPT ![j].pc = "wrapup", ![j].stopped = TRUE]
    /\ Thread /\ UNCHANGED <<stored, control, checkpoint>>

WorkerEntersModule(j) ==
    LET r == job[j].run IN
    /\ job[j].pc = "crawl"
    /\ ~stop[r] /\ ~paused[r]
    /\ \E m \in Modules \ done[r] : current' = [current EXCEPT ![r] = {m}]
    /\ GoTo(j, "module")
    /\ Thread /\ UNCHANGED <<stored, control, done>>

\* The deadline of the whole scan, which the same poll looks at, stops it as well.
WorkerOutOfTime(j) ==
    /\ job[j].pc = "crawl"
    /\ job' = [job EXCEPT ![j].pc = "wrapup", ![j].stopped = TRUE]
    /\ Thread /\ UNCHANGED <<stored, control, checkpoint>>

\* No entry that is left is a selected module to do; there may be selected modules
\* that the menu does not have.
WorkerHasNoModuleLeft(j) ==
    /\ job[j].pc = "crawl"
    /\ ~stop[job[j].run] /\ ~paused[job[j].run]
    /\ GoTo(j, "wrapup")
    /\ Thread /\ UNCHANGED <<stored, control, checkpoint>>

CompletedNow(r) == [done EXCEPT ![r] = @ \cup current[r]]

\* The module is scanned; a stop, or the deadline, seen inside it ends it early, yet
\* it counts as completed: _review_module answers "continue" for a stopping crawler.
ModuleScanned(j) ==
    /\ job[j].pc = "module"
    /\ \E sawStop \in BOOLEAN, pc \in NextEntry :
        IF job[j].interactive /\ ~sawStop
        THEN GoTo(j, "review") /\ UNCHANGED done
        ELSE /\ done' = CompletedNow(job[j].run)
             /\ job' = [job EXCEPT ![j].pc = IF sawStop THEN "wrapup" ELSE pc,
                                   ![j].stopped = sawStop]
    /\ Thread /\ UNCHANGED <<stored, control, current>>

ReviewDecided(j, c) ==
    LET r == job[j].run IN
    /\ job[j].pc = "review"
    /\ done' = IF c = "retry" THEN done ELSE CompletedNow(r)
    /\ \E pc \in NextEntry :
        job' = [job EXCEPT ![j].pc = CASE c = "retry"    -> "module"
                                       [] c = "end"      -> "wrapup"
                                       [] c = "continue" -> pc,
                           ![j].stopped = (c = "end")]
    /\ UNCHANGED <<stored, paused, stop, active, current, execution, http>>

\* wait_for_user polls the stop flag first, then pops the decision of the API.
ReviewByControl(j) ==
    LET r == job[j].run IN
    /\ \/ stop[r] /\ ReviewDecided(j, "end") /\ UNCHANGED decision
       \/ /\ ~stop[r] /\ decision[r] # "none"
          /\ ReviewDecided(j, decision[r])
          /\ decision' = [decision EXCEPT ![r] = "none"]
    /\ UNCHANGED requests

\* A button of the page's overlay, with nothing from the API: also a user's request.
ReviewByOverlay(j) ==
    /\ ~stop[job[j].run] /\ decision[job[j].run] = "none"
    /\ requests < MaxRequests /\ requests' = requests + 1
    /\ \E c \in {"continue", "retry", "end"} : ReviewDecided(j, c)
    /\ UNCHANGED decision

\* A review that nobody answers in time goes on to the next module.
ReviewTimesOut(j) ==
    /\ ~stop[job[j].run] /\ decision[job[j].run] = "none"
    /\ ReviewDecided(j, "continue")
    /\ UNCHANGED <<decision, requests>>

\* crawl() raises: what was collected is kept as a partial result, also on a
\* context that had to be created again.
CrawlRaises(j) ==
    /\ job[j].pc \in {"boot", "crawl", "module", "review"}
    /\ SetStatus(job[j].run, "partial_scanned")
    /\ report' = [report EXCEPT ![job[j].run].results = TRUE]
    /\ GoTo(j, "returned")
    /\ Thread /\ UNCHANGED <<control, checkpoint>>

\* What the end of run_scan takes for completed: the crawl's own list or, if that
\* is empty, the one of the context; and the module the crawler was last in, or
\* else the one of the context, unless the crawl was stopped.
LastModule(r) == IF current[r] # {} THEN current[r] ELSE report[r].current

TakenForCompleted(j) ==
    LET r == job[j].run IN
    (IF done[r] # {} THEN done[r] ELSE report[r].completed)
        \cup (IF job[j].stopped THEN {} ELSE LastModule(r))

\* Mutant of WorkerFinishes: a scan that returns is "scanned", however it ended.
MutantAlwaysScanned(j) ==
    /\ job[j].pc = "wrapup"
    /\ SetStatus(job[j].run, "scanned")
    /\ report' = [report EXCEPT ![job[j].run] = [results |-> TRUE, completed |-> Modules, current |-> {}]]
    /\ GoTo(j, "returned")
    /\ Thread /\ UNCHANGED <<control, checkpoint>>

\* The end of run_scan: the final status and the results, on a recreated context
\* if need be, and then the same progress in the checkpoint, whose save may fail.
WorkerFinishes(j) ==
    LET r         == job[j].run
        completed == TakenForCompleted(j)
        whole     == ~job[j].stopped /\ completed = Modules
        last      == IF whole THEN {} ELSE LastModule(r)
    IN  /\ job[j].pc = "wrapup"
        /\ CASE whole /\ done[r] = Modules -> SetStatus(r, "scanned")
             [] whole /\ done[r] # Modules -> Presume(r)
             [] ~whole                     -> SetStatus(r, "partial_scanned")
        /\ report' = [report EXCEPT ![r] = [results |-> TRUE, completed |-> completed,
                                            current |-> last]]
        /\ \/ UNCHANGED checkpoint
           \/ /\ done' = [done EXCEPT ![r] = completed]
              /\ current' = [current EXCEPT ![r] = last]
        /\ GoTo(j, "returned")
        /\ Thread /\ UNCHANGED control

\* An error on the way is logged, and the status stays what it was.
WorkerCannotSave(j) ==
    /\ job[j].pc = "wrapup"
    /\ GoTo(j, "unsaved")
    /\ Thread /\ UNCHANGED <<stored, control, checkpoint>>

-----------------------------------------------------------------------------
(* The phases after the scan: none of them looks at the status it replaces. *)

\* generate-test stores its plan with the run, if there is a context.
PlanStored(r) ==
    /\ Receive
    /\ WriteIfKnown(r, "planned")
    /\ UNCHANGED <<control, active, job, checkpoint, report, execution, http>>

\* POST /regression/execute-selected/start marks the run and queues a task; a
\* request that waits for its answer marks nothing.
ExecutionStarts(e, r) ==
    /\ Receive
    /\ execution[e].holds = "free"
    /\ \E isBackground \in BOOLEAN :
          /\ IF isBackground THEN WriteIfKnown(r, "executing") ELSE KeepStatus
          /\ execution' = [execution EXCEPT ![e] = [run |-> r, background |-> isBackground,
                                                    holds |-> "queued", report |-> NoReport]]
    /\ UNCHANGED <<control, active, job, checkpoint, report, http>>

\* The task, or the handler, up to the thread that runs the tests.
ExecutionBegins(e) ==
    /\ LoopFree
    /\ execution[e].holds = "queued"
    /\ execution' = [execution EXCEPT ![e].holds =
                         IF status[execution[e].run] = NoRun THEN "none" ELSE "own"]
    /\ UNCHANGED <<stored, control, active, job, checkpoint, http, requests>>

Leave(e) == execution' = [execution EXCEPT ![e] = NoExecution]

\* The tests have run: the context that was found is saved, in the place of any
\* other that the run has got meanwhile.
ExecutionEnds(e) ==
    LET r == execution[e].run IN
    /\ LoopFree
    /\ execution[e].holds \in {"none", "own", "deleted"}
    /\ IF execution[e].holds = "none" THEN KeepStatus ELSE SetStatus(r, "executed")
    /\ report' = IF execution[e].holds = "deleted"
                 THEN [report EXCEPT ![r] = execution[e].report] ELSE report
    /\ Leave(e)
    /\ UNCHANGED <<control, active, job, checkpoint, http, requests>>

\* _persist_execution_job_state of a job that failed: "scanned" if the run has
\* results of a scan, whatever scan they are of.
ExecutionFails(e) ==
    LET r == execution[e].run IN
    /\ LoopFree
    /\ execution[e].holds # "free"
    /\ CASE ~execution[e].background -> KeepStatus
         [] execution[e].background /\ status[r] # NoRun /\ report[r].results -> Presume(r)
         [] execution[e].background /\ ~(status[r] # NoRun /\ report[r].results) ->
                WriteIfKnown(r, "failed")
    /\ Leave(e)
    /\ UNCHANGED <<control, active, job, checkpoint, report, http, requests>>

-----------------------------------------------------------------------------
\* The process dies and starts again: contexts and checkpoints are files, the
\* flags, the guard and the tasks are not.
Restart ==
    /\ paused' = [r \in Runs |-> FALSE]
    /\ stop' = [r \in Runs |-> FALSE]
    /\ decision' = [r \in Runs |-> "none"]
    /\ active' = {}
    /\ job' = [j \in Jobs |-> NoJob]
    /\ execution' = [e \in Executions |-> NoExecution]
    /\ http' = Idle
    /\ UNCHANGED <<stored, checkpoint, requests>>

UserRequest ==
    \E r \in Runs :
        \/ \E j \in Jobs : StartScan(j, r)
        \/ PauseRequest(r)
        \/ ControlResumeRequest(r)
        \/ DecideRequest(r)
        \/ EndRequest(r)
        \/ DiscardRequest(r)
        \/ RelaunchRequest(r)
        \/ DeleteRun(r)
        \/ PlanStored(r)
        \/ \E e \in Executions : ExecutionStarts(e, r)

HandlerAnswer ==
    \/ PauseAnswer
    \/ ResumeAnswer
    \/ EndAnswer
    \/ DiscardAnswer
    \/ \E j \in Jobs : RelaunchAnswer(j)

ExecutionStep(e) == ExecutionBegins(e) \/ ExecutionEnds(e) \/ ExecutionFails(e)

CoroutineStep(j) == ScanRefused(j) \/ ScanAccepted(j) \/ ScanLeaves(j)

\* What a worker does by itself, when nobody answers and nothing breaks.
WorkerProgress(j) ==
    \/ WorkerInit(j)
    \/ WorkerBoot(j)
    \/ WorkerStops(j)
    \/ WorkerEntersModule(j)
    \/ WorkerHasNoModuleLeft(j)
    \/ ModuleScanned(j)
    \/ ReviewByControl(j)
    \/ ReviewTimesOut(j)
    \/ WorkerFinishes(j)

WorkerStep(j) ==
    \/ WorkerProgress(j)
    \/ WorkerBootFails(j)
    \/ WorkerOutOfTime(j)
    \/ ReviewByOverlay(j)
    \/ CrawlRaises(j)
    \/ WorkerCannotSave(j)

Running ==
    \/ UserRequest
    \/ HandlerAnswer
    \/ \E j \in Jobs : CoroutineStep(j) \/ WorkerStep(j)
    \/ \E e \in Executions : ExecutionStep(e)

Next == Running \/ Restart

\* What the scheduling justifies: a handler that started is finished, the loop
\* runs every ready coroutine, and a worker that can go on does (each browser
\* call and each review wait has a timeout).  Users owe nothing, and no property
\* may count on an exception to end a scan.
Fairness ==
    /\ WF_vars(HandlerAnswer)
    /\ \A j \in Jobs : WF_vars(CoroutineStep(j)) /\ WF_vars(WorkerProgress(j))

Spec == Init /\ [][Next]_vars

\* A process that is never killed.
LiveSpec == Init /\ [][Running]_vars /\ Fairness

-----------------------------------------------------------------------------
(* Properties.                                                             *)

TypeOK ==
    /\ status \in [Runs -> Statuses \cup {NoRun}]
    /\ paused \in [Runs -> BOOLEAN]
    /\ stop \in [Runs -> BOOLEAN]
    /\ decision \in [Runs -> Decisions]
    /\ active \subseteq Runs
    /\ job \in [Jobs -> JobRecords]
    /\ done \in [Runs -> SUBSET Modules]
    /\ current \in [Runs -> Current]
    /\ report \in [Runs -> Reports]
    /\ execution \in [Executions -> ExecutionRecords]
    /\ presumed \subseteq Runs
    /\ http \in [op : Handlers, run : Runs]
    /\ requests \in 0..MaxRequests

\* _ACTIVE_SCANS is exact: a run is active while one scan of it is between
\* try_start_scan and finish_scan, and never two, whatever clients retry.
ActiveMeansOneScan ==
    \A r \in Runs :
        /\ r \in active <=> LiveJobs(r) # {}
        /\ \A i, j \in LiveJobs(r) : i = j

Vouched(r) == status[r] = "scanned" /\ r \notin presumed

\* A run is only "scanned" when its checkpoint has every selected module: no
\* stop, partial result, retry or second scan of the run leaves that status over
\* unfinished work.  Two writers are excepted, because they do not know it: a failed
\* execution, and the end of a crawl that counts a module as completed which its
\* menu no longer had.
ScannedIsComplete ==
    \A r \in Runs : Vouched(r) => done[r] = Modules

\* "Execution is a later phase of an already completed crawl" (scan.py:161): so what
\* a failed execution gives back to its run, "scanned", is the status of a completed
\* one.  It does not hold (MCScanLifecycleExecutions.cfg).
ExecutionFollowsCompleteCrawl ==
    [][\A e \in Executions : ExecutionFails(e) =>
          LET r == execution[e].run IN status'[r] = "scanned" => done[r] = Modules]_vars

\* A run does not get "a completed status even when a module checkpoint was never
\* presented or accepted" (crawler_service.py:365): a worker that writes "scanned"
\* has every module.  It does not hold (MCScanLifecycleAccepted.cfg).
CompletedWasAccepted ==
    [][\A j \in Jobs : WorkerFinishes(j) =>
          LET r == job[j].run IN status'[r] = "scanned" => done[r] = Modules]_vars

\* Ending a run ends its scan, paused or not, waiting for a review or not:
\* the worker leaves and the run becomes startable again.
StopEndsTheScan ==
    \A j \in Jobs :
        (job[j].pc \in WorkerPCs /\ stop[job[j].run]) ~> job[j].pc = "free"

\* A background scan settles: its request ends, and leaves its run in another
\* status than "running", unless a user keeps the run paused, or the end of the
\* scan could not be stored, which the code logs and passes over.
StartedScanSettles ==
    \A j \in Jobs, r \in Runs :
        (job[j].run = r /\ job[j].pc = "queued" /\ job[j].background)
            ~> \/ job[j].pc \in {"returned", "raised", "free"} /\ status[r] # "running"
               \/ job[j].pc = "unsaved"
               \/ []paused[r]

\* The lifecycle implements ScanOwnership: whatever the handlers, the guard, the
\* failure handler and the workers write in which order, one scan owns a run, the
\* progress of a run moves only under its owner, and only an owner with every
\* module done declares the run "scanned", what is presumed apart.
Ownership == INSTANCE ScanOwnership
    WITH Scans <- Jobs, owner <- [q \in Runs |-> LiveJobs(q)], progress <- done,
         scanned <- {q \in Runs : Vouched(q)}

OnlyTheOwnerScans == Ownership!Spec
=============================================================================
