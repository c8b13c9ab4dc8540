------------------------ MODULE ScanLifecycleProofs ------------------------
(***************************************************************************)
(* Proofs about ScanLifecycle for every set of runs, every pool of jobs    *)
(* and of executions, every set of modules and every bound on the          *)
(* requests: its invariant, and that it implements ScanOwnership.          *)
(***************************************************************************)
EXTENDS ScanLifecycle, TLAPS

USE RunsAssumption, JobsAssumption, MaxRequestsAssumption

\* While a worker runs, its run is not "scanned" but by a writer that presumes it:
\* only that worker's own last step vouches for this status.
NotScannedAtWork ==
    \A j \in Jobs, r \in Runs : job[j].pc \in WorkerPCs /\ job[j].run = r => ~Vouched(r)

IInv ==
    /\ TypeOK
    /\ ActiveMeansOneScan
    /\ NotScannedAtWork
    /\ ScannedIsComplete

\* A write of r's status that does not vouch for "scanned".
Quiet(r) ==
    /\ status' \in [Runs -> Statuses \cup {NoRun}]
    /\ presumed' \subseteq Runs
    /\ \A q \in Runs \ {r} : Vouched(q)' <=> Vouched(q)
    /\ Vouched(r)' => Vouched(r)

\* Every write of a status is such a one, the last step of a worker apart.
LEMMA Quietly ==
    ASSUME TypeOK, NEW r \in Runs,
           \/ KeepStatus
           \/ Presume(r)
           \/ \E s \in (Statuses \ {"scanned"}) \cup {NoRun} : SetStatus(r, s)
    PROVE  Quiet(r)
<1>1. CASE KeepStatus
  BY <1>1 DEF KeepStatus, Quiet, Vouched, TypeOK
<1>2. CASE Presume(r)
  BY <1>2 DEF Presume, Quiet, Vouched, TypeOK, Statuses
<1>3. CASE \E s \in (Statuses \ {"scanned"}) \cup {NoRun} : SetStatus(r, s)
  <2> PICK s \in (Statuses \ {"scanned"}) \cup {NoRun} : SetStatus(r, s)
    BY <1>3
  <2>1. s # "scanned"
    BY DEF NoRun
  <2> QED
    BY <2>1 DEF SetStatus, Quiet, Vouched, TypeOK
<1> QED
  BY <1>1, <1>2, <1>3

\* Neither the handlers' writes nor the failure handler's vouch for a scan.
LEMMA WritesQuietly ==
    ASSUME TypeOK, NEW r \in Runs
    PROVE  /\ \A s \in Statuses \ {"scanned"} : WriteIfKnown(r, s) => Quiet(r)
           /\ \A j \in Jobs : job[j].run = r /\ WriteFailure(j) => Quiet(r)
<1>1. ASSUME NEW s \in Statuses \ {"scanned"}, WriteIfKnown(r, s) PROVE Quiet(r)
  BY <1>1, Quietly DEF WriteIfKnown
<1>2. ASSUME NEW j \in Jobs, job[j].run = r, WriteFailure(j) PROVE Quiet(r)
  <2>1. CASE FailureStatus(j) = status[r]
    BY <1>2, <2>1, Quietly DEF WriteFailure
  <2>2. CASE FailureStatus(j) # status[r]
    <3>1. FailureStatus(j) \in {"discovered", "failed", status[r]}
      BY <1>2 DEF FailureStatus
    <3>2. FailureStatus(j) \in Statuses \ {"scanned"}
      BY <2>2, <3>1 DEF Statuses
    <3> QED
      BY <1>2, <2>2, <3>2, Quietly DEF WriteFailure
  <2> QED
    BY <2>1, <2>2
<1> QED
  BY <1>1, <1>2

\* Nothing is running and no run is stored when the process first starts.
LEMMA InitIInv == Init => IInv
<1> SUFFICES ASSUME Init PROVE IInv
  OBVIOUS
<1>1. PICK r0 \in Runs : r0 = CHOOSE r \in Runs : TRUE
  OBVIOUS
<1>2. TypeOK
  <2>1. NoReport \in Reports
    BY DEF NoReport, Reports, Current
  <2>2. NoExecution \in ExecutionRecords
    BY <1>1, <2>1 DEF NoExecution, ExecutionRecords, Holds
  <2>3. NoJob \in JobRecords
    BY <1>1 DEF NoJob, JobRecords, PCs
  <2> QED
    BY <1>1, <2>1, <2>2, <2>3 DEF Init, TypeOK, Idle, Decisions, Handlers, Current
<1>3. \A r \in Runs : LiveJobs(r) = {}
  BY DEF Init, NoJob, LiveJobs, LivePCs, WorkerPCs
<1>4. ActiveMeansOneScan
  BY <1>3 DEF Init, ActiveMeansOneScan
<1>5. NotScannedAtWork /\ ScannedIsComplete
  BY DEF Init, NoJob, NoRun, Vouched, NotScannedAtWork, ScannedIsComplete, WorkerPCs
<1> QED
  BY <1>2, <1>4, <1>5 DEF IInv

\* A step that touches no job and no progress, and vouches for no run.
LEMMA StatusOnly ==
    ASSUME IInv, TypeOK', UNCHANGED <<active, job, done>>, NEW r \in Runs, Quiet(r)
    PROVE  IInv'
<1> USE DEF IInv
<1>0. \A q \in Runs : Vouched(q)' => Vouched(q)
  BY DEF Quiet
<1>1. ActiveMeansOneScan'
  BY DEF ActiveMeansOneScan, LiveJobs
<1>2. NotScannedAtWork'
  <2> SUFFICES ASSUME NEW j \in Jobs, NEW q \in Runs, job[j].pc \in WorkerPCs, job[j].run = q
               PROVE  ~Vouched(q)'
    BY DEF NotScannedAtWork
  <2> QED
    BY <1>0 DEF NotScannedAtWork
<1>3. ScannedIsComplete'
  BY <1>0 DEF ScannedIsComplete
<1> QED
  BY <1>1, <1>2, <1>3

\* A step of the working job j that leaves it live and touches no other run: the
\* guard makes j the only live job of its run, so no other job is concerned.
LEMMA LiveJobStep ==
    ASSUME IInv, TypeOK', NEW j \in Jobs, UNCHANGED active,
           job[j].pc \in WorkerPCs, job'[j].pc \in LivePCs, job'[j].run = job[j].run,
           \A i \in Jobs \ {j} : job'[i] = job[i],
           \A q \in Runs \ {job[j].run} : (Vouched(q)' <=> Vouched(q)) /\ done'[q] = done[q],
           Vouched(job[j].run)' => done'[job[j].run] = Modules /\ job'[j].pc \notin WorkerPCs
    PROVE  IInv'
<1> USE DEF IInv
<1> PICK r \in Runs : r = job[j].run
  BY DEF TypeOK, JobRecords
<1>0. \A i \in Jobs : job[i].run \in Runs /\ job'[i].run \in Runs
  BY DEF TypeOK, JobRecords
<1>1. \A q \in Runs : LiveJobs(q)' = LiveJobs(q)
  BY DEF LiveJobs, LivePCs
<1>2. ActiveMeansOneScan'
  BY <1>1 DEF ActiveMeansOneScan
<1>3. \A i \in Jobs \ {j} : job[i].pc \in LivePCs => job[i].run # r
  BY <1>0 DEF ActiveMeansOneScan, LiveJobs, LivePCs
<1>4. NotScannedAtWork'
  <2> SUFFICES ASSUME NEW i \in Jobs, NEW q \in Runs, job'[i].pc \in WorkerPCs, job'[i].run = q
               PROVE  ~Vouched(q)'
    BY DEF NotScannedAtWork
  <2>1. CASE i = j
    BY <2>1
  <2>2. CASE i # j
    <3>1. job'[i] = job[i]
      BY <2>2
    <3>2. job[i].pc \in WorkerPCs /\ job[i].pc \in LivePCs /\ job[i].run = q
      BY <3>1 DEF LivePCs
    <3>3. q # r
      BY <1>3, <2>2, <3>2
    <3>4. ~Vouched(q)
      BY <3>2 DEF NotScannedAtWork
    <3> QED
      BY <3>3, <3>4
  <2> QED
    BY <2>1, <2>2
<1>5. ScannedIsComplete'
  <2> SUFFICES ASSUME NEW q \in Runs, Vouched(q)' PROVE done'[q] = Modules
    BY DEF ScannedIsComplete
  <2>1. CASE q = r
    BY <2>1 DEF Vouched
  <2>2. CASE q # r
    BY <2>2 DEF ScannedIsComplete
  <2> QED
    BY <2>1, <2>2
<1> QED
  BY <1>2, <1>4, <1>5

\* The same for a step that does not vouch for the run.
LEMMA QuietJobStep ==
    ASSUME IInv, TypeOK', NEW j \in Jobs, UNCHANGED active,
           job[j].pc \in WorkerPCs, job'[j].pc \in LivePCs, job'[j].run = job[j].run,
           \A i \in Jobs \ {j} : job'[i] = job[i],
           \A q \in Runs \ {job[j].run} : done'[q] = done[q],
           Quiet(job[j].run)
    PROVE  IInv'
<1>1. job[j].run \in Runs /\ ~Vouched(job[j].run)
  BY DEF IInv, TypeOK, JobRecords, NotScannedAtWork
<1>2. ~Vouched(job[j].run)'
  BY <1>1 DEF Quiet, Vouched
<1> QED
  BY <1>2, LiveJobStep DEF Quiet

\* A step of a job that is not live, and does not become so, vouches for no run.
LEMMA IdleJobStep ==
    ASSUME IInv, TypeOK', NEW j \in Jobs, NEW r \in Runs, UNCHANGED <<active, done>>,
           job[j].pc \notin LivePCs, job'[j].pc \notin LivePCs,
           \A i \in Jobs \ {j} : job'[i] = job[i],
           Quiet(r)
    PROVE  IInv'
<1> USE DEF IInv
<1>0. \A q \in Runs : Vouched(q)' => Vouched(q)
  BY DEF Quiet
<1>1. \A q \in Runs : LiveJobs(q)' = LiveJobs(q)
  BY DEF LiveJobs
<1>2. ActiveMeansOneScan'
  BY <1>1 DEF ActiveMeansOneScan
<1>3. NotScannedAtWork'
  <2> SUFFICES ASSUME NEW i \in Jobs, NEW q \in Runs, job'[i].pc \in WorkerPCs, job'[i].run = q
               PROVE  ~Vouched(q)'
    BY DEF NotScannedAtWork
  <2>1. job'[i] = job[i]
    BY DEF LivePCs
  <2> QED
    BY <1>0, <2>1 DEF NotScannedAtWork
<1>4. ScannedIsComplete'
  BY <1>0 DEF ScannedIsComplete
<1> QED
  BY <1>2, <1>3, <1>4

\* What a request or an answer keeps of the types, besides what it writes.
LEMMA KeptTypes ==
    ASSUME TypeOK, NEW r \in Runs, Quiet(r),
           UNCHANGED <<active, checkpoint>>,
           paused' \in [Runs -> BOOLEAN], stop' \in [Runs -> BOOLEAN],
           decision' \in [Runs -> Decisions],
           job' \in [Jobs -> JobRecords],
           report' \in [Runs -> Reports],
           execution' \in [Executions -> ExecutionRecords],
           http' \in [op : Handlers, run : Runs],
           requests' \in 0..MaxRequests
    PROVE  TypeOK'
BY DEF TypeOK, Quiet, checkpoint

\* A queued scan request is a job, and not a live one.
LEMMA Enqueued ==
    ASSUME TypeOK, NEW j \in Jobs, NEW r \in Runs,
           NEW isResume \in BOOLEAN, NEW isBackground \in BOOLEAN, NEW isInteractive \in BOOLEAN,
           Enqueue(j, r, isResume, isBackground, isInteractive)
    PROVE  /\ job' \in [Jobs -> JobRecords]
           /\ job[j].pc \notin LivePCs /\ job'[j].pc \notin LivePCs
           /\ \A i \in Jobs \ {j} : job'[i] = job[i]
BY DEF TypeOK, Enqueue, JobRecords, PCs, LivePCs, WorkerPCs

\* The requests of the frontend, each an endpoint up to its first await, preserve
\* the invariant.
LEMMA RequestPreserves == IInv /\ UserRequest => IInv'
<1> SUFFICES ASSUME IInv, UserRequest PROVE IInv'
  OBVIOUS
<1> USE DEF IInv
<1> PICK r \in Runs :
        \/ \E j \in Jobs : StartScan(j, r)
        \/ PauseRequest(r)
        \/ ControlResumeRequest(r)
        \/ DecideRequest(r)
        \/ EndRequest(r)
        \/ DiscardRequest(r)
        \/ RelaunchRequest(r)
        \/ DeleteRun(r)
        \/ PlanStored(r)
        \/ \E e \in Executions : ExecutionStarts(e, r)
  BY DEF UserRequest
<1>r. requests' \in 0..MaxRequests
  <2>1. Receive
    BY DEF StartScan, PauseRequest, ControlResumeRequest, DecideRequest,
        EndRequest, DiscardRequest, RelaunchRequest, DeleteRun, PlanStored, ExecutionStarts
  <2>2. requests \in Nat /\ requests < MaxRequests /\ requests' = requests + 1
    BY <2>1 DEF Receive, TypeOK
  <2> QED
    BY <2>2
<1>t. \A op \in Handlers : Take(op, r) => http' \in [op : Handlers, run : Runs]
  BY DEF Take
<1>0. /\ requests' \in 0..MaxRequests
      /\ \A op \in Handlers : Take(op, r) => http' \in [op : Handlers, run : Runs]
  BY <1>r, <1>t
<1>1. CASE \E j \in Jobs : StartScan(j, r)
  <2> PICK j \in Jobs : StartScan(j, r)
    BY <1>1
  <2> PICK b1 \in BOOLEAN, b2 \in BOOLEAN, b3 \in BOOLEAN : Enqueue(j, r, b1, b2, b3)
    BY DEF StartScan
  <2>1. Quiet(r)
    BY Quietly DEF StartScan, stored, KeepStatus
  <2>2. TypeOK'
    BY <1>0, <2>1, Enqueued, KeptTypes DEF StartScan, stored, control, TypeOK
  <2> QED
    BY <2>1, <2>2, Enqueued, IdleJobStep DEF StartScan, checkpoint
<1>2. CASE PauseRequest(r)
  <2>1. Quiet(r)
    BY <1>2, Quietly DEF PauseRequest, stored, KeepStatus
  <2>2. TypeOK'
    BY <1>0, <1>2, <2>1, KeptTypes DEF PauseRequest, stored, TypeOK, Handlers
  <2> QED
    BY <1>2, <2>1, <2>2, StatusOnly DEF PauseRequest, checkpoint
<1>3. CASE ControlResumeRequest(r)
  <2>1. Quiet(r)
    BY <1>3, Quietly DEF ControlResumeRequest, stored, KeepStatus
  <2>2. TypeOK'
    BY <1>0, <1>3, <2>1, KeptTypes DEF ControlResumeRequest, stored, TypeOK, Handlers
  <2> QED
    BY <1>3, <2>1, <2>2, StatusOnly DEF ControlResumeRequest, checkpoint
<1>4. CASE DecideRequest(r)
  <2>1. Quiet(r)
    BY <1>4, Quietly DEF DecideRequest, stored, KeepStatus
  <2>2. TypeOK'
    BY <1>0, <1>4, <2>1, KeptTypes DEF DecideRequest, stored, TypeOK, Handlers, Decisions
  <2> QED
    BY <1>4, <2>1, <2>2, StatusOnly DEF DecideRequest, checkpoint
<1>5. CASE EndRequest(r)
  <2>1. Quiet(r)
    BY <1>5, Quietly DEF EndRequest, stored, KeepStatus
  <2>2. TypeOK'
    BY <1>0, <1>5, <2>1, KeptTypes DEF EndRequest, StopSignal, stored, TypeOK, Handlers, Decisions
  <2> QED
    BY <1>5, <2>1, <2>2, StatusOnly DEF EndRequest, checkpoint
<1>6. CASE DiscardRequest(r)
  <2>1. Quiet(r)
    BY <1>6, Quietly DEF DiscardRequest, stored, KeepStatus
  <2>2. TypeOK'
    BY <1>0, <1>6, <2>1, KeptTypes DEF DiscardRequest, StopSignal, stored, TypeOK, Handlers, Decisions
  <2> QED
    BY <1>6, <2>1, <2>2, StatusOnly DEF DiscardRequest, checkpoint
<1>7. CASE RelaunchRequest(r)
  <2>1. Quiet(r)
    BY <1>7, Quietly DEF RelaunchRequest, stored, KeepStatus
  <2>2. TypeOK'
    BY <1>0, <1>7, <2>1, KeptTypes DEF RelaunchRequest, stored, TypeOK, Handlers
  <2> QED
    BY <1>7, <2>1, <2>2, StatusOnly DEF RelaunchRequest, checkpoint
<1>8. CASE DeleteRun(r)
  <2>1. Quiet(r)
    BY <1>8, Quietly DEF DeleteRun
  <2>2. report' \in [Runs -> Reports]
    BY <1>8 DEF DeleteRun, TypeOK, NoReport, Reports, Current
  <2>3. execution' \in [Executions -> ExecutionRecords]
    <3> SUFFICES ASSUME NEW e \in Executions
                 PROVE  (IF execution[e].run = r /\ execution[e].holds = "own"
                         THEN [execution[e] EXCEPT !.holds = "deleted", !.report = report[r]]
                         ELSE execution[e]) \in ExecutionRecords
      BY <1>8 DEF DeleteRun
    <3>1. execution[e] \in ExecutionRecords /\ report[r] \in Reports
      BY DEF TypeOK
    <3>2. [execution[e] EXCEPT !.holds = "deleted", !.report = report[r]] \in ExecutionRecords
      BY <3>1 DEF ExecutionRecords, Holds
    <3> QED
      BY <3>1, <3>2
  <2>4. TypeOK'
    BY <1>0, <1>8, <2>1, <2>2, <2>3, KeptTypes DEF DeleteRun, control, TypeOK
  <2> QED
    BY <1>8, <2>1, <2>4, StatusOnly DEF DeleteRun, checkpoint
<1>9. CASE PlanStored(r)
  <2>1. Quiet(r)
    BY <1>9, WritesQuietly DEF PlanStored, Statuses
  <2>2. TypeOK'
    BY <1>0, <1>9, <2>1, KeptTypes DEF PlanStored, control, TypeOK
  <2> QED
    BY <1>9, <2>1, <2>2, StatusOnly DEF PlanStored, checkpoint
<1>10. CASE \E e \in Executions : ExecutionStarts(e, r)
  <2> PICK e \in Executions : ExecutionStarts(e, r)
    BY <1>10
  <2> PICK b \in BOOLEAN :
          /\ IF b THEN WriteIfKnown(r, "executing") ELSE KeepStatus
          /\ execution' = [execution EXCEPT ![e] = [run |-> r, background |-> b,
                                                    holds |-> "queued", report |-> NoReport]]
    BY DEF ExecutionStarts
  <2>1. Quiet(r)
    BY Quietly, WritesQuietly DEF Statuses
  <2>2. execution' \in [Executions -> ExecutionRecords]
    BY DEF TypeOK, ExecutionRecords, Holds, NoReport, Reports, Current
  <2>3. TypeOK'
    BY <1>0, <2>1, <2>2, KeptTypes DEF ExecutionStarts, control, TypeOK
  <2> QED
    BY <2>1, <2>3, StatusOnly DEF ExecutionStarts, checkpoint
<1> QED
  BY <1>1, <1>2, <1>3, <1>4, <1>5, <1>6, <1>7, <1>8, <1>9, <1>10

\* The second halves of the endpoints, run after the signal, preserve the
\* invariant.
LEMMA AnswerPreserves == IInv /\ HandlerAnswer => IInv'
<1> SUFFICES ASSUME IInv, HandlerAnswer PROVE IInv'
  OBVIOUS
<1> USE DEF IInv
<1>0. PICK r \in Runs : r = http.run
  BY DEF TypeOK
<1>1. Answer /\ UNCHANGED <<control, active, checkpoint, report, execution, requests>>
  BY DEF HandlerAnswer, PauseAnswer, ResumeAnswer, EndAnswer, DiscardAnswer, RelaunchAnswer
<1>2. Quiet(r)
  <2>1. {"paused", "running", "partial_scanned", "failed"} \subseteq Statuses \ {"scanned"}
    BY DEF Statuses
  <2> QED
    BY <1>0, <2>1, Quietly, WritesQuietly DEF HandlerAnswer, PauseAnswer, ResumeAnswer,
        EndAnswer, DiscardAnswer, RelaunchAnswer
<1>3. Idle \in [op : Handlers, run : Runs]
  BY DEF Idle, Handlers
<1>4. job' \in [Jobs -> JobRecords] => TypeOK'
  BY <1>1, <1>2, <1>3, KeptTypes DEF Answer, control, TypeOK
<1>5. CASE UNCHANGED job
  <2>1. TypeOK'
    BY <1>4, <1>5 DEF TypeOK
  <2> QED
    BY <1>1, <1>2, <1>5, <2>1, StatusOnly DEF checkpoint
<1>6. CASE \E j \in Jobs : RelaunchAnswer(j)
  <2> PICK j \in Jobs : RelaunchAnswer(j)
    BY <1>6
  <2> PICK b \in BOOLEAN : Enqueue(j, r, TRUE, TRUE, b)
    BY <1>0 DEF RelaunchAnswer
  <2>1. TypeOK'
    BY <1>4, Enqueued
  <2> QED
    BY <1>1, <1>2, <2>1, Enqueued, IdleJobStep DEF checkpoint
<1> QED
  BY <1>5, <1>6 DEF HandlerAnswer, PauseAnswer, ResumeAnswer, EndAnswer, DiscardAnswer

\* The steps of an execution preserve the invariant: what they call "scanned" is
\* presumed.
LEMMA ExecutionPreserves ==
    ASSUME NEW e \in Executions, IInv, ExecutionStep(e) PROVE IInv'
<1> USE DEF IInv
<1>0. PICK r \in Runs : r = execution[e].run
  BY DEF TypeOK, ExecutionRecords
<1>1. Quiet(r)
  <2>1. "executed" \in Statuses \ {"scanned"} /\ "failed" \in Statuses \ {"scanned"}
    BY DEF Statuses
  <2>2. CASE ExecutionBegins(e)
    BY <2>2, Quietly DEF ExecutionBegins, stored, KeepStatus
  <2>3. CASE ExecutionEnds(e)
    BY <1>0, <2>1, <2>3, Quietly DEF ExecutionEnds
  <2>4. CASE ExecutionFails(e)
    BY <1>0, <2>1, <2>4, Quietly, WritesQuietly DEF ExecutionFails
  <2> QED
    BY <2>2, <2>3, <2>4 DEF ExecutionStep
<1>2. UNCHANGED <<control, active, job, checkpoint, http, requests>>
  BY DEF ExecutionStep, ExecutionBegins, ExecutionEnds, ExecutionFails
<1>3. report' \in [Runs -> Reports]
  <2>1. UNCHANGED report \/ report' = [report EXCEPT ![r] = execution[e].report]
    BY <1>0 DEF ExecutionStep, ExecutionBegins, ExecutionEnds, ExecutionFails, stored
  <2> QED
    BY <2>1 DEF TypeOK, ExecutionRecords
<1>4. execution' \in [Executions -> ExecutionRecords]
  <2>1. NoExecution \in ExecutionRecords
    <3>1. NoExecution.run \in Runs
      BY DEF NoExecution
    <3> QED
      BY <3>1 DEF NoExecution, ExecutionRecords, Holds, NoReport, Reports, Current
  <2>2. CASE ExecutionBegins(e)
    BY <2>2 DEF ExecutionBegins, TypeOK, ExecutionRecords, Holds
  <2>3. CASE Leave(e)
    BY <2>1, <2>3 DEF Leave, TypeOK
  <2> QED
    BY <2>2, <2>3 DEF ExecutionStep, ExecutionEnds, ExecutionFails
<1>5. TypeOK'
  BY <1>1, <1>2, <1>3, <1>4, KeptTypes DEF control, TypeOK
<1> QED
  BY <1>1, <1>2, <1>5, StatusOnly DEF checkpoint

\* What a step of a scan keeps of the types, besides what it writes.
LEMMA ScanTypes ==
    ASSUME TypeOK, NEW r \in Runs, Quiet(r),
           UNCHANGED <<execution, http>>, requests' \in 0..MaxRequests,
           paused' \in [Runs -> BOOLEAN], stop' \in [Runs -> BOOLEAN],
           decision' \in [Runs -> Decisions],
           active' \subseteq Runs,
           job' \in [Jobs -> JobRecords],
           done' \in [Runs -> SUBSET Modules],
           current' \in [Runs -> Current],
           report' \in [Runs -> Reports]
    PROVE  TypeOK'
BY DEF TypeOK, Quiet

\* A job goes from one place to another.
LEMMA Goes ==
    ASSUME TypeOK, NEW j \in Jobs, NEW pc \in PCs, GoTo(j, pc)
    PROVE  /\ job' \in [Jobs -> JobRecords]
           /\ job'[j].pc = pc /\ job'[j].run = job[j].run
           /\ \A i \in Jobs \ {j} : job'[i] = job[i]
BY DEF TypeOK, GoTo, JobRecords

\* A job goes on to a place, and remembers whether it was stopped.
LEMMA GoesStopped ==
    ASSUME TypeOK, NEW j \in Jobs, NEW pc \in PCs, NEW s \in BOOLEAN,
           job' = [job EXCEPT ![j].pc = pc, ![j].stopped = s]
    PROVE  /\ job' \in [Jobs -> JobRecords]
           /\ job'[j].pc = pc /\ job'[j].run = job[j].run
           /\ \A i \in Jobs \ {j} : job'[i] = job[i]
<1> DEFINE new == [job[j] EXCEPT !.pc = pc, !.stopped = s]
<1>1. job[j] \in JobRecords
  BY DEF TypeOK
<1>2. new \in JobRecords /\ new.pc = pc /\ new.run = job[j].run
  BY <1>1 DEF JobRecords
<1>3. job' = [job EXCEPT ![j] = new]
  OBVIOUS
<1> HIDE DEF new
<1> QED
  BY <1>2, <1>3 DEF TypeOK

\* The coroutine of a scan, which takes and releases the run in _ACTIVE_SCANS,
\* preserves the invariant.
LEMMA CoroutinePreserves ==
    ASSUME NEW j \in Jobs, IInv, CoroutineStep(j) PROVE IInv'
<1> USE DEF IInv
<1>0. PICK r \in Runs : r = job[j].run
  BY DEF TypeOK, JobRecords
<1>p. /\ "free" \in PCs /\ "free" \notin LivePCs
      /\ "queued" \in PCs /\ "queued" \notin LivePCs
      /\ "thread" \in PCs /\ "thread" \in LivePCs
  BY DEF PCs, LivePCs, WorkerPCs
<1>1. CASE ScanRefused(j)
  <2>1. Quiet(r)
    BY <1>0, <1>1, WritesQuietly DEF ScanRefused
  <2>2. TypeOK'
    BY <1>1, <1>p, <2>1, Goes, ScanTypes DEF ScanRefused, control, checkpoint, TypeOK
  <2> QED
    BY <1>1, <1>p, <2>1, <2>2, Goes, IdleJobStep DEF ScanRefused, checkpoint
<1>2. CASE ScanAccepted(j)
  <2>1. Quiet(r)
    BY <1>0, <1>2, Quietly DEF ScanAccepted, Statuses
  <2>2. TypeOK'
    BY <1>0, <1>2, <1>p, <2>1, Goes, ScanTypes DEF ScanAccepted, control, checkpoint, TypeOK
  <2>3. LiveJobs(r) = {}
    BY <1>0, <1>2 DEF ScanAccepted, ActiveMeansOneScan
  <2>4. LiveJobs(r)' = {j}
    BY <1>0, <1>2, <1>p, <2>3, Goes DEF ScanAccepted, LiveJobs
  <2>5. \A q \in Runs \ {r} : LiveJobs(q)' = LiveJobs(q)
    BY <1>0, <1>2, <1>p, Goes DEF ScanAccepted, LiveJobs
  <2>6. ActiveMeansOneScan'
    <3> SUFFICES ASSUME NEW q \in Runs
                 PROVE  /\ q \in active' <=> LiveJobs(q)' # {}
                        /\ \A i, k \in LiveJobs(q)' : i = k
      BY DEF ActiveMeansOneScan
    <3>1. CASE q = r
      BY <3>1, <1>0, <1>2, <2>4 DEF ScanAccepted
    <3>2. CASE q # r
      BY <3>2, <1>0, <1>2, <2>5 DEF ActiveMeansOneScan, ScanAccepted
    <3> QED
      BY <3>1, <3>2
  <2>7. ~Vouched(r)' /\ \A q \in Runs : Vouched(q)' => Vouched(q)
    BY <1>0, <1>2, <2>1 DEF ScanAccepted, SetStatus, Vouched, Quiet, TypeOK
  <2>8. NotScannedAtWork'
    <3> SUFFICES ASSUME NEW i \in Jobs, NEW q \in Runs, job'[i].pc \in WorkerPCs, job'[i].run = q
                 PROVE  ~Vouched(q)'
      BY DEF NotScannedAtWork
    <3>1. CASE i = j
      BY <1>0, <1>2, <1>p, <2>7, <3>1, Goes DEF ScanAccepted
    <3>2. CASE i # j
      BY <1>2, <1>p, <2>7, <3>2, Goes DEF ScanAccepted, NotScannedAtWork
    <3> QED
      BY <3>1, <3>2
  <2>9. ScannedIsComplete'
    BY <1>2, <2>7 DEF ScannedIsComplete, ScanAccepted, checkpoint
  <2> QED
    BY <2>2, <2>6, <2>8, <2>9
<1>3. CASE ScanLeaves(j)
  <2>1. Quiet(r)
    BY <1>0, <1>3, Quietly, WritesQuietly DEF ScanLeaves
  <2>2. TypeOK'
    BY <1>0, <1>3, <1>p, <2>1, Goes, ScanTypes DEF ScanLeaves, control, checkpoint, TypeOK
  <2>3. LiveJobs(r) = {j}
    BY <1>0, <1>3 DEF ScanLeaves, ActiveMeansOneScan, LiveJobs, LivePCs
  <2>4. LiveJobs(r)' = {}
    BY <1>0, <1>3, <1>p, <2>3, Goes DEF ScanLeaves, LiveJobs
  <2>5. \A q \in Runs \ {r} : LiveJobs(q)' = LiveJobs(q)
    BY <1>0, <1>3, <1>p, Goes DEF ScanLeaves, LiveJobs
  <2>6. ActiveMeansOneScan'
    <3> SUFFICES ASSUME NEW q \in Runs
                 PROVE  /\ q \in active' <=> LiveJobs(q)' # {}
                        /\ \A i, k \in LiveJobs(q)' : i = k
      BY DEF ActiveMeansOneScan
    <3>1. CASE q = r
      BY <3>1, <1>0, <1>3, <2>4 DEF ScanLeaves
    <3>2. CASE q # r
      BY <3>2, <1>0, <1>3, <2>5 DEF ActiveMeansOneScan, ScanLeaves
    <3> QED
      BY <3>1, <3>2
  <2>7. \A q \in Runs : Vouched(q)' => Vouched(q)
    BY <2>1 DEF Quiet
  <2>8. NotScannedAtWork'
    <3> SUFFICES ASSUME NEW i \in Jobs, NEW q \in Runs, job'[i].pc \in WorkerPCs, job'[i].run = q
                 PROVE  ~Vouched(q)'
      BY DEF NotScannedAtWork
    <3>1. i # j
      BY <1>3, <1>p, Goes DEF ScanLeaves, LivePCs
    <3> QED
      BY <1>3, <1>p, <2>7, <3>1, Goes DEF ScanLeaves, NotScannedAtWork
  <2>9. ScannedIsComplete'
    BY <1>3, <2>7 DEF ScannedIsComplete, ScanLeaves, checkpoint
  <2> QED
    BY <2>2, <2>6, <2>8, <2>9
<1> QED
  BY <1>1, <1>2, <1>3 DEF CoroutineStep

\* What a review's decision does, whoever takes it.
LEMMA ReviewEffect ==
    ASSUME TypeOK, NEW j \in Jobs, NEW c \in {"continue", "retry", "end"}, ReviewDecided(j, c)
    PROVE  /\ job' \in [Jobs -> JobRecords]
           /\ job[j].pc \in WorkerPCs /\ job'[j].pc \in WorkerPCs /\ job'[j].run = job[j].run
           /\ \A i \in Jobs \ {j} : job'[i] = job[i]
           /\ UNCHANGED done \/ done' = CompletedNow(job[j].run)
           /\ UNCHANGED <<status, presumed, paused, stop, active, current, report, execution, http>>
<1>1. job[j].pc = "review" /\ UNCHANGED <<stored, paused, stop, active, current, execution, http>>
  BY DEF ReviewDecided
<1>2. UNCHANGED done \/ done' = CompletedNow(job[j].run)
  <2>1. CASE c = "retry"
    BY <2>1 DEF ReviewDecided
  <2>2. CASE c # "retry"
    BY <2>2 DEF ReviewDecided
  <2> QED
    BY <2>1, <2>2
<1>3. \E pc \in {"module", "wrapup", "crawl"}, s \in BOOLEAN :
          job' = [job EXCEPT ![j].pc = pc, ![j].stopped = s]
  <2>1. CASE c = "retry"
    BY <2>1 DEF ReviewDecided
  <2>2. CASE c = "end"
    BY <2>2 DEF ReviewDecided
  <2>3. CASE c = "continue"
    BY <2>3 DEF ReviewDecided, NextEntry
  <2> QED
    BY <2>1, <2>2, <2>3
<1>4. {"module", "wrapup", "crawl"} \subseteq PCs /\ {"module", "wrapup", "crawl"} \subseteq WorkerPCs
  BY DEF PCs, LivePCs, WorkerPCs
<1> QED
  BY <1>1, <1>2, <1>3, <1>4, GoesStopped DEF stored, WorkerPCs

\* The crawl completes the module it is in, of the modules that there are.
LEMMA CompletedTypes ==
    ASSUME TypeOK, NEW r \in Runs
    PROVE  /\ CompletedNow(r) \in [Runs -> SUBSET Modules]
           /\ \A q \in Runs \ {r} : CompletedNow(r)[q] = done[q]
BY DEF TypeOK, CompletedNow, Current

\* What the end of run_scan reports is of the modules that there are.
LEMMA TakenTypes ==
    ASSUME TypeOK, NEW j \in Jobs
    PROVE  TakenForCompleted(j) \in SUBSET Modules /\ LastModule(job[j].run) \in Current
<1>1. /\ job[j].run \in Runs
      /\ report[job[j].run].completed \in SUBSET Modules
      /\ report[job[j].run].current \in Current
      /\ current[job[j].run] \in Current
      /\ done[job[j].run] \in SUBSET Modules
  BY DEF TypeOK, JobRecords, Reports
<1>2. LastModule(job[j].run) \in Current
  BY <1>1 DEF LastModule
<1>3. LastModule(job[j].run) \in SUBSET Modules
  BY <1>2 DEF Current
<1> QED
  BY <1>1, <1>2, <1>3 DEF TakenForCompleted

\* What the modules completed of run r become, under its owner.
Progress(r) ==
    \/ UNCHANGED done
    \/ done' = [done EXCEPT ![r] = {}]
    \/ \E more \in SUBSET Modules : done' = [done EXCEPT ![r] = @ \cup more]

\* What the last step of a worker does when it vouches for its run.
Vouches(j) ==
    /\ UNCHANGED done
    /\ done[job[j].run] = Modules
    /\ job'[j].pc \notin WorkerPCs
    /\ \A q \in Runs \ {job[j].run} : Vouched(q)' <=> Vouched(q)

\* What a step of a worker does: it leaves its job live, it touches the progress
\* and the status of its own run only, and it vouches for it at its end only.
LEMMA WorkerEffect ==
    ASSUME TypeOK, NEW j \in Jobs, WorkerStep(j)
    PROVE  /\ TypeOK'
           /\ UNCHANGED active
           /\ job[j].pc \in WorkerPCs /\ job'[j].pc \in LivePCs /\ job'[j].run = job[j].run
           /\ \A i \in Jobs \ {j} : job'[i] = job[i]
           /\ (Quiet(job[j].run) /\ Progress(job[j].run)) \/ Vouches(j)
<1>0. PICK r \in Runs : r = job[j].run
  BY DEF TypeOK, JobRecords
<1>p. WorkerPCs \subseteq PCs /\ LivePCs \subseteq PCs /\ WorkerPCs \subseteq LivePCs
  BY DEF PCs, LivePCs
<1>q. /\ "thread" \in WorkerPCs /\ "boot" \in WorkerPCs /\ "crawl" \in WorkerPCs
      /\ "module" \in WorkerPCs /\ "review" \in WorkerPCs /\ "wrapup" \in WorkerPCs
      /\ "returned" \in LivePCs \ WorkerPCs /\ "raised" \in LivePCs /\ "unsaved" \in LivePCs
  BY DEF LivePCs, WorkerPCs
<1>e. [done EXCEPT ![r] = {}] \in [Runs -> SUBSET Modules]
  BY DEF TypeOK
<1>f. [current EXCEPT ![r] = {}] \in [Runs -> Current]
  BY DEF TypeOK, Current
<1>1. CASE WorkerInit(j)
  <2>1. Quiet(r) /\ UNCHANGED done
    BY <1>0, <1>1, Quietly DEF WorkerInit, Statuses, checkpoint
  <2>2. TypeOK'
    BY <1>0, <1>1, <1>p, <1>q, <2>1, Goes, ScanTypes
      DEF WorkerInit, Thread, control, checkpoint, TypeOK
  <2> QED
    BY <1>0, <1>1, <1>p, <1>q, <2>1, <2>2, Goes DEF WorkerInit, Thread, Progress
<1>2. CASE WorkerBoot(j)
  <2>0. PICK pc \in NextEntry : GoTo(j, pc)
    BY <1>2 DEF WorkerBoot
  <2>p. pc \in WorkerPCs
    BY <1>q DEF NextEntry
  <2>1. Quiet(r) /\ Progress(r)
    BY <1>0, <1>2, Quietly DEF WorkerBoot, StartOver, Progress, KeepStatus, stored, checkpoint
  <2>2. TypeOK'
    BY <1>0, <1>2, <1>e, <1>f, <1>p, <1>q, <2>0, <2>p, <2>1, Goes, ScanTypes
      DEF WorkerBoot, StartOver, Thread, control, checkpoint, stored, TypeOK
  <2> QED
    BY <1>0, <1>2, <1>p, <1>q, <2>0, <2>p, <2>1, <2>2, Goes DEF WorkerBoot, Thread
<1>3. CASE WorkerBootFails(j)
  <2>0. UNCHANGED <<done, current>> \/ StartOver(r)
    BY <1>0, <1>3 DEF WorkerBootFails, checkpoint
  <2>1. Quiet(r)
    <3>1. "paused" \in Statuses \ {"scanned"} /\ "failed" \in Statuses \ {"scanned"}
      BY DEF Statuses
    <3> QED
      BY <1>0, <1>3, <3>1, WritesQuietly DEF WorkerBootFails
  <2>2. Progress(r)
    BY <2>0 DEF StartOver, Progress
  <2>3. report' \in [Runs -> Reports]
    <3>1. [report EXCEPT ![r].results = (status[r] # NoRun)] \in [Runs -> Reports]
      <4>1. [report[r] EXCEPT !.results = (status[r] # NoRun)] \in Reports
        BY DEF TypeOK, Reports
      <4> QED
        BY <4>1 DEF TypeOK
    <3> QED
      BY <1>0, <1>3, <3>1 DEF WorkerBootFails, TypeOK
  <2>4. done' \in [Runs -> SUBSET Modules] /\ current' \in [Runs -> Current]
    BY <1>e, <1>f, <2>0 DEF StartOver, TypeOK
  <2>5. GoTo(j, "raised") /\ Thread /\ UNCHANGED control /\ job[j].pc = "boot"
    BY <1>3 DEF WorkerBootFails
  <2>6. TypeOK'
    BY <1>p, <1>q, <2>1, <2>3, <2>4, <2>5, Goes, ScanTypes DEF Thread, control, TypeOK
  <2> QED
    BY <1>0, <1>p, <1>q, <2>1, <2>2, <2>5, <2>6, Goes DEF Thread
<1>4. CASE WorkerStops(j) \/ WorkerOutOfTime(j)
  <2>0. /\ job[j].pc = "crawl" /\ Thread /\ UNCHANGED <<stored, control, checkpoint>>
        /\ job' = [job EXCEPT ![j].pc = "wrapup", ![j].stopped = TRUE]
    BY <1>4 DEF WorkerStops, WorkerOutOfTime
  <2>1. Quiet(r) /\ UNCHANGED done
    BY <2>0, Quietly DEF KeepStatus, stored, checkpoint
  <2>2. /\ job' \in [Jobs -> JobRecords]
        /\ job'[j].pc = "wrapup" /\ job'[j].run = job[j].run
        /\ \A i \in Jobs \ {j} : job'[i] = job[i]
    BY <1>p, <1>q, <2>0, GoesStopped
  <2>3. TypeOK'
    BY <2>0, <2>1, <2>2, ScanTypes DEF Thread, control, checkpoint, stored, TypeOK
  <2> QED
    BY <1>0, <1>p, <1>q, <2>0, <2>1, <2>2, <2>3 DEF Thread, Progress
<1>5. CASE WorkerEntersModule(j)
  <2>1. Quiet(r) /\ UNCHANGED done
    BY <1>5, Quietly DEF WorkerEntersModule, KeepStatus, stored
  <2>2. current' \in [Runs -> Current]
    BY <1>0, <1>5 DEF WorkerEntersModule, Current, TypeOK
  <2>3. TypeOK'
    BY <1>5, <1>p, <1>q, <2>1, <2>2, Goes, ScanTypes
      DEF WorkerEntersModule, Thread, control, stored, TypeOK
  <2> QED
    BY <1>0, <1>5, <1>p, <1>q, <2>1, <2>3, Goes DEF WorkerEntersModule, Thread, Progress
<1>6. CASE WorkerHasNoModuleLeft(j) \/ WorkerCannotSave(j)
  <2>0. PICK from \in {"crawl", "wrapup"}, to \in {"wrapup", "unsaved"} :
            job[j].pc = from /\ GoTo(j, to) /\ Thread /\ UNCHANGED <<stored, control, checkpoint>>
    BY <1>6 DEF WorkerHasNoModuleLeft, WorkerCannotSave
  <2>1. Quiet(r) /\ UNCHANGED done
    BY <2>0, Quietly DEF KeepStatus, stored, checkpoint
  <2>2. TypeOK'
    BY <1>p, <1>q, <2>0, <2>1, Goes, ScanTypes DEF Thread, control, checkpoint, stored, TypeOK
  <2> QED
    BY <1>0, <1>p, <1>q, <2>0, <2>1, <2>2, Goes DEF Thread, Progress
<1>7. CASE ModuleScanned(j)
  <2>0. job[j].pc = "module" /\ Thread /\ UNCHANGED <<stored, control, current>>
    BY <1>7 DEF ModuleScanned
  <2>1. Quiet(r)
    BY <2>0, Quietly DEF KeepStatus, stored
  <2>3. /\ job' \in [Jobs -> JobRecords]
        /\ job'[j].pc \in {"review", "wrapup", "crawl"} /\ job'[j].run = job[j].run
        /\ \A i \in Jobs \ {j} : job'[i] = job[i]
    <3>1. CASE GoTo(j, "review")
      BY <1>p, <1>q, <3>1, Goes
    <3>2. ASSUME NEW s \in BOOLEAN, NEW pc \in {"wrapup", "crawl"},
                 job' = [job EXCEPT ![j].pc = pc, ![j].stopped = s]
          PROVE  /\ job' \in [Jobs -> JobRecords]
                 /\ job'[j].pc \in {"wrapup", "crawl"} /\ job'[j].run = job[j].run
                 /\ \A i \in Jobs \ {j} : job'[i] = job[i]
      <4>1. pc \in PCs
        BY <1>p, <1>q
      <4> QED
        BY <3>2, <4>1, GoesStopped
    <3>3. \/ GoTo(j, "review")
          \/ \E s \in BOOLEAN, pc \in {"wrapup", "crawl"} :
                job' = [job EXCEPT ![j].pc = pc, ![j].stopped = s]
      BY <1>7 DEF ModuleScanned, NextEntry
    <3> QED
      BY <3>1, <3>2, <3>3
  <2>4. UNCHANGED done \/ done' = CompletedNow(r)
    BY <1>0, <1>7 DEF ModuleScanned
  <2>5. done' \in [Runs -> SUBSET Modules]
    BY <2>4, CompletedTypes DEF TypeOK
  <2>6. current[r] \in SUBSET Modules
    BY DEF TypeOK, Current
  <2>7. Progress(r)
    BY <2>4, <2>6 DEF CompletedNow, Progress
  <2>8. TypeOK'
    BY <2>0, <2>1, <2>3, <2>5, ScanTypes DEF Thread, control, stored, TypeOK
  <2> QED
    BY <1>0, <1>p, <1>q, <2>0, <2>1, <2>3, <2>7, <2>8 DEF Thread
<1>8. CASE ReviewByControl(j) \/ ReviewByOverlay(j) \/ ReviewTimesOut(j)
  <2>0. decision[r] \in {"none", "continue", "retry", "end"}
    BY DEF Decisions, TypeOK
  <2>1. PICK c \in {"continue", "retry", "end"} : ReviewDecided(j, c)
    BY <1>0, <1>8, <2>0 DEF ReviewByControl, ReviewByOverlay, ReviewTimesOut
  <2>2. /\ job' \in [Jobs -> JobRecords]
        /\ job[j].pc \in WorkerPCs /\ job'[j].pc \in WorkerPCs /\ job'[j].run = r
        /\ \A i \in Jobs \ {j} : job'[i] = job[i]
        /\ UNCHANGED done \/ done' = CompletedNow(r)
        /\ UNCHANGED <<status, presumed, paused, stop, active, current, report, execution, http>>
    BY <1>0, <2>1, ReviewEffect
  <2>3. Quiet(r)
    BY <2>2, Quietly DEF KeepStatus
  <2>4. done' \in [Runs -> SUBSET Modules]
    BY <2>2, CompletedTypes DEF TypeOK
  <2>5. current[r] \in SUBSET Modules
    BY DEF TypeOK, Current
  <2>6. Progress(r)
    BY <2>2, <2>5 DEF CompletedNow, Progress
  <2>7. decision' \in [Runs -> Decisions]
    BY <1>8 DEF ReviewByControl, ReviewByOverlay, ReviewTimesOut, TypeOK, Decisions
  <2>8. requests' \in 0..MaxRequests
    BY <1>8 DEF ReviewByControl, ReviewByOverlay, ReviewTimesOut, TypeOK
  <2>9. TypeOK'
    BY <2>2, <2>3, <2>4, <2>7, <2>8, ScanTypes DEF TypeOK
  <2> QED
    BY <1>0, <1>p, <2>2, <2>3, <2>6, <2>9
<1>9. CASE CrawlRaises(j)
  <2>1. Quiet(r) /\ UNCHANGED done
    BY <1>0, <1>9, Quietly DEF CrawlRaises, Statuses, checkpoint
  <2>2. report' \in [Runs -> Reports]
    BY <1>0, <1>9 DEF CrawlRaises, TypeOK, Reports
  <2>3. TypeOK'
    BY <1>9, <1>p, <1>q, <2>1, <2>2, Goes, ScanTypes
      DEF CrawlRaises, Thread, control, checkpoint, TypeOK
  <2> QED
    BY <1>0, <1>9, <1>p, <1>q, <2>1, <2>3, Goes DEF CrawlRaises, Thread, Progress
<1>10. CASE WorkerFinishes(j)
  <2> DEFINE completed == TakenForCompleted(j)
             whole     == ~job[j].stopped /\ completed = Modules
             last      == IF whole THEN {} ELSE LastModule(r)
  <2>0. /\ job[j].pc = "wrapup" /\ GoTo(j, "returned") /\ Thread /\ UNCHANGED control
        /\ CASE whole /\ done[r] = Modules -> SetStatus(r, "scanned")
             [] whole /\ done[r] # Modules -> Presume(r)
             [] ~whole                     -> SetStatus(r, "partial_scanned")
        /\ report' = [report EXCEPT ![r] = [results |-> TRUE, completed |-> completed,
                                            current |-> last]]
        /\ \/ UNCHANGED checkpoint
           \/ /\ done' = [done EXCEPT ![r] = completed]
              /\ current' = [current EXCEPT ![r] = last]
    BY <1>0, <1>10 DEF WorkerFinishes
  <2>1. completed \in SUBSET Modules /\ last \in Current
    BY <1>0, TakenTypes DEF Current
  <2>2. done[r] \in SUBSET Modules /\ done \in [Runs -> SUBSET Modules] /\ current \in [Runs -> Current]
    BY DEF TypeOK
  <2>3. completed = done[r] \cup completed
    BY <1>0 DEF TakenForCompleted
  <2> HIDE DEF completed, last
  <2>4. report' \in [Runs -> Reports]
    BY <2>0, <2>1 DEF Reports, TypeOK
  <2>5. done' \in [Runs -> SUBSET Modules] /\ current' \in [Runs -> Current]
    BY <2>0, <2>1, <2>2 DEF checkpoint
  <2>6. CASE whole /\ done[r] = Modules
    <3>1. SetStatus(r, "scanned")
      BY <2>0, <2>6
    <3>2. /\ status' \in [Runs -> Statuses \cup {NoRun}] /\ presumed' \subseteq Runs
          /\ \A q \in Runs \ {r} : Vouched(q)' <=> Vouched(q)
      BY <3>1 DEF SetStatus, Vouched, TypeOK, Statuses
    <3>3. UNCHANGED done
      BY <2>0, <2>2, <2>6 DEF checkpoint
    <3>4. TypeOK'
      BY <1>p, <1>q, <2>0, <2>4, <2>5, <3>2, Goes DEF Thread, control, TypeOK
    <3> QED
      BY <1>0, <1>p, <1>q, <2>0, <2>6, <3>2, <3>3, <3>4, Goes DEF Thread, Vouches
  <2>7. CASE ~(whole /\ done[r] = Modules)
    <3>1. Presume(r) \/ SetStatus(r, "partial_scanned")
      BY <2>0, <2>7
    <3>2. Quiet(r)
      BY <3>1, Quietly DEF Statuses
    <3>3. Progress(r)
      <4>1. CASE UNCHANGED done
        BY <4>1 DEF Progress
      <4>2. CASE done' = [done EXCEPT ![r] = completed]
        <5>1. done' = [done EXCEPT ![r] = @ \cup completed]
          BY <2>2, <2>3, <4>2
        <5> QED
          BY <2>1, <5>1 DEF Progress
      <4> QED
        BY <2>0, <4>1, <4>2 DEF checkpoint
    <3>4. TypeOK'
      BY <1>p, <1>q, <2>0, <2>4, <2>5, <3>2, Goes, ScanTypes DEF Thread, control, TypeOK
    <3> QED
      BY <1>0, <1>p, <1>q, <2>0, <3>2, <3>3, <3>4, Goes DEF Thread
  <2> QED
    BY <2>6, <2>7
<1> QED
  BY <1>1, <1>2, <1>3, <1>4, <1>5, <1>6, <1>7, <1>8, <1>9, <1>10 DEF WorkerStep, WorkerProgress

\* The crawler thread of a scan, from its boot to its final status, preserves the
\* invariant.
LEMMA WorkerPreserves ==
    ASSUME NEW j \in Jobs, IInv, WorkerStep(j) PROVE IInv'
<1>0. job[j].run \in Runs /\ TypeOK
  BY DEF IInv, TypeOK, JobRecords
<1>1. CASE Quiet(job[j].run) /\ Progress(job[j].run)
  <2>1. \A q \in Runs \ {job[j].run} : done'[q] = done[q]
    BY <1>0, <1>1 DEF Progress, TypeOK
  <2> QED
    BY <1>0, <1>1, <2>1, WorkerEffect, QuietJobStep
<1>2. CASE Vouches(j)
  BY <1>0, <1>2, WorkerEffect, LiveJobStep DEF Vouches
<1> QED
  BY <1>0, <1>1, <1>2, WorkerEffect

\* The death of the process, which keeps the stored runs only, preserves the
\* invariant.
LEMMA RestartPreserves == IInv /\ Restart => IInv'
<1> SUFFICES ASSUME IInv, Restart PROVE IInv'
  OBVIOUS
<1>1. TypeOK'
  <2>1. Idle \in [op : Handlers, run : Runs] /\ NoJob \in JobRecords
    BY DEF Idle, NoJob, JobRecords, PCs, Handlers
  <2>2. NoExecution \in ExecutionRecords
    <3>1. NoExecution.run \in Runs
      BY DEF NoExecution
    <3> QED
      BY <3>1 DEF NoExecution, ExecutionRecords, Holds, NoReport, Reports, Current
  <2> QED
    BY <2>1, <2>2 DEF IInv, Restart, TypeOK, Decisions, stored, checkpoint
<1>2. \A r \in Runs : LiveJobs(r)' = {}
  BY DEF Restart, NoJob, LiveJobs, LivePCs, WorkerPCs
<1>3. ActiveMeansOneScan'
  BY <1>2 DEF Restart, ActiveMeansOneScan
<1>4. NotScannedAtWork'
  BY DEF Restart, NoJob, NotScannedAtWork, WorkerPCs
<1>5. ScannedIsComplete'
  BY DEF IInv, Restart, ScannedIsComplete, Vouched, stored, checkpoint
<1> QED
  BY <1>1, <1>3, <1>4, <1>5 DEF IInv

\* The inductive invariant holds of every behaviour, process restarts included.
THEOREM Invariance == Spec => []IInv
<1>1. IInv /\ [Next]_vars => IInv'
  <2> SUFFICES ASSUME IInv, [Next]_vars PROVE IInv'
    OBVIOUS
  <2>1. CASE UNCHANGED vars
    <3>1. UNCHANGED <<status, presumed, active, job, done>>
      BY <2>1 DEF vars
    <3>2. TypeOK'
      BY <2>1 DEF vars, control, IInv, TypeOK
    <3> QED
      BY <3>1, <3>2 DEF IInv, ActiveMeansOneScan, LiveJobs, NotScannedAtWork,
          ScannedIsComplete, Vouched
  <2>2. CASE Running
    BY <2>2, RequestPreserves, AnswerPreserves, CoroutinePreserves, WorkerPreserves,
        ExecutionPreserves DEF Running
  <2>3. CASE Restart
    BY <2>3, RestartPreserves
  <2> QED
    BY <2>1, <2>2, <2>3 DEF Next
<1> QED
  BY InitIInv, <1>1, PTL DEF Spec

\* Every variable keeps its type; in particular no module is ever completed, in a
\* checkpoint or in the results of a run, that the run did not select.
THEOREM TypeCorrectness == Spec => []TypeOK
BY Invariance, PTL DEF IInv

\* try_start_scan and finish_scan guard a run exactly: _ACTIVE_SCANS holds the run
\* while one scan of it is live, and there are never two.
THEOREM OneScanPerRun == Spec => []ActiveMeansOneScan
BY Invariance, PTL DEF IInv

\* A run that says "scanned" has completed every selected module, unless a failed
\* execution or the end of a crawl that presumed it was the last to write this.
THEOREM ScannedRunsAreComplete == Spec => []ScannedIsComplete
BY Invariance, PTL DEF IInv

---------------------------------------------------------------------------
(***************************************************************************)
(* ScanLifecycle implements ScanOwnership.                                 *)
(*                                                                         *)
(* A step of a request, of a handler, of an execution or of the process    *)
(* changes at most which runs say "scanned"; a step of a coroutine claims  *)
(* or releases its run; a step of a worker, under the invariant above, is  *)
(* one of the owner of its run.                                            *)
(***************************************************************************)

Owners == [r \in Runs |-> LiveJobs(r)]
ScannedRuns == {r \in Runs : Vouched(r)}

AbstractStep == [Ownership!Next]_(Ownership!vars)

\* A step that keeps the scans at work and the progress, and vouches for no run,
\* withdraws r or stutters.
LEMMA StatusStep ==
    ASSUME NEW r \in Runs, UNCHANGED done, Quiet(r),
           \A q \in Runs : LiveJobs(q)' = LiveJobs(q)
    PROVE  AbstractStep
<1>1. Owners' = Owners
  BY DEF Owners
<1>2. CASE Vouched(r)'
  <2>1. ScannedRuns' = ScannedRuns
    BY <1>2 DEF ScannedRuns, Quiet
  <2> QED
    BY <1>1, <2>1 DEF AbstractStep, Ownership!vars, Owners, ScannedRuns
<1>3. CASE ~Vouched(r)'
  <2>1. ScannedRuns' = ScannedRuns \ {r}
    BY <1>3 DEF ScannedRuns, Quiet
  <2>2. Ownership!Withdraw(r)
    BY <1>1, <2>1 DEF Ownership!Withdraw, Owners, ScannedRuns
  <2> QED
    BY <2>2 DEF AbstractStep, Ownership!Next
<1> QED
  BY <1>2, <1>3

\* A step of an owner is a step of the abstract specification.
LEMMA OwnedStep ==
    \A q \in Runs :
        Ownership!Advance(q) \/ Ownership!StartOver(q) \/ Ownership!DeclareScanned(q) \/ Ownership!Release(q)
            => AbstractStep
BY DEF AbstractStep, Ownership!Next, Ownership!OwnerStep

\* A step of a worker is one of the owner of its run: it advances the run, starts
\* it over or declares it scanned, or it stutters.
LEMMA WorkerRefines ==
    ASSUME IInv, NEW j \in Jobs, WorkerStep(j) PROVE AbstractStep
<1> PICK r \in Runs : r = job[j].run
  BY DEF IInv, TypeOK, JobRecords
<1>e. /\ job[j].pc \in WorkerPCs /\ job'[j].pc \in LivePCs /\ job'[j].run = job[j].run
      /\ \A i \in Jobs \ {j} : job'[i] = job[i]
      /\ (Quiet(r) /\ Progress(r)) \/ Vouches(j)
  BY WorkerEffect DEF IInv
<1>0. j \in LiveJobs(r) /\ ~Vouched(r)
  BY <1>e DEF IInv, LiveJobs, LivePCs, NotScannedAtWork
<1>1. Owners' = Owners
  <2>1. \A q \in Runs : LiveJobs(q)' = LiveJobs(q)
    BY <1>e DEF LiveJobs, LivePCs
  <2> QED
    BY <2>1 DEF Owners
<1>2. Ownership!Owned(r)
  BY <1>0 DEF Ownership!Owned
<1>3. CASE ~Vouched(r)' /\ Quiet(r) /\ Progress(r)
  <2>1. ScannedRuns' = ScannedRuns
    BY <1>0, <1>3 DEF ScannedRuns, Quiet
  <2>2. CASE UNCHANGED done
    BY <1>1, <2>1, <2>2 DEF AbstractStep, Ownership!vars, Owners, ScannedRuns
  <2>3. CASE done' = [done EXCEPT ![r] = {}]
    <3>1. Ownership!StartOver(r)
      BY <1>1, <1>2, <2>1, <2>3 DEF Ownership!StartOver, Owners, ScannedRuns
    <3> QED
      BY <3>1, OwnedStep
  <2>4. CASE \E more \in SUBSET Modules : done' = [done EXCEPT ![r] = @ \cup more]
    <3>1. Ownership!Advance(r)
      BY <1>1, <1>2, <2>1, <2>4 DEF Ownership!Advance, Owners, ScannedRuns
    <3> QED
      BY <3>1, OwnedStep
  <2> QED
    BY <1>3, <2>2, <2>3, <2>4 DEF Progress
<1>4. CASE Vouched(r)' /\ Vouches(j)
  <2>1. UNCHANGED done /\ done[r] = Modules
    BY <1>4 DEF Vouches
  <2>2. ScannedRuns' = ScannedRuns \cup {r}
    BY <1>4 DEF ScannedRuns, Vouches
  <2>3. Ownership!DeclareScanned(r)
    BY <1>1, <1>2, <2>1, <2>2 DEF Ownership!DeclareScanned, Owners, ScannedRuns
  <2> QED
    BY <2>3, OwnedStep
<1>5. CASE ~Vouched(r)' /\ Vouches(j)
  <2>1. ScannedRuns' = ScannedRuns
    BY <1>0, <1>5 DEF ScannedRuns, Vouches
  <2> QED
    BY <1>1, <1>5, <2>1 DEF AbstractStep, Vouches, Ownership!vars, Owners, ScannedRuns
<1> QED
  BY <1>0, <1>e, <1>3, <1>4, <1>5 DEF Quiet

\* The requests of users withdraw a run or leave the promise alone.
LEMMA RequestRefines == TypeOK /\ UserRequest => AbstractStep
<1> SUFFICES ASSUME TypeOK, UserRequest PROVE AbstractStep
  OBVIOUS
<1>1. PICK r \in Runs :
        \/ \E j \in Jobs : StartScan(j, r)
        \/ PauseRequest(r)
        \/ ControlResumeRequest(r)
        \/ DecideRequest(r)
        \/ EndRequest(r)
        \/ DiscardRequest(r)
        \/ RelaunchRequest(r)
        \/ DeleteRun(r)
        \/ PlanStored(r)
        \/ \E e \in Executions : ExecutionStarts(e, r)
  BY DEF UserRequest
<1>2. UNCHANGED done
  BY <1>1 DEF StartScan, PauseRequest, ControlResumeRequest, DecideRequest, EndRequest,
      DiscardRequest, RelaunchRequest, DeleteRun, PlanStored, ExecutionStarts, checkpoint
<1>3. \A q \in Runs : LiveJobs(q)' = LiveJobs(q)
  <2>1. CASE UNCHANGED job
    BY <2>1 DEF LiveJobs
  <2>2. CASE \E j \in Jobs : StartScan(j, r)
    BY <2>2, Enqueued DEF StartScan, LiveJobs
  <2> QED
    BY <1>1, <2>1, <2>2 DEF PauseRequest, ControlResumeRequest, DecideRequest, EndRequest,
        DiscardRequest, RelaunchRequest, DeleteRun, PlanStored, ExecutionStarts
<1>4. Quiet(r)
  <2>1. {"planned", "executing"} \subseteq Statuses \ {"scanned"}
    BY DEF Statuses
  <2>2. CASE UNCHANGED stored
    BY <2>2, Quietly DEF stored, KeepStatus
  <2>3. CASE DeleteRun(r)
    BY <2>3, Quietly DEF DeleteRun
  <2>4. CASE PlanStored(r)
    BY <2>1, <2>4, WritesQuietly DEF PlanStored
  <2>5. CASE \E e \in Executions : ExecutionStarts(e, r)
    BY <2>1, <2>5, Quietly, WritesQuietly DEF ExecutionStarts
  <2> QED
    BY <1>1, <2>2, <2>3, <2>4, <2>5 DEF StartScan, PauseRequest, ControlResumeRequest,
        DecideRequest, EndRequest, DiscardRequest, RelaunchRequest
<1> QED
  BY <1>2, <1>3, <1>4, StatusStep

\* The second halves of the handlers do, too: none of them writes "scanned".
LEMMA AnswerRefines == TypeOK /\ HandlerAnswer => AbstractStep
<1> SUFFICES ASSUME TypeOK, HandlerAnswer PROVE AbstractStep
  OBVIOUS
<1>1. PICK r \in Runs : r = http.run
  BY DEF TypeOK
<1>2. UNCHANGED done
  BY DEF HandlerAnswer, PauseAnswer, ResumeAnswer, EndAnswer, DiscardAnswer, RelaunchAnswer,
      checkpoint
<1>3. \A q \in Runs : LiveJobs(q)' = LiveJobs(q)
  <2>1. CASE UNCHANGED job
    BY <2>1 DEF LiveJobs
  <2>2. CASE \E j \in Jobs : RelaunchAnswer(j)
    BY <1>1, <2>2, Enqueued DEF RelaunchAnswer, LiveJobs
  <2> QED
    BY <2>1, <2>2 DEF HandlerAnswer, PauseAnswer, ResumeAnswer, EndAnswer, DiscardAnswer
<1>4. Quiet(r)
  <2>1. {"paused", "running", "partial_scanned", "failed"} \subseteq Statuses \ {"scanned"}
    BY DEF Statuses
  <2> QED
    BY <1>1, <2>1, Quietly, WritesQuietly DEF HandlerAnswer, PauseAnswer, ResumeAnswer,
        EndAnswer, DiscardAnswer, RelaunchAnswer
<1> QED
  BY <1>2, <1>3, <1>4, StatusStep

\* And so does an execution.
LEMMA ExecutionRefines ==
    ASSUME TypeOK, NEW e \in Executions, ExecutionStep(e) PROVE AbstractStep
<1>0. PICK r \in Runs : r = execution[e].run
  BY DEF TypeOK, ExecutionRecords
<1>1. Quiet(r)
  <2>1. {"executed", "failed"} \subseteq Statuses \ {"scanned"}
    BY DEF Statuses
  <2> QED
    BY <1>0, <2>1, Quietly, WritesQuietly DEF ExecutionStep, ExecutionBegins, ExecutionEnds,
        ExecutionFails, stored, KeepStatus
<1>2. UNCHANGED <<job, done>>
  BY DEF ExecutionStep, ExecutionBegins, ExecutionEnds, ExecutionFails, checkpoint
<1>3. \A q \in Runs : LiveJobs(q)' = LiveJobs(q)
  BY <1>2 DEF LiveJobs
<1> QED
  BY <1>1, <1>2, <1>3, StatusStep

\* The coroutine of a scan claims its run when it is accepted and releases it when
\* it leaves; a refused one changes nothing but a status that was not "scanned".
LEMMA CoroutineRefines ==
    ASSUME IInv, NEW j \in Jobs, CoroutineStep(j) PROVE AbstractStep
<1> USE DEF IInv
<1>0. PICK r \in Runs : r = job[j].run
  BY DEF TypeOK, JobRecords
<1>p. /\ "free" \in PCs /\ "free" \notin LivePCs /\ "queued" \notin LivePCs
      /\ "thread" \in PCs /\ "thread" \in LivePCs
  BY DEF PCs, LivePCs, WorkerPCs
<1>1. CASE ScanRefused(j)
  <2>1. \A q \in Runs : LiveJobs(q)' = LiveJobs(q)
    BY <1>1, <1>p, Goes DEF ScanRefused, LiveJobs
  <2>2. UNCHANGED done /\ Quiet(r)
    BY <1>0, <1>1, WritesQuietly DEF ScanRefused, checkpoint
  <2> QED
    BY <2>1, <2>2, StatusStep
<1>2. CASE ScanAccepted(j)
  <2>1. LiveJobs(r) = {}
    BY <1>0, <1>2 DEF ScanAccepted, ActiveMeansOneScan
  <2>2. LiveJobs(r)' = {j}
    BY <1>0, <1>2, <1>p, <2>1, Goes DEF ScanAccepted, LiveJobs
  <2>3. \A q \in Runs \ {r} : LiveJobs(q)' = LiveJobs(q)
    BY <1>0, <1>2, <1>p, Goes DEF ScanAccepted, LiveJobs
  <2>4. Owners' = [Owners EXCEPT ![r] = {j}]
    BY <2>2, <2>3 DEF Owners
  <2>5. Quiet(r) /\ ~Vouched(r)'
    BY <1>0, <1>2, Quietly DEF ScanAccepted, Statuses, SetStatus, Vouched, TypeOK
  <2>6. ScannedRuns' = ScannedRuns \ {r}
    BY <2>5 DEF ScannedRuns, Quiet
  <2>7. UNCHANGED done
    BY <1>2 DEF ScanAccepted, checkpoint
  <2>8. Ownership!Claim(r, j)
    BY <2>1, <2>4, <2>6, <2>7 DEF Ownership!Claim, Owners, ScannedRuns
  <2> QED
    BY <2>8 DEF AbstractStep, Ownership!Next
<1>3. CASE ScanLeaves(j)
  <2>1. LiveJobs(r) = {j}
    BY <1>0, <1>3 DEF ScanLeaves, ActiveMeansOneScan, LiveJobs, LivePCs
  <2>2. LiveJobs(r)' = {}
    BY <1>0, <1>3, <1>p, <2>1, Goes DEF ScanLeaves, LiveJobs
  <2>3. \A q \in Runs \ {r} : LiveJobs(q)' = LiveJobs(q)
    BY <1>0, <1>3, <1>p, Goes DEF ScanLeaves, LiveJobs
  <2>4. Owners' = [Owners EXCEPT ![r] = {}]
    BY <2>2, <2>3 DEF Owners
  <2>6. ScannedRuns' = ScannedRuns
    <3>1. CASE KeepStatus
      BY <3>1 DEF KeepStatus, ScannedRuns, Vouched
    <3>2. CASE FailureStatus(j) # status[r] /\ SetStatus(r, FailureStatus(j))
      <4>1. status[r] # "scanned" /\ FailureStatus(j) \in {"discovered", "failed"}
        <5>1. CASE job[j].background /\ status[r] = NoRun
          BY <1>0, <5>1 DEF FailureStatus, NoRun
        <5>2. CASE job[j].background /\ status[r] = "running"
          BY <1>0, <5>2 DEF FailureStatus, NoRun
        <5> QED
          BY <1>0, <3>2, <5>1, <5>2 DEF FailureStatus
      <4>2. \A q \in Runs : Vouched(q)' <=> Vouched(q)
        BY <3>2, <4>1 DEF SetStatus, Vouched, TypeOK
      <4> QED
        BY <4>2 DEF ScannedRuns
    <3> QED
      BY <1>0, <1>3, <3>1, <3>2 DEF ScanLeaves, WriteFailure
  <2>7. UNCHANGED done
    BY <1>3 DEF ScanLeaves, checkpoint
  <2>8. Ownership!Release(r)
    BY <2>4, <2>6, <2>7 DEF Ownership!Release, Owners, ScannedRuns
  <2> QED
    BY <2>8 DEF AbstractStep, Ownership!Next, Ownership!OwnerStep
<1> QED
  BY <1>1, <1>2, <1>3 DEF CoroutineStep

\* The death of the process releases every run and keeps the checkpoints.
LEMMA RestartRefines == Restart => AbstractStep
<1> SUFFICES ASSUME Restart PROVE AbstractStep
  OBVIOUS
<1>1. \A r \in Runs : LiveJobs(r)' = {}
  BY DEF Restart, NoJob, LiveJobs, LivePCs, WorkerPCs
<1>2. \A r \in Runs : Vouched(r)' <=> Vouched(r)
  BY DEF Restart, Vouched, stored
<1>3. Ownership!Restart
  BY <1>1, <1>2 DEF Restart, Ownership!Restart, checkpoint
<1> QED
  BY <1>3 DEF AbstractStep, Ownership!Next

\* The lifecycle implements ScanOwnership: one scan owns a run, and only it moves
\* the run's progress and vouches that it is scanned, in every behaviour with
\* restarts.
THEOREM Refinement == Spec => OnlyTheOwnerScans
<1>1. Init => Ownership!Init
  <2> SUFFICES ASSUME Init PROVE Ownership!Init
    OBVIOUS
  <2>1. \A r \in Runs : LiveJobs(r) = {} /\ ~Vouched(r)
    BY DEF Init, NoJob, NoRun, LiveJobs, LivePCs, WorkerPCs, Vouched
  <2> QED
    BY <2>1 DEF Init, Ownership!Init
<1>2. IInv /\ [Next]_vars => [Ownership!Next]_(Ownership!vars)
  <2> SUFFICES ASSUME IInv, [Next]_vars PROVE AbstractStep
    BY DEF AbstractStep
  <2>1. CASE UNCHANGED vars
    <3>1. \A r \in Runs : LiveJobs(r)' = LiveJobs(r) /\ (Vouched(r)' <=> Vouched(r))
      BY <2>1 DEF vars, LiveJobs, Vouched
    <3> QED
      BY <2>1, <3>1 DEF AbstractStep, Ownership!vars, vars
  <2>2. CASE Running
    BY <2>2, RequestRefines, AnswerRefines, CoroutineRefines, WorkerRefines, ExecutionRefines
      DEF Running, IInv
  <2>3. CASE Restart
    BY <2>3, RestartRefines
  <2> QED
    BY <2>1, <2>2, <2>3 DEF Next
<1> QED
  BY <1>1, <1>2, Invariance, PTL DEF Spec, OnlyTheOwnerScans, Ownership!Spec
=============================================================================
