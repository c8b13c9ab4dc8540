--------------------------- MODULE SecurityReview ---------------------------
(***************************************************************************)
(* The bounded HTTP review of a saved run (security_scan_service.py): the  *)
(* one job of the process, its worker thread with a budget of requests and *)
(* of time, and the requests that start, pause, resume, stop and read it.  *)
(*                                                                         *)
(* The requests run in threads of their own and take _LOCK for all they    *)
(* do; the worker takes it for parts.  A step of the worker is the code    *)
(* between two points where something may come between: a request to the   *)
(* target, the wait for it, and the moment before the lock is taken again. *)
(* The deletion of a run takes no lock.                                    *)
(*                                                                         *)
(* What the target answers is nondeterministic; the links of its pages and *)
(* the captured routes are constants.  A set stands for the queue: its     *)
(* order does not matter to any property.  Of the warnings only their      *)
(* presence is kept (gaps), the one of an authenticated auth_boundary      *)
(* review apart; findings are not modelled, nor the mock review.           *)
(***************************************************************************)
EXTENDS Integers, FiniteSets

CONSTANTS
    Runs,
    Pages,       \* the in-scope URLs of the application
    Captured,    \* the eligible routes of a run's crawl
    Links,       \* what PageLinks finds on a page, in scope and not static
    Fallback,    \* the application's root, if it is in scope
    Probes,      \* how many opt-in probes a review may select
    SeenCap,     \* 100 in the code
    MaxRequests, \* the budget, max_requests
    MaxStarts,   \* bound: reviews
    MaxControls, \* bound: pause, resume and stop requests
    None

ASSUME SiteAssumption ==
    /\ IsFiniteSet(Pages)
    /\ Captured \in [Runs -> (SUBSET Pages) \ {{}}]
    /\ Links \in [Pages -> SUBSET Pages]
    /\ Fallback \subseteq Pages /\ Cardinality(Fallback) <= 1
ASSUME BoundAssumption ==
    /\ Probes \in Nat /\ SeenCap \in Nat
    /\ MaxRequests \in Nat \ {0} /\ MaxStarts \in Nat /\ MaxControls \in Nat
ASSUME NoneAssumption == None \notin Runs /\ None \notin Pages

VARIABLES
    exists,    \* the runs that have a context
    saved,     \* RunContext.security_report
    jobs,      \* _JOBS
    job,       \* the job of a run, and its worker's place in the code
    starting,  \* the run whose start request holds _LOCK, between its statements
    starts,
    controls

vars == <<exists, saved, jobs, job, starting, starts, controls>>

Live == {"running", "paused", "stopping"}
Statuses == Live \cup {"completed", "completed_with_gaps", "stopped", "partial",
                       "route_validation_failed", "scanner_error", "interrupted"}
PCs == {"unborn", "next", "answer", "askProbe", "answerProbe", "pageDone",
        "interrupted", "failed", "closing"}

Reports == [status : Statuses, requests : 0..MaxRequests, completed : 0..Cardinality(Pages),
            pending : 0..Cardinality(Pages), valid : BOOLEAN, gaps : BOOLEAN,
            endpoints : SUBSET Pages]
JobRecords == [pc : PCs, queue : SUBSET Pages, seen : SUBSET Pages, page : Pages \cup {None},
               probes : 0..Probes, left : 0..Probes, paused : BOOLEAN, stop : BOOLEAN, late : BOOLEAN,
               report : Reports]

\* Of the copy in the context, what a reader of it is told of the coverage.
SavedReports == [status : Statuses, pending : 0..Cardinality(Pages), endpoints : SUBSET Pages]
Copy(report) == [status |-> report.status, pending |-> report.pending,
                 endpoints |-> report.endpoints]

NewReport(r) ==
    [status |-> "running", requests |-> 0, completed |-> 0,
     pending |-> Cardinality(Captured[r]), valid |-> FALSE, gaps |-> FALSE, endpoints |-> {}]
NewJob(r, probes) ==
    [pc |-> "unborn", queue |-> Captured[r], seen |-> Captured[r], page |-> None,
     probes |-> probes, left |-> 0, paused |-> FALSE, stop |-> FALSE, late |-> FALSE,
     report |-> NewReport(r)]

Working(r) == job[r] # None /\ job[r].pc # "unborn"

Init ==
    /\ exists = Runs
    /\ saved = [r \in Runs |-> None]
    /\ jobs = {}
    /\ job = [r \in Runs |-> None]
    /\ starting = None
    /\ starts = 0 /\ controls = 0

-----------------------------------------------------------------------------
(* _persist: a copy of the report goes into the context, if there is one;  *)
(* if not, it raises.  A deletion between its two halves is undone by the  *)
(* save, and is no step here.                                              *)

Persist(r, report) ==
    saved' = IF r \in exists THEN [saved EXCEPT ![r] = Copy(report)] ELSE saved

\* The job after a step that persists: a worker whose run is gone fails.
PersistJob(r, j) ==
    /\ Persist(r, j.report)
    /\ job' = [job EXCEPT ![r] = IF r \in exists THEN j ELSE [j EXCEPT !.pc = "failed"]]
    /\ UNCHANGED <<exists, jobs, starting, starts, controls>>

Worker(r, j) ==
    /\ job' = [job EXCEPT ![r] = j]
    /\ UNCHANGED <<exists, saved, jobs, starting, starts, controls>>

-----------------------------------------------------------------------------
(* The requests.                                                           *)

\* Mutant of StartReview: only a second review of the same run is refused.
MutantOneJobPerRun(r) ==
    /\ starting = None /\ r \notin jobs
    /\ r \in exists
    /\ starts < MaxStarts /\ starts' = starts + 1
    /\ jobs' = jobs \cup {r}
    /\ \E probes \in 0..Probes : job' = [job EXCEPT ![r] = NewJob(r, probes)]
    /\ starting' = r
    /\ UNCHANGED <<exists, saved, controls>>

\* start, up to the registration of the job.
StartReview(r) ==
    /\ starting = None /\ jobs = {}
    /\ r \in exists
    /\ starts < MaxStarts /\ starts' = starts + 1
    /\ jobs' = jobs \cup {r}
    /\ \E probes \in 0..Probes : job' = [job EXCEPT ![r] = NewJob(r, probes)]
    /\ starting' = r
    /\ UNCHANGED <<exists, saved, controls>>

\* The rest of start.  If the run has been deleted meanwhile, _persist raises: the
\* job stays registered and no thread will ever run it.
StartAnswer ==
    /\ starting # None
    /\ Persist(starting, job[starting].report)
    /\ job' = [job EXCEPT ![starting].pc = IF starting \in exists THEN "next" ELSE "unborn"]
    /\ starting' = None
    /\ UNCHANGED <<exists, jobs, starts, controls>>

\* control, on a run that require_run has found.
Control(r, stop, paused, status) ==
    /\ starting = None
    /\ r \in jobs /\ r \in exists
    /\ controls < MaxControls /\ controls' = controls + 1
    /\ job' = [job EXCEPT ![r].stop = stop, ![r].paused = paused, ![r].report.status = status]
    /\ Persist(r, job'[r].report)
    /\ UNCHANGED <<exists, jobs, starting, starts>>

StopReview(r) == r \in jobs /\ Control(r, TRUE, job[r].paused, "stopping")
PauseReview(r) == r \in jobs /\ ~job[r].stop /\ Control(r, FALSE, TRUE, "paused")
ResumeReview(r) == r \in jobs /\ ~job[r].stop /\ Control(r, FALSE, FALSE, "running")

\* snapshot: a report that is live without a job was cut off.
Snapshot(r) ==
    /\ starting = None
    /\ r \in exists /\ r \notin jobs
    /\ saved[r] # None /\ saved[r].status \in Live
    /\ Persist(r, [saved[r] EXCEPT !.status = "interrupted"])
    /\ UNCHANGED <<exists, jobs, job, starting, starts, controls>>

\* clear_reports, of Delete All Artifacts.
ClearReports ==
    /\ starting = None /\ jobs = {}
    /\ saved' = [r \in Runs |-> None]
    /\ UNCHANGED <<exists, jobs, job, starting, starts, controls>>

\* The deletion of a run, by the event loop.
DeleteRun(r) ==
    /\ r \in exists
    /\ exists' = exists \ {r}
    /\ saved' = [saved EXCEPT ![r] = None]
    /\ UNCHANGED <<jobs, job, starting, starts, controls>>

-----------------------------------------------------------------------------
(* The worker: request(), then what becomes of the answer.                 *)

\* Mutant of MayAsk: the pause has no end but the user's.
MutantPauseForever(r) ==
    /\ Working(r)
    /\ \/ job[r].pc = "next" /\ job[r].queue # {}
       \/ job[r].pc = "askProbe"
    /\ job[r].paused => job[r].stop

\* The worker has a page or a probe to request, and the wait of a pause is over.
MayAsk(r) ==
    /\ Working(r)
    /\ \/ job[r].pc = "next" /\ job[r].queue # {}
       \/ job[r].pc = "askProbe"
    /\ job[r].paused => job[r].stop \/ job[r].late

\* Mutant of OutOfBudget: the last request is one too many.
MutantOneRequestMore(r) ==
    \/ job[r].stop \/ job[r].late
    \/ job[r].report.requests > MaxRequests

OutOfBudget(r) ==
    \/ job[r].stop \/ job[r].late
    \/ job[r].report.requests >= MaxRequests

AskPage(r) ==
    /\ MayAsk(r) /\ ~OutOfBudget(r)
    /\ job[r].pc = "next"
    /\ \E p \in job[r].queue :
          Worker(r, [job[r] EXCEPT !.pc = "answer", !.page = p, !.report.requests = @ + 1])

AskProbe(r) ==
    /\ MayAsk(r) /\ ~OutOfBudget(r)
    /\ job[r].pc = "askProbe"
    /\ Worker(r, [job[r] EXCEPT !.pc = "answerProbe", !.report.requests = @ + 1])

AskRefused(r) ==
    /\ MayAsk(r) /\ OutOfBudget(r)
    /\ Worker(r, [job[r] EXCEPT !.pc = "interrupted"])

\* Mutant of PageUnread: a page that could not be read is forgotten.
MutantSilentFailure(r) ==
    /\ Working(r) /\ job[r].pc = "answer"
    /\ LET rest == job[r].queue \ {job[r].page}
       IN PersistJob(r, [job[r] EXCEPT !.pc = "next", !.queue = rest,
                                       !.report.pending = Cardinality(rest)])

\* The request raises: the page is dropped with a warning.
PageUnread(r) ==
    /\ Working(r) /\ job[r].pc = "answer"
    /\ LET rest == job[r].queue \ {job[r].page}
       IN PersistJob(r, [job[r] EXCEPT !.pc = "next", !.queue = rest, !.report.gaps = TRUE,
                                       !.report.pending = Cardinality(rest)])

\* The target asks for a backoff (429, 503): the review ends.
PageBacksOff(r) ==
    /\ Working(r) /\ job[r].pc = "answer"
    /\ Worker(r, [job[r] EXCEPT !.pc = "interrupted", !.report.gaps = TRUE,
                                !.report.endpoints = @ \cup {job[r].page}])

\* The links that the answer adds to the queue, at most up to the cap.
New(r, links) ==
    {found \in SUBSET (links \ job[r].seen) :
        \/ found = links \ job[r].seen /\ Cardinality(job[r].seen \cup found) <= SeenCap
        \/ /\ Cardinality(job[r].seen \cup (links \ job[r].seen)) > SeenCap
           /\ Cardinality(found) = IF Cardinality(job[r].seen) >= SeenCap THEN 0
                                   ELSE SeenCap - Cardinality(job[r].seen)}

\* fetch_page: status 2xx, all of the page or its beginning; a redirect, which is not
\* followed; any other refusal.
AnswerKinds == {"whole", "truncated", "redirect", "refused"}

\* PageLinks, on what came of the page.
LinksOf(p, kind) == IF kind = "whole" THEN {Links[p]} ELSE SUBSET Links[p]

\* The page is there.  A redirect counts as valid; whatever is not all of the page
\* leaves a warning.  Only a 2xx is probed.
PageAnswered(r) ==
    /\ Working(r) /\ job[r].pc = "answer"
    /\ \E kind \in AnswerKinds : \E links \in LinksOf(job[r].page, kind) :
       \E found \in New(r, links) :
          LET left == IF kind \in {"whole", "truncated"} THEN job[r].probes ELSE 0 IN
          Worker(r, [job[r] EXCEPT !.pc = IF left > 0 THEN "askProbe" ELSE "pageDone",
                                   !.left = left,
                                   !.queue = @ \cup found, !.seen = @ \cup found,
                                   !.report.endpoints = @ \cup {job[r].page},
                                   !.report.valid = @ \/ kind # "refused",
                                   !.report.gaps = @ \/ kind # "whole"])

\* The inspection of the answer raises.
PageBreaksReview(r) ==
    /\ Working(r) /\ job[r].pc = "answer"
    /\ \E valid \in {job[r].report.valid, TRUE} :
          Worker(r, [job[r] EXCEPT !.pc = "failed", !.report.valid = valid,
                                   !.report.endpoints = @ \cup {job[r].page}])

\* A probe is answered, or raises, which ends the probes of this page.
ProbeAnswered(r) ==
    /\ Working(r) /\ job[r].pc = "answerProbe"
    /\ Worker(r, [job[r] EXCEPT !.pc = IF job[r].left > 1 THEN "askProbe" ELSE "pageDone",
                                !.left = @ - 1])

ProbeFails(r) ==
    /\ Working(r) /\ job[r].pc = "answerProbe"
    /\ Worker(r, [job[r] EXCEPT !.pc = "pageDone", !.left = 0, !.report.gaps = TRUE])

\* The page is completed and the report persisted; a review that has found no
\* valid page and has nothing left tries the root.
PageDone(r) ==
    LET j == job[r]
        rest == j.queue \ {j.page}
        root == IF rest = {} /\ ~j.report.valid /\ j.report.requests < MaxRequests
                THEN Fallback \ j.seen ELSE {}
        report == [j.report EXCEPT !.completed = @ + 1, !.pending = Cardinality(rest)]
    IN
    /\ Working(r) /\ j.pc = "pageDone"
    /\ Persist(r, report)
    /\ job' = [job EXCEPT ![r] =
          IF r \notin exists
          THEN [j EXCEPT !.pc = "failed", !.queue = rest, !.report = report]
          ELSE [j EXCEPT !.pc = "next", !.queue = rest \cup root, !.seen = @ \cup root,
                         !.report = [report EXCEPT !.pending = Cardinality(rest \cup root)]]]
    /\ UNCHANGED <<exists, jobs, starting, starts, controls>>

\* The worker decides on a final status; it does not hold the lock.
Conclude(r, status) ==
    Worker(r, [job[r] EXCEPT !.pc = "closing", !.report.status = status,
                             !.report.gaps = @ \/ status \notin {"completed", "stopped"}])

QueueIsEmpty(r) ==
    LET report == job[r].report IN
    /\ Working(r) /\ job[r].pc = "next" /\ job[r].queue = {}
    /\ Conclude(r, CASE report.completed > 0 /\ ~report.valid -> "route_validation_failed"
                     [] (report.completed = 0 \/ report.valid) /\ job[r].stop -> "stopped"
                     [] (report.completed = 0 \/ report.valid) /\ ~job[r].stop ->
                            IF report.gaps THEN "completed_with_gaps" ELSE "completed")

Interrupted(r) ==
    /\ Working(r) /\ job[r].pc = "interrupted"
    /\ Conclude(r, IF job[r].stop THEN "stopped" ELSE "partial")

Failed(r) ==
    /\ Working(r) /\ job[r].pc = "failed"
    /\ Conclude(r, "scanner_error")

\* The finally block: the job is deregistered even if its report cannot be saved.
Close(r) ==
    /\ Working(r) /\ job[r].pc = "closing"
    /\ Persist(r, [job[r].report EXCEPT !.pending = Cardinality(job[r].queue)])
    /\ jobs' = jobs \ {r}
    /\ job' = [job EXCEPT ![r] = None]
    /\ UNCHANGED <<exists, starting, starts, controls>>

\* max_seconds are over.
DeadlinePasses(r) ==
    /\ Working(r) /\ ~job[r].late
    /\ Worker(r, [job[r] EXCEPT !.late = TRUE])

-----------------------------------------------------------------------------
WorkerStep(r) ==
    \/ AskPage(r) \/ AskProbe(r) \/ AskRefused(r)
    \/ PageUnread(r) \/ PageBacksOff(r) \/ PageAnswered(r) \/ PageBreaksReview(r)
    \/ ProbeAnswered(r) \/ ProbeFails(r) \/ PageDone(r)
    \/ QueueIsEmpty(r) \/ Interrupted(r) \/ Failed(r) \/ Close(r)

UserRequest ==
    \/ \E r \in Runs : StartReview(r) \/ StopReview(r) \/ PauseReview(r) \/ ResumeReview(r)
    \/ \E r \in Runs : Snapshot(r) \/ DeleteRun(r)
    \/ ClearReports

\* The process starts again: reports are files, jobs are not.
Restart ==
    /\ jobs' = {}
    /\ job' = [r \in Runs |-> None]
    /\ starting' = None
    /\ UNCHANGED <<exists, saved, starts, controls>>

Next ==
    \/ UserRequest \/ StartAnswer
    \/ \E r \in Runs : WorkerStep(r) \/ DeadlinePasses(r)
    \/ Restart

\* The worker runs, every fetch has a timeout, and time passes.
Fairness ==
    \A r \in Runs : WF_vars(WorkerStep(r)) /\ WF_vars(DeadlinePasses(r))

Spec == Init /\ [][Next]_vars
LiveSpec == Spec /\ Fairness

-----------------------------------------------------------------------------
(* Properties.                                                             *)

\* Types; a review never sends more requests than its budget, probes included.
TypeOK ==
    /\ exists \subseteq Runs
    /\ saved \in [Runs -> SavedReports \cup {None}]
    /\ jobs \subseteq Runs
    /\ job \in [Runs -> JobRecords \cup {None}]
    /\ starting \in Runs \cup {None}
    /\ starts \in 0..MaxStarts /\ controls \in 0..MaxControls

\* One job per process: a worker is registered, and nothing else is at work beside
\* it, whatever was deleted or restarted.
OneReview ==
    /\ \A r \in Runs : Working(r) => r \in jobs
    /\ \A r, s \in jobs : r = s

\* The pages that the links of captured routes lead to: what every set of pages has
\* that has the captured ones and all that it links to.
Closed(S) == \A p \in S : Links[p] \subseteq S
Reachable(r) == {p \in Pages : \A S \in SUBSET Pages : (Captured[r] \subseteq S /\ Closed(S)) => p \in S}

\* A saved report that says "completed", without gaps, has an answer of every page
\* that links lead to, or of as many as the cap allows, and none pending.
CompletedIsWhole ==
    \A r \in Runs : (saved[r] # None /\ saved[r].status = "completed") =>
        /\ saved[r].pending = 0
        /\ \/ Reachable(r) \subseteq saved[r].endpoints
           \/ Cardinality(saved[r].endpoints) >= SeenCap

\* A review that is at work ends, paused or not, and whatever the target does.
ReviewEnds == \A r \in Runs : Working(r) ~> ~Working(r)
=============================================================================
