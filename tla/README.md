# Verification of PiOne Test Automation

PiOne logs into a web application, crawls the modules a user selects with a
real browser, records what it finds, plans and runs tests on it, and verifies
reported incidents.  The program is a FastAPI process (`src/api`) around a
crawler (`src/automation_framework`) with a single-page frontend
(`src/frontend`).  This directory holds TLA+ models of its core, the TLC runs
that check them and the TLAPS proofs about them.

Every definition is translated from the Python (or, for the client, from
`frontend/index.html`); `PROJECT.json` names the lines under `"map"`.

## 1. The system

| Component | State it keeps | Operations | What is hard |
|---|---|---|---|
| Scan lifecycle (`api/routers/scan.py`, `scan_control_service.py`, `crawler_service.py`) | `_ACTIVE_SCANS`, the control flags of every run, `RunContext.status` | start, pause, resume, decide, end, discard, delete, relaunch; the failure handler of a background scan | handlers on an event loop against worker threads; flags that outlive their scan; restarts |
| Crawl engine (`crawler_engine.py`, `route_graph.py`) | routes visited and queued, pages, probes, completed modules; the checkpoint | menu visits, nested probes, link and overlay queues, reviews, retry, checkpoint | cycles and redirects, stop inside nested scans, pages that reorder their controls, login loss, resume after a crash |
| Action classification and route health (`action_classifier.py`, `route_health_scorer.py`) | none | classify a control, score a route | the order of the tests, rounding and thresholds |
| Event bus (`scan_event_bus.py`, `scan_events.py`, the client) | channels, aliases, sequence numbers, latest event, timers | publish, read, reconnect, poll, discard | several unlocked steps per publish, competing readers, delayed discard |
| Checkpoint store (`checkpoint_store.py`) | one JSON file and one temporary file per run | save, load, save-progress | two threads writing one temporary file; read-modify-write by a request |
| Security review (`security_scan_service.py`) | `_JOBS`, the job's queue and flags, the report in the run's context | start, pause, resume, stop, poll, clear | budgets shared by pages and probes, controls against a closing worker, deletion of the run |
| Authentication (`auth_lifecycle_service.py`, `crawler_service.py`, `login_handler.py`) | the storage file of a run's session, `auth_status` | discovery, preflight, login, refresh, final save | sessions that end or rotate while a scan and a refresh share the file |
| Planning (`llm_provider_gateway.py`, `test_planning_service.py`, `generate_test`) | the planning job | call a provider, retry, validate, fall back, expand, keep uploaded rows, number | a provider that invents; ids and counts of three origins |
| Test execution (`scan.py`, `test_execution_service.py`) | the job registry, results and status of the run | execute the selected cases, the plan, a replay; recover | overlapping executions of one run; restart in the middle of a job |
| Relational store (`api/db`) | runs, plans, cases, baselines, suites and links, versions of checkpoints, incidents and jobs | save, baseline, suite, execute, delete | rows replaced under links to them; foreign keys that are off |
| V3 orchestration (`v3_assurance.py`, `v3_orchestration_service.py`, `repository.py`) | incidents, verification jobs, attempts, evidence | intake, orchestrate, transition, retry, record, assign | one transaction per call, callers that are lost between two |
| V3 assurance checks (`v3_api_contract_service.py`, `v3_data_assertion_service.py`) | contracts, operations, scenarios, one check | register, capture, read, compare, conclude | a figure that changes between two reads; outages that are no defects |
| Run context store (`run_context_service.py`) | a cache and one file per run | create, get, save, delete, list | reads of the file outside the lock |
| Identity and reconciliation (`url_filter.py`, `ui_state_fingerprint.py`, `element_identity_registry.py`, `run_state_reconciliation.py`) | none, or a registry per crawl | pure functions | collisions of identities |
| Page readers, exports, shell, tools, frontend rendering | browser data, files | I/O and formatting | not for a model checker |

How they interact.  A client posts a scan; the handler queues an asyncio task;
the task claims the run in `_ACTIVE_SCANS` and runs `crawler_service.run_scan`
in a thread; that checks the stored session, signs in, builds a
`CrawlerEngine`, which polls the control flags the handlers set, saves the
checkpoint, and calls back into the event bus; sockets and polls carry the
events to the client; the last step of the thread writes the run's status,
which the handlers write too.  A finished scan is the input of planning, whose
plan the executions run; plans and results go to the relational store, where
suites refer to them.  The V3 endpoints use the same database and one bounded
check of a dashboard at a time.

What makes each of them correct, in a line: a run has one scan at a time and
settles; "scanned" means complete; a resume loses nothing; a stop stops; what
is parked is not probed; a client's view moves forward and catches up; a
checkpoint read is one that was written; a review keeps its budget and ends; a
session is not replaced by an older one; a plan is grounded, harmless and of
the size asked for; a job ends in one terminal state and answers with its own
results; a suite runs a test once; the verdict of an orchestration has its
evidence; an outage is no defect.  Not all of that is so: section 5 says where
the code does less; two runs and four further configurations show it.

## 2. The modules

A module that is composed of another EXTENDS it: `CrawlEngine` uses
`ActionClassifier` and `RouteHealth`; `ScanLifecycle` is shown to implement
`ScanOwnership` (`INSTANCE ... WITH`).

Two MC modules check two components each: `MCRunFiles` the two files of a run
that outlive its scan (CheckpointStore, AuthSessions), `MCV3Assurance` the V3
jobs and the checks that give their verdicts (VerificationJobs,
AssuranceChecks).  Neither component of a pair reads a variable of the other, so
the next-state relation lets each step only while the other has not begun: every
behaviour of either one alone is then a behaviour of the pair, and no product of
their states is explored for nothing.  The theorems are about `Spec`,
`AuthSpec` and `ChecksSpec`, each of one component.

### ScanLifecycle (MCScanLifecycle, ScanLifecycleProofs)

Handlers are coroutines without an `await` inside, so two of them never
interleave; a worker thread may run between any two statements of one.  A
handler that raises a signal and then writes the status is two steps
(`PauseRequest`, `PauseAnswer`, ...) and `http` is the handler in between.  A
scan request is a `job`: `queued` on the loop, refused or accepted by
`try_start_scan` (`ScanRefused`, `ScanAccepted`), then a thread (`thread`,
`boot`, `crawl`, `module`, `review`, `wrapup`), then its coroutine's `finally`
(`ScanLeaves`).  Of the checkpoint it keeps the completed modules (`done`) and
the one the crawler is in (`current`); how a module is scanned is CrawlEngine's
matter.  `report` is what the context of a run keeps of its last scan, from which
the end of the next one takes what its checkpoint does not have
(`TakenForCompleted`).

The later phases write the status too, and none looks at the one it replaces: a
stored plan (`PlanStored`), the executions of selected cases (`ExecutionStarts`,
`ExecutionEnds`, `ExecutionFails`), which hold the object of the context that
they found, also when the run is deleted meanwhile.  Two writers say "scanned"
without having seen every module completed: a failed execution
(`_persist_execution_job_state`), and the end of a scan that counts the module
it was last in.  They are the actions that `Presume`, and the history variable
`presumed` holds the runs whose status is theirs.  `Restart` is the death and
start of the process: the contexts and the checkpoint remain, everything else is
lost.

### ScanOwnership

What the scan lifecycle promises about who scans, without handlers, flags or
threads: a run is claimed when it is free, only its owner changes how far it is
and declares it scanned, and it is freed by its owner or a restart.  The
refinement (`Ownership` in ScanLifecycle) maps the owner of a run to the jobs in
a live place of it, the progress to `done` and the scanned runs to those whose
status says so and is not presumed; a failed execution is no owner.
It is checked by the run `lifecycle` as `OnlyTheOwnerScans`, and proved in
`ScanLifecycleProofs`.

### CrawlEngine (MCCrawlEngine, CrawlEngineProofs), with ActionClassifier and RouteHealth

One crawl thread as a machine: `pc` is the place in `crawl()`, `stack` the
nested calls of `_scan_route`.  A step is the code between two points where
something may interfere: a poll of the stop flag, a page load, a saved
checkpoint.  The site is data: which controls a page has and in which places
(`Controls`, `PageOf`), where a control leads (`LeadsTo`), whether it reorders
its page in place (`Shifts`), what it looks like (`LooksLike`), which of them
are triggers of a menu and what it shows (`Triggers`, `Overlays`), links,
redirects (`Lands`) and the signals of a page (`PageSignals`).  The
checkpoint is the variable `cp`, written exactly where `_save_checkpoint` is
called, and `Crash` drops everything else.

`ActionClassifier` is `classify_action`: a control is the set of word lists its
label matches and the marks of its role, tag and attributes; the tests are
`Rules`, in the order of the code.  The crawl presses a control by its place, as
the code does with `page.locator(...).nth(index)`, after it has classified all
of them on one reading.  Before that reading it clicks the triggers of the page's
menus, which it does not classify (`OpenOverlay`, `OverlayFindsNothing`,
`OverlaysDone`, with `MaxTriggers` of them): such a click may reorder the page or
lead away from it like any other, and what is scanned then is the page that is
shown.  A page whose triggers do neither is `Steady`.  `RouteHealth` is `score_route` in integers, with
Python's rounding of halves; a scanned route gets the status of its signals.

The menu entries still to come are the set `agenda`; `Upcoming` says which of
them the loop may take next: in the order of the rendered menu, and after all of
those the ones that `_restore_missing_saved_route_selections` has added.

The data that no property tells apart is abstracted: the element registry, the
order of the queue (a set: any order is checked), the reasons in the telemetry.
Left out: the landing module used when the menu is empty, menu entries that
open by a click only, `replay_route`, and the pause, which is in ScanLifecycle.

### ScanEventBus (MCScanEventBus, ScanEventBusProofs)

`publish` takes the lock twice and queues the event without it: `PublishBegin`
(resolve the id, get or create the queue), `PublishSequence` (number and
snapshot, under the lock), `PublishPut`, and `PublishEvict`/`PublishReput` when
the queue is full.  Two publishers, the crawler's thread and the event loop,
interleave there.  A terminal event starts a timer (`Discard`, any time later).
A socket is a snapshot and then a reader of the one queue of the run; a
`Disconnect` leaves its reader behind (`OrphanLeaves`) because
`asyncio.to_thread(channel.get)` cannot be cancelled.  The client keeps the
last sequence number it has seen and drops what is not newer (`Render`), polls
the latest event, stops at a terminal event or status and watches again when it
resumes the run.  Not in it: redaction and size bounds (text),
`cleanup_stale_channels` (no caller), the mock scan, the reload of the page.

### CheckpointStore (MCRunFiles, RunFilesProofs)

The checkpoint file at the level of names and inodes, because that is where its
atomicity is decided.  `save` is `Open` (which truncates the temporary file,
whoever writes it), one `Write` per chunk at the writer's own offset, and
`Rename` of whatever has the temporary name, retried when another thread has
renamed it (`RenameFails`).  The savers are the crawler (`CrawlerSaves`, and
`FinalSave`, where `run_scan` loads the file and saves it with the run's final
state) and the event loop (`SaveProgress`).  A payload is a number: how far the
crawl in it has come.  `Crash` stops both threads and leaves the files.  Not in
it: the copy in the database, the namespace check of `load`, and the fallback
for a rename that Windows refuses.

### SecurityReview (MCSecurityReview, SecurityReviewProofs)

The bounded review of a saved run.  Requests run in threads of the server and
hold `_LOCK` for all they do (`starting` is the one handler with a step in the
middle: the deletion of a run, on the event loop, takes no lock).  The worker
takes the lock for parts; its steps are the code between a request to the
target (`AskPage`, `AskProbe`), its answer (`PageAnswered`, `PageUnread`,
`PageBacksOff`, `PageBreaksReview`, `ProbeAnswered`, `ProbeFails`), the end of a
page (`PageDone`), the choice of a final status outside the lock (`Conclude`)
and the `finally` block (`Close`).  `late` is the deadline.  Links and captured
routes are constants, what the target answers is free.  Of a saved report the
model keeps the status, the pending count and the endpoints.  Left out:
findings, and the mock review, which runs no thread.  The warning of an
authenticated review with `auth_boundary` is left out too: with it a review is
never "completed".

### AuthSessions (MCRunFiles, RunFilesProofs)

The storage files of the sessions of a run and the threads that write them:
discovery, the scan (preflight check and probe, login, rotation of cookies while
pages are read, login again where a page is recognised as the login page, the
save in its `finally`), and the refreshes (`RefreshLogin`, `RefreshSave`,
`RefreshBind`), of which any number may be at work, as nothing keeps two of them
apart.  A file is its place in `files`; a thread has the one that its request was
given (`path`), whatever the run is bound to by then, and a save may fail.  A
session is a number; the application may revoke or expire it at any moment,
rotate it, keep it in a token or a cookie, and show a page without a session
that has an address of its own, a password field, or neither.  The page of the
probe is read before a redirect of its own can have happened, and it may be
public, so that `Probe` answers anything.  A history field of each thread, `found`, says
what its file held when the thread got its session.  Not in it: the search for
the login form in a page, and `auth_status`, which no step here reads.

### TestPlanning (MCTestPlanning, TestJobsProofs)

One planning job: the request, the provider stage by stage (`HealthCheck`,
`PostFails` with its attempts, `PostRefused`, an action per provider that
answers with any of `ProviderPlans`), `ValidatePlan` (grounding), `PlanBuiltIn`, `FitPlan` (cut or
expand to the number asked for), and what the endpoint does with the plan
(`Assemble`, `RetainRows`, `SelectAndNumber`).  The pure parts are operators of
the same names as the functions: the built-in planner's choice of actions, the
grounding faults in their order, the focused cases of the expansion, the
normalization of uploads.  Labels are data; which words are destructive for the
gateway and dangerous for the classifier are two constants, as in the code.  A
page has the name of its menu entry, and the visit of a built-in plan is labelled
with it (`Navigate`), whatever word it has.
A loop of the code over cases, steps or controls is a function of how many of
them are done (`upTo`), each step an operator of its own (`WithControl`,
`WithFocus`, `WithRead`, `WithNumber`); the names of the specification begin with
`Planning` because one module of proofs extends it together with ExecutionJobs.

### ExecutionJobs (MCExecutionJobs, TestJobsProofs)

The executions of one run: two kinds of background jobs and the replay, which
runs in its request.  A handler is one step before and one after its `await`;
the executor is a thread whose steps are one step of a case, with the retries of
a transient failure, the loss of the login, the artifacts and the saves of the
context, each of which may fail.  `ctx` is the shared object in memory, `file`
what is on disk; `Restart` drops the registry and everything in memory, and
`RecoverJob` is what the status endpoint answers then.  `since` is a history
variable: whose results were stored after a job started.

### RegressionStore (MCRegressionStore, RegressionStoreProofs)

Runs, plans, baselines, cases, suites and their links as tables; each endpoint
is one step because it does not await.  A request for a suite may list cases,
any rows, also twice (`CreateSuiteOfCases`); `listed` remembers that of a suite,
and `copy` tells the links of one row apart.  What makes it hard is in the tables:
generating a plan again replaces rows that suites link to, SQLite does not
enforce foreign keys (`ForeignKeys`), and a suite whose links are all dead falls
back to the newest case of every test id (`SuiteCases`).

### VerificationJobs (MCV3Assurance, VerificationJobsProofs)

The V3 tables under concurrent callers.  Every repository call is a transaction,
modelled as a read (the row goes into `call`) and a write of the columns whose
value the caller has changed (`Column`), so that lost updates show.  An
orchestration is a chain of such calls and may be `Lost` between any two; unique
indexes are checked at the insert (`UniqueCorrelation`, `UniqueAttempt`), with
the retry of the code.  What a scenario's check returns is free.  An automatic
assignment for which no rule matches ends before the write, as a caller does who
is `Lost` there.

### AssuranceChecks (MCV3Assurance, VerificationJobsProofs)

One bounded check, whose verdict VerificationJobs leaves free: registration of a
contract from a document and of its rules, capture of the dashboard, read of the
source, comparison and verdict, by `Orchestrate`, `Evaluate` or `Validate`.
Between the steps the source computes a new figure, the dashboard shows it or
nothing, the session ends, the target goes down and time passes.  What the
dashboard answers (`DashboardAnswers`) includes an error of its server and a
sign-in page at an address of its own, which the capture takes for pages that
lack the value (`CaptureOf`).  Shares are in
1/10000 and written as fractions or as points, which the comparison must undo.

## 3. The runs

| Run | Question | Bounds | Result |
|---|---|---|---|
| `lifecycle` | One scan per run, by its owner (`OnlyTheOwnerScans`); "scanned" is complete, two writers that presume it apart | 1 run, 2 concurrent scan requests, 1 execution, 2 modules, 3 user requests, any restarts | holds |
| `lifecycle_live` | A stop ends the scan; a background scan settles | 1 run, 2 scan requests, no execution, 1 module, 3 user requests, no restart | holds |
| `crawl` | Scans nest, an undisturbed "scanned" run is complete, the checkpoint only grows, a stop is seen at every depth, what is parked is not probed where no page reorders itself, every crawl ends | 6 routes, 2 modules, 2 crawls, 1 fault, 1 retry, 1 trigger per page, 3 discoveries, depth 2 | holds |
| `crawl_parked` | Is a parked control never pressed by a probe? | 1 crawl | no: a page that reorders itself moves it to the place of a safe one |
| `event_bus` | A client never goes back and catches up | 3 events, queue of 1, 2 scans, 1 socket client with 2 connects | holds |
| `security_review` | One review at work, "completed" is whole, the budget is kept (`TypeOK`), a review ends | 2 runs, 2 reviews, 4 pages, cap of 2, 2 requests, 1 probe, 1 control | holds |
| `run_files` | The checkpoint is the last one saved, across crashes, while saves do not overlap; a newer session is replaced by an older one only by a lost update | 3 saves of a checkpoint, 2 save-progress requests, 2 crawls, 3 attempts of the rename, 2 writes per file; 1 run, 2 refreshes, 3 sessions | holds |
| `test_planning` | Is a returned plan grounded, harmless, of the size asked for, with the user's rows first; does a planning job end? | 2 scans, counts 0, 2 and 7, 5 uploads, every answer of a provider of up to two cases out of a few kinds, 3 steps per route, 2 attempts | holds |
| `execution_jobs` | Jobs end, the run does not stay "executing", no older result is recovered as a job's | 2 executions, 2 cases, 1 restart | holds |
| `regression_store` | No suite runs a test twice unless a request lists it so; no baseline loses a case unasked | 1 run, 2 test ids, 3 cases, 2 suites, 1 execution, lists of 2 | holds |
| `v3_assurance` | One pair per delivery, attempts in order, verdicts with evidence; a pass means agreement, and a difference that is reported was there to see | 2 callers, 1 correlation, 2 scenarios, 1 manual request, 2 calls; 2 documents, 5 rules, 3 figures, 2 formats, 1 check, 1 change of the world of each bounded kind, 1 tick | holds |
| `v3_faults` | Is no outage reported as a defect? | as `v3_assurance` | no: a failing server's page is taken for a missing value |

Four configurations are no runs of the project.  Each states a promise that a
comment or a reader would expect of the code and that it does not keep; TLC finds
the behaviour within seconds, and section 5 says what it is.

| Configuration | Statement | What TLC shows |
|---|---|---|
| `MCScanLifecycleExecutions.cfg` | `ExecutionFollowsCompleteCrawl` | a failed execution writes "scanned" on a run that was stopped |
| `MCScanLifecycleAccepted.cfg` | `CompletedWasAccepted` | the end of a scan counts the module that the last one was in |
| `MCCrawlEngineTriggers.cfg` | `NoParkedTriggerIsClicked` | the trigger of a menu is clicked without being classified |
| `MCTestPlanningBinding.cfg` | `EveryStepBindsToAControl` | a provider's step has the label of one control and the selector of another |

Why the bounds are enough.

- `lifecycle`: two requests of one run are the smallest race, and runs do not
  share state, so one run is as good as two.  Two modules give a first, a last
  and a boundary; three requests allow start, control and start again.  The
  liveness run has one module, because what a scan waits for (a pause, a
  decision, a stop) is the same in each.
- `crawl`: the application is small but has each shape that matters: a cycle of
  buttons, a page with two buttons (so that a stop may come between two
  probes), a route behind a button only, one behind a redirect, one in a menu
  that a click opens, one out of scope, a menu entry that may vanish, a page of
  poor health and one whose control reorders the page.  Two crawls are a start
  and its resume, and `MaxDiscovered = 3` fills the queue.
- `event_bus`: a queue of one is full at once; three events are a pair that may
  be swapped and a later one.
- `security_review`: a page with two links, of which the cap drops one, a link
  back, and a root that only the fallback tries.  Two requests are enough for a
  review without probes to complete and not for one with them; one control may
  come at any point, with deletions, polls and restarts without a bound.
- `run_files`: a file in two writes can be torn once; a save-progress beside the
  crawler and another one are the smallest overlaps.  Two refreshes are the
  smallest overlap of refreshes; three sessions are the stored one and one each
  of two threads that overlap, or one that is rotated.
- `test_planning`: the counts are no limit, one that cuts and one that expands;
  the labels include a word that one list has and the other has not, a parked
  selector and a blocked control; a provider's pair of cases may be twins under
  two ids, a good case with an invented one in either order, or a case whose step
  mixes the label of one control with the selector of another.
- `execution_jobs`: two executions are the smallest overlap; one case has a
  step before the one that fails, the other a restricted step.
- `regression_store`: three cases are a generated plan, its baseline and a
  replacement; two suites are a suite and its duplicate, and a list of two names
  one test twice.  `ForeignKeys = FALSE` is SQLite's default; with it the dead
  links that the fallback is for occur.
- `v3_assurance`: two callers are the smallest race; two calls are an
  orchestration and another, or its retry; one manual request may come at any
  point of them.  The callers are interchangeable, hence the symmetry, which no
  liveness property is checked under.  A document has a read next to a write of
  the same key, or foreign and parameterized candidates; the figures are one
  percent, one percent and a rounding, and all of it; the change may fall between
  any two steps of the one check.  The source writes fractions: with points the
  first property needs the condition of `PassedChecksAgree` (section 4).

Deadlock checking is off but for `test_planning`: every bounded behaviour stops
once its requests, starts or events are used up, as the program does when no one
asks it anything.  In `test_planning` a finished job can always be forgotten, so
that the check shows nothing there; that a job is not stuck is `JobEnds`.

Every property has a mutant of the modelled code that violates it, an operator
defined right before the definition it replaces (`"mutants"` in `PROJECT.json`).

### Fairness

`LiveSpec` of ScanLifecycle has weak fairness of handlers, coroutines and
worker threads: the event loop and the operating system schedule them, and
every wait of a worker polls with a timeout.  It covers what a worker does when
nothing breaks (`WorkerProgress`), not its exceptions: a crawler that could only
leave its pause by an error would satisfy no property.  Users owe nothing,
except what the property names.  There are no restarts in it: nothing promises
an end to a process that dies.  CrawlEngine has weak fairness of the crawler's
step (every browser wait has a timeout), and none of crashes, stops or starts.
ScanEventBus has weak fairness of a publish that has begun and of the client's
poll, which is a timer of one second; none of sockets, readers or timers of the
bus.  SecurityReview has weak fairness of the worker's step (a fetch has a
timeout of at most 8 s) and of the deadline, which is a clock; none of users and
restarts.  ExecutionJobs has weak fairness of each coroutine and each executor
thread: the loop runs its tasks and every browser wait has a timeout; none of
requests and restarts.  TestPlanning has weak fairness of the job's step: every
call to a provider has a timeout.  The other modules state safety only.

## 4. What is proved

`ScanLifecycleProofs` proves, for every set of runs, finite pool of requests,
number of modules and bound of requests, restarts included, from the named
assumptions on the constants alone:

- `Invariance`: the inductive invariant of `Spec`;
- `TypeCorrectness`: `Spec => []TypeOK`;
- `OneScanPerRun`: `Spec => []ActiveMeansOneScan`;
- `ScannedRunsAreComplete`: `Spec => []ScannedIsComplete`.

`ScannedIsComplete` is about the runs whose status a scan vouches for
(`Vouched`): "scanned", and not written by one of the two that presume it.  It is
not inductive, since progress may be reset while such a status stands.  The
invariant adds that a run with a worker at work is not vouched for
(`NotScannedAtWork`), so that whoever starts over finds nothing to break; this
needs `ActiveMeansOneScan`, because a second worker would break it.
`ActiveMeansOneScan` needs to be stated as an equivalence: a run that is active
without a job could never be started, and a job without the claim would be joined
by another.  Every write of a status, by a handler, the failure handler, a stored
plan or an execution, is shown to be `Quiet`: it vouches for nothing that was not
vouched for; the one exception is the last step of a worker (`Vouches`), which
has every module.  One
lemma per action shows that it keeps the invariant, and the theorems follow by
`PTL`.

Its second part proves that ScanLifecycle implements ScanOwnership:

- `Refinement`: `Spec => OnlyTheOwnerScans`, from the same assumptions.

Every action is shown to map to a step of the abstract specification or to a
stutter.  It uses the invariant above: that a worker's run is active makes the
owner of `Claim` the only one, and `NotScannedAtWork` says that what its worker
changes is not declared scanned yet; a step of a worker moves the progress of its
run only (`WorkerEffect`), and no other step moves any.

`CrawlEngineProofs` proves, for every application (routes, menu, controls with
the page they are on and the one they lead to, redirects, links, overlays,
signals, words of the classifier), every budget and every number of starts,
faults and retries:

- `Invariance`: the inductive invariant of `Spec`;
- `TypesAreOK`: `Spec => []TypeOK`;
- `ScanIsNested`: `Spec => []ScansAreNested`;
- `CheckpointGrows`: `Spec => CheckpointOnlyGrows`;
- `StoppedCrawlIsStill`: `Spec => StoppedCrawlOpensNothing`;
- `ParkedIsLeftByProbes`: `Spec => ParkedIsNotProbed`.

The recursion of `_scan_route` is the stack, so the invariant is about all its
frames at once (`Scans`): routes differ, every frame but the innermost waits for
a probe, every frame but the outermost was begun by one, and every route on the
stack is visited and has a page, which is why no inner scan can begin on it.
Four lemmas say what a step may do to a stack (`TopChanges`, `Pushed`, `Popped`,
`NestedGrows`), so that an action needs only to be shown to be one of them.  The
action properties need each a part of their own: `Kept` (an engine at
work has what its checkpoint has, so that saving loses nothing), `Stopped` (the
flag that a deep scan sets keeps every outer one from probing), `Faced` and
`Framed` (as long as the site does not fail and no menu has led away, the browser shows
the page of the innermost scan, and what that scan probes is one of its page's
candidates).  The property is about probes only: the clicks that open menus
are not classified (section 5).

The completeness of a crawl has a theorem with hypotheses:

- `UndisturbedRunIsComplete`: from `Plain`,
  `Spec => [](Shallow(cp.depth) => ScannedRunIsComplete)`.

`Shallow` says that no node of the graph is deeper than `MaxDepth`, below which
the crawler does not follow a control, by design.  `Plain` is about the
application: a page that a redirect leads to stays; a link that leaves the
application does not come back by a redirect; no control that may be pressed
reorders its page; the triggers of a page's menus neither lead away nor reorder
it, and there are at most `MaxTriggers` of them; and menus and links show at
most `MaxDiscovered` routes.  Each is needed because the code loses a route otherwise: it queues no more than
`MaxDiscovered` discoveries, it opens no more than `MaxTriggers` menus, it drops links out of
scope without loading them, and it presses by place, so that a page that reorders itself makes it press one
control twice and another one never.  The instance of `crawl` without its
shifting control and with `MaxDiscovered = 4` satisfies `Plain`.

The argument is that of a flood fill.  `Reachable` is the least set that has the
pages of the selected modules and is closed under links, overlays and controls,
so it is enough that what is scanned at the end is closed.  During the run it
is closed but for what is still to be done (`Charted`, `Pursued`): every route
that was seen, queued or put into the graph is scanned, waits in the queue, or
is too deep; every control of a scanned page is followed, or its page is on the
stack and waits for it (`Waits`), every menu of a scanned page is opened or still
to be opened (`ToOpen`), also where the inner scan that found the same
page returned early because it was on the stack already.  A pop keeps that
because a frame leaves the stack only when its menu of probes is empty.
`FirstRun`, `LaterRun` and `Between` say how much of it holds in the first
start, in a later one, which restores all but the NON-WORKING pages and finds
its modules completed, and when no crawler runs; all of it only as long as
nothing has disturbed the run (`Calm`).

`RunFilesProofs` proves, for every size of a file (in chunks), number of
attempts and bound of saves, requests and starts:

- `Invariance`: the inductive invariant of `Spec`, crashes included;
- `TypeCorrectness`: `Spec => []TypeOK`;
- `Durability`: `Spec => []LoneSavesAreDurable`.

`LoneSavesAreDurable` says nothing of the temporary file, on which everything
depends.  The invariant adds that, until two saves overlap, at most one saver is
busy, the temporary file is its own and is filled up to its chunk, and all of it
before the rename (`HasWritten`, in `LoneSaver`); then the rename makes the
checkpoint the payload just saved.  A crash in the middle leaves a temporary file
that the next `Open` truncates.  `SavesBound` is there for the types: the crawler
counts on from the checkpoint it loads, so what is stored has to be bounded by
the number of saves, wherever in either file it is.

Its second part is about the other file that outlives a scan, the session of
AuthSessions, for every number of runs, refreshes and sessions, with sessions
revoked, expired or rotated at any point:

- `SessionsInvariance`: the inductive invariant of `AuthSpec`;
- `SessionNeverReturns`: `AuthSpec => SessionNeverGoesBack`.

Sessions are numbered as they are issued, so "older" is "smaller".  The property
is about two values of a file, one step apart, and the session that a thread
will write at its end lies in its browser meanwhile.  So the invariant
(`SessionsInv`, a part for each file, context, scan and refresh) relates those: a
file holds a session that was issued, and what a thread found in its file when it
got its session is never newer than that session.  A write of an older session
is then one of a thread whose file is not what it found: somebody else has
written it since.  The property excepts those writes and says that there is no
other way; that they happen is in section 5.

`VerificationJobsProofs` proves, for every set of callers, correlation ids and
scenarios and every bound, with callers lost at any point:

- `Invariance`: the inductive invariant of `Spec`;
- `TypeCorrectness`: `Spec => []TypeOK`;
- `AttemptsInOrder`: `Spec => []AttemptsAreNumbered`;
- `DeliveredOnce`: `Spec => []OnePairPerDelivery`;
- `VerdictsAreBacked`: `Spec => []VerdictIsBacked`.

A caller acts on what it read before others committed, so the invariant says
what each of them may still rely on (`CallOK`): its job is in the table, the
number it chose is at most the next one, the attempt it recorded is still there
with its outcome, and what it is about to conclude is backed.  That survives the
steps of the others because no row is ever taken back (`Grown`).  A number at
most the next one that is not taken is the next one, which is why the unique
index suffices for `AttemptsAreNumbered`.  `OnePairPerDelivery` is carried as
`Pairs`, without cardinalities, and needs that every job names an incident in
the table: a new incident then has no job yet.

Its second part is about the checks that give those verdicts, AssuranceChecks,
for every set of documents, rules, figures and formats, series of every length,
every tolerance, window and bound:

- `ChecksInvariance`: the inductive invariant of `ChecksSpec`;
- `PassedChecksAgree`: from `UnambiguousPoints`,
  `ChecksSpec => []PassMeansAgreement`;
- `DefectsWereSeen`: from `UnambiguousPoints`,
  `ChecksSpec => []DefectWasSeen`.

`UnambiguousPoints` is a condition on the operation that is checked:
where it answers in points, no share is above 0 and at most one percent.  It is
necessary, and a fact about the code: `normalize_scalar` takes a bare number of
at most 1 for a fraction (section 5).  `DefectWasSeen` says what a reported
defect rests on: no value on the page that was reached, or figures, filters or a
time that differ.  It does not say that the page was the product's: that a
missing value is never an outage is `DataFaultIsNoDefect`, which does not hold
(`v3_faults`).  The invariant carries what a check has read from step to step
(`IsCheck`, `Referenced`): whatever the application does meanwhile, the figures
that are compared are the ones captured with their stamps and filters.

`ScanEventBusProofs` proves, for any number of clients, events, scans and
sockets, any capacity of the queue, and whether the run and its scan have one id
or two:

- `Invariance`: the inductive invariant of `Spec`;
- `TypesAreOK`: `Spec => []TypeOK`, with the bounds of queues and readers;
- `ClientsGoForward`: `Spec => ClientNeverGoesBack`.

A client compares sequence numbers, and the property is about the order of
publishing.  What joins them is `Ordered`: until a channel is discarded, every
call of `publish` resolves to the same key, so all events get their numbers in
one place and in the order of publishing; then an event that is queued late, or
read from the snapshot, still carries the number that shows it to be old.  The
order in the queue is not part of it, and does not hold.  The rest is counting:
a queue object is created for an id that has none (`QueuesCounted`), every event
takes at most one number and starts at most one timer (`EventsCounted`), and
every reader, at work or left behind, has its connect (`ReadersCounted`).

`SecurityReviewProofs` proves, for every set of runs, every site, whatever its
links, and every budget, cap and number of starts and controls:

- `Invariance`: the inductive invariant of `Spec`;
- `TypesAreOK`: `Spec => []TypeOK`, with the budget of requests;
- `OneReviewAtATime`: `Spec => []OneReview`;
- `CompletedReportIsWhole`: `Spec => []CompletedIsWhole`.

`CompletedIsWhole` speaks of a saved report and of the closure of the links,
which no step of the worker looks at.  The invariant carries what the worker
does know (`Whole`): without a warning, what was seen is what was answered or
waits, and the links of every answered page were seen, or the cap was reached.
When the queue is empty the answered pages are closed under links and contain
the captured ones, so they contain everything reachable, which is the smallest
such set.  `Accounted` is for the types: completed pages are out of the queue
for good, so their number is bounded by that of the pages.

`TestJobsProofs` proves about ExecutionJobs, for every set of executions, every plan of cases
with their steps and every number of restarts:

- `Invariance`: the inductive invariant of `Spec`;
- `TypesAreOK`: `Spec => []TypeOK`;
- `RecoveryIsFresh`: `Spec => []NothingStaleIsRecovered`;
- `RunIsReleased`: `Spec => []NotLeftExecuting`.

What the status endpoint recovers comes from the file, which may be older than
the context in memory because a save may fail, so the invariant makes the same
promise for both (`Honest`): the context that calls a job completed has results
that were stored after the job began.  It needs `Started`: no context names a
job that has not begun, for otherwise the history of that job would be empty.
For the release, every "executing" of a process that was not restarted has a
selected execution that will end it.

The same module proves about TestPlanning, for every set of scans, of uploads and
of answers of a provider, every list of words and every count:

- `PlanningInvariance`: the inductive invariant of `PlanningSpec`;
- `PlanIsGrounded`: `PlanningSpec => []PlanIsSafeAndGrounded`;
- `PlanFits`: `PlanningSpec => []PlanFitsRequest`;
- `RowsFirst`: `PlanningSpec => RowsComeFirst`.

`PlanIsGrounded` says of a provider's step what its validation says and no more:
but for a visit, its label has no destructive word, and its label or its selector
is that of a control which the scan has on the route of its case.  That the two
are of one control is not so (section 5); of the steps of the built-in planners it
is, and the control is harmless.

The assumptions say that scans, uploads and answers have the shapes that the
models of `scan_models.py` and the decoding of a reply give them (`ScanShapes`,
`UploadShapes`, `PlanShapes`), that the classifier's words include the gateway's
(`WordAssumption`, which the second planner needs, because it knows only the
former), and that a case may have two steps.  Nothing is assumed of what a
provider says: a plan is any sequence of cases until it has passed the
validation (`ValidIsSafe`).  From there on, and in the built-in plan
(`BuiltInIsSafe`), every case is in `SafeCases`: its steps but the visits have no destructive word
for a label and say the label or the selector of a control that the scan has on
the case's route, or of none.  Each later operation keeps that: the expansion puts a step of the plan or
a harmless control of a route on a case of the same route (`Foci`,
`FocusedIsSafe`), rows are kept as visits (`RowIsSafe`), and the selection
reorders and drops.  The route is what makes it delicate: it is compared with
the route of the case, and `BaseOnRoute` must find a case of the route whose
controls it adds.

The ids are distinct by the numbering alone (`NumberStep`, `FreeIdIsFree`: of
the numbers from n on, one more than there are used ids is enough), and the
numbering comes last, after the cut, so the length stays.

That rows come first is a property of the step that selects, because what a
provider gives to its cases decides what may be dropped there: a case with the
step ids and the content of a row makes that row a repetition, and cases that
share an id of the user are all the user's.  The invariant says that every row
has come so far (`RowsAreThere`).  What comes first in a sequence comes first in
what is kept of it (`KeptFirst`), so after the repetitions are dropped the user's
cases are still in front, and a cut takes one of them only when nothing else is
left (`CutAt`).  The numbering changes ids, but an id that was there is there
afterwards (`Numbering`).

What is true of a whole loop is shown without an induction scheme: a function defined step by step
exists and stays in given sets, because there is no least place where it fails
(`LeastNumber`, `Chained`, `Arrives`).

`RegressionStoreProofs` proves, for every set of runs, finite set of test ids
and bounds, with and without enforced foreign keys:

- `Invariance`: the inductive invariant of `Spec`;
- `NoTestRunsTwice`: `Spec => []SuiteCasesAreDistinct`;
- `OnlyConfirmedOverwrites`: `Spec => BaselineIsKept`.

The invariant follows the links (`Linked`, `Distinct`): the rows that a suite
links to, unless a request has listed them, are of different tests as far as they
are still there, and no link
points past the rows that were ever created, so that a row that is planned again
cannot revive a dead one (`Stored`: ids are not given twice).  "The newest row of
a test" and "the oldest" exist because the rows are a finite set of numbered
ones; the proof takes that from the well-foundedness of the numbers.

Three of these modules extend two specifications, whose definitions have distinct
names for that; a theorem is about the one whose `Spec` it names.

Only model-checked: the liveness properties (fairness and ENABLED are out of the
prover's reach); `ScannedRunIsComplete` on sites that are not `Plain`; and the
violations, which are counterexamples.

## 5. What the code does not do

Two violations have runs, `crawl_parked` and `v3_faults` (`"findings"` in
`PROJECT.json`, with the lines that promise otherwise), and four more have the
configurations of section 3, named here where they belong.  The rest was met
while modelling; the properties above are stated around it, and the models
contain it unless it says otherwise.

Scans:

- an execution of selected cases that fails writes "scanned" on any run with
  results, also one that was stopped or is at work (`scan.py:166`; the comment
  there calls the crawl "already completed"): `MCScanLifecycleExecutions.cfg`;
- the end of a scan that was not stopped counts the module that the checkpoint, or
  else the context, names as the current one as completed
  (`crawler_service.py:331`), although line 365 says that a module which was never
  presented gives no completed status: `MCScanLifecycleAccepted.cfg`;
- the triggers of menus are clicked by place and without `classify_action`
  (`crawler_engine.py:940`, `menu_overlay_engine.py:62`), also one that the
  classifier would park: `MCCrawlEngineTriggers.cfg`;
- a control that reorders its page makes a probe press a parked one
  (`crawler_engine.py:1148`): `crawl_parked`;
- a run whose menu has none of its modules scans the page it has landed on, and
  polls no stop before that (`crawler_engine.py:231-253`; not in CrawlEngine);
- an interrupted run resumes without the links of the route that was at work
  (`crawler_engine.py:722`); a retry of a module does not repeat its probes,
  because `_probed_action_identities` is kept (`1115`); a route that the
  session's end kept from opening leaves its module completed (`641`), and a
  login page met while probing is swallowed as `action_failed` (`1191-1212`);
- a NON-WORKING route loses its page, but not its visit, on a later start
  (`crawler_engine.py:1909`);
- a run stopped in its last module is "scanned" after its resume, with routes
  in its queue that were never visited (`crawler_engine.py:282`);
- `force_rescan` of a selection restored from the checkpoint has no effect when
  its page is in the checkpoint (`crawler_engine.py:715`);
- the stop flag of an ended run outlives its scan and ends the next one early
  (`scan_control_service.py:32`); `StopEndsTheScan` does not tell that from a
  stop that was meant;
- a refused duplicate start marks the run of the live scan "failed"
  (`scan.py:243`);
- a worker that is still at work when its run is discarded writes "running" or
  "partial_scanned" over the discarded status (`crawler_service.py:403`);
- a control "resume" writes "running" to a saved run that has no worker
  (`scan.py:1717`), and nothing corrects it after a restart either.

Events and checkpoints:

- a discard timer of an ended scan removes the channel of its resume, whose
  sequence numbers start again (`scan_event_bus.py:105`); a client that resumes
  a run keeps its last number and drops the events until they pass it
  (`index.html:2923`);
- with different ids for a run and its scan, aliases in both directions send an
  event to one key and its sequence to the other (`scan_event_bus.py:58`); the
  frontend uses one id for both;
- two savers share the temporary file, and what is renamed may be a mixture
  (`checkpoint_store.py:112`);
- a save-progress that has loaded the checkpoint writes it back over a newer one
  of the crawler (`scan.py:2180`), and the final save of `run_scan` may load
  that one and keep it;
- a run context is read outside the lock and may put into the cache what
  another thread has replaced or deleted (`run_context_service.py:233`).

Security review:

- a "stop" or "pause" between the final status of a review and its `finally`
  block puts "stopping" or "paused" into the saved report, and the next poll
  calls it cut off by a restart (`security_scan_service.py:719`, `386`);
- a run deleted between the check of a review's start and its first save leaves
  a registered job without a thread: every later review of the process is
  refused (`security_scan_service.py:556`);
- a review none of whose pages could be read is "completed_with_gaps", not
  "route_validation_failed" (`security_scan_service.py:721`).

Sessions:

- the scan's `finally` saves the session of its browser over one that a refresh
  saved meanwhile (`crawler_service.py:541-547`), and of two refreshes of a run
  at the same time the older one may save last: nothing keeps them apart
  (`scan.py:444-484`);
- two refreshes of a run without a session leave two files, of which the run is
  bound to one; the refresh of a run that nobody knows leaves a file that nobody
  knows (`scan.py:444-484`);
- a token that has not expired is accepted without a probe, and a probe that
  fails is reported as an expired session; the page that is probed is read before
  a redirect of its own, and may be public (`auth_lifecycle_service.py:39-126`),
  so that a session which passes need not be alive;
- an error while a page is looked at for a login form counts as signed in
  (`auth_lifecycle_service.py:122-147`), and a rejected login counts as success
  where the page that follows does not look like a login page
  (`login_handler.py:429-461`).

Planning:

- an uploaded row whose id is that of a planned case gives way to it without a
  coverage gap (`scan.py:973-985`), since ids such as TC_001 are the planner's
  own;
- grounding is checked against the route of the case, not of the step; a known
  label is enough, with any selector, and the destructive words are looked for in
  the label alone, so that a harmless label may come with the selector of any
  control that is not in the parking lot (`llm_provider_gateway.py:374`,
  `411-466`): `MCTestPlanningBinding.cfg`;
- a built-in visit is labelled with the name of its menu entry, which may have a
  destructive word (`llm_provider_gateway.py:843`); the visit presses nothing;
- the expansion does not look at the parking lot (`llm_provider_gateway.py:709`),
  and the built-in planner expects `/inventory.html` of any "continue shopping";
- a case with a textual selector is dropped when the plan is read (`scan.py:925`).

Execution and the store:

- a run is left "executing" by a restart (`scan.py:151`), and a recovered job may
  answer with the rows of another execution of the run (`scan.py:172`);
- an uploaded case without rows is "Pass" (`test_execution_service.py:896`);
- a case whose last row is "Skipped" after a failure is stored as Skipped
  (`repository.py:757`), in the oldest row of its test id, the baseline's or not;
- a suite made of cases that a request lists links every row it names: the row of
  the plan and that of the baseline run one test twice (`repository.py:468-473`);
- a disabled case runs when all links of its suite are dead (`scan.py:2414`),
  and toggles do nothing in such a suite.

V3:

- two callers that write the same job each commit the columns they changed: a
  resolved incident may keep the outcome of another verdict, and a completed job
  a verdict that is not final (`repository.py:1123`);
- only a retry looks at the job's limit (`repository.py:1123`); a transition of
  the same job to "queued" (`repository.py:911`) runs it again without it;
- a dashboard that answers with an error of its server, or with a sign-in page
  at another address than `/login`, lacks the selector, and the check is
  "reproduced" (`v3_data_assertion_service.py:244`,
  `v3_orchestration_service.py:84-89`): `v3_faults`;
- a contract check that is stopped before its request, by a missing token for
  one, is "reproduced" (`v3_orchestration_service.py:155`), although
  `docs/V3_RELEASE_TASKLIST_AND_PHASE_PROMPTS.md:23-25` says that authentication
  faults must not be reported as product defects;
- with expected filters an orchestrated check always ends as `filter_mismatch`,
  and a percentage of "1" is read as all of it.

## 6. Plan

Done: all modules of section 2, and the proofs of section 4, which state every
safety property of the runs, `ScannedRunIsComplete` for plain sites.  Next, in
this order:

1. An abstract register ("a load returns what was saved last") that
   CheckpointStore implements while saves do not overlap, as a refinement.
2. `RunContextStore`: cache and file under create, get, save and delete, against
   the same register.
3. When a defect of section 5 is repaired, the exception in the property that
   is stated around it goes.

## 7. Not modelled

Browser or text work without a state that outlives the call: the page readers
and their scripts, exports and reports, redaction and request guards, the
application shell and its mock data, the frontend's rendering, tools,
presentations and generated migrations.  Progress reconciliation and element
identity are functions of counts and strings without an interleaving; the run
context store is modelled only as far as the other modules use it (status, file
and failed saves).  The replay of one route (`scan.py:861-882`) runs `run_scan`
under a scan id of its own without the claim of `try_start_scan`, so it may scan
beside the run whose checkpoint it loads; it is in none of the modules, and
neither is the mock path of `execute_test_cases`, which runs no browser.  The mock
scan (`scan.py:633-757`) is not in ScanLifecycle either: it runs in its request,
without a claim and a worker, and writes a checkpoint that has every selected
module before it says "scanned", both without a look at what is at work.  Of the
modelled components, `PROJECT.json` says under
`"components"` what each leaves out; none of them is complete.
