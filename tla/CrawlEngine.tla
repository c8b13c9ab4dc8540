----------------------------- MODULE CrawlEngine -----------------------------
(***************************************************************************)
(* The crawl of one run: CrawlerEngine.crawl of                            *)
(* automation_framework/crawler/crawler_engine.py, with the checkpoint it  *)
(* resumes from.                                                           *)
(*                                                                         *)
(* The crawler is one thread.  What interferes with it is the site (pages  *)
(* that redirect, fail or log out), the user (a stop, a retry or an end in *)
(* a review) and the death of the process, after which a new engine loads  *)
(* the last checkpoint.  A step here is the code between two points where  *)
(* that matters: a poll of the stop flag, a page load, a saved checkpoint. *)
(*                                                                         *)
(* Scans nest: a probe that navigates scans the child route before it goes *)
(* on with its parent, so the scans at work are a stack, the innermost one *)
(* first.                                                                  *)
(***************************************************************************)
EXTENDS Integers, Sequences, FiniteSetsExt, ActionClassifier, RouteHealth

CONSTANTS
    Routes,         \* normalized URLs
    Modules,        \* module ids
    None,           \* no module, no page, no probe
    Menu,           \* the entries of the navigation as rendered, some of them repeatedly
    Selection,      \* the module ids that the user has selected
    Home,           \* the URL of a menu entry
    Lands,          \* where the browser is after it loads a URL
    Scope,          \* is_valid_url: the routes of the application
    Controls,       \* the controls of all pages
    PageOf, LeadsTo, LooksLike, \* where a control is, where it leads, what the classifier sees
    ShowsLink,      \* the controls with a link in the page, which is looked at before a press
    Shifts,         \* the controls that change the order of their page's controls in place
    Triggers,       \* the controls marked as opening a menu or a dropdown
    Overlays,       \* the routes in the menu or dropdown that a trigger opens
    Links,          \* the routes of a page's visible content links
    PageSignals,    \* what a scan of the route may measure when nothing fails
    MayVanish,      \* selected modules that a later navigation may not show
    Interactive,    \* interactive_mode
    MaxDiscovered,  \* MAX_DISCOVERED_ROUTES
    MaxTriggers,    \* the triggers of a page that are opened, 10
    MaxDepth,       \* the depth from which a probe's child is not scanned, 5
    MaxStarts,      \* bound: crawls of the run
    MaxFaults,      \* bound: failures of the site and exhausted budgets
    MaxRetries      \* bound: modules that the user retries

ASSUME MenuAssumption ==
    /\ None \notin Modules \cup Routes \cup Controls
    /\ Menu \in Seq(Modules) /\ Selection \subseteq Modules
    /\ MayVanish \subseteq Selection
    /\ Interactive \in BOOLEAN
ASSUME SiteAssumption ==
    /\ IsFiniteSet(Routes) /\ Scope \subseteq Routes
    /\ Lands \in [Routes -> Routes] /\ Home \in [Modules -> Routes]
    /\ Links \in [Routes -> SUBSET Routes] /\ Overlays \in [Controls -> SUBSET Routes]
    /\ {PageOf, LeadsTo} \subseteq [Controls -> Routes] /\ LooksLike \in [Controls -> Looks]
    /\ {ShowsLink, Shifts, Triggers} \subseteq SUBSET Controls
    /\ PageSignals \in [Routes -> SUBSET Signals]
ASSUME BoundAssumption ==
    {MaxDiscovered, MaxTriggers, MaxDepth, MaxStarts, MaxFaults, MaxRetries} \subseteq Nat

\* _build_menu_list: the entries of the application; of a repeated one the first counts.
MenuList == {m \in Modules : Home[m] \in Scope /\ \E i \in DOMAIN Menu : Menu[i] = m}

Rendered(m) == Min({i \in DOMAIN Menu : Menu[i] = m})

Selected == MenuList \cap Selection

VARIABLES
    \* The engine, rebuilt by every start.
    pc,         \* where crawl() is
    agenda,     \* the menu entries still to come, in the order of Upcoming
    module,     \* _active_module_id
    recovered,  \* modules restored from the selection, with force_rescan
    stack,      \* the calls of _scan_route, innermost first
    at,         \* the route that the browser shows, None for a login page
    visited,    \* RouteGraph: the nodes with visited = True
    depth,      \* RouteGraph: the depth of a node, -1 without one
    pages,      \* page_intelligence: the module a route was scanned for
    failed,     \* route_validations: the NON-WORKING routes
    queue,      \* _discovered_route_queue
    queued,     \* _queued_routes
    reported,   \* scan_events: the routes with a route_failed event
    probed,     \* _probed_action_identities: controls, each with the route of the scan
    completed,  \* completed_modules
    engineStop, \* scan_stop_requested
    \* Outside the engine.
    cp,         \* the run's checkpoint
    stop,       \* _ScanControl.stop_requested
    expired,    \* the session has expired and there are no credentials
    status,     \* RunContext.status
    starts, faults, retries,
    troubles    \* history: what has disturbed the run

traversal == <<visited, depth, pages, failed, queue, queued, reported, completed>>
memory == <<pc, agenda, module, recovered, stack, at, traversal, probed, engineStop>>
counters == <<starts, faults, retries, troubles>>
vars == <<memory, cp, stop, expired, status, counters>>

NoCheckpoint == [visited |-> {}, depth |-> [r \in Routes |-> -1],
                 pages |-> [r \in Routes |-> None], failed |-> {}, pending |-> {},
                 reported |-> {}, completed |-> {}]

Scanned(doc) == {r \in Routes : doc[r] # None}

Init ==
    /\ pc = "off" /\ agenda = {} /\ module = None /\ recovered = {}
    /\ stack = <<>> /\ at = None
    /\ visited = {} /\ depth = [r \in Routes |-> -1]
    /\ pages = [r \in Routes |-> None] /\ failed = {}
    /\ queue = {} /\ queued = {} /\ reported = {} /\ probed = {}
    /\ completed = {} /\ engineStop = FALSE
    /\ cp = NoCheckpoint /\ stop = FALSE /\ expired = FALSE /\ status = "new"
    /\ starts = 0 /\ faults = 0 /\ retries = 0 /\ troubles = {}

-----------------------------------------------------------------------------
(* What the site or a budget does to the crawler, within the bound.        *)

Fault ==
    /\ faults < MaxFaults
    /\ faults' = faults + 1
    /\ troubles' = troubles \cup {"fault"}

NoFault == UNCHANGED <<faults, troubles>>

\* A page load fails when the session is gone, and may fail when it is not.
Unreachable == (expired /\ NoFault) \/ (~expired /\ Fault)

\* _check_pause_or_stop: the user's stop, or the global deadline; before a probe
\* also the probe budget.
PollStops == (stop /\ NoFault) \/ (~stop /\ Fault)

\* _save_checkpoint, with what the step leaves in memory.
SaveCheckpoint ==
    cp' = [visited |-> visited', depth |-> depth', pages |-> pages', failed |-> failed',
           pending |-> queue', reported |-> reported', completed |-> completed']

-----------------------------------------------------------------------------
(* Start, load and the module loop of crawl().                             *)

\* Mutant of LoadCheckpoint: the restored queue is not known as queued.
MutantLoadForgetsQueued ==
    /\ visited' = cp.visited
    /\ depth' = cp.depth
    /\ pages' = [r \in Routes |-> IF r \in cp.failed THEN None ELSE cp.pages[r]]
    /\ failed' = {}
    /\ queue' = cp.pending \ cp.visited
    /\ queued' = {}
    /\ reported' = cp.reported
    /\ completed' = cp.completed

\* Mutant of LoadCheckpoint: only the graph and the queue are restored.
MutantLoadForgetsPages ==
    /\ visited' = cp.visited
    /\ depth' = cp.depth
    /\ pages' = [r \in Routes |-> None]
    /\ failed' = {}
    /\ queue' = cp.pending \ cp.visited
    /\ queued' = cp.pending \ cp.visited
    /\ reported' = cp.reported
    /\ completed' = cp.completed

\* _load_checkpoint: the NON-WORKING routes lose their pages, but the restored
\* graph still has them as visited.
LoadCheckpoint ==
    /\ visited' = cp.visited
    /\ depth' = cp.depth
    /\ pages' = [r \in Routes |-> IF r \in cp.failed THEN None ELSE cp.pages[r]]
    /\ failed' = {}
    /\ queue' = cp.pending \ cp.visited
    /\ queued' = cp.pending \ cp.visited
    /\ reported' = cp.reported
    /\ completed' = cp.completed

\* The next entry: as rendered, and after all of them the ones restored from the
\* selection, in any order: the code's, the selection's, is one of them.
Upcoming(m) ==
    /\ m \in agenda
    /\ \A k \in agenda \ recovered : m \notin recovered /\ Rendered(m) <= Rendered(k)

\* A run starts, or resumes with a valid session.
StartCrawl ==
    /\ pc = "off"
    /\ starts < MaxStarts /\ starts' = starts + 1
    /\ LoadCheckpoint
    /\ recovered' \in SUBSET MayVanish /\ agenda' = Selected
    /\ pc' = "menu" /\ module' = None /\ stack' = <<>> /\ at' = None
    /\ probed' = {} /\ engineStop' = FALSE
    /\ expired' = FALSE /\ status' = "running"
    /\ UNCHANGED <<cp, stop, faults, retries, troubles>>

MenuStops ==
    /\ pc = "menu" /\ agenda # {}
    /\ PollStops
    /\ engineStop' = TRUE /\ pc' = "end"
    /\ UNCHANGED <<agenda, module, recovered, stack, at, traversal, probed,
                   cp, stop, expired, status, starts, retries>>

SkipCompletedModule ==
    /\ pc = "menu" /\ ~stop
    /\ \E m \in completed : Upcoming(m) /\ agenda' = agenda \ {m}
    /\ UNCHANGED <<pc, module, recovered, stack, at, traversal, probed, engineStop,
                   cp, stop, expired, status, counters>>

EnterModule ==
    /\ pc = "menu" /\ ~stop
    /\ \E m \in Modules \ completed :
        Upcoming(m) /\ module' = m /\ agenda' = agenda \ {m}
    /\ pc' = "visit"
    /\ UNCHANGED <<recovered, stack, at, traversal, probed, engineStop>>
    /\ SaveCheckpoint
    /\ UNCHANGED <<stop, expired, status, counters>>

MenuIsDone ==
    /\ pc = "menu" /\ agenda = {}
    /\ pc' = "end"
    /\ UNCHANGED <<agenda, module, recovered, stack, at, traversal, probed, engineStop,
                   cp, stop, expired, status, counters>>

-----------------------------------------------------------------------------
(* _scan_route: its early returns, its beginning and its overlays.         *)

ControlsOf(r) == {c \in Controls : PageOf[c] = r}

TriggersOf(r) == ControlsOf(r) \cap Triggers

\* The triggers of a page that are counted, the first of them in the page.
Counted(r) == IF Cardinality(TriggersOf(r)) <= MaxTriggers
              THEN {TriggersOf(r)} ELSE kSubset(MaxTriggers, TriggersOf(r))

\* The nodes that add_route creates below a route.
Below(r, new, graph) ==
    [x \in Routes |-> IF x \in new /\ graph[x] = -1 THEN graph[r] + 1 ELSE graph[x]]

ScanIsSkipped(r, seen) == r \notin Scope \/ pages[r] # None \/ r \in seen

\* A route outside the application is reported; the other skips are silent.
SkipScan(r, seen) ==
    /\ ScanIsSkipped(r, seen)
    /\ visited' = seen
    /\ reported' = IF r \in Scope THEN reported ELSE reported \cup {r}

\* The route is marked before it is scanned.
BeginScan(r, seen, graph, waiting, origin, entry) ==
    /\ visited' = seen \cup {r}
    /\ pages' = [pages EXCEPT ![r] = module]
    /\ queue' = waiting
    /\ depth' = [graph EXCEPT ![r] = IF @ = -1 THEN 0 ELSE @]
    /\ \E triggers \in Counted(r) :
        stack' = <<[route |-> r, origin |-> origin, entry |-> entry, phase |-> "overlays",
                    todo |-> triggers, page |-> r, probing |-> None, moved |-> FALSE]>> \o stack
    /\ pc' = "scan"
    /\ UNCHANGED <<queued, failed, reported, completed>>

Top == Head(stack)

InTop(phase) == pc = "scan" /\ Top.phase = phase

\* The page is not the one the controls were read from.
Displaced == at # Top.page \/ Top.moved

\* The press of c leaves the page displaced: it stayed, and its controls changed places.
StaysMoved(c, r) == r = at /\ (Top.moved \/ c \in Shifts)

\* _detect_and_open_overlays: the trigger whose turn it is is found again by its place
\* among the triggers of whatever page is shown, and clicked: nothing looks at what
\* the classifier says of it, or at where the click leads.  What its menu shows is
\* queued, whatever the number of queued routes.
OpenOverlay(c) ==
    LET r == Lands[LeadsTo[c]]
        found == {d \in Overlays[c] \cap Scope : r = at /\ d \notin visited \cup queued}
    IN
    /\ InTop("overlays") /\ ~expired
    /\ \E t \in Top.todo :
        /\ c \in IF Displaced THEN TriggersOf(at) ELSE {t}
        /\ stack' = [stack EXCEPT ![1].todo = @ \ {t}, ![1].moved = StaysMoved(c, r)]
    /\ at' = r
    /\ queue' = queue \cup found
    /\ queued' = queued \cup found
    /\ depth' = Below(Top.route, found, depth)
    /\ UNCHANGED <<pc, agenda, module, recovered, visited, pages, failed, reported, completed,
                   probed, engineStop, cp, stop, expired, status, counters>>

\* There is no such trigger, or the click fails.
OverlayFindsNothing ==
    /\ InTop("overlays")
    /\ \/ ~expired /\ Displaced /\ UNCHANGED at /\ NoFault
       \/ Unreachable /\ at' = IF expired THEN None ELSE at
    /\ \E t \in Top.todo : stack' = [stack EXCEPT ![1].todo = @ \ {t}]
    /\ UNCHANGED <<pc, agenda, module, recovered, traversal, probed, engineStop,
                   cp, stop, expired, status, starts, retries>>

\* The triggers are done, early if the route's own budget is.  The controls to probe are
\* read from the page that is shown now.
OverlaysDone ==
    /\ InTop("overlays")
    /\ (Top.todo = {} /\ NoFault) \/ (Top.todo # {} /\ Fault)
    /\ stack' = [stack EXCEPT ![1].phase = "probe", ![1].todo = {}, ![1].page = at,
                              ![1].moved = FALSE]
    /\ UNCHANGED <<pc, agenda, module, recovered, at, traversal, probed, engineStop,
                   cp, stop, expired, status, starts, retries>>

-----------------------------------------------------------------------------
(* _visit_menu_item.                                                       *)

\* A restored selection forgets that its route was visited, nothing else.
Forgotten == IF module \in recovered THEN visited \ {Home[module]} ELSE visited

MenuRouteKnown ==
    /\ pc = "visit"
    /\ Home[module] \in Forgotten
    /\ pc' = "drain"
    /\ UNCHANGED <<agenda, module, recovered, stack, at, traversal, probed, engineStop,
                   cp, stop, expired, status, counters>>

\* Both attempts failed: the route becomes a NON-WORKING page and the module goes on.
MenuNavigationFails ==
    LET u == Home[module] IN
    /\ pc = "visit"
    /\ u \notin Forgotten
    /\ Unreachable
    /\ visited' = Forgotten \cup {u}
    /\ depth' = [depth EXCEPT ![u] = IF @ = -1 THEN 0 ELSE @]
    /\ pages' = [pages EXCEPT ![u] = module]
    /\ failed' = failed \cup {u}
    /\ reported' = reported \cup {u}
    /\ at' = IF expired THEN None ELSE at
    /\ pc' = "drain"
    /\ UNCHANGED <<agenda, module, recovered, stack, queue, queued, completed, probed,
                   engineStop>>
    /\ SaveCheckpoint
    /\ UNCHANGED <<stop, expired, status, starts, retries>>

MenuNavigates ==
    LET r == Lands[Home[module]] IN
    /\ pc = "visit"
    /\ Home[module] \notin Forgotten
    /\ ~expired
    /\ at' = r
    /\ \/ /\ SkipScan(r, Forgotten)
          /\ pc' = "drain"
          /\ UNCHANGED <<stack, depth, pages, failed, queue, queued, completed>>
       \/ /\ ~ScanIsSkipped(r, Forgotten)
          /\ BeginScan(r, Forgotten, depth, queue, "menu", Home[module])
    /\ UNCHANGED <<agenda, module, recovered, probed, engineStop,
                   cp, stop, expired, status, counters>>

-----------------------------------------------------------------------------
(* _probe_candidate_actions and the end of _scan_route.                    *)

Parked == {c \in Controls : IsParkingLotAction(ClassifyAction(LooksLike[c]))}

\* The controls to press: what the classifier parks and what links out of the
\* application is left alone.
Candidates(r) == {c \in ControlsOf(r) : c \notin Parked /\ (c \in ShowsLink => LeadsTo[c] \in Scope)}

Unprobed == {c \in Candidates(Top.page) : <<Top.route, c>> \notin probed}

SetTop(phase, probe) == stack' = [stack EXCEPT ![1].phase = phase, ![1].probing = probe]

\* The action counts as probed before the poll that may end the loop.
ProbeStops(c) ==
    /\ InTop("probe") /\ Top.probing = None /\ ~engineStop
    /\ c \in Unprobed
    /\ probed' = probed \cup {<<Top.route, c>>}
    /\ PollStops
    /\ engineStop' = TRUE
    /\ UNCHANGED <<pc, agenda, module, recovered, stack, at, traversal,
                   cp, stop, expired, status, starts, retries>>

\* Mutant of StartProbe: the flag that an inner scan has set is not looked at.
MutantProbeIgnoresStop(c) ==
    /\ InTop("probe") /\ Top.probing = None /\ ~stop
    /\ c \in Unprobed
    /\ probed' = probed \cup {<<Top.route, c>>}
    /\ SetTop("probe", c)
    /\ UNCHANGED <<pc, agenda, module, recovered, at, traversal, engineStop>>
    /\ SaveCheckpoint
    /\ UNCHANGED <<stop, expired, status, counters>>

StartProbe(c) ==
    /\ InTop("probe") /\ Top.probing = None /\ ~engineStop /\ ~stop
    /\ c \in Unprobed
    /\ probed' = probed \cup {<<Top.route, c>>}
    /\ SetTop("probe", c)
    /\ UNCHANGED <<pc, agenda, module, recovered, at, traversal, engineStop>>
    /\ SaveCheckpoint
    /\ UNCHANGED <<stop, expired, status, counters>>

\* _restore_parent_state: a page that is shown is not loaded again, and the result is
\* not looked at.
Restore(parent, shown) ==
    IF shown = parent THEN at' = parent /\ NoFault
    ELSE \/ ~expired /\ at' = parent /\ NoFault
         \/ expired /\ at' = None /\ NoFault
         \/ ~expired /\ at' = shown /\ Fault

\* The control is found again by its place among the controls of whatever page is
\* shown: on another page, or one that has changed, it may be any of them.
Hit == IF at = None THEN {} ELSE IF Displaced THEN ControlsOf(at) ELSE {Top.probing}

\* Mutant of Traversed: only routes that have a verdict count as traversed.
MutantTraversedIfFailed(c) == c \in failed

Traversed(c) == c \in visited \/ pages[c] # None

\* The control changes the page without leaving the route.
PressInPlace(c) ==
    LET r == Lands[LeadsTo[c]] IN
    /\ c \in Hit /\ ~expired
    /\ r \in {at, Top.route} \cap Scope
    /\ at' = r
    /\ stack' = [stack EXCEPT ![1].probing = None, ![1].moved = StaysMoved(c, r)]
    /\ NoFault
    /\ UNCHANGED <<pc, agenda, module, recovered, traversal, probed, engineStop,
                   cp, stop, expired, status, starts, retries>>

\* The probe times out, fails, or finds no such control.
ProbeFindsNoControl ==
    /\ InTop("probe") /\ Top.probing # None
    /\ \/ ~expired /\ Displaced /\ UNCHANGED at /\ NoFault
       \/ Unreachable /\ at' = IF expired THEN None ELSE at
    /\ SetTop("probe", None)
    /\ UNCHANGED <<pc, agenda, module, recovered, traversal, probed, engineStop,
                   cp, stop, expired, status, starts, retries>>

\* It leads out of scope, to a known route, or too deep: back to the parent.
PressLeadsNowhere(c) ==
    LET r == Lands[LeadsTo[c]] IN
    /\ c \in Hit /\ ~expired
    /\ \/ r \notin Scope
       \/ r \notin {Top.route, at} /\ (Traversed(r) \/ depth[Top.route] >= MaxDepth)
    /\ depth' = Below(Top.route, {r} \cap Scope, depth)
    /\ Restore(Top.route, r)
    /\ stack' = [stack EXCEPT ![1].probing = None, ![1].moved = FALSE]
    /\ UNCHANGED <<pc, agenda, module, recovered, visited, pages, failed, queue, queued,
                   reported, completed, probed, engineStop,
                   cp, stop, expired, status, starts, retries>>

\* It reveals a child route: save the parent, then scan the child.
PressOpensChild(c) ==
    LET r == Lands[LeadsTo[c]]
        graph == Below(Top.route, {r}, depth)
    IN
    /\ c \in Hit /\ ~expired
    /\ r \notin {Top.route, at}
    /\ r \in Scope /\ ~Traversed(r) /\ depth[Top.route] < MaxDepth
    /\ BeginScan(r, visited, graph, queue, "probe", r)
    /\ at' = r
    /\ cp' = [visited |-> visited, depth |-> graph, pages |-> pages, failed |-> failed,
              pending |-> queue, reported |-> reported, completed |-> completed]
    /\ UNCHANGED <<agenda, module, recovered, probed, engineStop,
                   stop, expired, status, counters>>

\* InteractionProbeEngine.probe_action presses what the locator finds; it looks at
\* the control that was classified, not at the one that is pressed.
Press(c) ==
    /\ InTop("probe") /\ Top.probing # None
    /\ PressInPlace(c) \/ PressLeadsNowhere(c) \/ PressOpensChild(c)

\* What the scan measures of a route: a session that is gone may show its login page,
\* and after a fault or on another page it may be broken, unsettled or not loaded.
SeenAs(s, left) ==
    {[s EXCEPT !.login = l, !.redirected = @ \/ left] : l \in {FALSE, expired}}

AsSeen(r) == UNION {SeenAs(s, at # r) : s \in PageSignals[r]}

Measured(r, faulty) ==
    IF ~faulty /\ at = r THEN AsSeen(r)
    ELSE AsSeen(r) \cup UNION {{[s EXCEPT !.broken = TRUE], [s EXCEPT !.stable = FALSE],
                                [s EXCEPT !.loaded = FALSE]} : s \in AsSeen(r)}

\* The loop over the actions is over, early if the route's own budget is, and the
\* route is scored.
ScoreRoute ==
    LET r == Top.route IN
    /\ InTop("probe") /\ Top.probing = None
    /\ \E faulty \in BOOLEAN : \E signals \in Measured(r, faulty) :
        /\ IF faulty THEN Fault ELSE (engineStop \/ Unprobed = {}) /\ NoFault
        /\ failed' = IF Status(signals) = "NON-WORKING" THEN failed \cup {r} ELSE failed \ {r}
    /\ SetTop("links", None)
    /\ UNCHANGED <<pc, agenda, module, recovered, at, visited, depth, pages, queue, queued,
                   reported, completed, probed, engineStop>>
    /\ SaveCheckpoint
    /\ UNCHANGED <<stop, expired, status, starts, retries>>

\* The probe of the parent is over; the page is still moved if it was not loaded again.
ParentResumes ==
    stack' = [Tail(stack) EXCEPT ![1].probing = None, ![1].moved = (at' = at /\ Top.moved)]

\* Mutant of ReturnFromScan: the parent goes on with the page of the child.
MutantReturnStaysOnChild ==
    IF Top.origin = "probe"
    THEN /\ UNCHANGED <<pc, at>>
         /\ ParentResumes
         /\ NoFault
    ELSE /\ stack' = Tail(stack)
         /\ pc' = "drain"
         /\ UNCHANGED at
         /\ NoFault

\* The call returns, to the queue or to the parent's probe loop.
ReturnFromScan ==
    IF Top.origin = "probe"
    THEN /\ UNCHANGED pc
         /\ Restore(Tail(stack)[1].route, at)
         /\ ParentResumes
    ELSE /\ stack' = Tail(stack)
         /\ pc' = "drain"
         /\ UNCHANGED at
         /\ NoFault

\* _queue_page_routes reads the page the browser shows; the number of queued
\* routes is looked at once, before the page's links are added.
QueueLinks ==
    LET r == Top.route
        shown == IF at = None \/ Cardinality(queued) >= MaxDiscovered THEN {} ELSE Links[at]
        found == {d \in shown \cap Scope : d # r /\ d \notin queued /\ d \notin visited}
    IN /\ InTop("links")
       /\ queue' = queue \cup found
       /\ queued' = queued \cup found
       /\ depth' = Below(r, found, depth)
       /\ UNCHANGED <<visited, pages, failed, reported, completed>>
       /\ SaveCheckpoint
       /\ ReturnFromScan
       /\ UNCHANGED <<agenda, module, recovered, probed, engineStop,
                      stop, expired, status, starts, retries>>

\* An exception leaves _scan_route: the probe loop of the parent swallows it, the
\* queue reports the URL it was visiting, and a menu visit ends the crawl.
ScanRaises ==
    /\ pc = "scan"
    /\ Fault
    /\ \/ /\ Top.origin = "probe"
          /\ at' \in IF expired THEN {None} ELSE {Tail(stack)[1].route, at}
          /\ ParentResumes
          /\ UNCHANGED <<pc, reported, status>>
       \/ /\ Top.origin = "queue"
          /\ stack' = Tail(stack)
          /\ reported' = reported \cup {Top.entry}
          /\ pc' = "drain"
          /\ UNCHANGED <<at, status>>
       \/ /\ Top.origin = "menu"
          /\ stack' = Tail(stack)
          /\ pc' = "off" /\ status' = "partial_scanned"
          /\ UNCHANGED <<at, reported>>
    /\ UNCHANGED <<agenda, module, recovered, visited, depth, pages, failed, queue, queued,
                   completed, probed, engineStop, cp, stop, expired, starts, retries>>

-----------------------------------------------------------------------------
(* _drain_discovered_routes and _visit_discovered_route.                   *)

DrainStops ==
    /\ pc = "drain" /\ queue # {} /\ ~engineStop
    /\ PollStops
    /\ engineStop' = TRUE /\ pc' = "review"
    /\ UNCHANGED <<agenda, module, recovered, stack, at, traversal, probed,
                   cp, stop, expired, status, starts, retries>>

\* Mutant of DrainIsDone: the queue is drained once, not until it is empty.
MutantDrainsOnce ==
    /\ pc = "drain"
    /\ pc' = "review"
    /\ UNCHANGED <<agenda, module, recovered, stack, at, traversal, probed, engineStop,
                   cp, stop, expired, status, counters>>

DrainIsDone ==
    /\ pc = "drain"
    /\ queue = {} \/ engineStop
    /\ pc' = "review"
    /\ UNCHANGED <<agenda, module, recovered, stack, at, traversal, probed, engineStop,
                   cp, stop, expired, status, counters>>

\* Mutant of VisitQueued: a URL that cannot be loaded waits for another attempt.
MutantRequeueUnreachable(u) ==
    /\ pc = "drain" /\ ~engineStop /\ ~stop
    /\ u \in queue
    /\ \/ /\ u \notin visited
          /\ Unreachable
          /\ reported' = reported \cup {u}
          /\ at' = IF expired THEN None ELSE at
          /\ UNCHANGED <<pc, stack, visited, depth, pages, failed, queue, queued, completed>>
       \/ /\ u \in visited \/ ~expired
          /\ queue' = queue \ {u}
          /\ UNCHANGED <<pc, stack, at, visited, depth, pages, failed, queued, reported,
                         completed, faults, troubles>>
    /\ UNCHANGED <<agenda, module, recovered, probed, engineStop,
                   cp, stop, expired, status, starts, retries>>

\* The queue in any order: the code's, first in first out, is one of them.
VisitQueued(u) ==
    /\ pc = "drain" /\ ~engineStop /\ ~stop
    /\ u \in queue
    /\ \/ /\ u \in visited
          /\ queue' = queue \ {u}
          /\ UNCHANGED <<pc, stack, at, visited, depth, pages, failed, queued, reported,
                         completed, faults, troubles>>
       \/ /\ u \notin visited
          /\ Unreachable
          /\ queue' = queue \ {u}
          /\ reported' = reported \cup {u}
          /\ at' = IF expired THEN None ELSE at
          /\ UNCHANGED <<pc, stack, visited, depth, pages, failed, queued, completed>>
       \/ /\ u \notin visited /\ ~expired
          /\ at' = Lands[u]
          /\ NoFault
          /\ \/ /\ SkipScan(Lands[u], visited)
                /\ queue' = queue \ {u}
                /\ UNCHANGED <<pc, stack, depth, pages, failed, queued, completed>>
             \/ /\ ~ScanIsSkipped(Lands[u], visited)
                /\ BeginScan(Lands[u], visited, depth, queue \ {u}, "queue", u)
    /\ UNCHANGED <<agenda, module, recovered, probed, engineStop,
                   cp, stop, expired, status, starts, retries>>

-----------------------------------------------------------------------------
(* _review_module and the end of a module.                                 *)

\* The review shows the page of the menu entry, whichever module scanned it, or
\* the one it landed on; without one it says "continue".
CanReview ==
    /\ Interactive /\ ~engineStop
    /\ pages[Home[module]] # None \/ pages[Lands[Home[module]]] = module

CompleteModule ==
    /\ pc = "review"
    /\ ~CanReview \/ ~stop
    /\ completed' = completed \cup {module}
    /\ pc' = IF engineStop THEN "end" ELSE "menu"
    /\ UNCHANGED <<agenda, module, recovered, stack, at, visited, depth, pages, failed,
                   queue, queued, reported, probed, engineStop>>
    /\ SaveCheckpoint
    /\ UNCHANGED <<stop, expired, status, counters>>

\* The user ends the scan, in the page or through the API.
ReviewEnds ==
    /\ pc = "review" /\ CanReview
    /\ engineStop' = TRUE
    /\ completed' = completed \cup {module}
    /\ pc' = "end"
    /\ troubles' = troubles \cup {"stop"}
    /\ UNCHANGED <<agenda, module, recovered, stack, at, visited, depth, pages, failed,
                   queue, queued, reported, probed>>
    /\ SaveCheckpoint
    /\ UNCHANGED <<stop, expired, status, starts, faults, retries>>

ModuleRoutes == {Home[module]} \cup {r \in Routes : pages[r] = module}

\* _reset_module_state forgets the module's routes, but not which controls of
\* its pages were probed.
RetryModule ==
    /\ pc = "review" /\ CanReview /\ ~stop
    /\ retries < MaxRetries /\ retries' = retries + 1
    /\ troubles' = troubles \cup {"retry"}
    /\ pages' = [r \in Routes |-> IF r \in ModuleRoutes THEN None ELSE pages[r]]
    /\ visited' = visited \ ModuleRoutes
    /\ failed' = failed \ ModuleRoutes
    /\ queue' = queue \ ModuleRoutes
    /\ queued' = queued \ ModuleRoutes
    /\ pc' = "visit"
    /\ UNCHANGED <<agenda, module, recovered, stack, at, depth, reported, completed, probed,
                   engineStop>>
    /\ SaveCheckpoint
    /\ UNCHANGED <<stop, expired, status, starts, faults>>

\* crawl() returns and run_scan writes the final status.
Finish ==
    /\ pc = "end"
    /\ pc' = "off"
    /\ status' = IF engineStop \/ ~(Selected \subseteq completed)
                 THEN "partial_scanned" ELSE "scanned"
    /\ UNCHANGED <<agenda, module, recovered, stack, at, traversal, probed, engineStop>>
    /\ SaveCheckpoint
    /\ UNCHANGED <<stop, expired, counters>>

-----------------------------------------------------------------------------
(* What interferes.                                                        *)

StopRequest ==
    /\ pc # "off" /\ ~stop
    /\ stop' = TRUE
    /\ troubles' = troubles \cup {"stop"}
    /\ UNCHANGED <<memory, cp, expired, status, starts, faults, retries>>

SessionExpires ==
    /\ pc # "off" /\ ~expired
    /\ Fault
    /\ expired' = TRUE
    /\ UNCHANGED <<memory, cp, stop, status, starts, retries>>

\* The process dies: the engine and the control flags go, the checkpoint stays.
Crash ==
    /\ pc # "off"
    /\ pc' = "off" /\ agenda' = {} /\ module' = None /\ recovered' = {}
    /\ stack' = <<>> /\ at' = None
    /\ visited' = {} /\ depth' = [r \in Routes |-> -1]
    /\ pages' = [r \in Routes |-> None] /\ failed' = {}
    /\ queue' = {} /\ queued' = {} /\ reported' = {} /\ probed' = {}
    /\ completed' = {} /\ engineStop' = FALSE
    /\ stop' = FALSE /\ expired' = FALSE
    /\ troubles' = troubles \cup {"crash"}
    /\ UNCHANGED <<cp, status, starts, faults, retries>>

Scanning ==
    \/ MenuNavigates \/ MenuNavigationFails \/ MenuRouteKnown
    \/ (\E c \in Controls : OpenOverlay(c)) \/ OverlayFindsNothing \/ OverlaysDone
    \/ \E c \in Controls : ProbeStops(c) \/ StartProbe(c)
    \/ ProbeFindsNoControl \/ \E c \in Controls : Press(c)
    \/ ScoreRoute \/ QueueLinks \/ ScanRaises

CrawlStep ==
    \/ MenuStops \/ SkipCompletedModule \/ EnterModule \/ MenuIsDone
    \/ Scanning
    \/ DrainStops \/ DrainIsDone \/ \E u \in Routes : VisitQueued(u)
    \/ CompleteModule \/ ReviewEnds \/ RetryModule
    \/ Finish

Next == StartCrawl \/ CrawlStep \/ StopRequest \/ SessionExpires \/ Crash

Spec == Init /\ [][Next]_vars

\* The crawler's thread runs: every wait in it has a timeout, so a step that is
\* possible is taken.  Nothing makes a user act or a process survive.
LiveSpec == Spec /\ WF_vars(CrawlStep)

-----------------------------------------------------------------------------
(* Properties.                                                             *)

Frames == [route : Routes, origin : {"menu", "queue", "probe"}, entry : Routes,
           phase : {"overlays", "probe", "links"}, todo : SUBSET Controls,
           page : Routes \cup {None}, probing : Controls \cup {None}, moved : BOOLEAN]

Checkpoints == [visited : SUBSET Routes, depth : [Routes -> Int],
                pages : [Routes -> Modules \cup {None}], failed : SUBSET Routes,
                pending : SUBSET Routes, reported : SUBSET Routes,
                completed : SUBSET Modules]

TypeOK ==
    /\ pc \in {"off", "menu", "visit", "scan", "drain", "review", "end"}
    /\ agenda \subseteq Modules
    /\ module \in Modules \cup {None}
    /\ recovered \subseteq Modules
    /\ stack \in Seq(Frames)
    /\ at \in Routes \cup {None}
    /\ visited \subseteq Routes /\ failed \subseteq Routes /\ reported \subseteq Routes
    /\ queue \subseteq queued /\ queued \subseteq Routes
    /\ depth \in [Routes -> Int]
    /\ pages \in [Routes -> Modules \cup {None}]
    /\ probed \subseteq Routes \X Controls
    /\ completed \subseteq Modules
    /\ engineStop \in BOOLEAN /\ stop \in BOOLEAN /\ expired \in BOOLEAN
    /\ cp \in Checkpoints
    /\ status \in {"new", "running", "partial_scanned", "scanned"}
    /\ starts \in 0..MaxStarts /\ faults \in 0..MaxFaults /\ retries \in 0..MaxRetries
    /\ troubles \subseteq {"fault", "stop", "retry", "crash"}

\* The triggers of a page open their menus in place, so that the crawler is on the page
\* when it reads the controls to probe and the links.
Steady(r) == \A c \in TriggersOf(r) : Lands[LeadsTo[c]] = r /\ c \notin Shifts

\* The routes in its menus and dropdowns.
InMenus(r) == UNION {Overlays[c] : c \in TriggersOf(r)}

\* The routes that a crawl of the selected modules can come to by controls,
\* overlays and links of steady pages, redirects followed.
Reachable ==
    LET follows(R) == {Lands[d] : d \in UNION {{LeadsTo[c] : c \in Candidates(r)} \cup InMenus(r)
                                               \cup Links[r] : r \in {p \in R : Steady(p)}}}
        starting == {Lands[Home[m]] : m \in Selected}
        closed(R) == (starting \cup follows(R)) \cap Scope \subseteq R
    IN {r \in Scope : \A R \in SUBSET Scope : closed(R) => r \in R}

\* The routes that a scan may find NON-WORKING although nothing fails.
MayFail == {r \in Routes : ~Steady(r) \/ \E s \in PageSignals[r] : Status(s) = "NON-WORKING"}

\* A control that leads into the page it is on, a cycle of links or a redirect
\* never makes the crawler scan a route inside the scan of the same route; the
\* suspended scans are exactly the ones that wait for a probe.
ScansAreNested ==
    /\ \A i, j \in DOMAIN stack : stack[i].route = stack[j].route => i = j
    /\ \A i \in DOMAIN stack :
        /\ i > 1 => stack[i].phase = "probe" /\ stack[i].probing # None
        /\ stack[i].origin = "probe" <=> i < Len(stack)
        /\ stack[i].route \in visited \cap Scanned(pages)

\* A run that says "scanned", and that nothing disturbed, has scanned every route
\* that its modules lead to, on a site within MaxDiscovered, MaxTriggers and MaxDepth:
\* the early returns, the duplicate checks and the restored parents lose none.  What is
\* only found on a page that the crawler's own clicks on its menus leave is not promised.
\* Another start keeps them, but for the NON-WORKING ones (_load_checkpoint).
ScannedRunIsComplete ==
    status = "scanned" /\ troubles = {} =>
        (IF starts = 1 THEN Reachable ELSE Reachable \ MayFail) \subseteq Scanned(cp.pages)

\* Whatever dies, stops or fails, the pages and modules of the checkpoint are kept
\* by every later one, unless the user retries their module or the page itself was
\* NON-WORKING.
CheckpointOnlyGrows ==
    [][/\ cp.completed \subseteq cp'.completed
       /\ \/ pc = "review" /\ pc' = "visit"
          \/ Scanned(cp.pages) \ cp.failed \subseteq Scanned(cp'.pages)]_vars

\* Once the crawler has seen that it must stop, no further route is opened,
\* however deep in the scans it is.
StoppedCrawlOpensNothing ==
    [][engineStop /\ engineStop' => visited' = visited /\ Len(stack') <= Len(stack)]_vars

\* A crawl comes to an end: the queue, the probes and the retries cannot feed
\* each other forever.
CrawlTerminates == [](pc = "menu" => <>(pc = "off"))

\* A probe never presses a control that the classifier parks, unless the site failed,
\* the page was changed in place, or a click on one of its menus left the page before
\* its controls were read: the parent is shown again before its next control is looked
\* for by its place.
ParkedIsNotProbed ==
    [][\A c \in Parked : Press(c) => "fault" \in troubles' \/ Top.moved \/ ~Steady(Top.route)]_vars

\* "Only executes actions classified as safe" (interaction_probe_engine.py:4); it
\* does not hold, and a run finds the counterexample.
NothingParkedIsPressed == [][\A c \in Parked : ~Press(c)]_vars

\* "The crawler is strictly prohibited from clicking parked actions automatically"
\* (SOFTWARE_REQUIREMENTS_DOCUMENT.md:47); it does not hold: a parked control which
\* opens a menu is clicked (MCCrawlEngineTriggers.cfg).
NoParkedTriggerIsClicked == [][\A c \in Parked : ~OpenOverlay(c)]_vars
=============================================================================
