-------------------------- MODULE CrawlEngineProofs --------------------------
(***************************************************************************)
(* Proofs about CrawlEngine for every application, whatever its routes,    *)
(* controls, redirects and links, and for every number of starts, faults   *)
(* and retries: the types, that no route is scanned inside its own scan,   *)
(* what a checkpoint keeps, what a stop ends, what is never pressed, and   *)
(* that a run that nothing disturbs loses no route.                        *)
(***************************************************************************)
EXTENDS CrawlEngine, FiniteSetTheorems, SequenceTheorems, TLAPS

\* The assumptions, constant by constant.
LEMMA Constant ==
    /\ None \notin Modules /\ None \notin Routes /\ None \notin Controls
    /\ MayVanish \subseteq Selection /\ Selection \subseteq Modules
    /\ Scope \subseteq Routes /\ \A r \in Routes : Lands[r] \in Routes
    /\ \A m \in Modules : Home[m] \in Routes
    /\ \A r \in Routes : Links[r] \subseteq Routes
    /\ \A c \in Controls : /\ PageOf[c] \in Routes /\ LeadsTo[c] \in Routes
                           /\ Overlays[c] \subseteq Routes
    /\ MaxStarts \in Nat /\ MaxFaults \in Nat /\ MaxRetries \in Nat
BY MenuAssumption, SiteAssumption, BoundAssumption

---------------------------------------------------------------------------
(* The inductive invariant.                                                *)

Traversal ==
    /\ visited \subseteq Routes /\ failed \subseteq Routes /\ reported \subseteq Routes
    /\ queue \subseteq queued /\ queued \subseteq Routes
    /\ depth \in [Routes -> Int] /\ pages \in [Routes -> Modules \cup {None}]
    /\ completed \subseteq Modules

Engine ==
    /\ agenda \subseteq Modules /\ recovered \subseteq Modules
    /\ probed \subseteq Routes \X Controls
    /\ module \in Modules \cup {None} /\ at \in Routes \cup {None}

Flags ==
    /\ pc \in {"off", "menu", "visit", "scan", "drain", "review", "end"}
    /\ engineStop \in BOOLEAN /\ stop \in BOOLEAN /\ expired \in BOOLEAN
    /\ status \in {"new", "running", "partial_scanned", "scanned"}

Counts ==
    /\ starts \in 0..MaxStarts /\ faults \in 0..MaxFaults /\ retries \in 0..MaxRetries
    /\ troubles \subseteq {"fault", "stop", "retry", "crash"}

\* A module is at work from its visit to its review.
AtWork == pc \in {"visit", "scan", "drain", "review"} => module # None

\* The scans s at work, with the routes that are visited and the pages that are kept.
\* A control that is probed is one of the page's candidates, a trigger to open one of the
\* route's triggers.
Sound(f) ==
    /\ f.probing \in Candidates(f.page) \cup {None} /\ f.todo \subseteq TriggersOf(f.route)
    /\ f.phase = "overlays" => f.probing = None
Framed(s) == s \in Seq(Frames) /\ \A i \in DOMAIN s : Sound(s[i])
Nested(s, seen, doc) ==
    /\ \A i, j \in DOMAIN s : s[i].route = s[j].route => i = j
    /\ \A i \in DOMAIN s :
        /\ i > 1 => s[i].phase = "probe" /\ s[i].probing # None
        /\ s[i].origin = "probe" <=> i < Len(s)
        /\ s[i].route \in seen \cap Scanned(doc)
Scans ==
    /\ Framed(stack) /\ Nested(stack, visited, pages)
    /\ pc = "scan" <=> stack # <<>>

\* Once the crawler must stop it neither visits nor probes.
Stopped ==
    engineStop => /\ pc \notin {"menu", "visit"}
                  /\ pc = "scan" => stack[1].probing = None

\* As long as the site does not fail, a steady page is the one whose controls were read,
\* and the browser shows the page of the innermost scan if it is steady.
Paged(s) == \A i \in DOMAIN s : Steady(s[i].route) => s[i].page = s[i].route
Fits(f, shown) ==
    Steady(f.route) => /\ shown = f.route /\ f.page = f.route
                       /\ f.phase = "overlays" => ~f.moved
Faced ==
    "fault" \notin troubles => /\ ~expired /\ Paged(stack)
                               /\ pc = "scan" => Fits(stack[1], at)

\* An engine at work has what the checkpoint keeps.
Kept ==
    pc # "off" => /\ cp.completed \subseteq completed
                  /\ Scanned(cp.pages) \ cp.failed \subseteq Scanned(pages)

IInv ==
    /\ Traversal /\ Engine /\ Flags /\ Counts /\ cp \in Checkpoints
    /\ AtWork /\ Scans /\ Stopped /\ Faced /\ Kept

---------------------------------------------------------------------------
(* The stack of scans.                                                     *)

LEMMA TopOf ==
    ASSUME NEW s, Framed(s), s # <<>>
    PROVE  /\ Head(s) = s[1] /\ s[1] \in Frames /\ Len(s) \in Nat /\ Len(s) >= 1
           /\ 1 \in DOMAIN s /\ Sound(s[1])
BY DEF Framed

\* A frame of the same scan.
Continues(f, s) ==
    /\ f \in Frames /\ f.route = s[1].route /\ f.origin = s[1].origin /\ Sound(f)

\* The innermost scan goes on.
LEMMA TopChanges ==
    ASSUME NEW s, NEW seen, NEW doc, Framed(s), Nested(s, seen, doc), s # <<>>,
           NEW f, Continues(f, s)
    PROVE  /\ Framed([s EXCEPT ![1] = f]) /\ Nested([s EXCEPT ![1] = f], seen, doc)
           /\ [s EXCEPT ![1] = f] # <<>> /\ [s EXCEPT ![1] = f][1] = f
           /\ Len([s EXCEPT ![1] = f]) = Len(s)
           /\ Paged(s) /\ (Steady(f.route) => f.page = f.route) => Paged([s EXCEPT ![1] = f])
<1> DEFINE t == [s EXCEPT ![1] = f]
<1>0. f \in Frames /\ f.route = s[1].route /\ f.origin = s[1].origin /\ Sound(f)
  BY DEF Continues
<1>1. /\ t \in Seq(Frames) /\ DOMAIN t = DOMAIN s /\ Len(t) = Len(s) /\ t # <<>> /\ t[1] = f
      /\ \A i \in DOMAIN s : i # 1 => t[i] = s[i]
  BY <1>0 DEF Framed
<1> HIDE DEF t
<1>2. \A i \in DOMAIN s : t[i].route = s[i].route /\ t[i].origin = s[i].origin
  BY <1>0, <1>1
<1>3. Framed(t)
  BY <1>0, <1>1 DEF Framed
<1>4. Nested(t, seen, doc)
  <2>1. \A i \in DOMAIN s : i > 1 => t[i].phase = "probe" /\ t[i].probing # None
    BY <1>1 DEF Nested, Framed
  <2> QED
    BY <1>1, <1>2, <2>1 DEF Nested
<1>5. Paged(s) /\ (Steady(f.route) => f.page = f.route) => Paged(t)
  BY <1>1 DEF Paged
<1> QED
  BY <1>1, <1>3, <1>4, <1>5 DEF t

\* A scan begins, on its own or inside the scan that waits for its probe.
Begins(f, s, seen, doc, more, doc2) ==
    /\ f \in Frames /\ f.phase = "overlays" /\ Sound(f) /\ f.route \notin seen
    /\ IF s = <<>> THEN f.origin # "probe"
                   ELSE f.origin = "probe" /\ s[1].phase = "probe" /\ s[1].probing # None
    /\ seen \cup {f.route} \subseteq more
    /\ Scanned(doc) \cup {f.route} \subseteq Scanned(doc2)

LEMMA Pushed ==
    ASSUME NEW s, NEW seen, NEW doc, Framed(s), Nested(s, seen, doc),
           NEW f, NEW more, NEW doc2, Begins(f, s, seen, doc, more, doc2)
    PROVE  /\ Framed(<<f>> \o s) /\ Nested(<<f>> \o s, more, doc2)
           /\ <<f>> \o s # <<>> /\ (<<f>> \o s)[1] = f
           /\ Paged(s) /\ f.page = f.route => Paged(<<f>> \o s)
<1> DEFINE t == <<f>> \o s
<1>0. /\ f \in Frames /\ f.phase = "overlays" /\ Sound(f) /\ f.route \notin seen
      /\ s = <<>> => f.origin # "probe"
      /\ s # <<>> => f.origin = "probe" /\ s[1].phase = "probe" /\ s[1].probing # None
      /\ seen \cup {f.route} \subseteq more
      /\ Scanned(doc) \cup {f.route} \subseteq Scanned(doc2)
  BY DEF Begins
<1>1. /\ t \in Seq(Frames) /\ Len(t) = Len(s) + 1 /\ t # <<>> /\ t[1] = f /\ Len(s) \in Nat
      /\ \A i \in DOMAIN t : i # 1 => i - 1 \in DOMAIN s /\ t[i] = s[i - 1]
      /\ DOMAIN t = 1..Len(t) /\ DOMAIN s = 1..Len(s)
  BY <1>0 DEF Framed
<1> HIDE DEF t
<1>2. Framed(t)
  BY <1>0, <1>1 DEF Framed
<1>3. \A i, j \in DOMAIN t : t[i].route = t[j].route => i = j
  <2> SUFFICES ASSUME NEW i \in DOMAIN t, NEW j \in DOMAIN t, t[i].route = t[j].route
               PROVE  i = j
    OBVIOUS
  <2>1. CASE i = 1 \/ j = 1
    BY <1>0, <1>1, <2>1 DEF Nested
  <2>2. CASE i # 1 /\ j # 1
    <3>1. /\ i - 1 \in DOMAIN s /\ j - 1 \in DOMAIN s
          /\ s[i - 1].route = s[j - 1].route
      BY <1>1, <2>2
    <3>2. i - 1 = j - 1
      BY <3>1 DEF Nested
    <3> QED
      BY <1>1, <3>2
  <2> QED
    BY <2>1, <2>2
<1>4. ASSUME NEW i \in DOMAIN t
      PROVE  /\ i > 1 => t[i].phase = "probe" /\ t[i].probing # None
             /\ t[i].origin = "probe" <=> i < Len(t)
             /\ t[i].route \in more \cap Scanned(doc2)
  <2>1. CASE i = 1
    <3>1. t[i] = f /\ (1 < Len(t) <=> s # <<>>)
      BY <1>1, <2>1, EmptySeq
    <3> QED
      BY <1>0, <1>1, <2>1, <3>1
  <2>2. CASE i # 1
    <3>1. i - 1 \in DOMAIN s /\ t[i] = s[i - 1] /\ i \in Nat /\ (i - 1 < Len(s) <=> i < Len(t))
      BY <1>1, <2>2
    <3>2. /\ s[i - 1].origin = "probe" <=> i - 1 < Len(s)
          /\ s[i - 1].route \in seen \cap Scanned(doc)
      BY <3>1 DEF Nested
    <3>3. s[i - 1].phase = "probe" /\ s[i - 1].probing # None
      <4>1. CASE i - 1 = 1
        BY <1>0, <1>1, <3>1, <4>1
      <4>2. CASE i - 1 > 1
        BY <3>1, <4>2 DEF Nested
      <4> QED
        BY <1>1, <3>1, <4>1, <4>2
    <3> QED
      BY <1>0, <3>1, <3>2, <3>3
  <2> QED
    BY <2>1, <2>2
<1>5. Nested(t, more, doc2) /\ t # <<>> /\ t[1] = f
  BY <1>1, <1>3, <1>4 DEF Nested
<1>6. Paged(s) /\ f.page = f.route => Paged(t)
  BY <1>1 DEF Paged
<1> QED
  BY <1>2, <1>5, <1>6 DEF t

\* The innermost scan returns to the scan that waits for it, if there is one.
LEMMA Popped ==
    ASSUME NEW s, NEW seen, NEW doc, Framed(s), Nested(s, seen, doc), s # <<>>,
           NEW t, t = Tail(s)
    PROVE  /\ Framed(t) /\ Nested(t, seen, doc)
           /\ s[1].origin = "probe" <=> t # <<>>
           /\ t # <<>> => t[1].phase = "probe"
           /\ Paged(s) => Paged(t)
<1>1. /\ t \in Seq(Frames) /\ Len(t) = Len(s) - 1 /\ Len(s) \in Nat /\ Len(s) >= 1
      /\ DOMAIN t = 1..Len(t) /\ DOMAIN s = 1..Len(s)
      /\ \A i \in DOMAIN t : i + 1 \in DOMAIN s /\ t[i] = s[i + 1]
  BY DEF Framed
<1>2. Framed(t)
  BY <1>1 DEF Framed
<1>3. \A i, j \in DOMAIN t : t[i].route = t[j].route => i = j
  <2> SUFFICES ASSUME NEW i \in DOMAIN t, NEW j \in DOMAIN t, t[i].route = t[j].route
               PROVE  i = j
    OBVIOUS
  <2>1. i + 1 \in DOMAIN s /\ j + 1 \in DOMAIN s /\ s[i + 1].route = s[j + 1].route
    BY <1>1
  <2>2. i + 1 = j + 1
    BY <2>1 DEF Nested
  <2> QED
    BY <1>1, <2>2
<1>4. ASSUME NEW i \in DOMAIN t
      PROVE  /\ t[i].phase = "probe" /\ t[i].probing # None
             /\ t[i].origin = "probe" <=> i < Len(t)
             /\ t[i].route \in seen \cap Scanned(doc)
  <2>1. /\ i + 1 \in DOMAIN s /\ t[i] = s[i + 1] /\ i + 1 > 1
        /\ (i + 1 < Len(s) <=> i < Len(t))
    BY <1>1
  <2> QED
    BY <2>1 DEF Nested
<1>5. s[1].origin = "probe" <=> t # <<>>
  <2>1. s[1].origin = "probe" <=> 1 < Len(s)
    BY <1>1 DEF Nested
  <2>2. t = <<>> <=> Len(t) = 0
    BY <1>1, EmptySeq
  <2>3. Len(t) \in Nat /\ (1 < Len(s) <=> Len(t) # 0)
    BY <1>1
  <2> QED
    BY <2>1, <2>2, <2>3
<1>6. t # <<>> => t[1].phase = "probe"
  BY <1>1, <1>4
<1>7. Paged(s) => Paged(t)
  BY <1>1 DEF Paged
<1> QED
  BY <1>2, <1>3, <1>4, <1>5, <1>6, <1>7 DEF Nested

\* More is visited and kept.
LEMMA NestedGrows ==
    ASSUME NEW s, NEW seen, NEW doc, Nested(s, seen, doc), NEW more, seen \subseteq more,
           NEW doc2, Scanned(doc) \subseteq Scanned(doc2)
    PROVE  Nested(s, more, doc2)
BY DEF Nested

---------------------------------------------------------------------------
(* Faults, the checkpoint, and what a scan adds.                           *)

LEMMA FaultCounted ==
    ASSUME Counts, Fault \/ NoFault, UNCHANGED <<starts, retries>>
    PROVE  Counts' /\ troubles \subseteq troubles' /\ (Fault => "fault" \in troubles')
<1>1. starts' = starts /\ retries' = retries
  OBVIOUS
<1>2. CASE Fault
  <2>1. faults < MaxFaults /\ faults' = faults + 1 /\ troubles' = troubles \cup {"fault"}
    BY <1>2 DEF Fault
  <2>2. faults' \in 0..MaxFaults
    BY <2>1, Constant DEF Counts
  <2> QED
    BY <1>1, <2>1, <2>2 DEF Counts
<1>3. CASE ~Fault
  <2>1. faults' = faults /\ troubles' = troubles
    BY <1>3 DEF NoFault
  <2> QED
    BY <1>1, <1>3, <2>1 DEF Counts
<1> QED
  BY <1>2, <1>3

LEMMA Saved ==
    ASSUME Traversal', SaveCheckpoint
    PROVE  cp' \in Checkpoints /\ Kept' /\ cp'.completed = completed' /\ cp'.pages = pages'
<1>1. /\ cp' \in Checkpoints /\ cp'.completed = completed' /\ cp'.pages = pages'
      /\ cp'.failed = failed'
  BY DEF SaveCheckpoint, Traversal, Checkpoints
<1> QED
  BY <1>1 DEF Kept

LEMMA Below_Type ==
    ASSUME NEW r \in Routes, NEW new, NEW graph \in [Routes -> Int]
    PROVE  Below(r, new, graph) \in [Routes -> Int]
BY DEF Below

NewFrame(r, origin, entry, triggers) ==
    [route |-> r, origin |-> origin, entry |-> entry, phase |-> "overlays",
     todo |-> triggers, page |-> r, probing |-> None, moved |-> FALSE]

---------------------------------------------------------------------------
(* The steps outside a scan.                                               *)

LEMMA NoScans ==
    ASSUME stack' = <<>>, pc' # "scan"
    PROVE  Scans' /\ Paged(stack')
<1>1. <<>> \in Seq(Frames) /\ DOMAIN <<>> = {}
  BY EmptySeq
<1> QED
  BY <1>1 DEF Scans, Framed, Nested, Paged

\* Steps that change neither the traversal nor the checkpoint.
LEMMA QuietStep ==
    ASSUME IInv, MenuStops \/ SkipCompletedModule \/ MenuIsDone \/ MenuRouteKnown
                 \/ DrainStops \/ DrainIsDone
    PROVE  IInv'
<1>1. /\ pc \in {"menu", "visit", "drain"} /\ pc' \in {"menu", "drain", "review", "end"}
      /\ pc' = "menu" => pc = "menu" /\ engineStop' = engineStop
      /\ pc' \in {"drain", "review"} => pc \in {"visit", "drain"}
      /\ engineStop' \in {engineStop, TRUE} /\ agenda' \subseteq agenda
  <2>1. CASE MenuStops \/ MenuIsDone
    BY <2>1 DEF MenuStops, MenuIsDone
  <2>2. CASE SkipCompletedModule
    BY <2>2 DEF SkipCompletedModule
  <2>3. CASE MenuRouteKnown \/ DrainStops \/ DrainIsDone
    BY <2>3 DEF MenuRouteKnown, DrainStops, DrainIsDone
  <2> QED
    BY <2>1, <2>2, <2>3
<1>2. /\ stack' = stack /\ module' = module /\ at' = at /\ recovered' = recovered
      /\ probed' = probed /\ cp' = cp /\ stop' = stop /\ expired' = expired /\ status' = status
      /\ starts' = starts /\ retries' = retries
  BY DEF MenuStops, SkipCompletedModule, MenuIsDone, MenuRouteKnown, DrainStops, DrainIsDone,
         counters
<1>3. /\ visited' = visited /\ depth' = depth /\ pages' = pages /\ failed' = failed
      /\ queue' = queue /\ queued' = queued /\ reported' = reported /\ completed' = completed
  BY DEF MenuStops, SkipCompletedModule, MenuIsDone, MenuRouteKnown, DrainStops, DrainIsDone,
         traversal
<1>4. Fault \/ NoFault
  BY DEF MenuStops, SkipCompletedModule, MenuIsDone, MenuRouteKnown, DrainStops, DrainIsDone,
         PollStops, NoFault, counters
<1>5. Counts' /\ troubles \subseteq troubles'
  BY <1>2, <1>4, FaultCounted DEF IInv
<1>6. Traversal' /\ cp' \in Checkpoints
  BY <1>2, <1>3 DEF IInv, Traversal
<1>7. Engine' /\ Flags' /\ AtWork'
  BY <1>1, <1>2 DEF IInv, Engine, Flags, AtWork
<1>8. Scans'
  BY <1>1, <1>2, NoScans DEF IInv, Scans
<1>9. Stopped' /\ Faced'
  BY <1>1, <1>2, <1>5 DEF IInv, Stopped, Faced
<1>10. Kept'
  BY <1>1, <1>2, <1>3 DEF IInv, Kept, Scanned
<1> QED
  BY <1>5, <1>6, <1>7, <1>8, <1>9, <1>10 DEF IInv

\* A module is entered and completed, a review ends, a crawl returns: with a checkpoint.
LEMMA ModuleStep ==
    ASSUME IInv, EnterModule \/ CompleteModule \/ ReviewEnds \/ RetryModule \/ Finish
    PROVE  IInv'
<1>1. /\ pc \in {"menu", "review", "end"} /\ pc' \in {"visit", "menu", "end", "off"}
      /\ stack' = stack /\ at' = at /\ recovered' = recovered /\ probed' = probed
      /\ stop' = stop /\ expired' = expired /\ status' \in {status, "partial_scanned", "scanned"}
      /\ starts' = starts /\ faults' = faults
      /\ SaveCheckpoint
  BY DEF EnterModule, CompleteModule, ReviewEnds, RetryModule, Finish, counters
<1>2. /\ agenda' \subseteq agenda /\ module' \in Modules \cup {module}
      /\ pc' = "visit" => module' \in Modules \/ (pc = "review" /\ module' = module)
      /\ engineStop' \in {engineStop, TRUE}
      /\ pc' = "visit" => (pc = "menu" \/ ~engineStop) /\ engineStop' = engineStop
      /\ pc' = "menu" => ~engineStop /\ engineStop' = engineStop
  BY DEF EnterModule, CompleteModule, ReviewEnds, RetryModule, Finish, CanReview
<1>3. /\ retries' \in 0..MaxRetries /\ troubles \subseteq troubles'
      /\ troubles' \subseteq troubles \cup {"stop", "retry"}
  BY Constant DEF EnterModule, CompleteModule, ReviewEnds, RetryModule, Finish, counters,
                  IInv, Counts
<1>4. Traversal'
  <2>1. CASE EnterModule \/ Finish
    BY <2>1 DEF IInv, Traversal, traversal, EnterModule, Finish
  <2>2. CASE CompleteModule \/ ReviewEnds
    <3>1. module \in Modules
      BY <2>2 DEF IInv, AtWork, Engine, CompleteModule, ReviewEnds
    <3> QED
      BY <2>2, <3>1 DEF IInv, Traversal, CompleteModule, ReviewEnds
  <2>3. CASE RetryModule
    <3>1. /\ pages' = [r \in Routes |-> IF r \in ModuleRoutes THEN None ELSE pages[r]]
          /\ visited' = visited \ ModuleRoutes /\ failed' = failed \ ModuleRoutes
          /\ queue' = queue \ ModuleRoutes /\ queued' = queued \ ModuleRoutes
          /\ depth' = depth /\ reported' = reported /\ completed' = completed
      BY <2>3 DEF RetryModule
    <3> QED
      BY <3>1 DEF IInv, Traversal
  <2> QED
    BY <2>1, <2>2, <2>3
<1>5. cp' \in Checkpoints /\ Kept'
  BY <1>1, <1>4, Saved
<1>6. Engine' /\ Flags' /\ AtWork'
  BY <1>1, <1>2, Constant DEF IInv, Engine, Flags, AtWork
<1>7. Counts'
  BY <1>1, <1>3 DEF IInv, Counts
<1>8. Scans'
  BY <1>1, NoScans DEF IInv, Scans
<1>9. Stopped' /\ Faced'
  BY <1>1, <1>2, <1>3 DEF IInv, Stopped, Faced
<1> QED
  BY <1>4, <1>5, <1>6, <1>7, <1>8, <1>9 DEF IInv

\* A start reads the checkpoint into an engine that is otherwise new.
LEMMA StartStep ==
    ASSUME IInv, StartCrawl
    PROVE  IInv'
<1>1. /\ pc' = "menu" /\ module' = None /\ stack' = <<>> /\ at' = None
      /\ probed' = {} /\ engineStop' = FALSE /\ expired' = FALSE /\ status' = "running"
      /\ recovered' \in SUBSET MayVanish /\ agenda' = Selected
      /\ cp' = cp /\ stop' = stop
  BY DEF StartCrawl
<1>2. /\ faults' = faults /\ retries' = retries /\ troubles' = troubles
      /\ starts < MaxStarts /\ starts' = starts + 1
  BY DEF StartCrawl
<1>3. /\ visited' = cp.visited /\ depth' = cp.depth /\ failed' = {}
      /\ pages' = [r \in Routes |-> IF r \in cp.failed THEN None ELSE cp.pages[r]]
      /\ queue' = cp.pending \ cp.visited /\ queued' = cp.pending \ cp.visited
      /\ reported' = cp.reported /\ completed' = cp.completed
  BY DEF StartCrawl, LoadCheckpoint
<1>4. /\ cp.visited \subseteq Routes /\ cp.depth \in [Routes -> Int] /\ cp.pending \subseteq Routes
      /\ cp.pages \in [Routes -> Modules \cup {None}] /\ cp.reported \subseteq Routes
      /\ cp.completed \subseteq Modules
  BY DEF IInv, Checkpoints
<1>5. Traversal' /\ cp' \in Checkpoints
  BY <1>1, <1>3, <1>4 DEF Traversal, IInv
<1>6. starts' \in 0..MaxStarts
  BY <1>2, Constant DEF IInv, Counts
<1>7. Counts'
  BY <1>2, <1>6 DEF IInv, Counts
<1>8. Engine' /\ Flags' /\ AtWork'
  BY <1>1, Constant DEF IInv, Engine, Flags, AtWork, Selected
<1>9. Scans'
  BY <1>1, NoScans
<1>10. Stopped' /\ Faced'
  BY <1>1, NoScans DEF Stopped, Faced
<1>11. Kept'
  BY <1>1, <1>3 DEF Kept, Scanned
<1> QED
  BY <1>5, <1>7, <1>8, <1>9, <1>10, <1>11 DEF IInv

\* What happens to the crawler from outside: a stop, the end of the session, a crash.
LEMMA OutsideStep ==
    ASSUME IInv, StopRequest \/ SessionExpires \/ Crash
    PROVE  IInv'
<1>1. CASE StopRequest \/ SessionExpires
  <2>1. /\ pc' = pc /\ agenda' = agenda /\ module' = module /\ recovered' = recovered
        /\ stack' = stack /\ at' = at /\ probed' = probed /\ engineStop' = engineStop
        /\ cp' = cp /\ status' = status /\ starts' = starts /\ retries' = retries
    BY <1>1 DEF StopRequest, SessionExpires, memory
  <2>2. /\ visited' = visited /\ depth' = depth /\ pages' = pages /\ failed' = failed
        /\ queue' = queue /\ queued' = queued /\ reported' = reported /\ completed' = completed
    BY <1>1 DEF StopRequest, SessionExpires, memory, traversal
  <2>3. Counts' /\ troubles \subseteq troubles' /\ (expired' = expired \/ "fault" \in troubles')
    <3>1. CASE StopRequest
      BY <3>1 DEF StopRequest, IInv, Counts
    <3>2. CASE SessionExpires
      <4>1. Fault /\ starts' = starts /\ retries' = retries
        BY <3>2 DEF SessionExpires
      <4> QED
        BY <4>1, FaultCounted DEF IInv
    <3> QED
      BY <1>1, <3>1, <3>2
  <2>4. stop' \in BOOLEAN /\ expired' \in BOOLEAN
    BY <1>1 DEF StopRequest, SessionExpires, IInv, Flags
  <2>5. Traversal' /\ cp' \in Checkpoints /\ Scans' /\ Kept'
    BY <2>1, <2>2 DEF IInv, Traversal, Scans, Kept, Scanned, Nested
  <2>6. Engine' /\ Flags' /\ AtWork' /\ Stopped'
    BY <2>1, <2>4 DEF IInv, Engine, Flags, AtWork, Stopped
  <2>7. Faced'
    BY <2>1, <2>3 DEF IInv, Faced
  <2> QED
    BY <2>3, <2>5, <2>6, <2>7 DEF IInv
<1>2. CASE Crash
  <2>1. /\ pc' = "off" /\ agenda' = {} /\ module' = None /\ recovered' = {}
        /\ stack' = <<>> /\ at' = None /\ probed' = {} /\ engineStop' = FALSE
        /\ stop' = FALSE /\ expired' = FALSE /\ cp' = cp /\ status' = status
    BY <1>2 DEF Crash
  <2>2. /\ visited' = {} /\ depth' = [r \in Routes |-> -1]
        /\ pages' = [r \in Routes |-> None] /\ failed' = {}
        /\ queue' = {} /\ queued' = {} /\ reported' = {} /\ completed' = {}
    BY <1>2 DEF Crash
  <2>3. Traversal' /\ cp' \in Checkpoints
    BY <2>1, <2>2 DEF Traversal, IInv
  <2>4. Counts'
    BY <1>2 DEF Crash, IInv, Counts
  <2>5. Engine' /\ Flags' /\ AtWork' /\ Stopped' /\ Faced' /\ Kept'
    BY <2>1, NoScans DEF IInv, Engine, Flags, AtWork, Stopped, Faced, Kept
  <2>6. Scans'
    BY <2>1, NoScans
  <2> QED
    BY <2>3, <2>4, <2>5, <2>6 DEF IInv
<1> QED
  BY <1>1, <1>2

---------------------------------------------------------------------------
(* The steps that begin a scan.                                            *)

\* The triggers that are opened are some of the page's.
LEMMA TriggersCounted ==
    ASSUME NEW r, NEW triggers \in Counted(r)
    PROVE  triggers \subseteq TriggersOf(r) /\ triggers \subseteq Controls
BY DEF Counted, kSubset, TriggersOf, ControlsOf

LEMMA BeginStep ==
    ASSUME IInv, module \in Modules, NEW r \in Scope, NEW seen \in SUBSET Routes,
           NEW graph \in [Routes -> Int], NEW waiting \in SUBSET queue,
           NEW origin \in {"menu", "queue", "probe"}, NEW entry \in Routes,
           pages[r] = None, r \notin seen,
           BeginScan(r, seen, graph, waiting, origin, entry),
           IF stack = <<>> THEN origin # "probe"
                           ELSE /\ origin = "probe" /\ stack[1].phase = "probe"
                                /\ stack[1].probing # None /\ visited \subseteq seen,
           ~engineStop, at' = r,
           UNCHANGED <<agenda, module, recovered, probed, engineStop, stop, expired, status>>,
           Counts', troubles \subseteq troubles', cp' \in Checkpoints,
           cp'.completed \subseteq completed,
           Scanned(cp'.pages) \ cp'.failed \subseteq Scanned(pages)
    PROVE  IInv'
<1>0. PICK triggers \in Counted(r) : stack' = <<NewFrame(r, origin, entry, triggers)>> \o stack
  BY DEF BeginScan, NewFrame
<1> DEFINE f == NewFrame(r, origin, entry, triggers)
<1>1. /\ Traversal' /\ pc' = "scan" /\ visited' = seen \cup {r}
      /\ Scanned(pages) \cup {r} \subseteq Scanned(pages') /\ completed' = completed
      /\ stack' = <<f>> \o stack /\ f \in Frames
  <2>1. r \in Routes
    BY Constant
  <2>2. /\ visited' = seen \cup {r} /\ pages' = [pages EXCEPT ![r] = module]
        /\ queue' = waiting /\ queued' = queued
        /\ failed' = failed /\ reported' = reported /\ completed' = completed /\ pc' = "scan"
        /\ depth' = [graph EXCEPT ![r] = IF @ = -1 THEN 0 ELSE @]
        /\ stack' = <<f>> \o stack
    BY <1>0 DEF BeginScan
  <2>4. depth' \in [Routes -> Int]
    <3>1. (IF graph[r] = -1 THEN 0 ELSE graph[r]) \in Int
      BY <2>1
    <3> QED
      BY <2>2, <3>1
  <2>5. /\ pages' \in [Routes -> Modules \cup {None}]
        /\ Scanned(pages) \cup {r} \subseteq Scanned(pages')
    BY <2>1, <2>2, Constant DEF IInv, Traversal, Scanned
  <2>6. Traversal'
    BY <2>1, <2>2, <2>4, <2>5 DEF IInv, Traversal
  <2>7. f \in Frames
    <3>1. triggers \subseteq Controls
      BY TriggersCounted
    <3> QED
      BY <2>1, <3>1, Constant DEF Frames, NewFrame
  <2> QED
    BY <2>2, <2>5, <2>6, <2>7
<1>2. /\ agenda' = agenda /\ module' = module /\ recovered' = recovered /\ probed' = probed
      /\ engineStop' = engineStop /\ stop' = stop /\ expired' = expired /\ status' = status
  OBVIOUS
<1>3. /\ f.phase = "overlays" /\ f.probing = None /\ f.route = r /\ f.origin = origin
      /\ f.page = r /\ ~f.moved /\ Sound(f)
  BY TriggersCounted DEF NewFrame, Sound
<1> HIDE DEF f
<1>4. /\ Framed(stack') /\ Nested(stack', visited', pages') /\ stack' # <<>> /\ stack'[1] = f
      /\ Paged(stack) => Paged(stack')
  <2>1. Framed(stack) /\ Nested(stack, seen, pages)
    <3>1. CASE stack = <<>>
      <4>1. DOMAIN stack = {}
        BY <3>1, EmptySeq
      <4> QED
        BY <4>1 DEF IInv, Scans, Nested
    <3>2. CASE stack # <<>>
      <4>1. visited \subseteq seen /\ Framed(stack) /\ Nested(stack, visited, pages)
        BY <3>2 DEF IInv, Scans
      <4> QED
        BY <4>1, NestedGrows
    <3> QED
      BY <3>1, <3>2
  <2>2. Begins(f, stack, seen, pages, visited', pages')
    BY <1>1, <1>3 DEF Begins
  <2> QED
    BY <1>1, <1>3, <2>1, <2>2, Pushed
<1>5. Scans'
  BY <1>1, <1>4 DEF Scans
<1>6. Engine' /\ Flags' /\ AtWork'
  BY <1>1, <1>2, Constant DEF IInv, Engine, Flags, AtWork
<1>7. Stopped'
  BY <1>2 DEF Stopped
<1>8. Faced'
  BY <1>2, <1>3, <1>4 DEF IInv, Faced, Fits
<1>9. Kept'
  BY <1>1 DEF Kept
<1> QED
  BY <1>1, <1>5, <1>6, <1>7, <1>8, <1>9 DEF IInv

LEMMA MenuVisitStep ==
    ASSUME IInv, MenuNavigationFails \/ MenuNavigates
    PROVE  IInv'
<1>1. /\ pc = "visit" /\ module \in Modules /\ ~engineStop /\ stack = <<>>
      /\ Home[module] \in Routes /\ Lands[Home[module]] \in Routes
      /\ Forgotten \subseteq Routes
  BY Constant DEF IInv, AtWork, Engine, Stopped, Scans, Traversal, Forgotten,
                  MenuNavigationFails, MenuNavigates
<1>2. CASE MenuNavigationFails
  <2> DEFINE u == Home[module]
  <2>1. /\ visited' = Forgotten \cup {u} /\ failed' = failed \cup {u}
        /\ reported' = reported \cup {u} /\ pages' = [pages EXCEPT ![u] = module]
        /\ depth' = [depth EXCEPT ![u] = IF @ = -1 THEN 0 ELSE @]
        /\ queue' = queue /\ queued' = queued /\ completed' = completed
    BY <1>2 DEF MenuNavigationFails
  <2>2. /\ pc' = "drain" /\ stack' = stack /\ agenda' = agenda /\ module' = module
        /\ recovered' = recovered /\ probed' = probed /\ engineStop' = engineStop
        /\ stop' = stop /\ expired' = expired /\ status' = status
        /\ starts' = starts /\ retries' = retries
        /\ at' = (IF expired THEN None ELSE at) /\ SaveCheckpoint
    BY <1>2 DEF MenuNavigationFails
  <2>3. Fault \/ NoFault
    BY <1>2 DEF MenuNavigationFails, Unreachable
  <2>4. depth' \in [Routes -> Int]
    <3>1. (IF depth[u] = -1 THEN 0 ELSE depth[u]) \in Int
      BY <1>1 DEF IInv, Traversal
    <3> QED
      BY <2>1, <3>1 DEF IInv, Traversal
  <2>5. Traversal'
    BY <1>1, <2>1, <2>4 DEF IInv, Traversal
  <2>6. cp' \in Checkpoints /\ Kept'
    BY <2>2, <2>5, Saved
  <2>7. Counts' /\ troubles \subseteq troubles'
    BY <2>2, <2>3, FaultCounted DEF IInv
  <2>8. Engine' /\ Flags' /\ AtWork'
    BY <1>1, <2>2, Constant DEF IInv, Engine, Flags, AtWork
  <2>9. Scans'
    BY <1>1, <2>2, NoScans
  <2>10. Stopped' /\ Faced'
    BY <1>1, <2>2, <2>7 DEF IInv, Stopped, Faced
  <2> QED
    BY <2>5, <2>6, <2>7, <2>8, <2>9, <2>10 DEF IInv
<1>3. CASE MenuNavigates
  <2> DEFINE r == Lands[Home[module]]
  <2>1. /\ at' = r
        /\ UNCHANGED <<agenda, module, recovered, probed, engineStop, stop, expired, status>>
        /\ cp' = cp /\ UNCHANGED counters
    BY <1>3 DEF MenuNavigates
  <2>2. Counts' /\ troubles' = troubles /\ cp' \in Checkpoints
    BY <2>1 DEF counters, IInv, Counts
  <2>3. cp'.completed \subseteq completed /\ Scanned(cp'.pages) \ cp'.failed \subseteq Scanned(pages)
    BY <1>1, <2>1 DEF IInv, Kept
  <2>4. CASE SkipScan(r, Forgotten) /\ pc' = "drain"
               /\ UNCHANGED <<stack, depth, pages, failed, queue, queued, completed>>
    <3>1. /\ visited' = Forgotten /\ reported' \subseteq reported \cup {r}
          /\ stack' = stack /\ depth' = depth /\ pages' = pages /\ failed' = failed
          /\ queue' = queue /\ queued' = queued /\ completed' = completed
      BY <2>4 DEF SkipScan
    <3>2. Traversal' /\ Kept'
      BY <1>1, <2>3, <3>1 DEF IInv, Traversal, Kept, Scanned
    <3>3. Engine' /\ Flags' /\ AtWork' /\ Stopped' /\ Faced'
      BY <1>1, <2>1, <2>2, <2>4 DEF IInv, Engine, Flags, AtWork, Stopped, Faced
    <3>4. Scans'
      BY <1>1, <2>4, <3>1, NoScans
    <3> QED
      BY <2>2, <3>2, <3>3, <3>4 DEF IInv
  <2>5. CASE ~ScanIsSkipped(r, Forgotten)
               /\ BeginScan(r, Forgotten, depth, queue, "menu", Home[module])
    <3>1. r \in Scope /\ pages[r] = None /\ r \notin Forgotten
      BY <2>5 DEF ScanIsSkipped
    <3>2. depth \in [Routes -> Int] /\ queue \in SUBSET queue
      BY DEF IInv, Traversal
    <3> QED
      BY <1>1, <2>1, <2>2, <2>3, <2>5, <3>1, <3>2, BeginStep
  <2> QED
    BY <1>3, <2>4, <2>5 DEF MenuNavigates
<1> QED
  BY <1>2, <1>3

LEMMA QueueVisitStep ==
    ASSUME IInv, NEW u \in Routes, VisitQueued(u)
    PROVE  IInv'
<1>1. /\ pc = "drain" /\ module \in Modules /\ ~engineStop /\ stack = <<>>
      /\ Lands[u] \in Routes /\ visited \subseteq Routes
  BY Constant DEF IInv, AtWork, Engine, Scans, Traversal, VisitQueued
<1>2. /\ UNCHANGED <<agenda, module, recovered, probed, engineStop, stop, expired, status>>
      /\ cp' = cp /\ starts' = starts /\ retries' = retries
  BY DEF VisitQueued
<1>3. Fault \/ NoFault
  BY DEF VisitQueued, Unreachable, NoFault
<1>4. Counts' /\ troubles \subseteq troubles'
  BY <1>2, <1>3, FaultCounted DEF IInv
<1>5. cp' \in Checkpoints /\ cp'.completed \subseteq completed
      /\ Scanned(cp'.pages) \ cp'.failed \subseteq Scanned(pages)
  BY <1>1, <1>2 DEF IInv, Kept
<1>6. CASE /\ pc' = pc /\ stack' = stack /\ visited' \subseteq visited /\ depth' = depth
           /\ pages' = pages /\ failed' = failed /\ queue' = queue \ {u} /\ queued' = queued
           /\ reported' \subseteq reported \cup Routes /\ completed' = completed
           /\ at' \in Routes \cup {None}
  <2>1. Traversal' /\ Kept'
    BY <1>5, <1>6 DEF IInv, Traversal, Kept, Scanned
  <2>2. Engine' /\ Flags' /\ AtWork' /\ Stopped' /\ Faced'
    BY <1>1, <1>2, <1>4, <1>6 DEF IInv, Engine, Flags, AtWork, Stopped, Faced
  <2>3. Scans'
    BY <1>1, <1>6, NoScans
  <2> QED
    BY <1>4, <1>5, <2>1, <2>2, <2>3 DEF IInv
<1>7. CASE /\ u \notin visited /\ ~expired /\ at' = Lands[u]
           /\ ~ScanIsSkipped(Lands[u], visited)
           /\ BeginScan(Lands[u], visited, depth, queue \ {u}, "queue", u)
  <2>1. Lands[u] \in Scope /\ pages[Lands[u]] = None /\ Lands[u] \notin visited
    BY <1>7 DEF ScanIsSkipped
  <2>2. depth \in [Routes -> Int] /\ queue \ {u} \in SUBSET queue /\ visited \in SUBSET Routes
    BY DEF IInv, Traversal
  <2> QED
    BY <1>1, <1>2, <1>4, <1>5, <1>7, <2>1, <2>2, BeginStep
<1> QED
  BY <1>1, <1>6, <1>7, Constant DEF VisitQueued, SkipScan, IInv, Engine

---------------------------------------------------------------------------
(* The steps of the innermost scan.                                        *)

LEMMA InScan ==
    ASSUME IInv, pc = "scan"
    PROVE  /\ stack # <<>> /\ Framed(stack) /\ Nested(stack, visited, pages) /\ Top = stack[1]
           /\ stack[1] \in Frames /\ stack[1].route \in Routes /\ 1 \in DOMAIN stack
           /\ Sound(stack[1])
<1>1. stack # <<>> /\ Framed(stack) /\ Nested(stack, visited, pages)
  BY DEF IInv, Scans
<1>2. /\ Head(stack) = stack[1] /\ stack[1] \in Frames /\ 1 \in DOMAIN stack
      /\ Sound(stack[1])
  BY <1>1, TopOf
<1>3. stack[1].route \in Routes
  BY <1>2 DEF Frames
<1> QED
  BY <1>1, <1>2, <1>3 DEF Top

\* The innermost scan of s takes a phase and a probe.
TopSet(s, phase, probe) == [s EXCEPT ![1].phase = phase, ![1].probing = probe]

LEMMA PhaseSet ==
    ASSUME NEW s, Framed(s), s # <<>>, NEW phase \in {"probe", "links"},
           NEW probe \in Candidates(s[1].page) \cup {None}
    PROVE  \E f : /\ Continues(f, s) /\ f.phase = phase /\ f.probing = probe
                  /\ f.moved = s[1].moved /\ f.page = s[1].page
                  /\ TopSet(s, phase, probe) = [s EXCEPT ![1] = f]
<1> DEFINE f == [s[1] EXCEPT !.phase = phase, !.probing = probe]
<1>1. s \in Seq(Frames) /\ s[1] \in Frames /\ 1 \in DOMAIN s /\ Sound(s[1])
  BY TopOf DEF Framed
<1>2. probe \in Controls \cup {None}
  BY DEF Candidates, ControlsOf
<1>3. f \in Frames /\ f.route = s[1].route /\ f.origin = s[1].origin
      /\ f.probing = probe /\ f.phase = phase /\ f.moved = s[1].moved
      /\ f.page = s[1].page /\ f.todo = s[1].todo
  BY <1>1, <1>2 DEF Frames
<1>4. TopSet(s, phase, probe) = [s EXCEPT ![1] = f]
  BY <1>1 DEF TopSet
<1> HIDE DEF f
<1>5. Continues(f, s)
  BY <1>1, <1>3 DEF Continues, Sound
<1> QED
  BY <1>3, <1>4, <1>5

\* The innermost scan of s is done with its probe.
TopDone(s, moved) == [s EXCEPT ![1].probing = None, ![1].moved = moved]

LEMMA ProbeEnds ==
    ASSUME NEW s, Framed(s), s # <<>>, NEW moved \in BOOLEAN
    PROVE  \E f : /\ Continues(f, s) /\ f.phase = s[1].phase /\ f.probing = None
                  /\ f.moved = moved /\ f.page = s[1].page
                  /\ TopDone(s, moved) = [s EXCEPT ![1] = f]
<1> DEFINE f == [s[1] EXCEPT !.probing = None, !.moved = moved]
<1>1. s \in Seq(Frames) /\ s[1] \in Frames /\ 1 \in DOMAIN s /\ Sound(s[1])
  BY TopOf DEF Framed
<1>2. f \in Frames /\ f.route = s[1].route /\ f.origin = s[1].origin
      /\ f.probing = None /\ f.phase = s[1].phase /\ f.moved = moved
      /\ f.page = s[1].page /\ f.todo = s[1].todo
  BY <1>1 DEF Frames
<1>3. TopDone(s, moved) = [s EXCEPT ![1] = f]
  BY <1>1 DEF TopDone
<1> HIDE DEF f
<1>4. Continues(f, s)
  BY <1>1, <1>2 DEF Continues, Sound
<1> QED
  BY <1>2, <1>3, <1>4

\* The innermost scan of s has opened, or passed over, a trigger.
TopTried(s, rest, moved) == [s EXCEPT ![1].todo = rest, ![1].moved = moved]

LEMMA TriggerTried ==
    ASSUME NEW s, Framed(s), s # <<>>, NEW rest \in SUBSET s[1].todo, NEW moved \in BOOLEAN
    PROVE  \E f : /\ Continues(f, s) /\ f.phase = s[1].phase /\ f.probing = s[1].probing
                  /\ f.todo = rest /\ f.moved = moved /\ f.page = s[1].page
                  /\ TopTried(s, rest, moved) = [s EXCEPT ![1] = f]
<1> DEFINE f == [s[1] EXCEPT !.todo = rest, !.moved = moved]
<1>1. s \in Seq(Frames) /\ s[1] \in Frames /\ 1 \in DOMAIN s /\ Sound(s[1])
  BY TopOf DEF Framed
<1>2. rest \subseteq Controls /\ rest \subseteq TriggersOf(s[1].route)
  BY <1>1 DEF Sound, TriggersOf, ControlsOf
<1>3. f \in Frames /\ f.route = s[1].route /\ f.origin = s[1].origin
      /\ f.probing = s[1].probing /\ f.phase = s[1].phase /\ f.moved = moved
      /\ f.page = s[1].page /\ f.todo = rest
  BY <1>1, <1>2 DEF Frames
<1>4. TopTried(s, rest, moved) = [s EXCEPT ![1] = f]
  BY <1>1 DEF TopTried
<1> HIDE DEF f
<1>5. Continues(f, s)
  BY <1>1, <1>2, <1>3 DEF Continues, Sound
<1> QED
  BY <1>3, <1>4, <1>5

\* The innermost scan of s has read the controls of the page shown.
TopRead(s, shown) == [s EXCEPT ![1].phase = "probe", ![1].todo = {}, ![1].page = shown,
                               ![1].moved = FALSE]

LEMMA ControlsRead ==
    ASSUME NEW s, Framed(s), s # <<>>, s[1].phase = "overlays", NEW shown \in Routes \cup {None}
    PROVE  \E f : /\ Continues(f, s) /\ f.phase = "probe" /\ f.probing = None
                  /\ ~f.moved /\ f.page = shown
                  /\ TopRead(s, shown) = [s EXCEPT ![1] = f]
<1> DEFINE f == [s[1] EXCEPT !.phase = "probe", !.todo = {}, !.page = shown, !.moved = FALSE]
<1>1. /\ s \in Seq(Frames) /\ s[1] \in Frames /\ 1 \in DOMAIN s /\ Sound(s[1])
      /\ s[1].probing = None
  BY TopOf DEF Framed, Sound
<1>2. f \in Frames /\ f.route = s[1].route /\ f.origin = s[1].origin
      /\ f.probing = None /\ f.phase = "probe" /\ f.moved = FALSE
      /\ f.page = shown /\ f.todo = {}
  BY <1>1 DEF Frames
<1>3. TopRead(s, shown) = [s EXCEPT ![1] = f]
  BY <1>1 DEF TopRead
<1> HIDE DEF f
<1>4. Continues(f, s)
  BY <1>1, <1>2 DEF Continues, Sound
<1> QED
  BY <1>2, <1>3, <1>4

\* What a step of the innermost scan may change.
TopGoesOn ==
    /\ pc' = "scan"
    /\ UNCHANGED <<agenda, module, recovered, stop, expired, status>>
    /\ visited \subseteq visited' /\ Scanned(pages) \subseteq Scanned(pages')
    /\ probed' \subseteq Routes \X Controls /\ at' \in Routes \cup {None}
    /\ engineStop' \in BOOLEAN
    /\ troubles \subseteq troubles'

LEMMA TopStep ==
    ASSUME IInv, pc = "scan", TopGoesOn, Traversal', Counts', cp' \in Checkpoints, Kept',
           NEW f, Continues(f, stack), stack' = [stack EXCEPT ![1] = f],
           engineStop' => f.probing = None,
           "fault" \notin troubles' => Fits(f, at')
    PROVE  IInv'
<1>1. stack # <<>> /\ Framed(stack) /\ Nested(stack, visited, pages)
  BY InScan
<1>2. /\ Framed(stack') /\ Nested(stack', visited, pages) /\ stack' # <<>> /\ stack'[1] = f
      /\ Paged(stack) /\ (Steady(f.route) => f.page = f.route) => Paged(stack')
  BY <1>1, TopChanges
<1>3. Nested(stack', visited', pages')
  BY <1>2, NestedGrows DEF TopGoesOn
<1>4. Scans'
  BY <1>2, <1>3 DEF Scans, TopGoesOn
<1>5. Engine' /\ Flags' /\ AtWork'
  BY DEF TopGoesOn, IInv, Engine, Flags, AtWork
<1>6. Stopped'
  BY <1>2 DEF TopGoesOn, IInv, Stopped
<1>7. Faced'
  <2> SUFFICES ASSUME "fault" \notin troubles' PROVE ~expired' /\ Paged(stack') /\ Fits(f, at')
    BY <1>2 DEF Faced
  <2>1. ~expired /\ Paged(stack) /\ Fits(f, at')
    BY DEF TopGoesOn, IInv, Faced
  <2>2. Paged(stack')
    BY <1>2, <2>1 DEF Fits
  <2> QED
    BY <2>1, <2>2 DEF TopGoesOn
<1> QED
  BY <1>4, <1>5, <1>6, <1>7 DEF IInv

LEMMA OpenOverlayStep ==
    ASSUME IInv, NEW c \in Controls, OpenOverlay(c)
    PROVE  IInv'
<1> DEFINE r == Lands[LeadsTo[c]]
<1>1. PICK found \in SUBSET Scope :
        queue' = queue \cup found /\ queued' = queued \cup found
        /\ depth' = Below(Top.route, found, depth)
  BY DEF OpenOverlay
<1>2. /\ pc = "scan" /\ pc' = pc /\ probed' = probed /\ engineStop' = engineStop /\ cp' = cp
      /\ UNCHANGED <<agenda, module, recovered, stop, expired, status, starts, retries>>
      /\ visited' = visited /\ pages' = pages /\ failed' = failed
      /\ reported' = reported /\ completed' = completed
      /\ troubles' = troubles /\ faults' = faults /\ at' = r /\ Top.phase = "overlays"
  BY DEF OpenOverlay, InTop, counters
<1>3. /\ stack # <<>> /\ Framed(stack) /\ Top = stack[1] /\ Top.route \in Routes /\ r \in Routes
      /\ Sound(stack[1]) /\ stack[1] \in Frames
  BY <1>2, InScan, Constant
<1>4. Counts'
  BY <1>2 DEF IInv, Counts
<1>5. Traversal' /\ cp' \in Checkpoints /\ Kept'
  <2>1. depth' \in [Routes -> Int]
    BY <1>1, <1>3, Below_Type DEF IInv, Traversal
  <2> QED
    BY <1>1, <1>2, <2>1, Constant DEF IInv, Traversal, Kept, Scanned
<1>6. TopGoesOn
  BY <1>2, <1>3 DEF TopGoesOn, IInv, Engine, Flags, Scanned
<1>7. PICK t \in Top.todo : /\ c \in IF Displaced THEN TriggersOf(at) ELSE {t}
                            /\ stack' = TopTried(stack, Top.todo \ {t}, StaysMoved(c, r))
  BY <1>3 DEF OpenOverlay, TopTried
<1>8. StaysMoved(c, r) \in BOOLEAN
  BY <1>3 DEF StaysMoved, Frames
<1>9. PICK f : /\ Continues(f, stack) /\ f.phase = "overlays" /\ f.probing = None
               /\ f.moved = StaysMoved(c, r) /\ f.page = stack[1].page
               /\ stack' = [stack EXCEPT ![1] = f]
  <2>1. Top.todo \ {t} \in SUBSET stack[1].todo
    BY <1>3
  <2>2. PICK rest \in SUBSET stack[1].todo, moved \in BOOLEAN :
           rest = Top.todo \ {t} /\ moved = StaysMoved(c, r)
    BY <1>8, <2>1
  <2>3. PICK f : /\ Continues(f, stack) /\ f.phase = stack[1].phase /\ f.probing = stack[1].probing
                 /\ f.moved = moved /\ f.page = stack[1].page
                 /\ TopTried(stack, rest, moved) = [stack EXCEPT ![1] = f]
    <3>1. \E f : /\ Continues(f, stack) /\ f.phase = stack[1].phase
                 /\ f.probing = stack[1].probing /\ f.todo = rest /\ f.moved = moved
                 /\ f.page = stack[1].page /\ TopTried(stack, rest, moved) = [stack EXCEPT ![1] = f]
      BY <1>3, TriggerTried
    <3> QED
      BY <3>1
  <2>4. stack[1].probing = None /\ stack[1].phase = "overlays"
    BY <1>2, <1>3 DEF Sound
  <2>5. stack' = [stack EXCEPT ![1] = f]
    BY <1>7, <2>2, <2>3
  <2> QED
    BY <2>2, <2>3, <2>4, <2>5
<1>10. "fault" \notin troubles' => Fits(f, at')
  <2> SUFFICES ASSUME "fault" \notin troubles', Steady(f.route)
               PROVE  r = f.route /\ f.page = f.route /\ ~f.moved
    BY <1>2 DEF Fits
  <2>1. f.route = stack[1].route /\ at = f.route /\ stack[1].page = f.route /\ ~stack[1].moved
    BY <1>2, <1>3, <1>9 DEF IInv, Faced, Fits, Continues
  <2>2. c = t
    BY <1>3, <1>7, <2>1 DEF Displaced
  <2>3. c \in TriggersOf(f.route)
    BY <1>3, <1>7, <2>1, <2>2 DEF Sound
  <2> QED
    BY <1>3, <1>9, <2>1, <2>3 DEF Steady, StaysMoved
<1> HIDE DEF r
<1> QED
  BY <1>2, <1>4, <1>5, <1>6, <1>9, <1>10, TopStep

LEMMA NothingOpensStep ==
    ASSUME IInv, OverlayFindsNothing
    PROVE  IInv'
<1>1. /\ pc = "scan" /\ pc' = pc /\ probed' = probed /\ engineStop' = engineStop /\ cp' = cp
      /\ UNCHANGED <<agenda, module, recovered, stop, expired, status, starts, retries>>
      /\ (Fault \/ NoFault) /\ at' \in {at, None} /\ (expired \/ at' = at)
      /\ Top.phase = "overlays"
  BY DEF OverlayFindsNothing, InTop, Unreachable
<1>2. /\ visited' = visited /\ depth' = depth /\ pages' = pages /\ failed' = failed
      /\ queue' = queue /\ queued' = queued /\ reported' = reported /\ completed' = completed
  BY DEF OverlayFindsNothing, traversal
<1>3. Counts' /\ troubles \subseteq troubles'
  BY <1>1, FaultCounted DEF IInv
<1>4. Traversal' /\ cp' \in Checkpoints /\ Kept'
  BY <1>1, <1>2 DEF IInv, Traversal, Kept, Scanned
<1>5. TopGoesOn
  BY <1>1, <1>2, <1>3 DEF TopGoesOn, IInv, Engine, Flags, Scanned
<1>6. /\ stack # <<>> /\ Framed(stack) /\ Top = stack[1] /\ stack[1] \in Frames
      /\ Sound(stack[1]) /\ 1 \in DOMAIN stack
  BY <1>1, InScan
<1>7. PICK t \in Top.todo : stack' = TopTried(stack, Top.todo \ {t}, stack[1].moved)
  <2>1. PICK t \in Top.todo : stack' = [stack EXCEPT ![1].todo = @ \ {t}]
    BY DEF OverlayFindsNothing
  <2>2. [stack EXCEPT ![1].todo = @ \ {t}] = TopTried(stack, Top.todo \ {t}, stack[1].moved)
    BY <1>6 DEF TopTried, Framed, Frames
  <2> QED
    BY <2>1, <2>2
<1>8. PICK f : /\ Continues(f, stack) /\ f.phase = "overlays" /\ f.probing = None
               /\ f.moved = stack[1].moved /\ f.page = stack[1].page
               /\ stack' = [stack EXCEPT ![1] = f]
  <2>1. Top.todo \ {t} \in SUBSET stack[1].todo /\ stack[1].moved \in BOOLEAN
    BY <1>6 DEF Frames
  <2>2. PICK rest \in SUBSET stack[1].todo, moved \in BOOLEAN :
           rest = Top.todo \ {t} /\ moved = stack[1].moved
    BY <2>1
  <2>3. PICK f : /\ Continues(f, stack) /\ f.phase = stack[1].phase /\ f.probing = stack[1].probing
                 /\ f.moved = moved /\ f.page = stack[1].page
                 /\ TopTried(stack, rest, moved) = [stack EXCEPT ![1] = f]
    <3>1. \E f : /\ Continues(f, stack) /\ f.phase = stack[1].phase
                 /\ f.probing = stack[1].probing /\ f.todo = rest /\ f.moved = moved
                 /\ f.page = stack[1].page /\ TopTried(stack, rest, moved) = [stack EXCEPT ![1] = f]
      BY <1>6, TriggerTried
    <3> QED
      BY <3>1
  <2>4. stack[1].probing = None /\ stack[1].phase = "overlays"
    BY <1>1, <1>6 DEF Sound
  <2>5. stack' = [stack EXCEPT ![1] = f]
    BY <1>7, <2>2, <2>3
  <2> QED
    BY <2>2, <2>3, <2>4, <2>5
<1>9. "fault" \notin troubles' => Fits(f, at')
  BY <1>1, <1>3, <1>6, <1>8 DEF IInv, Faced, Continues, Fits
<1> QED
  BY <1>1, <1>3, <1>4, <1>5, <1>8, <1>9, TopStep

LEMMA OverlaysDoneStep ==
    ASSUME IInv, OverlaysDone
    PROVE  IInv'
<1>1. /\ pc = "scan" /\ pc' = pc /\ probed' = probed /\ engineStop' = engineStop /\ cp' = cp
      /\ UNCHANGED <<agenda, module, recovered, stop, expired, status, starts, retries>>
      /\ (Fault \/ NoFault) /\ at' = at /\ Top.phase = "overlays"
      /\ stack' = TopRead(stack, at)
  BY DEF OverlaysDone, InTop, TopRead
<1>2. /\ visited' = visited /\ depth' = depth /\ pages' = pages /\ failed' = failed
      /\ queue' = queue /\ queued' = queued /\ reported' = reported /\ completed' = completed
  BY DEF OverlaysDone, traversal
<1>3. Counts' /\ troubles \subseteq troubles'
  BY <1>1, FaultCounted DEF IInv
<1>4. Traversal' /\ cp' \in Checkpoints /\ Kept'
  BY <1>1, <1>2 DEF IInv, Traversal, Kept, Scanned
<1>5. TopGoesOn
  BY <1>1, <1>2, <1>3 DEF TopGoesOn, IInv, Engine, Flags, Scanned
<1>6. /\ stack # <<>> /\ Framed(stack) /\ Top = stack[1] /\ at \in Routes \cup {None}
  BY <1>1, InScan DEF IInv, Engine
<1>7. PICK f : /\ Continues(f, stack) /\ f.phase = "probe" /\ f.probing = None
               /\ ~f.moved /\ f.page = at /\ stack' = [stack EXCEPT ![1] = f]
  BY <1>1, <1>6, ControlsRead
<1>8. "fault" \notin troubles' => Fits(f, at')
  BY <1>1, <1>3, <1>7 DEF IInv, Faced, Continues, Fits
<1> QED
  BY <1>1, <1>3, <1>4, <1>5, <1>7, <1>8, TopStep

LEMMA ProbeStopsStep ==
    ASSUME IInv, NEW c \in Controls, ProbeStops(c)
    PROVE  IInv'
<1>1. /\ pc = "scan" /\ Top.probing = None /\ pc' = pc /\ stack' = stack /\ at' = at /\ cp' = cp
      /\ UNCHANGED <<agenda, module, recovered, stop, expired, status, starts, retries>>
      /\ probed' = probed \cup {<<Top.route, c>>} /\ engineStop' = TRUE /\ (Fault \/ NoFault)
  BY DEF ProbeStops, InTop, PollStops
<1>2. /\ visited' = visited /\ depth' = depth /\ pages' = pages /\ failed' = failed
      /\ queue' = queue /\ queued' = queued /\ reported' = reported /\ completed' = completed
  BY DEF ProbeStops, traversal
<1>3. Counts' /\ troubles \subseteq troubles'
  BY <1>1, FaultCounted DEF IInv
<1>4. Traversal' /\ cp' \in Checkpoints /\ Kept'
  BY <1>1, <1>2 DEF IInv, Traversal, Kept, Scanned
<1>5. TopGoesOn
  BY <1>1, <1>2, <1>3, InScan DEF TopGoesOn, IInv, Engine, Scanned
<1>6. /\ Continues(stack[1], stack) /\ stack[1].probing = None
      /\ stack' = [stack EXCEPT ![1] = stack[1]]
  BY <1>1, InScan DEF Continues, Framed
<1>7. "fault" \notin troubles' => Fits(stack[1], at')
  BY <1>1, <1>3 DEF IInv, Faced
<1> QED
  BY <1>1, <1>3, <1>4, <1>5, <1>6, <1>7, TopStep

LEMMA StartProbeStep ==
    ASSUME IInv, NEW c \in Controls, StartProbe(c)
    PROVE  IInv'
<1>1. /\ pc = "scan" /\ pc' = pc /\ at' = at
      /\ UNCHANGED <<agenda, module, recovered, stop, expired, status>>
      /\ probed' = probed \cup {<<Top.route, c>>} /\ engineStop' = engineStop /\ ~engineStop
      /\ c \in Unprobed /\ stack' = TopSet(stack, "probe", c) /\ SaveCheckpoint
      /\ UNCHANGED counters
  BY DEF StartProbe, InTop, SetTop, TopSet
<1>2. /\ visited' = visited /\ depth' = depth /\ pages' = pages /\ failed' = failed
      /\ queue' = queue /\ queued' = queued /\ reported' = reported /\ completed' = completed
  BY DEF StartProbe, traversal
<1>3. Counts' /\ troubles' = troubles
  BY <1>1 DEF IInv, Counts, counters
<1>4. Traversal'
  BY <1>2 DEF IInv, Traversal
<1>5. cp' \in Checkpoints /\ Kept'
  BY <1>1, <1>4, Saved
<1>6. TopGoesOn
  BY <1>1, <1>2, <1>3, InScan DEF TopGoesOn, IInv, Engine, Flags, Scanned
<1>7. stack # <<>> /\ Framed(stack) /\ c \in Candidates(stack[1].page) \cup {None}
  BY <1>1, InScan DEF Unprobed
<1>8. PICK f : /\ Continues(f, stack) /\ f.phase = "probe" /\ f.page = stack[1].page
               /\ stack' = [stack EXCEPT ![1] = f]
  BY <1>1, <1>7, PhaseSet
<1>9. "fault" \notin troubles' => Fits(f, at')
  BY <1>1, <1>3, <1>8 DEF IInv, Faced, Continues, Fits
<1> QED
  BY <1>1, <1>3, <1>4, <1>5, <1>6, <1>8, <1>9, TopStep

LEMMA NoControlStep ==
    ASSUME IInv, ProbeFindsNoControl
    PROVE  IInv'
<1>1. /\ pc = "scan" /\ pc' = pc /\ probed' = probed /\ engineStop' = engineStop /\ cp' = cp
      /\ UNCHANGED <<agenda, module, recovered, stop, expired, status, starts, retries>>
      /\ stack' = TopSet(stack, "probe", None) /\ (Fault \/ NoFault) /\ at' \in {at, None}
  BY DEF ProbeFindsNoControl, InTop, Unreachable, SetTop, TopSet
<1>2. /\ visited' = visited /\ depth' = depth /\ pages' = pages /\ failed' = failed
      /\ queue' = queue /\ queued' = queued /\ reported' = reported /\ completed' = completed
  BY DEF ProbeFindsNoControl, traversal
<1>3. Counts' /\ troubles \subseteq troubles' /\ (Fault => "fault" \in troubles')
  BY <1>1, FaultCounted DEF IInv
<1>4. Traversal' /\ cp' \in Checkpoints /\ Kept'
  BY <1>1, <1>2 DEF IInv, Traversal, Kept, Scanned
<1>5. TopGoesOn
  BY <1>1, <1>2, <1>3 DEF TopGoesOn, IInv, Engine, Flags, Scanned
<1>6. stack # <<>> /\ Framed(stack) /\ Top = stack[1]
  BY <1>1, InScan
<1>7. PICK f : /\ Continues(f, stack) /\ f.probing = None /\ f.phase = "probe"
               /\ f.page = stack[1].page /\ stack' = [stack EXCEPT ![1] = f]
  BY <1>1, <1>6, PhaseSet
<1>8. "fault" \notin troubles' => ~expired /\ Fits(stack[1], at)
  BY <1>1, <1>3 DEF IInv, Faced
<1>9. "fault" \notin troubles' => Fits(f, at')
  <2>1. ~expired => at' = at
    BY DEF ProbeFindsNoControl, Unreachable
  <2> QED
    BY <1>7, <1>8, <2>1 DEF Continues, Fits
<1> QED
  BY <1>1, <1>3, <1>4, <1>5, <1>7, <1>9, TopStep

LEMMA InPlaceStep ==
    ASSUME IInv, NEW c \in Controls, InTop("probe"), PressInPlace(c)
    PROVE  IInv'
<1>1. /\ pc = "scan" /\ pc' = pc /\ probed' = probed /\ engineStop' = engineStop /\ cp' = cp
      /\ UNCHANGED <<agenda, module, recovered, stop, expired, status, starts, retries>>
      /\ NoFault /\ at' \in {at, Top.route} \cap Scope
  BY DEF InTop, PressInPlace
<1>2. /\ visited' = visited /\ depth' = depth /\ pages' = pages /\ failed' = failed
      /\ queue' = queue /\ queued' = queued /\ reported' = reported /\ completed' = completed
  BY DEF PressInPlace, traversal
<1>3. Counts' /\ troubles' = troubles
  BY <1>1 DEF IInv, Counts, NoFault
<1>4. Traversal' /\ cp' \in Checkpoints /\ Kept'
  BY <1>1, <1>2 DEF IInv, Traversal, Kept, Scanned
<1>5. TopGoesOn
  BY <1>1, <1>2, <1>3, Constant DEF TopGoesOn, IInv, Engine, Flags, Scanned
<1>6. stack # <<>> /\ Framed(stack) /\ Top = stack[1]
  BY <1>1, InScan
<1>7. PICK b \in BOOLEAN : stack' = TopDone(stack, b)
  <2>1. stack[1].moved \in BOOLEAN
    BY <1>1, InScan DEF Frames
  <2> QED
    BY <1>1, <1>6, <2>1 DEF PressInPlace, TopDone, StaysMoved
<1>8. PICK f : /\ Continues(f, stack) /\ f.probing = None /\ f.phase = "probe"
               /\ f.page = stack[1].page /\ stack' = [stack EXCEPT ![1] = f]
  BY <1>6, <1>7, ProbeEnds DEF InTop
<1>9. "fault" \notin troubles' => Fits(f, at')
  BY <1>1, <1>3, <1>6, <1>8 DEF IInv, Faced, Continues, Fits
<1> QED
  BY <1>1, <1>3, <1>4, <1>5, <1>8, <1>9, TopStep

LEMMA NowhereStep ==
    ASSUME IInv, NEW c \in Controls, InTop("probe"), PressLeadsNowhere(c)
    PROVE  IInv'
<1> DEFINE r == Lands[LeadsTo[c]]
<1>1. /\ pc = "scan" /\ pc' = pc /\ probed' = probed /\ engineStop' = engineStop /\ cp' = cp
      /\ UNCHANGED <<agenda, module, recovered, stop, expired, status, starts, retries>>
      /\ visited' = visited /\ pages' = pages /\ failed' = failed
      /\ queue' = queue /\ queued' = queued /\ reported' = reported /\ completed' = completed
      /\ depth' = Below(Top.route, {r} \cap Scope, depth)
      /\ stack' = TopDone(stack, FALSE)
  BY DEF InTop, PressLeadsNowhere, TopDone
<1>2. stack # <<>> /\ Framed(stack) /\ Top = stack[1] /\ Top.route \in Routes /\ r \in Routes
  BY <1>1, InScan, Constant
<1>3. /\ (Fault \/ NoFault) /\ at' \in {Top.route, None, r}
      /\ (Fault \/ expired \/ at' = Top.route)
  BY DEF PressLeadsNowhere, Restore
<1>4. Counts' /\ troubles \subseteq troubles' /\ (Fault => "fault" \in troubles')
  BY <1>1, <1>3, FaultCounted DEF IInv
<1>5. Traversal' /\ cp' \in Checkpoints /\ Kept'
  <2>1. depth' \in [Routes -> Int]
    BY <1>1, <1>2, Below_Type DEF IInv, Traversal
  <2> QED
    BY <1>1, <2>1 DEF IInv, Traversal, Kept, Scanned
<1>6. TopGoesOn
  BY <1>1, <1>2, <1>3, <1>4 DEF TopGoesOn, IInv, Engine, Flags, Scanned
<1>7. PICK f : /\ Continues(f, stack) /\ f.probing = None /\ f.phase = "probe"
               /\ f.page = stack[1].page /\ stack' = [stack EXCEPT ![1] = f]
  BY <1>1, <1>2, ProbeEnds DEF InTop
<1>8. "fault" \notin troubles' => Fits(f, at')
  BY <1>1, <1>2, <1>3, <1>4, <1>7 DEF IInv, Faced, Continues, Fits
<1> QED
  BY <1>1, <1>4, <1>5, <1>6, <1>7, <1>8, TopStep

LEMMA ScoreStep ==
    ASSUME IInv, ScoreRoute
    PROVE  IInv'
<1>1. /\ pc = "scan" /\ pc' = pc /\ at' = at /\ probed' = probed /\ engineStop' = engineStop
      /\ UNCHANGED <<agenda, module, recovered, stop, expired, status, starts, retries>>
      /\ visited' = visited /\ pages' = pages /\ depth' = depth
      /\ queue' = queue /\ queued' = queued /\ reported' = reported /\ completed' = completed
      /\ stack' = TopSet(stack, "links", None) /\ SaveCheckpoint
  BY DEF InTop, ScoreRoute, SetTop, TopSet
<1>2. /\ Fault \/ NoFault
      /\ failed' \subseteq failed \cup {Top.route}
  BY DEF ScoreRoute
<1>3. stack # <<>> /\ Framed(stack) /\ Top = stack[1] /\ Top.route \in Routes
  BY <1>1, InScan
<1>4. Counts' /\ troubles \subseteq troubles'
  BY <1>1, <1>2, FaultCounted DEF IInv
<1>5. Traversal'
  BY <1>1, <1>2, <1>3 DEF IInv, Traversal
<1>6. cp' \in Checkpoints /\ Kept'
  BY <1>1, <1>5, Saved
<1>7. TopGoesOn
  BY <1>1, <1>4 DEF TopGoesOn, IInv, Engine, Flags, Scanned
<1>8. PICK f : /\ Continues(f, stack) /\ f.probing = None /\ f.phase = "links"
               /\ f.page = stack[1].page /\ stack' = [stack EXCEPT ![1] = f]
  BY <1>1, <1>3, PhaseSet
<1>9. "fault" \notin troubles' => Fits(f, at')
  BY <1>1, <1>4, <1>8 DEF IInv, Faced, Continues, Fits
<1> QED
  BY <1>1, <1>4, <1>5, <1>6, <1>7, <1>8, <1>9, TopStep

LEMMA ChildStep ==
    ASSUME IInv, NEW c \in Controls, InTop("probe"), Top.probing # None, PressOpensChild(c)
    PROVE  IInv'
<1> DEFINE r == Lands[LeadsTo[c]]
           graph == Below(Top.route, {r}, depth)
<1>1. /\ pc = "scan" /\ stack # <<>> /\ Top = stack[1] /\ Top.route \in Routes /\ r \in Routes
      /\ stack[1].phase = "probe" /\ stack[1].probing # None
  BY InScan, Constant DEF InTop
<1>2. module \in Modules /\ ~engineStop
  BY <1>1 DEF IInv, AtWork, Engine, Stopped
<1>3. /\ r \in Scope /\ r \notin visited /\ pages[r] = None /\ at' = r
      /\ BeginScan(r, visited, graph, queue, "probe", r)
  BY DEF PressOpensChild, Traversed
<1>4. /\ UNCHANGED <<agenda, module, recovered, probed, engineStop, stop, expired, status>>
      /\ UNCHANGED counters
      /\ cp' = [visited |-> visited, depth |-> graph, pages |-> pages, failed |-> failed,
                pending |-> queue, reported |-> reported, completed |-> completed]
  BY DEF PressOpensChild
<1>5. /\ graph \in [Routes -> Int] /\ visited \in SUBSET Routes /\ queue \in SUBSET queue
  BY <1>1, Below_Type DEF IInv, Traversal
<1>6. Counts' /\ troubles \subseteq troubles'
  BY <1>4 DEF counters, IInv, Counts
<1>7. cp' \in Checkpoints /\ cp'.completed = completed /\ cp'.pages = pages
  BY <1>4, <1>5 DEF IInv, Traversal, Checkpoints
<1> HIDE DEF r, graph
<1> QED
  BY <1>1, <1>2, <1>3, <1>4, <1>5, <1>6, <1>7, BeginStep

\* The call of a scan is over: its caller is the scan that waits for it, or none.
Returns ==
    IF Top.origin = "probe" THEN (\E b \in BOOLEAN : stack' = TopDone(Tail(stack), b)) /\ pc' = pc
                            ELSE stack' = Tail(stack) /\ pc' \in {"drain", "off"}

LEMMA Returned ==
    ASSUME IInv, pc = "scan", Returns
    PROVE  /\ Framed(stack') /\ Nested(stack', visited, pages) /\ (pc' = "scan" <=> stack' # <<>>)
           /\ pc' \in {"scan", "drain", "off"} /\ (pc' = "scan" <=> Top.origin = "probe")
           /\ pc' = "scan" => /\ stack'[1].probing = None /\ stack'[1].phase = "probe"
                              /\ stack'[1].route = Tail(stack)[1].route
                              /\ stack'[1].route \in Routes /\ 1 \in DOMAIN stack'
           /\ Len(stack') <= Len(stack)
           /\ Paged(stack) => Paged(stack')
<1> DEFINE s == Tail(stack)
<1>1. stack # <<>> /\ Framed(stack) /\ Nested(stack, visited, pages) /\ Top = stack[1]
  BY InScan
<1>2. /\ Framed(s) /\ Nested(s, visited, pages) /\ (Top.origin = "probe" <=> s # <<>>)
      /\ s # <<>> => s[1].phase = "probe"
      /\ Paged(stack) => Paged(s)
  BY <1>1, Popped
<1>3. Len(s) <= Len(stack)
  BY <1>1 DEF Framed
<1> HIDE DEF s
<1>4. CASE Top.origin = "probe"
  <2>1. PICK b \in BOOLEAN : stack' = TopDone(s, b) /\ pc' = "scan"
    BY <1>4 DEF Returns, s
  <2>2. PICK f : /\ Continues(f, s) /\ f.probing = None /\ f.phase = "probe"
                 /\ f.page = s[1].page /\ TopDone(s, b) = [s EXCEPT ![1] = f]
    BY <1>2, <1>4, ProbeEnds
  <2>3. /\ Framed(stack') /\ Nested(stack', visited, pages) /\ stack' # <<>>
        /\ stack'[1] = f /\ Len(stack') = Len(s) /\ 1 \in DOMAIN stack'
        /\ Paged(s) => Paged(stack')
    <3> DEFINE t == [s EXCEPT ![1] = f]
    <3>1. s # <<>> /\ Continues(f, s) /\ Framed(s) /\ Nested(s, visited, pages)
      BY <1>2, <1>4, <2>2
    <3>2. /\ Framed(t) /\ Nested(t, visited, pages) /\ t # <<>> /\ t[1] = f /\ Len(t) = Len(s)
          /\ Paged(s) /\ (Steady(f.route) => f.page = f.route) => Paged(t)
      BY <3>1, TopChanges
    <3>3. stack' = t
      BY <2>1, <2>2
    <3>4. Paged(s) /\ Steady(f.route) => f.page = f.route
      <4>1. 1 \in DOMAIN s /\ f.route = s[1].route
        BY <3>1, TopOf DEF Continues
      <4> QED
        BY <2>2, <4>1 DEF Paged
    <3>5. 1 \in DOMAIN t
      BY <3>2, TopOf
    <3> HIDE DEF t
    <3> QED
      BY <3>2, <3>3, <3>4, <3>5
  <2>4. f.route = s[1].route /\ f.route \in Routes
    BY <2>2 DEF Continues, Frames
  <2>5. stack'[1].probing = None /\ stack'[1].phase = "probe" /\ stack'[1].route = s[1].route
        /\ stack'[1].route \in Routes
    BY <2>2, <2>3, <2>4
  <2>6. Len(stack') <= Len(stack) /\ (Paged(stack) => Paged(stack'))
    BY <1>2, <1>3, <2>3
  <2> QED
    BY <1>4, <2>1, <2>3, <2>5, <2>6 DEF s
<1>5. CASE Top.origin # "probe"
  BY <1>2, <1>3, <1>5 DEF Returns, s
<1> QED
  BY <1>4, <1>5

LEMMA ReturnStep ==
    ASSUME IInv, QueueLinks \/ ScanRaises
    PROVE  IInv'
<1>1. /\ pc = "scan" /\ visited' = visited /\ pages' = pages /\ failed' = failed
      /\ completed' = completed /\ probed' = probed /\ engineStop' = engineStop
      /\ UNCHANGED <<agenda, module, recovered, stop, expired, starts, retries>>
  BY DEF QueueLinks, ScanRaises, InTop
<1>2. Returns /\ (Fault \/ NoFault) /\ status' \in {status, "partial_scanned"}
  <2>1. ParentResumes => \E b \in BOOLEAN : stack' = TopDone(Tail(stack), b)
    <3>1. Top.moved \in BOOLEAN
      BY <1>1, InScan DEF Frames
    <3> QED
      BY <3>1 DEF ParentResumes, TopDone
  <2> QED
    BY <2>1 DEF QueueLinks, ScanRaises, ReturnFromScan, Restore, Returns
<1>3. /\ Framed(stack') /\ Nested(stack', visited, pages) /\ (pc' = "scan" <=> stack' # <<>>)
      /\ pc' \in {"scan", "drain", "off"} /\ (pc' = "scan" <=> Top.origin = "probe")
      /\ pc' = "scan" => /\ stack'[1].probing = None /\ stack'[1].phase = "probe"
                         /\ stack'[1].route = Tail(stack)[1].route /\ stack'[1].route \in Routes
                         /\ 1 \in DOMAIN stack'
      /\ Paged(stack) => Paged(stack')
  BY <1>1, <1>2, Returned
<1>4. /\ stack # <<>> /\ Top = stack[1] /\ stack[1] \in Frames /\ Top.route \in Routes
      /\ at \in Routes \cup {None}
  BY <1>1, InScan DEF IInv, Engine
<1>5. Counts' /\ troubles \subseteq troubles' /\ (Fault => "fault" \in troubles')
  BY <1>1, <1>2, FaultCounted DEF IInv
<1>6. Traversal'
  <2>1. CASE QueueLinks
    <3>1. PICK found : /\ found \subseteq Scope
                       /\ queue' = queue \cup found /\ queued' = queued \cup found
                       /\ depth' = Below(Top.route, found, depth) /\ reported' = reported
      BY <2>1 DEF QueueLinks
    <3>2. depth' \in [Routes -> Int]
      BY <1>4, <3>1, Below_Type DEF IInv, Traversal
    <3> QED
      BY <1>1, <3>1, <3>2, Constant DEF IInv, Traversal
  <2>2. CASE ScanRaises
    <3>1. /\ depth' = depth /\ queue' = queue /\ queued' = queued
          /\ reported' \subseteq reported \cup {Top.entry}
      BY <2>2 DEF ScanRaises
    <3>2. Top.entry \in Routes
      BY <1>4 DEF Frames
    <3> QED
      BY <1>1, <3>1, <3>2 DEF IInv, Traversal
  <2> QED
    BY <2>1, <2>2
<1>7. cp' \in Checkpoints /\ Kept'
  <2>1. CASE QueueLinks
    <3>1. SaveCheckpoint
      BY <2>1 DEF QueueLinks
    <3> QED
      BY <1>6, <3>1, Saved
  <2>2. CASE ScanRaises
    <3>1. cp' = cp
      BY <2>2 DEF ScanRaises
    <3> QED
      BY <1>1, <3>1 DEF IInv, Kept, Scanned
  <2> QED
    BY <2>1, <2>2
<1>8. Nested(stack', visited', pages')
  BY <1>1, <1>3
<1>9. Scans'
  BY <1>3, <1>8 DEF Scans
<1>10. at' \in Routes \cup {None}
       /\ (pc' = "scan" => Fault \/ expired \/ at' = stack'[1].route)
  BY <1>2, <1>3, <1>4 DEF QueueLinks, ScanRaises, ReturnFromScan, Restore
<1>11. Engine' /\ Flags' /\ AtWork'
  BY <1>1, <1>2, <1>3, <1>10 DEF IInv, Engine, Flags, AtWork
<1>12. Stopped' /\ Faced'
  BY <1>1, <1>3, <1>5, <1>10 DEF IInv, Stopped, Faced, Fits, Paged
<1> QED
  BY <1>5, <1>6, <1>7, <1>9, <1>11, <1>12 DEF IInv

---------------------------------------------------------------------------
(* The invariant of every behaviour, and what follows from it.             *)

LEMMA Initially == Init => IInv
<1> SUFFICES ASSUME Init PROVE IInv
  OBVIOUS
<1>1. NoCheckpoint \in Checkpoints
  BY DEF NoCheckpoint, Checkpoints
<1>2. Traversal /\ Engine /\ Flags /\ cp \in Checkpoints
  <2>1. Traversal
    BY DEF Init, Traversal
  <2>2. Engine /\ Flags
    BY DEF Init, Engine, Flags
  <2>3. cp \in Checkpoints
    BY <1>1 DEF Init
  <2> QED
    BY <2>1, <2>2, <2>3
<1>3. Counts
  BY Constant DEF Init, Counts
<1>4. Scans
  <2>1. <<>> \in Seq(Frames) /\ DOMAIN <<>> = {}
    BY EmptySeq
  <2> QED
    BY <2>1 DEF Init, Scans, Framed, Nested
<1>5. AtWork /\ Stopped /\ Faced /\ Kept
  <2>1. Paged(<<>>)
    BY EmptySeq DEF Paged
  <2> QED
    BY <2>1 DEF Init, AtWork, Stopped, Faced, Kept
<1> QED
  BY <1>2, <1>3, <1>4, <1>5 DEF IInv

LEMMA Quiet == IInv /\ UNCHANGED vars => IInv'
<1> SUFFICES ASSUME IInv, UNCHANGED vars PROVE IInv'
  OBVIOUS
<1>1. /\ pc' = pc /\ agenda' = agenda /\ module' = module /\ recovered' = recovered
      /\ stack' = stack /\ at' = at /\ probed' = probed /\ engineStop' = engineStop
      /\ cp' = cp /\ stop' = stop /\ expired' = expired /\ status' = status
      /\ starts' = starts /\ faults' = faults /\ retries' = retries /\ troubles' = troubles
  BY DEF vars, memory, counters
<1>2. /\ visited' = visited /\ depth' = depth /\ pages' = pages /\ failed' = failed
      /\ queue' = queue /\ queued' = queued /\ reported' = reported /\ completed' = completed
  BY DEF vars, memory, traversal
<1> QED
  BY <1>1, <1>2 DEF IInv, Traversal, Engine, Flags, Counts, AtWork, Scans, Stopped, Faced, Kept,
                    Scanned, Nested

LEMMA Inductive == IInv /\ [Next]_vars => IInv'
<1> SUFFICES ASSUME IInv, [Next]_vars PROVE IInv'
  OBVIOUS
<1>1. CASE UNCHANGED vars
  BY <1>1, Quiet
<1>2. CASE StartCrawl \/ StopRequest \/ SessionExpires \/ Crash
  BY <1>2, StartStep, OutsideStep
<1>3. CASE CrawlStep
  <2>1. CASE MenuStops \/ SkipCompletedModule \/ MenuIsDone \/ DrainStops \/ DrainIsDone
    BY <2>1, QuietStep
  <2>2. CASE EnterModule \/ CompleteModule \/ ReviewEnds \/ RetryModule \/ Finish
    BY <2>2, ModuleStep
  <2>3. CASE \E u \in Routes : VisitQueued(u)
    BY <2>3, QueueVisitStep
  <2>4. CASE Scanning
    <3>1. CASE MenuNavigates \/ MenuNavigationFails \/ MenuRouteKnown
      BY <3>1, MenuVisitStep, QuietStep
    <3>2. CASE \E c \in Controls : ProbeStops(c) \/ StartProbe(c)
      BY <3>2, ProbeStopsStep, StartProbeStep
    <3>3. CASE \E c \in Controls : Press(c)
      <4>1. PICK c \in Controls : Press(c)
        BY <3>3
      <4>2. /\ InTop("probe") /\ Top.probing # None
            /\ PressInPlace(c) \/ PressLeadsNowhere(c) \/ PressOpensChild(c)
        BY <4>1 DEF Press
      <4> QED
        BY <4>2, InPlaceStep, NowhereStep, ChildStep
    <3>4. CASE ProbeFindsNoControl \/ ScoreRoute \/ QueueLinks \/ ScanRaises
      BY <3>4, NoControlStep, ScoreStep, ReturnStep
    <3>5. CASE (\E c \in Controls : OpenOverlay(c)) \/ OverlayFindsNothing \/ OverlaysDone
      BY <3>5, OpenOverlayStep, NothingOpensStep, OverlaysDoneStep
    <3> QED
      BY <2>4, <3>1, <3>2, <3>3, <3>4, <3>5 DEF Scanning
  <2> QED
    BY <1>3, <2>1, <2>2, <2>3, <2>4 DEF CrawlStep
<1> QED
  BY <1>1, <1>2, <1>3 DEF Next

\* The inductive invariant holds of every behaviour, whatever the site answers, wherever
\* the crawl stops or dies and however often it starts again.
THEOREM Invariance == Spec => []IInv
BY Initially, Inductive, PTL DEF Spec

\* The state of the engine and its checkpoint keep their types: no module, route
\* or control that the crawler has not been given enters them.
THEOREM TypesAreOK == Spec => []TypeOK
<1>1. IInv => TypeOK
  BY DEF IInv, Traversal, Engine, Flags, Counts, Scans, Framed, TypeOK
<1> QED
  BY <1>1, Invariance, PTL

\* No route is scanned inside its own scan, whatever leads where, and the suspended
\* scans are exactly the ones that wait for a probe.
THEOREM ScanIsNested == Spec => []ScansAreNested
<1>1. IInv => ScansAreNested
  BY DEF IInv, Scans, Nested, ScansAreNested
<1> QED
  BY <1>1, Invariance, PTL

---------------------------------------------------------------------------
(* What no step does.                                                      *)

\* A checkpoint that is saved keeps what the engine at work had from the last one.
LEMMA SavedKeeps ==
    ASSUME IInv, pc # "off", Traversal', SaveCheckpoint, completed \subseteq completed'
    PROVE  /\ cp.completed \subseteq cp'.completed
           /\ Scanned(pages) \subseteq Scanned(pages') =>
                  Scanned(cp.pages) \ cp.failed \subseteq Scanned(cp'.pages)
<1>1. cp'.completed = completed' /\ cp'.pages = pages'
  BY Saved
<1>2. cp.completed \subseteq completed /\ Scanned(cp.pages) \ cp.failed \subseteq Scanned(pages)
  BY DEF IInv, Kept
<1> QED
  BY <1>1, <1>2 DEF Scanned

\* Whatever dies, stops or fails, the pages and modules of the checkpoint are kept
\* by every later one, but for a retried module and for the NON-WORKING pages.
THEOREM CheckpointGrows == Spec => CheckpointOnlyGrows
<1> DEFINE Grows == /\ cp.completed \subseteq cp'.completed
                    /\ \/ pc = "review" /\ pc' = "visit"
                       \/ Scanned(cp.pages) \ cp.failed \subseteq Scanned(cp'.pages)
<1>1. ASSUME IInv, Next PROVE Grows
  <2>1. Traversal'
    BY <1>1, Inductive DEF IInv
  <2>2. CASE cp' = cp
    BY <2>2 DEF Scanned
  <2>3. CASE /\ pc # "off" /\ SaveCheckpoint /\ completed \subseteq completed'
             /\ \/ pc = "review" /\ pc' = "visit"
                \/ pages' = pages
                \/ Scanned(pages) \subseteq Scanned(pages')
    <3>1. pages' = pages => Scanned(pages) \subseteq Scanned(pages')
      OBVIOUS
    <3> QED
      BY <1>1, <2>1, <2>3, <3>1, SavedKeeps
  <2>4. CASE cp'.completed = completed /\ cp'.pages = pages /\ pc # "off"
    BY <1>1, <2>4 DEF IInv, Kept, Scanned
  <2> HIDE DEF Grows
  <2>5. CASE \/ StartCrawl \/ StopRequest \/ SessionExpires \/ Crash
             \/ MenuStops \/ SkipCompletedModule \/ MenuIsDone \/ MenuRouteKnown
             \/ DrainStops \/ DrainIsDone \/ ProbeFindsNoControl \/ ScanRaises \/ MenuNavigates
             \/ (\E c \in Controls : OpenOverlay(c)) \/ OverlayFindsNothing \/ OverlaysDone
    <3>1. cp' = cp
      BY <2>5 DEF StartCrawl, StopRequest, SessionExpires, Crash, MenuStops,
                  SkipCompletedModule, MenuIsDone, MenuRouteKnown, DrainStops, DrainIsDone,
                  ProbeFindsNoControl, ScanRaises, MenuNavigates,
                  OpenOverlay, OverlayFindsNothing, OverlaysDone
    <3> QED
      BY <2>2, <3>1
  <2>6. CASE \E u \in Routes : VisitQueued(u)
    <3>1. cp' = cp
      BY <2>6 DEF VisitQueued
    <3> QED
      BY <2>2, <3>1
  <2>7. CASE \E c \in Controls : ProbeStops(c) \/ StartProbe(c) \/ Press(c)
    <3>1. PICK c \in Controls : ProbeStops(c) \/ StartProbe(c) \/ Press(c)
      BY <2>7
    <3>2. CASE ProbeStops(c)
      BY <2>2, <3>2 DEF ProbeStops
    <3>3. CASE StartProbe(c)
      <4>1. /\ pc # "off" /\ SaveCheckpoint /\ completed' = completed /\ pages' = pages
        BY <3>3 DEF StartProbe, InTop, traversal
      <4> QED
        BY <2>3, <4>1
    <3>4. CASE Press(c)
      <4>1. \/ cp' = cp
            \/ pc = "scan" /\ PressOpensChild(c)
        BY <3>4 DEF Press, InTop, PressInPlace, PressLeadsNowhere
      <4>2. ASSUME PressOpensChild(c)
            PROVE  cp'.completed = completed /\ cp'.pages = pages
        BY <4>2 DEF PressOpensChild
      <4> QED
        BY <2>2, <2>4, <4>1, <4>2
    <3> QED
      BY <3>1, <3>2, <3>3, <3>4
  <2>8. CASE EnterModule \/ CompleteModule \/ ReviewEnds \/ Finish \/ ScoreRoute \/ QueueLinks
    <3>1. /\ pc # "off" /\ SaveCheckpoint /\ completed \subseteq completed' /\ pages' = pages
      BY <2>8 DEF EnterModule, CompleteModule, ReviewEnds, Finish, ScoreRoute, QueueLinks,
                  InTop, traversal
    <3> QED
      BY <2>3, <3>1
  <2>9. CASE MenuNavigationFails
    <3>1. /\ pc = "visit" /\ SaveCheckpoint /\ completed' = completed
          /\ pages' = [pages EXCEPT ![Home[module]] = module]
      BY <2>9 DEF MenuNavigationFails
    <3>2. Scanned(pages) \subseteq Scanned(pages')
      BY <1>1, <3>1, Constant DEF IInv, AtWork, Traversal, Scanned
    <3> QED
      BY <2>3, <3>1, <3>2
  <2>10. CASE RetryModule
    <3>1. pc = "review" /\ pc' = "visit" /\ SaveCheckpoint /\ completed' = completed
      BY <2>10 DEF RetryModule
    <3> QED
      BY <2>3, <3>1
  <2> QED
    BY <1>1, <2>5, <2>6, <2>7, <2>8, <2>9, <2>10 DEF Next, CrawlStep, Scanning
<1>2. IInv /\ [Next]_vars => [Grows]_vars
  BY <1>1
<1> QED
  BY <1>2, Invariance, PTL DEF Spec, CheckpointOnlyGrows

\* A crawler that has seen that it must stop opens no further route, however deep
\* in the scans it is.
THEOREM StoppedCrawlIsStill == Spec => StoppedCrawlOpensNothing
<1> DEFINE Still == engineStop /\ engineStop' => visited' = visited /\ Len(stack') <= Len(stack)
<1>1. ASSUME IInv, Next, engineStop, engineStop'
      PROVE  visited' = visited /\ Len(stack') <= Len(stack)
  <2>1. pc \notin {"menu", "visit"} /\ (pc = "scan" => Top.probing = None)
    BY <1>1, InScan DEF IInv, Stopped
  <2>2. Len(stack) \in Nat /\ stack \in Seq(Frames)
    BY <1>1 DEF IInv, Scans, Framed
  <2>3. CASE QueueLinks \/ ScanRaises
    <3>1. pc = "scan" /\ visited' = visited
      BY <2>3 DEF QueueLinks, ScanRaises, InTop
    <3>2. Returns
      <4>1. Top.moved \in BOOLEAN
        BY <1>1, <3>1, InScan DEF Frames
      <4> QED
        BY <2>3, <4>1 DEF QueueLinks, ScanRaises, ReturnFromScan, ParentResumes, Returns, TopDone
    <3> QED
      BY <1>1, <3>1, <3>2, Returned
  <2>4. CASE ScoreRoute
    <3>1. pc = "scan" /\ visited' = visited /\ stack' = TopSet(stack, "links", None)
      BY <2>4 DEF ScoreRoute, InTop, SetTop, TopSet
    <3>2. Len(stack') = Len(stack)
      BY <2>2, <3>1 DEF TopSet
    <3> QED
      BY <2>2, <3>1, <3>2
  <2>5. CASE DrainIsDone \/ CompleteModule \/ Finish \/ StopRequest \/ SessionExpires
    <3>1. visited' = visited /\ stack' = stack
      BY <2>5 DEF DrainIsDone, CompleteModule, Finish, StopRequest, SessionExpires,
                  memory, traversal
    <3> QED
      BY <2>2, <3>1
  <2>6. ~StartCrawl /\ ~Crash /\ ~DrainStops
    BY <1>1 DEF StartCrawl, Crash, DrainStops
  <2>7. /\ ~MenuStops /\ ~SkipCompletedModule /\ ~EnterModule /\ ~MenuIsDone
        /\ ~MenuNavigates /\ ~MenuNavigationFails /\ ~MenuRouteKnown
    BY <2>1 DEF MenuStops, SkipCompletedModule, EnterModule, MenuIsDone,
                MenuNavigates, MenuNavigationFails, MenuRouteKnown
  <2>8. /\ \A c \in Controls : ~ProbeStops(c) /\ ~StartProbe(c) /\ ~Press(c)
        /\ ~ProbeFindsNoControl
    BY <1>1, <2>1 DEF ProbeStops, StartProbe, Press, ProbeFindsNoControl, InTop
  <2>9. ~ReviewEnds /\ ~RetryModule /\ \A u \in Routes : ~VisitQueued(u)
    BY <1>1 DEF ReviewEnds, RetryModule, CanReview, VisitQueued
  <2>10. CASE (\E c \in Controls : OpenOverlay(c)) \/ OverlayFindsNothing \/ OverlaysDone
    <3>1. visited' = visited
      BY <2>10 DEF OpenOverlay, OverlayFindsNothing, OverlaysDone, traversal
    <3>2. Len(stack') = Len(stack)
      <4>1. CASE \E c \in Controls : OpenOverlay(c)
        <5>1. PICK t, b : stack' = [stack EXCEPT ![1].todo = @ \ {t}, ![1].moved = b]
          BY <4>1 DEF OpenOverlay
        <5> QED
          BY <2>2, <5>1
      <4>2. CASE OverlayFindsNothing
        <5>1. PICK t : stack' = [stack EXCEPT ![1].todo = @ \ {t}]
          BY <4>2 DEF OverlayFindsNothing
        <5> QED
          BY <2>2, <5>1
      <4>3. CASE OverlaysDone
        BY <2>2, <4>3 DEF OverlaysDone
      <4> QED
        BY <2>10, <4>1, <4>2, <4>3
    <3> QED
      BY <2>2, <3>1, <3>2
  <2> QED
    BY <1>1, <2>3, <2>4, <2>5, <2>6, <2>7, <2>8, <2>9, <2>10 DEF Next, CrawlStep, Scanning
<1>2. IInv /\ [Next]_vars => [Still]_vars
  BY <1>1
<1> QED
  BY <1>2, Invariance, PTL DEF Spec, StoppedCrawlOpensNothing

\* A probe does not press a control that the classifier parks, unless the site failed, the
\* page was changed in place, or a click on one of its menus leads away from it.
THEOREM ParkedIsLeftByProbes == Spec => ParkedIsNotProbed
<1> DEFINE Left == \A c \in Parked :
                     Press(c) => "fault" \in troubles' \/ Top.moved \/ ~Steady(Top.route)
<1>1. ASSUME IInv, NEW c \in Parked, Press(c), "fault" \notin troubles', ~Top.moved,
             Steady(Top.route)
      PROVE  FALSE
  <2>1. /\ pc = "scan" /\ Top.probing # None /\ c \in Hit
        /\ PressInPlace(c) \/ PressLeadsNowhere(c) \/ PressOpensChild(c)
    BY <1>1 DEF Press, InTop, PressInPlace, PressLeadsNowhere, PressOpensChild
  <2>2. troubles \subseteq troubles'
    BY <2>1 DEF PressInPlace, PressLeadsNowhere, PressOpensChild, Restore, Fault, NoFault,
                counters
  <2>3. /\ at = Top.route /\ Top.page = Top.route /\ Top.route \in Routes
        /\ Top.probing \in Candidates(Top.page) \cup {None}
    BY <1>1, <2>1, <2>2, InScan DEF IInv, Faced, Fits, Sound
  <2>4. Hit = {Top.probing}
    BY <1>1, <2>3, Constant DEF Hit, Displaced
  <2> QED
    BY <1>1, <2>1, <2>3, <2>4 DEF Candidates
<1>2. IInv => Left
  BY <1>1
<1> QED
  BY <1>2, Invariance, PTL DEF Spec, ParkedIsNotProbed

---------------------------------------------------------------------------
(* A run that nothing disturbs is complete.                                *)
(*                                                                         *)
(* The argument is a flood fill: of every page that is scanned, what it    *)
(* shows is scanned or was queued, and where a control leads is known, too *)
(* deep, or still to come: its probe waits in a scan on the stack.  When   *)
(* the run ends, the stack and the queue are empty, so what is scanned is  *)
(* closed under all that a crawl follows, and holds every route that is    *)
(* reachable.                                                              *)

\* What menus and links show of the application.
Discoverable == {d \in Scope : \E r \in Routes : d \in InMenus(r) \cup Links[r]}

(* The sites of the theorem: a redirect leads to a page that stays, and a  *)
(* link out of the application does not come back into it; no control      *)
(* reorders its page; the triggers of a page are not more than are opened, *)
(* and open their menus in place; and what menus and links show is not     *)
(* more than the crawler queues.                                           *)
Plain ==
    /\ \A r \in Routes : Lands[Lands[r]] = Lands[r]
    /\ \A r \in Routes : \A d \in (InMenus(r) \cup Links[r]) \ Scope : Lands[d] \notin Scope
    /\ \A r \in Routes : Candidates(r) \cap Shifts = {}
    /\ \A r \in Routes : Steady(r) /\ Cardinality(TriggersOf(r)) <= MaxTriggers
    /\ Cardinality(Discoverable) <= MaxDiscovered

\* The depths at which every child is scanned.
Shallow(graph) == \A r \in Routes : graph[r] <= MaxDepth

\* By the pages doc: the page that a load of d shows is scanned.
Covered(d, doc) == Lands[d] \in Scope => Lands[d] \in Scanned(doc)

\* Route r is on the stack s; it waits there for the probe of c, or its probe is at work;
\* or it is the innermost scan, and its trigger c is still to be opened.
OnStack(s, r) == \E i \in DOMAIN s : s[i].route = r
Waits(s, tried, r, c) ==
    \E i \in DOMAIN s : /\ s[i].route = r /\ s[i].phase # "links"
                        /\ <<r, c>> \notin tried \/ (i = 1 /\ s[i].probing = c)
ToOpen(s, r, c) ==
    s # <<>> /\ s[1].route = r /\ s[1].phase = "overlays" /\ c \in s[1].todo

\* Of what is visited, queued or in the graph, nothing is lost: it is scanned, it waits
\* in the queue, or it is too deep.
Charted(seen, doc, rest, wait, graph) ==
    /\ seen \subseteq Scanned(doc)
    /\ \A r \in Scanned(doc) : r \in Scope /\ Lands[r] = r
    /\ wait \subseteq Discoverable
    /\ \A d \in wait \ rest : Covered(d, doc)
    /\ \A d \in Routes : graph[d] # -1 => d \in Scanned(doc) \cup wait \/ graph[d] > MaxDepth

\* The target of control c of a scanned route r; the menu of its trigger c; what a
\* scanned route r shows.
Followed(doc, wait, graph, s, tried, r, c) ==
    LET t == Lands[LeadsTo[c]] IN
    t \in Scope => \/ t \in Scanned(doc) \cup wait \/ graph[t] > MaxDepth
                   \/ Waits(s, tried, r, c)
Opened(doc, wait, s, r, c) ==
    Overlays[c] \cap Scope \subseteq Scanned(doc) \cup wait \/ ToOpen(s, r, c)
Pursued(doc, wait, graph, s, tried, r) ==
    /\ \A c \in TriggersOf(r) : Opened(doc, wait, s, r, c)
    /\ OnStack(s, r) \/ Links[r] \cap Scope \subseteq Scanned(doc) \cup wait
    /\ \A c \in Candidates(r) : Followed(doc, wait, graph, s, tried, r, c)
Edges(doc, wait, graph, s, tried) ==
    \A r \in Scanned(doc) : Pursued(doc, wait, graph, s, tried, r)

\* The modules are taken one by one, and the stack is one of pages that have not shifted.
Course ==
    /\ pc \in {"menu", "visit", "review", "end"} => queue = {}
    /\ pc \in {"scan", "drain", "review"} => Covered(Home[module], pages)
    /\ \A m \in completed : Covered(Home[m], pages)
    /\ Selected \subseteq
           agenda \cup completed
                  \cup (IF pc \in {"visit", "scan", "drain", "review"} THEN {module} ELSE {})
    /\ pc = "end" => agenda = {}
    /\ failed \subseteq MayFail
    /\ \A i \in DOMAIN stack : ~stack[i].moved
    /\ \A r \in Routes, c \in Controls : <<r, c>> \in probed => r \in Scanned(pages)

\* A run until its first end, a later start of it, and the checkpoint between them.
FirstRun ==
    /\ status = "running"
    /\ Charted(visited, pages, queue, queued, depth)
    /\ Edges(pages, queued, depth, stack, probed)
    /\ Course

LaterRun ==
    /\ pc \in {"menu", "end"} /\ status = "running"
    /\ agenda \subseteq Selected /\ Selected \subseteq completed
    /\ queue = {} /\ failed = {}
    /\ Shallow(depth) => Reachable \ MayFail \subseteq Scanned(pages)

Between ==
    /\ Selected \subseteq cp.completed /\ cp.pending = {} /\ cp.failed \subseteq MayFail
    /\ Shallow(cp.depth) => Reachable \ MayFail \subseteq Scanned(cp.pages)
    /\ Shallow(cp.depth) /\ starts = 1 => Reachable \subseteq Scanned(cp.pages)

\* The invariant: IInv, and this as long as nothing has disturbed the run.
Calm ==
    troubles = {} =>
        /\ ~stop /\ ~expired /\ ~engineStop
        /\ starts = 0 => pc = "off" /\ status = "new" /\ cp = NoCheckpoint
        /\ starts = 1 /\ pc # "off" => FirstRun
        /\ starts > 1 /\ pc # "off" => LaterRun
        /\ starts > 0 /\ pc = "off" => Between

---------------------------------------------------------------------------
\* A page stays pursued when more is scanned and queued, the graph's deep nodes stay so,
\* and each control that waited still waits or is followed.
LEMMA PursuedKept ==
    ASSUME NEW doc, NEW wait, NEW graph, NEW s, NEW tried, NEW r,
           NEW doc2, NEW wait2, NEW graph2, NEW s2, NEW tried2,
           Pursued(doc, wait, graph, s, tried, r),
           Scanned(doc) \subseteq Scanned(doc2), wait \subseteq wait2,
           \A t \in Routes : graph[t] > MaxDepth => graph2[t] > MaxDepth,
           OnStack(s, r) => \/ OnStack(s2, r)
                            \/ Links[r] \cap Scope \subseteq Scanned(doc2) \cup wait2,
           \A c \in TriggersOf(r) : ToOpen(s, r, c) => Opened(doc2, wait2, s2, r, c),
           \A c \in Candidates(r) :
              Waits(s, tried, r, c) => Followed(doc2, wait2, graph2, s2, tried2, r, c)
    PROVE  Pursued(doc2, wait2, graph2, s2, tried2, r)
<1>1. \A c \in TriggersOf(r) : Opened(doc2, wait2, s2, r, c)
  BY DEF Pursued, Opened
<1>2. OnStack(s2, r) \/ Links[r] \cap Scope \subseteq Scanned(doc2) \cup wait2
  BY DEF Pursued
<1>3. ASSUME NEW c \in Candidates(r) PROVE Followed(doc2, wait2, graph2, s2, tried2, r, c)
  <2> DEFINE t == Lands[LeadsTo[c]]
  <2>1. t \in Scope => \/ t \in Scanned(doc) \cup wait \/ graph[t] > MaxDepth
                       \/ Waits(s, tried, r, c)
    BY DEF Pursued, Followed
  <2>2. t \in Scope => t \in Routes
    BY Constant
  <2>3. CASE Waits(s, tried, r, c)
    BY <2>3
  <2>4. CASE ~Waits(s, tried, r, c)
    BY <2>1, <2>2, <2>4 DEF Followed
  <2> QED
    BY <2>3, <2>4
<1> QED
  BY <1>1, <1>2, <1>3 DEF Pursued

\* What waits on the stack when the innermost scan goes on.
LEMMA WaitsOnTop ==
    ASSUME NEW s, NEW seen, NEW doc, Framed(s), Nested(s, seen, doc), s # <<>>,
           NEW f, Continues(f, s), NEW tried, NEW tried2, NEW r
    PROVE  /\ OnStack(s, r) => OnStack([s EXCEPT ![1] = f], r)
           /\ \A c : Waits(s, tried, r, c) /\ r # s[1].route /\ (<<r, c>> \in tried2 => <<r, c>> \in tried)
                     => Waits([s EXCEPT ![1] = f], tried2, r, c)
           /\ \A c : (r = s[1].route /\ f.phase # "links" /\ (<<r, c>> \notin tried2 \/ f.probing = c))
                     => Waits([s EXCEPT ![1] = f], tried2, r, c)
           /\ \A c : Waits(s, tried, r, c) /\ r = s[1].route
                     => s[1].phase # "links" /\ (<<r, c>> \notin tried \/ s[1].probing = c)
<1> DEFINE t == [s EXCEPT ![1] = f]
<1>1. /\ s \in Seq(Frames) /\ DOMAIN t = DOMAIN s /\ 1 \in DOMAIN s /\ t[1] = f
      /\ \A i \in DOMAIN s : i # 1 => t[i] = s[i]
  BY TopOf DEF Framed
<1>2. f.route = s[1].route
  BY DEF Continues
<1>3. \A i \in DOMAIN s : s[i].route = s[1].route => i = 1
  BY <1>1 DEF Nested
<1> HIDE DEF t
<1>4. OnStack(s, r) => OnStack(t, r)
  BY <1>1, <1>2 DEF OnStack
<1>5. ASSUME NEW c, Waits(s, tried, r, c), r # s[1].route, <<r, c>> \in tried2 => <<r, c>> \in tried
      PROVE  Waits(t, tried2, r, c)
  BY <1>1, <1>5 DEF Waits
<1>6. ASSUME NEW c, r = s[1].route, f.phase # "links", <<r, c>> \notin tried2 \/ f.probing = c
      PROVE  Waits(t, tried2, r, c)
  BY <1>1, <1>2, <1>6 DEF Waits
<1>7. ASSUME NEW c, Waits(s, tried, r, c), r = s[1].route
      PROVE  s[1].phase # "links" /\ (<<r, c>> \notin tried \/ s[1].probing = c)
  BY <1>3, <1>7 DEF Waits
<1> QED
  BY <1>4, <1>5, <1>6, <1>7 DEF t

\* A new scan begins.
LEMMA WaitsBelow ==
    ASSUME NEW s \in Seq(Frames), NEW f \in Frames, NEW tried, NEW r
    PROVE  /\ OnStack(s, r) \/ f.route = r => OnStack(<<f>> \o s, r)
           /\ \A c : Waits(s, tried, r, c) /\ <<r, c>> \notin tried => Waits(<<f>> \o s, tried, r, c)
           /\ \A c : f.route = r /\ f.phase # "links" /\ <<r, c>> \notin tried
                     => Waits(<<f>> \o s, tried, r, c)
<1> DEFINE t == <<f>> \o s
<1>1. /\ t[1] = f /\ 1 \in DOMAIN t /\ DOMAIN s = 1..Len(s) /\ Len(s) \in Nat
      /\ \A i \in DOMAIN s : i + 1 \in DOMAIN t /\ t[i + 1] = s[i]
  OBVIOUS
<1> HIDE DEF t
<1>2. OnStack(s, r) \/ f.route = r => OnStack(t, r)
  BY <1>1 DEF OnStack
<1>3. ASSUME NEW c, Waits(s, tried, r, c), <<r, c>> \notin tried PROVE Waits(t, tried, r, c)
  BY <1>1, <1>3 DEF Waits
<1>4. ASSUME NEW c, f.route = r, f.phase # "links", <<r, c>> \notin tried PROVE Waits(t, tried, r, c)
  BY <1>1, <1>4 DEF Waits
<1> QED
  BY <1>2, <1>3, <1>4 DEF t

\* The innermost scan ends.
LEMMA WaitsAbove ==
    ASSUME NEW s, NEW seen, NEW doc, Framed(s), Nested(s, seen, doc), s # <<>>,
           NEW tried, NEW r, r # s[1].route
    PROVE  /\ OnStack(s, r) => OnStack(Tail(s), r)
           /\ \A c : Waits(s, tried, r, c) => <<r, c>> \notin tried /\ Waits(Tail(s), tried, r, c)
<1> DEFINE t == Tail(s)
<1>1. /\ s \in Seq(Frames) /\ DOMAIN s = 1..Len(s) /\ Len(s) \in Nat
      /\ \A i \in DOMAIN s : i # 1 => i - 1 \in DOMAIN t /\ t[i - 1] = s[i]
  BY DEF Framed
<1> HIDE DEF t
<1>2. OnStack(s, r) => OnStack(t, r)
  BY <1>1 DEF OnStack
<1>3. ASSUME NEW c, Waits(s, tried, r, c) PROVE <<r, c>> \notin tried /\ Waits(t, tried, r, c)
  <2>1. PICK i \in DOMAIN s : /\ s[i].route = r /\ s[i].phase # "links"
                              /\ <<r, c>> \notin tried \/ (i = 1 /\ s[i].probing = c)
    BY <1>3 DEF Waits
  <2>2. i # 1 /\ <<r, c>> \notin tried
    BY <2>1
  <2>3. i - 1 \in DOMAIN t /\ t[i - 1] = s[i]
    BY <1>1, <2>2
  <2> QED
    BY <2>1, <2>2, <2>3 DEF Waits
<1> QED
  BY <1>2, <1>3 DEF t

---------------------------------------------------------------------------
(* The steps of the first run.                                             *)

\* Nothing has asked the crawler to stop, and nothing has failed.
Eased == ~stop /\ ~expired /\ ~engineStop /\ troubles = {}

\* Without a trouble there is no fault, and no stop of a poll.
LEMMA Untroubled ==
    ASSUME Eased, troubles' = {}
    PROVE  /\ ~Fault /\ ~PollStops /\ ~Unreachable
           /\ \A p, q : Restore(p, q) => NoFault
BY DEF Eased, Fault, NoFault, PollStops, Unreachable, Restore

\* Steps that leave the routes and the scans alone.
LEMMA FirstQuiet ==
    ASSUME Plain, IInv, FirstRun, Eased, troubles' = {},
           \/ SkipCompletedModule \/ EnterModule \/ MenuIsDone \/ MenuRouteKnown \/ DrainIsDone
           \/ CompleteModule
    PROVE  FirstRun' /\ Eased' /\ starts' = starts /\ pc' # "off"
<1>1. /\ visited' = visited /\ depth' = depth /\ pages' = pages /\ failed' = failed
      /\ queue' = queue /\ queued' = queued /\ stack' = stack /\ probed' = probed
      /\ status' = status /\ starts' = starts
      /\ stop' = stop /\ expired' = expired /\ engineStop' = engineStop
  BY DEF SkipCompletedModule, EnterModule, MenuIsDone, MenuRouteKnown, DrainIsDone,
         CompleteModule, counters, traversal
<1>2. Charted(visited, pages, queue, queued, depth)' /\ Edges(pages, queued, depth, stack, probed)'
  BY <1>1 DEF FirstRun, Charted, Edges, Pursued, Opened, ToOpen, Followed, Waits, OnStack, Covered, Scanned
<1>3. Course' /\ pc' # "off"
  <2>1. /\ failed' \subseteq MayFail /\ \A i \in DOMAIN stack' : ~stack'[i].moved
        /\ \A x \in Routes, c \in Controls : <<x, c>> \in probed' => x \in Scanned(pages')
    BY <1>1 DEF FirstRun, Course, Scanned
  <2>2. CASE SkipCompletedModule
    <3>1. PICK m \in completed : agenda' = agenda \ {m}
      BY <2>2 DEF SkipCompletedModule
    <3>2. pc = "menu" /\ pc' = pc /\ module' = module /\ completed' = completed
      BY <2>2 DEF SkipCompletedModule, traversal
    <3> QED
      BY <1>1, <2>1, <3>1, <3>2 DEF FirstRun, Course, Covered, Scanned
  <2>3. CASE EnterModule
    <3>1. PICK m \in Modules : module' = m /\ agenda' = agenda \ {m}
      BY <2>3 DEF EnterModule
    <3>2. pc = "menu" /\ pc' = "visit" /\ completed' = completed
      BY <2>3 DEF EnterModule, traversal
    <3> QED
      BY <1>1, <2>1, <3>1, <3>2 DEF FirstRun, Course, Covered, Scanned
  <2>4. CASE MenuIsDone
    <3>1. /\ pc = "menu" /\ pc' = "end" /\ agenda = {} /\ agenda' = agenda /\ module' = module
          /\ completed' = completed
      BY <2>4 DEF MenuIsDone, traversal
    <3> QED
      BY <1>1, <2>1, <3>1 DEF FirstRun, Course, Covered, Scanned
  <2>5. CASE MenuRouteKnown
    <3>1. /\ pc = "visit" /\ pc' = "drain" /\ agenda' = agenda /\ module' = module
          /\ completed' = completed /\ Home[module] \in visited
      BY <2>5 DEF MenuRouteKnown, traversal, Forgotten
    <3>2. Covered(Home[module], pages)
      BY <3>1 DEF FirstRun, Charted, Covered
    <3> QED
      BY <1>1, <2>1, <3>1, <3>2 DEF FirstRun, Course, Covered, Scanned
  <2>6. CASE DrainIsDone
    <3>1. /\ pc = "drain" /\ pc' = "review" /\ agenda' = agenda /\ module' = module
          /\ completed' = completed /\ queue = {}
      BY <2>6 DEF DrainIsDone, traversal, Eased
    <3> QED
      BY <1>1, <2>1, <3>1 DEF FirstRun, Course, Covered, Scanned
  <2>7. CASE CompleteModule
    <3>1. /\ pc = "review" /\ pc' = "menu" /\ agenda' = agenda /\ module' = module
          /\ completed' = completed \cup {module}
      BY <2>7 DEF CompleteModule, Eased
    <3> QED
      BY <1>1, <2>1, <3>1 DEF FirstRun, Course, Covered, Scanned
  <2> QED
    BY <2>2, <2>3, <2>4, <2>5, <2>6, <2>7
<1> QED
  BY <1>1, <1>2, <1>3 DEF FirstRun, Eased

\* The innermost scan goes on: only its controls are tried, and what its frame has to keep
\* of the triggers to open and of the controls to probe.
TriesInTop ==
    \A x \in Routes, c \in Controls :
        <<x, c>> \in probed' => <<x, c>> \in probed \/ x = stack[1].route
OpensInTop ==
    \A c \in TriggersOf(stack[1].route) :
        stack[1].phase = "overlays" /\ c \in stack[1].todo =>
            Opened(pages, queued', stack', stack[1].route, c)
FollowsInTop(f) ==
    \A c \in Candidates(stack[1].route) :
        stack[1].phase # "links" /\ (<<stack[1].route, c>> \notin probed \/ stack[1].probing = c)
          => \/ f.phase # "links" /\ (<<stack[1].route, c>> \notin probed' \/ f.probing = c)
             \/ Followed(pages, queued', depth', stack', probed', stack[1].route, c)

LEMMA TopEdges ==
    ASSUME IInv, Edges(pages, queued, depth, stack, probed), pc = "scan",
           NEW f, Continues(f, stack), stack' = [stack EXCEPT ![1] = f],
           pages' = pages, queued \subseteq queued',
           \A t \in Routes : depth[t] > MaxDepth => depth'[t] > MaxDepth,
           TriesInTop, OpensInTop, FollowsInTop(f)
    PROVE  Edges(pages, queued, depth, stack, probed)'
<1>1. Framed(stack) /\ Nested(stack, visited, pages) /\ stack # <<>>
  BY InScan
<1> SUFFICES ASSUME NEW r \in Scanned(pages)
             PROVE  Pursued(pages, queued', depth', stack', probed', r)
  BY DEF Edges, Scanned
<1>2. Pursued(pages, queued, depth, stack, probed, r)
  BY DEF Edges
<1>3. OnStack(stack, r) => OnStack(stack', r)
  BY <1>1, WaitsOnTop
<1>4. ASSUME NEW c \in Candidates(r), Waits(stack, probed, r, c)
      PROVE  Followed(pages, queued', depth', stack', probed', r, c)
  <2>1. CASE r # stack[1].route
    <3>1. c \in Controls /\ r \in Routes
      BY DEF Candidates, ControlsOf, Scanned
    <3>2. <<r, c>> \in probed' => <<r, c>> \in probed
      BY <2>1, <3>1 DEF TriesInTop
    <3>3. Waits(stack', probed', r, c)
      BY <1>1, <1>4, <2>1, <3>2, WaitsOnTop
    <3> QED
      BY <3>3 DEF Followed
  <2>2. CASE r = stack[1].route
    <3>1. stack[1].phase # "links" /\ (<<r, c>> \notin probed \/ stack[1].probing = c)
      BY <1>1, <1>4, <2>2, WaitsOnTop
    <3>2. CASE f.phase # "links" /\ (<<r, c>> \notin probed' \/ f.probing = c)
      <4>1. Waits(stack', probed', r, c)
        BY <1>1, <2>2, <3>2, WaitsOnTop
      <4> QED
        BY <4>1 DEF Followed
    <3> QED
      BY <2>2, <3>1, <3>2 DEF FollowsInTop
  <2> QED
    BY <2>1, <2>2
<1>5. \A c \in TriggersOf(r) : ToOpen(stack, r, c) => Opened(pages, queued', stack', r, c)
  BY DEF ToOpen, OpensInTop
<1> QED
  BY <1>2, <1>3, <1>4, <1>5, PursuedKept

\* A scan begins.
LEMMA FirstBegins ==
    ASSUME Plain, IInv, FirstRun, module \in Modules, pc \in {"visit", "drain", "scan"},
           NEW r \in Scope, NEW seen \in SUBSET visited, NEW graph \in [Routes -> Int],
           NEW waiting \in SUBSET queue, NEW origin, NEW entry \in Routes,
           pages[r] = None, Lands[r] = r,
           BeginScan(r, seen, graph, waiting, origin, entry),
           \A d \in Routes : graph[d] = depth[d] \/ (d = r /\ depth[d] = -1),
           \A d \in queue \ waiting : Lands[d] = r,
           stack # <<>> => stack[1].phase = "probe" /\ Lands[LeadsTo[stack[1].probing]] = r,
           pc = "visit" => Lands[Home[module]] = r,
           origin \in {"menu", "queue", "probe"},
           UNCHANGED <<agenda, module, probed, status>>
    PROVE  FirstRun' /\ pc' = "scan"
<1> DEFINE f == NewFrame(r, origin, entry, TriggersOf(r))
           marked == [graph EXCEPT ![r] = IF @ = -1 THEN 0 ELSE @]
<1>1. /\ visited' = seen \cup {r} /\ pages' = [pages EXCEPT ![r] = module]
      /\ queue' = waiting /\ queued' = queued
      /\ failed' = failed /\ completed' = completed /\ pc' = "scan"
      /\ depth' = marked /\ stack' = <<f>> \o stack
  <2>1. Counted(r) = {TriggersOf(r)}
    BY Constant DEF Counted, Plain
  <2> QED
    BY <2>1 DEF BeginScan, NewFrame
<1>2. agenda' = agenda /\ module' = module /\ probed' = probed /\ status' = status
  OBVIOUS
<1>3. /\ f.route = r /\ f.phase = "overlays" /\ ~f.moved /\ f.todo = TriggersOf(r)
      /\ f \in Frames
  BY Constant DEF NewFrame, Frames, TriggersOf, ControlsOf
<1>4. r \in Routes
  BY Constant
<1> HIDE DEF f
<1>5. Scanned(pages') = Scanned(pages) \cup {r}
  BY <1>1, <1>4, Constant DEF IInv, Traversal, Scanned
<1>6. stack \in Seq(Frames) /\ DOMAIN stack = 1..Len(stack) /\ Len(stack) \in Nat
  BY DEF IInv, Scans, Framed
<1>7. /\ \A d \in Routes : depth'[d] = depth[d] \/ (depth[d] = -1 /\ d = r)
      /\ \A t \in Routes : depth[t] > MaxDepth => depth'[t] > MaxDepth
  <2>1. \A d \in Routes : marked[d] = depth[d] \/ (depth[d] = -1 /\ d = r)
    <3> SUFFICES ASSUME NEW d \in Routes
                 PROVE  marked[d] = depth[d] \/ (depth[d] = -1 /\ d = r)
      OBVIOUS
    <3>1. CASE d = r
      BY <1>4, <3>1
    <3>2. CASE d # r
      BY <1>4, <3>2
    <3> QED
      BY <3>1, <3>2
  <2> HIDE DEF marked
  <2>2. \A d \in Routes : depth'[d] = depth[d] \/ (depth[d] = -1 /\ d = r)
    BY <1>1, <2>1
  <2>3. MaxDepth \in Nat /\ depth \in [Routes -> Int]
    BY BoundAssumption DEF IInv, Traversal
  <2> QED
    BY <2>2, <2>3
<1> HIDE DEF marked
<1>8. Charted(visited', pages', queue', queued', depth')
  <2>1. Charted(visited, pages, queue, queued, depth)
    BY DEF FirstRun
  <2>2. visited' \subseteq Scanned(pages')
    BY <1>1, <1>5, <2>1 DEF Charted
  <2>3. \A x \in Scanned(pages') : x \in Scope /\ Lands[x] = x
    BY <1>5, <2>1 DEF Charted
  <2>4. queued' \subseteq Discoverable
    BY <1>1, <2>1 DEF Charted
  <2>5. \A d \in queued' \ queue' : Covered(d, pages')
    <3> SUFFICES ASSUME NEW d \in queued' \ queue' PROVE Covered(d, pages')
      OBVIOUS
    <3>1. d \in queued /\ d \notin waiting
      BY <1>1
    <3>2. CASE d \in queue
      BY <1>5, <3>1, <3>2 DEF Covered
    <3>3. CASE d \notin queue
      BY <1>5, <2>1, <3>1, <3>3 DEF Covered, Charted
    <3> QED
      BY <3>2, <3>3
  <2>6. \A d \in Routes : depth'[d] # -1 => \/ d \in Scanned(pages') \cup queued'
                                            \/ depth'[d] > MaxDepth
    BY <1>1, <1>5, <1>7, <2>1 DEF Charted
  <2> QED
    BY <2>2, <2>3, <2>4, <2>5, <2>6 DEF Charted
<1>9. Edges(pages', queued', depth', stack', probed')
  <2> SUFFICES ASSUME NEW x \in Scanned(pages')
               PROVE  Pursued(pages', queued', depth', stack', probed', x)
    BY DEF Edges
  <2>1. CASE x = r
    <3>1. \A c \in TriggersOf(x) : Opened(pages', queued', stack', x, c)
      <4>1. stack' # <<>> /\ stack'[1] = f
        BY <1>1, <1>3, <1>6
      <4> QED
        BY <1>3, <2>1, <4>1 DEF Opened, ToOpen
    <3>2. OnStack(stack', x)
      BY <1>1, <1>3, <1>6, <2>1, WaitsBelow
    <3>3. ASSUME NEW c \in Candidates(x)
          PROVE  Followed(pages', queued', depth', stack', probed', x, c)
      <4>1. c \in Controls /\ r \notin Scanned(pages)
        BY <2>1 DEF Candidates, ControlsOf, Scanned
      <4>2. <<x, c>> \notin probed
        BY <1>4, <2>1, <4>1 DEF FirstRun, Course
      <4>3. Waits(stack', probed, x, c)
        BY <1>1, <1>3, <1>6, <2>1, <4>2, WaitsBelow
      <4> QED
        BY <1>2, <4>3 DEF Followed
    <3> QED
      BY <3>1, <3>2, <3>3 DEF Pursued
  <2>2. CASE x # r
    <3>1. Pursued(pages, queued, depth, stack, probed, x)
      BY <1>5, <2>2 DEF FirstRun, Edges
    <3>2. OnStack(stack, x) => OnStack(stack', x)
      BY <1>1, <1>3, <1>6, WaitsBelow
    <3>3. ASSUME NEW c \in Candidates(x), Waits(stack, probed, x, c)
          PROVE  Followed(pages', queued', depth', stack', probed', x, c)
      <4>1. CASE <<x, c>> \notin probed
        <5>1. Waits(stack', probed, x, c)
          BY <1>1, <1>3, <1>6, <3>3, <4>1, WaitsBelow
        <5> QED
          BY <1>2, <5>1 DEF Followed
      <4>2. CASE <<x, c>> \in probed
        <5>1. 1 \in DOMAIN stack /\ stack[1].probing = c
          BY <3>3, <4>2 DEF Waits
        <5>2. stack # <<>>
          BY <1>6, <5>1
        <5>3. Lands[LeadsTo[c]] = r
          BY <5>1, <5>2
        <5> QED
          BY <1>5, <5>3 DEF Followed
      <4> QED
        BY <4>1, <4>2
    <3>4. Scanned(pages) \subseteq Scanned(pages') /\ queued \subseteq queued'
      BY <1>1, <1>5
    <3>5. \A c : ~ToOpen(stack, x, c)
      BY DEF ToOpen
    <3> QED
      BY <1>7, <3>1, <3>2, <3>3, <3>4, <3>5, PursuedKept
  <2> QED
    BY <2>1, <2>2
<1>10. Course'
  <2>1. Covered(Home[module], pages')
    <3>1. CASE pc = "visit"
      BY <1>5, <3>1 DEF Covered
    <3>2. CASE pc # "visit"
      <4>1. Covered(Home[module], pages)
        BY <3>2 DEF FirstRun, Course
      <4> QED
        BY <1>5, <4>1 DEF Covered
    <3> QED
      BY <3>1, <3>2
  <2>2. \A m \in completed : Covered(Home[m], pages')
    BY <1>5 DEF FirstRun, Course, Covered
  <2>3. Selected \subseteq agenda' \cup completed' \cup {module'}
    BY <1>1, <1>2 DEF FirstRun, Course
  <2>4. \A i \in DOMAIN stack' : ~stack'[i].moved
    <3>1. \A i \in DOMAIN stack' : stack'[i] = f \/ \E j \in DOMAIN stack : stack'[i] = stack[j]
      BY <1>1, <1>3, <1>6
    <3> QED
      BY <1>3, <3>1 DEF FirstRun, Course
  <2>5. failed' \subseteq MayFail /\ \A x \in Routes, c \in Controls : <<x, c>> \in probed' => x \in Scanned(pages')
    BY <1>1, <1>2, <1>5 DEF FirstRun, Course
  <2> QED
    BY <1>1, <1>2, <2>1, <2>2, <2>3, <2>4, <2>5 DEF Course
<1> QED
  BY <1>1, <1>2, <1>8, <1>9, <1>10 DEF FirstRun

\* The menu entry is known, skipped or scanned.
LEMMA FirstMenu ==
    ASSUME Plain, IInv, FirstRun, Eased, troubles' = {}, MenuNavigates
    PROVE  FirstRun' /\ Eased' /\ starts' = starts /\ pc' # "off"
<1> DEFINE r == Lands[Home[module]]
<1>1. /\ pc = "visit" /\ module \in Modules /\ stack = <<>> /\ r \in Routes
      /\ Home[module] \in Routes
  BY Constant DEF IInv, AtWork, Engine, Scans, MenuNavigates
<1>2. /\ UNCHANGED <<agenda, module, recovered, probed, engineStop, stop, expired, status>>
      /\ starts' = starts
  BY DEF MenuNavigates, counters
<1>3. Forgotten \in SUBSET visited
  BY DEF Forgotten
<1>4. CASE SkipScan(r, Forgotten) /\ pc' = "drain"
           /\ UNCHANGED <<stack, depth, pages, failed, queue, queued, completed>>
  <2>1. visited' = Forgotten /\ ScanIsSkipped(r, Forgotten)
    BY <1>4 DEF SkipScan
  <2>2. Covered(Home[module], pages)
    BY <1>1, <1>3, <2>1 DEF ScanIsSkipped, Covered, FirstRun, Charted, Scanned
  <2>3. /\ stack' = stack /\ depth' = depth /\ pages' = pages /\ failed' = failed
        /\ queue' = queue /\ queued' = queued /\ completed' = completed
        /\ agenda' = agenda /\ module' = module /\ probed' = probed /\ status' = status
    BY <1>2, <1>4
  <2>4. Charted(visited, pages, queue, queued, depth)'
    BY <1>3, <2>1, <2>3 DEF FirstRun, Charted, Covered, Scanned
  <2>5. Edges(pages, queued, depth, stack, probed)'
    BY <2>3 DEF FirstRun, Edges, Pursued, Opened, ToOpen, Followed, Waits, OnStack, Scanned
  <2>6. Course'
    BY <1>1, <1>4, <2>2, <2>3 DEF FirstRun, Course, Covered, Scanned
  <2> QED
    BY <1>2, <1>4, <2>3, <2>4, <2>5, <2>6 DEF FirstRun, Eased
<1>5. CASE ~ScanIsSkipped(r, Forgotten)
           /\ BeginScan(r, Forgotten, depth, queue, "menu", Home[module])
  <2>1. r \in Scope /\ pages[r] = None /\ Lands[r] = r
    BY <1>1, <1>5 DEF ScanIsSkipped, Plain
  <2>2. depth \in [Routes -> Int] /\ queue \in SUBSET queue
    BY DEF IInv, Traversal
  <2>3. FirstRun' /\ pc' = "scan"
    BY <1>1, <1>2, <1>3, <1>5, <2>1, <2>2, FirstBegins
  <2> QED
    BY <1>2, <2>3 DEF Eased
<1> QED
  BY <1>4, <1>5 DEF MenuNavigates

\* A queued URL is known, skipped or scanned.
LEMMA FirstVisit ==
    ASSUME Plain, IInv, FirstRun, Eased, troubles' = {}, NEW u \in Routes, VisitQueued(u)
    PROVE  FirstRun' /\ Eased' /\ starts' = starts /\ pc' # "off"
<1>1. /\ pc = "drain" /\ module \in Modules /\ stack = <<>> /\ Lands[u] \in Routes
      /\ u \in queue
  BY Constant DEF IInv, AtWork, Engine, Scans, VisitQueued
<1>2. /\ UNCHANGED <<agenda, module, recovered, probed, engineStop, stop, expired, status>>
      /\ starts' = starts
  BY DEF VisitQueued
<1>3. ~Unreachable
  BY Untroubled
<1>4. CASE /\ Covered(u, pages) /\ queue' = queue \ {u} /\ visited' = visited
           /\ UNCHANGED <<pc, stack, depth, pages, failed, queued, completed>>
  <2>1. /\ stack' = stack /\ depth' = depth /\ pages' = pages /\ failed' = failed
        /\ queued' = queued /\ completed' = completed /\ pc' = pc
        /\ agenda' = agenda /\ module' = module /\ probed' = probed /\ status' = status
    BY <1>2, <1>4
  <2>2. Charted(visited, pages, queue, queued, depth)'
    BY <1>4, <2>1 DEF FirstRun, Charted, Covered, Scanned
  <2>3. Edges(pages, queued, depth, stack, probed)'
    BY <2>1 DEF FirstRun, Edges, Pursued, Opened, ToOpen, Followed, Waits, OnStack, Scanned
  <2>4. Course'
    BY <1>1, <2>1 DEF FirstRun, Course, Covered, Scanned
  <2> QED
    BY <1>1, <1>2, <2>1, <2>2, <2>3, <2>4 DEF FirstRun, Eased
<1>5. CASE /\ u \in visited /\ queue' = queue \ {u}
           /\ UNCHANGED <<pc, stack, at, visited, depth, pages, failed, queued, reported,
                          completed, faults, troubles>>
  <2>1. Covered(u, pages)
    BY <1>5 DEF FirstRun, Charted, Covered
  <2> QED
    BY <1>4, <1>5, <2>1
<1>6. CASE /\ SkipScan(Lands[u], visited) /\ queue' = queue \ {u}
           /\ UNCHANGED <<pc, stack, depth, pages, failed, queued, completed>>
  <2>1. visited' = visited /\ ScanIsSkipped(Lands[u], visited)
    BY <1>6 DEF SkipScan
  <2>2. Covered(u, pages)
    BY <1>1, <2>1 DEF ScanIsSkipped, Covered, FirstRun, Charted, Scanned
  <2> QED
    BY <1>4, <1>6, <2>1, <2>2
<1>7. CASE /\ ~ScanIsSkipped(Lands[u], visited)
           /\ BeginScan(Lands[u], visited, depth, queue \ {u}, "queue", u)
  <2>1. Lands[u] \in Scope /\ pages[Lands[u]] = None /\ Lands[Lands[u]] = Lands[u]
    BY <1>1, <1>7 DEF ScanIsSkipped, Plain
  <2>2. /\ depth \in [Routes -> Int] /\ queue \ {u} \in SUBSET queue /\ visited \in SUBSET visited
        /\ \A d \in queue \ (queue \ {u}) : Lands[d] = Lands[u]
    BY DEF IInv, Traversal
  <2>3. FirstRun' /\ pc' = "scan"
    BY <1>1, <1>2, <1>7, <2>1, <2>2, FirstBegins
  <2> QED
    BY <1>2, <2>3 DEF Eased
<1> QED
  BY <1>3, <1>5, <1>6, <1>7 DEF VisitQueued

\* The innermost scan goes on, no page is added, and only what is found is queued.
LEMMA FirstTop ==
    ASSUME IInv, FirstRun, pc = "scan", pc' = pc,
           NEW f, Continues(f, stack), ~f.moved, stack' = [stack EXCEPT ![1] = f],
           UNCHANGED <<agenda, module, status, visited, pages, completed>>,
           NEW found \in SUBSET Discoverable,
           queue' = queue \cup found, queued' = queued \cup found,
           failed' \subseteq MayFail,
           \A d \in Routes :
               \/ depth'[d] = depth[d]
               \/ depth[d] = -1 /\ (d \in Scanned(pages) \cup found \/ depth'[d] > MaxDepth),
           TriesInTop, OpensInTop, FollowsInTop(f)
    PROVE  FirstRun'
<1>1. /\ agenda' = agenda /\ module' = module /\ status' = status /\ visited' = visited
      /\ pages' = pages /\ completed' = completed
  OBVIOUS
<1>2. \A t \in Routes : depth[t] > MaxDepth => depth'[t] > MaxDepth
  BY BoundAssumption DEF IInv, Traversal
<1>3. Edges(pages, queued, depth, stack, probed)'
  BY <1>1, <1>2, TopEdges DEF FirstRun
<1>4. Charted(visited, pages, queue, queued, depth)'
  <2>1. Charted(visited, pages, queue, queued, depth)
    BY DEF FirstRun
  <2>2. \A d \in Routes : depth'[d] # -1 => \/ d \in Scanned(pages) \cup queued'
                                            \/ depth'[d] > MaxDepth
    BY <1>2, <2>1 DEF Charted
  <2>3. queued' \subseteq Discoverable /\ queued' \ queue' \subseteq queued \ queue
    BY <2>1 DEF Charted
  <2>4. \A d \in queued' \ queue' : Covered(d, pages')
    BY <1>1, <2>1, <2>3 DEF Charted, Covered, Scanned
  <2> QED
    BY <1>1, <2>1, <2>2, <2>3, <2>4 DEF Charted, Covered, Scanned
<1>5. Course'
  <2>1. stack # <<>> /\ Framed(stack) /\ Nested(stack, visited, pages)
    BY InScan
  <2>2. \A i \in DOMAIN stack' : ~stack'[i].moved
    <3>1. DOMAIN stack' = DOMAIN stack /\ \A i \in DOMAIN stack : i # 1 => stack'[i] = stack[i]
      BY <2>1 DEF Framed
    <3>2. stack'[1] = f
      BY <2>1, TopChanges
    <3> QED
      BY <3>1, <3>2 DEF FirstRun, Course
  <2>3. stack[1].route \in Scanned(pages)
    BY <2>1, TopOf DEF Nested
  <2>4. \A x \in Routes, c \in Controls : <<x, c>> \in probed' => x \in Scanned(pages')
    BY <1>1, <2>3 DEF FirstRun, Course, TriesInTop
  <2> QED
    BY <1>1, <2>2, <2>4 DEF FirstRun, Course, Covered, Scanned
<1> QED
  BY <1>1, <1>3, <1>4, <1>5 DEF FirstRun

\* As long as nothing disturbs a plain site, the browser shows the page of the innermost
\* scan, and its controls are the ones that were read.
LEMMA OnPage ==
    ASSUME Plain, IInv, FirstRun, Eased, pc = "scan"
    PROVE  /\ stack # <<>> /\ Framed(stack) /\ Nested(stack, visited, pages)
           /\ Top = stack[1] /\ 1 \in DOMAIN stack /\ stack[1].route \in Routes
           /\ at = stack[1].route /\ stack[1].page = stack[1].route /\ ~stack[1].moved
           /\ at # None /\ ~Displaced /\ Sound(stack[1]) /\ stack[1] \in Frames
           /\ stack[1].route \in Scanned(pages)
<1>1. /\ stack # <<>> /\ Framed(stack) /\ Nested(stack, visited, pages) /\ Top = stack[1]
      /\ 1 \in DOMAIN stack /\ stack[1].route \in Routes /\ Sound(stack[1])
      /\ stack[1] \in Frames
  BY InScan
<1>2. at = stack[1].route /\ stack[1].page = stack[1].route /\ ~stack[1].moved
  BY <1>1 DEF IInv, Faced, Fits, Eased, Plain, FirstRun, Course
<1> QED
  BY <1>1, <1>2, Constant DEF Displaced, Nested

\* A trigger opens its menu on the page, and what the menu shows is queued.
LEMMA FirstOverlay ==
    ASSUME Plain, IInv, FirstRun, Eased, troubles' = {}, NEW c \in Controls, OpenOverlay(c)
    PROVE  FirstRun' /\ Eased' /\ starts' = starts /\ pc' # "off"
<1> DEFINE p == stack[1].route
           found == {d \in Overlays[c] \cap Scope : Lands[LeadsTo[c]] = at
                                                  /\ d \notin visited \cup queued}
<1>1. /\ pc = "scan" /\ pc' = pc /\ Top.phase = "overlays"
      /\ queue' = queue \cup found /\ queued' = queued \cup found
      /\ depth' = Below(Top.route, found, depth)
      /\ UNCHANGED <<agenda, module, status, engineStop, stop, expired, starts, probed>>
      /\ UNCHANGED <<visited, pages, failed, completed>>
  BY DEF OpenOverlay, InTop, counters
<1>2. /\ stack # <<>> /\ Framed(stack) /\ Top = stack[1] /\ p \in Routes /\ at = p
      /\ ~stack[1].moved /\ ~Displaced /\ Sound(stack[1]) /\ stack[1] \in Frames
      /\ p \in Scanned(pages)
  BY <1>1, OnPage
<1>3. /\ c \in stack[1].todo
      /\ stack' = TopTried(stack, stack[1].todo \ {c}, StaysMoved(c, Lands[LeadsTo[c]]))
  BY <1>2 DEF OpenOverlay, TopTried
<1>4. c \in TriggersOf(p) /\ Lands[LeadsTo[c]] = at /\ c \notin Shifts
  BY <1>2, <1>3 DEF Sound, Plain, Steady
<1>5. StaysMoved(c, Lands[LeadsTo[c]]) = FALSE
  BY <1>2, <1>4 DEF StaysMoved
<1>6. PICK f : /\ Continues(f, stack) /\ f.phase = "overlays" /\ f.probing = None
               /\ f.todo = stack[1].todo \ {c} /\ f.moved = FALSE
               /\ stack' = [stack EXCEPT ![1] = f]
  <2>1. PICK rest \in SUBSET stack[1].todo, moved \in BOOLEAN :
           rest = stack[1].todo \ {c} /\ moved = FALSE
    OBVIOUS
  <2>2. \E f : /\ Continues(f, stack) /\ f.phase = stack[1].phase
               /\ f.probing = stack[1].probing /\ f.todo = rest /\ f.moved = moved
               /\ f.page = stack[1].page /\ TopTried(stack, rest, moved) = [stack EXCEPT ![1] = f]
    BY <1>2, TriggerTried
  <2>3. stack[1].probing = None /\ stack[1].phase = "overlays"
    BY <1>1, <1>2 DEF Sound
  <2>4. stack' = TopTried(stack, rest, moved)
    BY <1>3, <1>5, <2>1
  <2> QED
    BY <2>1, <2>2, <2>3, <2>4
<1>7. /\ found \subseteq Discoverable
      /\ Overlays[c] \cap Scope \subseteq Scanned(pages) \cup queued \cup found
  <2>1. found \subseteq InMenus(p) \cap Scope
    BY <1>4 DEF InMenus
  <2>2. visited \subseteq Scanned(pages)
    BY DEF FirstRun, Charted
  <2> QED
    BY <1>2, <1>4, <2>1, <2>2 DEF Discoverable
<1>8. \A d \in Routes : depth'[d] = depth[d] \/ (depth[d] = -1 /\ d \in found)
  BY <1>1 DEF Below
<1> HIDE DEF found
<1>9. OpensInTop
  <2>0. stack' # <<>> /\ stack'[1] = f
    BY <1>2, <1>6, TopChanges DEF IInv, Scans
  <2> SUFFICES ASSUME NEW k \in TriggersOf(p), k \in stack[1].todo
               PROVE  Opened(pages, queued', stack', p, k)
    BY DEF OpensInTop
  <2>1. CASE k = c
    BY <1>1, <1>7, <2>1 DEF Opened
  <2>2. CASE k # c
    BY <1>6, <2>0, <2>2 DEF Opened, ToOpen, Continues
  <2> QED
    BY <2>1, <2>2
<1>10. TriesInTop /\ FollowsInTop(f)
  <2>1. stack[1].probing = None
    BY <1>1, <1>2 DEF Sound
  <2> QED
    BY <1>1, <1>6, <2>1 DEF TriesInTop, FollowsInTop
<1>11. failed' \subseteq MayFail
  BY <1>1 DEF FirstRun, Course
<1>12. ~f.moved
  BY <1>6
<1>13. FirstRun'
  BY <1>1, <1>6, <1>7, <1>8, <1>9, <1>10, <1>11, <1>12, FirstTop
<1> QED
  BY <1>1, <1>13 DEF Eased

\* The triggers are all opened, and the controls to probe are read.
LEMMA FirstControls ==
    ASSUME Plain, IInv, FirstRun, Eased, troubles' = {}, OverlaysDone
    PROVE  FirstRun' /\ Eased' /\ starts' = starts /\ pc' # "off"
<1>1. /\ pc = "scan" /\ pc' = pc /\ Top.phase = "overlays" /\ Top.todo = {}
      /\ stack' = TopRead(stack, at)
      /\ UNCHANGED <<agenda, module, status, engineStop, stop, expired, starts, probed>>
      /\ UNCHANGED <<visited, depth, pages, failed, queue, queued, completed>>
  BY Untroubled DEF OverlaysDone, InTop, TopRead, traversal
<1>2. /\ stack # <<>> /\ Framed(stack) /\ Top = stack[1] /\ Sound(stack[1]) /\ at \in Routes
  BY <1>1, OnPage
<1>3. PICK f : /\ Continues(f, stack) /\ f.phase = "probe" /\ f.probing = None
               /\ ~f.moved /\ stack' = [stack EXCEPT ![1] = f]
  BY <1>1, <1>2, ControlsRead
<1>4. TriesInTop /\ OpensInTop /\ FollowsInTop(f)
  <2>1. stack[1].probing = None /\ stack[1].todo = {}
    BY <1>1, <1>2 DEF Sound
  <2> QED
    BY <1>1, <1>3, <2>1 DEF TriesInTop, OpensInTop, FollowsInTop
<1>5. failed' \subseteq MayFail
  BY <1>1 DEF FirstRun, Course
<1>6. queue' = queue \cup {} /\ queued' = queued \cup {} /\ {} \in SUBSET Discoverable
  BY <1>1
<1>7. \A d \in Routes : depth'[d] = depth[d]
  BY <1>1
<1>8. FirstRun'
  BY <1>1, <1>3, <1>4, <1>5, <1>6, <1>7, FirstTop
<1> QED
  BY <1>1, <1>8 DEF Eased

\* A probe begins: its control no longer waits, but is at work.
LEMMA FirstProbe ==
    ASSUME Plain, IInv, FirstRun, Eased, troubles' = {}, NEW c \in Controls, StartProbe(c)
    PROVE  FirstRun' /\ Eased' /\ starts' = starts /\ pc' # "off"
<1> DEFINE p == stack[1].route
<1>1. /\ pc = "scan" /\ pc' = pc /\ Top.phase = "probe" /\ Top.probing = None /\ c \in Unprobed
      /\ probed' = probed \cup {<<Top.route, c>>} /\ stack' = TopSet(stack, "probe", c)
      /\ UNCHANGED <<agenda, module, status, engineStop, stop, expired, starts>>
  BY DEF StartProbe, InTop, SetTop, TopSet, counters
<1>2. UNCHANGED <<visited, depth, pages, failed, queue, queued, completed>>
  BY DEF StartProbe, traversal
<1>3. /\ stack # <<>> /\ Framed(stack) /\ Top = stack[1] /\ p \in Routes
      /\ stack[1].page = p /\ ~stack[1].moved
  BY <1>1, OnPage
<1>4. c \in Candidates(stack[1].page) \cup {None}
  BY <1>1, <1>3 DEF Unprobed
<1>5. PICK f : /\ Continues(f, stack) /\ f.phase = "probe" /\ f.probing = c
               /\ f.moved = stack[1].moved /\ stack' = [stack EXCEPT ![1] = f]
  BY <1>1, <1>3, <1>4, PhaseSet
<1>6. FollowsInTop(f)
  <2> SUFFICES ASSUME NEW k \in Candidates(p), <<p, k>> \notin probed \/ stack[1].probing = k
               PROVE  <<p, k>> \notin probed' \/ f.probing = k
    BY <1>5 DEF FollowsInTop
  <2>1. k # None
    BY Constant DEF Candidates, ControlsOf
  <2> QED
    BY <1>1, <1>3, <1>5, <2>1
<1>7. TriesInTop /\ OpensInTop
  BY <1>1, <1>3 DEF TriesInTop, OpensInTop
<1>8. failed' \subseteq MayFail /\ ~f.moved
  BY <1>2, <1>3, <1>5 DEF FirstRun, Course
<1>9. /\ queue' = queue \cup {} /\ queued' = queued \cup {} /\ {} \in SUBSET Discoverable
      /\ \A d \in Routes : depth'[d] = depth[d]
  BY <1>2
<1>10. FirstRun'
  BY <1>1, <1>2, <1>5, <1>6, <1>7, <1>8, <1>9, FirstTop
<1> QED
  BY <1>1, <1>10 DEF Eased

\* A probe presses its own control: it stays on the page, leads to what is known, out of
\* the application or too deep, or the page it leads to is scanned.
LEMMA FirstPress ==
    ASSUME Plain, IInv, FirstRun, Eased, troubles' = {}, NEW c \in Controls, Press(c)
    PROVE  FirstRun' /\ Eased' /\ starts' = starts /\ pc' # "off"
<1> DEFINE r == Lands[LeadsTo[c]]
           p == stack[1].route
<1>1. /\ pc = "scan" /\ Top.phase = "probe" /\ Top.probing # None /\ c \in Hit
      /\ PressInPlace(c) \/ PressLeadsNowhere(c) \/ PressOpensChild(c)
  BY DEF Press, InTop, PressInPlace, PressLeadsNowhere, PressOpensChild
<1>2. /\ stack # <<>> /\ Framed(stack) /\ Nested(stack, visited, pages) /\ Top = stack[1]
      /\ 1 \in DOMAIN stack /\ p \in Routes /\ p \in Scanned(pages)
      /\ stack[1].probing \in Candidates(p) \cup {None}
  BY <1>1, OnPage DEF Sound
<1>3. at = p /\ ~stack[1].moved /\ ~Displaced /\ at # None
  BY <1>1, OnPage
<1>4. c = stack[1].probing /\ c \in Candidates(p) /\ stack[1].phase = "probe"
  BY <1>1, <1>2, <1>3 DEF Hit
<1>5. r \in Routes /\ p \in Scanned(pages) /\ Lands[r] = r
  BY <1>2, Constant DEF Plain
<1>6. UNCHANGED <<agenda, module, status, engineStop, stop, expired, starts, probed>>
  BY <1>1 DEF PressInPlace, PressLeadsNowhere, PressOpensChild, counters
<1>7. ASSUME stack' = TopDone(stack, FALSE),
             UNCHANGED <<visited, pages, failed, queue, queued, completed, pc>>,
             \A d \in Routes : \/ depth'[d] = depth[d]
                               \/ depth[d] = -1 /\ (d \in Scanned(pages) \/ depth'[d] > MaxDepth),
             r \in Scope => r \in Scanned(pages) \cup queued \/ depth'[r] > MaxDepth
      PROVE  FirstRun'
  <2>1. PICK f : /\ Continues(f, stack) /\ f.phase = stack[1].phase /\ f.probing = None
                 /\ f.moved = FALSE /\ stack' = [stack EXCEPT ![1] = f]
    BY <1>2, <1>7, ProbeEnds
  <2>2. Followed(pages, queued, depth', stack', probed', p, c)
    BY <1>7 DEF Followed
  <2>3. FollowsInTop(f) /\ TriesInTop /\ OpensInTop
    BY <1>4, <1>6, <1>7, <2>1, <2>2 DEF FollowsInTop, TriesInTop, OpensInTop
  <2>4. failed' \subseteq MayFail
    BY <1>7 DEF FirstRun, Course
  <2>5. /\ queue' = queue \cup {} /\ queued' = queued \cup {} /\ {} \in SUBSET Discoverable
        /\ \A d \in Routes :
               \/ depth'[d] = depth[d]
               \/ depth[d] = -1 /\ (d \in Scanned(pages) \cup {} \/ depth'[d] > MaxDepth)
    BY <1>7
  <2>6. ~f.moved
    BY <2>1
  <2>7. UNCHANGED <<agenda, module, status, visited, pages, completed>> /\ pc' = pc
    BY <1>6, <1>7
  <2> QED
    BY <1>1, <2>1, <2>3, <2>4, <2>5, <2>6, <2>7, FirstTop
<1>8. CASE PressInPlace(c)
  <2>1. /\ UNCHANGED <<pc, visited, depth, pages, failed, queue, queued, completed>>
        /\ r = p
        /\ stack' = [stack EXCEPT ![1].probing = None, ![1].moved = StaysMoved(c, r)]
    BY <1>2, <1>3, <1>8 DEF PressInPlace, traversal
  <2>2. StaysMoved(c, r) = FALSE
    BY <1>2, <1>3, <1>4 DEF Plain, StaysMoved
  <2>3. stack' = TopDone(stack, FALSE)
    BY <2>1, <2>2 DEF TopDone
  <2>4. FirstRun'
    BY <1>5, <1>7, <2>1, <2>3
  <2> QED
    BY <1>1, <1>6, <2>1, <2>4 DEF Eased
<1>9. CASE PressLeadsNowhere(c)
  <2>1. /\ UNCHANGED <<pc, visited, pages, failed, queue, queued, completed>>
        /\ depth' = Below(p, {r} \cap Scope, depth)
        /\ stack' = TopDone(stack, FALSE)
        /\ r \in Scope => Traversed(r) \/ depth[p] >= MaxDepth
    BY <1>2, <1>9 DEF PressLeadsNowhere, TopDone
  <2>2. Traversed(r) => r \in Scanned(pages)
    BY <1>5 DEF Traversed, FirstRun, Charted, Scanned
  <2>3. \A d \in Routes : \/ depth'[d] = depth[d]
                          \/ d = r /\ r \in Scope /\ depth[d] = -1 /\ depth'[d] = depth[p] + 1
    BY <2>1 DEF Below
  <2>4. depth[p] >= MaxDepth => depth[p] + 1 > MaxDepth
    BY <1>2, BoundAssumption DEF IInv, Traversal
  <2>5. \A d \in Routes : \/ depth'[d] = depth[d]
                          \/ depth[d] = -1 /\ (d \in Scanned(pages) \/ depth'[d] > MaxDepth)
    BY <2>1, <2>2, <2>3, <2>4
  <2>6. r \in Scope => r \in Scanned(pages) \cup queued \/ depth'[r] > MaxDepth
    <3>1. CASE depth[r] = -1
      <4>1. r \in Scope => depth'[r] = depth[p] + 1
        BY <1>5, <2>1, <3>1 DEF Below
      <4> QED
        BY <2>1, <2>2, <2>4, <4>1
    <3>2. CASE depth[r] # -1
      <4>1. depth'[r] = depth[r]
        BY <1>5, <2>3, <3>2
      <4> QED
        BY <1>5, <3>2, <4>1 DEF FirstRun, Charted
    <3> QED
      BY <3>1, <3>2
  <2>7. FirstRun'
    BY <1>7, <2>1, <2>5, <2>6
  <2> QED
    BY <1>1, <1>6, <2>1, <2>7 DEF Eased
<1>10. CASE PressOpensChild(c)
  <2> DEFINE graph == Below(p, {r}, depth)
  <2>1. /\ r \in Scope /\ pages[r] = None
        /\ BeginScan(r, visited, graph, queue, "probe", r)
    BY <1>2, <1>10 DEF PressOpensChild, Traversed
  <2>2. module \in Modules
    BY <1>1 DEF IInv, AtWork, Engine
  <2>3. graph \in [Routes -> Int] /\ visited \in SUBSET visited /\ queue \in SUBSET queue
    BY <1>2, Below_Type DEF IInv, Traversal
  <2>4. \A d \in Routes : graph[d] = depth[d] \/ (d = r /\ depth[d] = -1)
    BY DEF Below
  <2>5. /\ \A d \in queue \ queue : Lands[d] = r
        /\ stack[1].phase = "probe" /\ Lands[LeadsTo[stack[1].probing]] = r
    BY <1>4
  <2> HIDE DEF graph
  <2>6. FirstRun' /\ pc' = "scan"
    BY <1>1, <1>5, <1>6, <2>1, <2>2, <2>3, <2>4, <2>5, FirstBegins
  <2> QED
    BY <1>6, <2>6 DEF Eased
<1> QED
  BY <1>1, <1>8, <1>9, <1>10

\* What a scan without a fault measures is what the page is.
LEMMA MeasuredHealth ==
    ASSUME NEW r \in Routes, expired = FALSE, at = r, NEW signals \in Measured(r, FALSE),
           Status(signals) = "NON-WORKING"
    PROVE  r \in MayFail
<1>1. PICK s \in PageSignals[r] :
        signals = [s EXCEPT !.login = FALSE, !.redirected = s.redirected \/ FALSE]
  <2>1. signals \in AsSeen(r)
    BY DEF Measured
  <2>2. PICK s \in PageSignals[r] : signals \in SeenAs(s, at # r)
    BY <2>1 DEF AsSeen
  <2>3. signals \in {[s EXCEPT !.login = l, !.redirected = s.redirected \/ FALSE] :
                          l \in {FALSE, expired}}
    BY <2>2 DEF SeenAs
  <2> QED
    BY <2>3
<1>2. s \in Signals
  BY SiteAssumption
<1>0. s.redirected \in BOOLEAN
  BY <1>2 DEF Signals
<1>3. /\ signals.stable = s.stable /\ signals.loaded = s.loaded /\ signals.broken = s.broken
      /\ signals.redirected = s.redirected /\ signals.late = s.late /\ signals.api = s.api
      /\ signals.targets = s.targets /\ signals.visible = s.visible
      /\ signals.attempted = s.attempted /\ signals.succeeded = s.succeeded
      /\ signals.login = FALSE
  BY <1>0, <1>1, <1>2 DEF Signals
<1>4. Score(signals) = Score(s)
  <2>1. Points(signals) = Points(s) /\ Available(signals) = Available(s)
    BY <1>3 DEF Points, Available
  <2>2. Suspect(signals) = Suspect(s)
    BY <1>3 DEF Suspect
  <2> QED
    BY <2>1, <2>2 DEF Score, NormalizedScore
<1>5. Suspect(signals) = Suspect(s)
  BY <1>3 DEF Suspect
<1>6. Status(s) = "NON-WORKING"
  BY <1>3, <1>4, <1>5 DEF Status
<1> QED
  BY <1>6 DEF MayFail

\* The probes of a page are over when none waits.
LEMMA FirstScore ==
    ASSUME Plain, IInv, FirstRun, Eased, troubles' = {}, ScoreRoute
    PROVE  FirstRun' /\ Eased' /\ starts' = starts /\ pc' # "off"
<1> DEFINE p == stack[1].route
<1>1. /\ pc = "scan" /\ pc' = pc /\ Top.phase = "probe" /\ Top.probing = None
      /\ stack' = TopSet(stack, "links", None)
      /\ UNCHANGED <<agenda, module, status, engineStop, stop, expired, starts, probed>>
      /\ UNCHANGED <<visited, depth, pages, queue, queued, completed>>
  BY DEF ScoreRoute, InTop, SetTop, TopSet
<1>2. /\ stack # <<>> /\ Framed(stack) /\ Top = stack[1] /\ p \in Routes
      /\ stack[1].page = p /\ ~stack[1].moved /\ at = p
  BY <1>1, OnPage
<1>3. PICK signals \in Measured(p, FALSE) :
        /\ Unprobed = {}
        /\ failed' = IF Status(signals) = "NON-WORKING" THEN failed \cup {p} ELSE failed \ {p}
  BY <1>2, Untroubled DEF ScoreRoute, Eased
<1>4. failed' \subseteq MayFail
  <2>1. expired = FALSE
    BY DEF Eased, IInv, Flags
  <2> QED
    BY <1>2, <1>3, <2>1, MeasuredHealth DEF FirstRun, Course
<1>5. PICK f : /\ Continues(f, stack) /\ f.phase = "links" /\ f.probing = None
               /\ f.moved = stack[1].moved /\ stack' = [stack EXCEPT ![1] = f]
  BY <1>1, <1>2, PhaseSet
<1>6. ~f.moved
  BY <1>2, <1>5
<1>7. \A k \in Candidates(p) : <<p, k>> \in probed /\ stack[1].probing # k
  BY <1>1, <1>2, <1>3, Constant DEF Unprobed, Candidates, ControlsOf
<1>8. TriesInTop /\ OpensInTop /\ FollowsInTop(f)
  BY <1>1, <1>2, <1>7 DEF TriesInTop, OpensInTop, FollowsInTop
<1>9. /\ queue' = queue \cup {} /\ queued' = queued \cup {} /\ {} \in SUBSET Discoverable
      /\ \A d \in Routes : depth'[d] = depth[d]
  BY <1>1
<1>10. FirstRun'
  BY <1>1, <1>4, <1>5, <1>6, <1>8, <1>9, FirstTop
<1> QED
  BY <1>1, <1>10 DEF Eased

\* The links of the page are queued, unless the queue has them all, and the scan returns.
LEMMA FirstLinks ==
    ASSUME Plain, IInv, FirstRun, Eased, troubles' = {}, QueueLinks
    PROVE  FirstRun' /\ Eased' /\ starts' = starts /\ pc' # "off"
<1> DEFINE r == stack[1].route
           s == Tail(stack)
<1>1. /\ pc = "scan" /\ stack[1].phase = "links"
      /\ UNCHANGED <<agenda, module, status, engineStop, stop, expired, starts, probed>>
      /\ UNCHANGED <<visited, pages, failed, completed>>
  BY InScan DEF QueueLinks, InTop
<1>2. /\ stack # <<>> /\ Framed(stack) /\ Nested(stack, visited, pages) /\ Top = stack[1]
      /\ 1 \in DOMAIN stack /\ r \in Routes /\ r \in Scanned(pages)
  BY <1>1, OnPage
<1>3. at = r /\ at # None /\ ~Top.moved
  BY <1>1, <1>2, OnPage
<1>4. /\ pages' = pages /\ visited' = visited /\ failed' = failed /\ completed' = completed
      /\ agenda' = agenda /\ module' = module /\ status' = status /\ probed' = probed
  BY <1>1
<1>5. PICK found : /\ found \subseteq Links[r] \cap Scope
                   /\ queue' = queue \cup found /\ queued' = queued \cup found
                   /\ depth' = Below(r, found, depth)
                   /\ Links[r] \cap Scope \subseteq Scanned(pages) \cup queued \cup found
  <2> DEFINE shown == IF at = None \/ Cardinality(queued) >= MaxDiscovered THEN {} ELSE Links[at]
             found == {d \in shown \cap Scope : d # r /\ d \notin queued /\ d \notin visited}
  <2>1. queue' = queue \cup found /\ queued' = queued \cup found /\ depth' = Below(r, found, depth)
    BY <1>2 DEF QueueLinks
  <2>2. found \subseteq Links[r] \cap Scope
    BY <1>3
  <2>3. Links[r] \cap Scope \subseteq Scanned(pages) \cup queued \cup found
    <3>1. CASE Cardinality(queued) >= MaxDiscovered
      <4>1. queued \subseteq Discoverable /\ Discoverable \subseteq Routes
        BY Constant DEF FirstRun, Charted, Discoverable
      <4>2. IsFiniteSet(Discoverable)
        BY <4>1, SiteAssumption, FS_Subset
      <4>3. Cardinality(queued) >= Cardinality(Discoverable)
        <5>1. IsFiniteSet(queued)
          BY <4>1, <4>2, FS_Subset
        <5>2. /\ Cardinality(queued) \in Nat /\ Cardinality(Discoverable) \in Nat
              /\ MaxDiscovered \in Nat
          BY <4>2, <5>1, FS_CardinalityType, BoundAssumption
        <5> QED
          BY <3>1, <5>2 DEF Plain
      <4>4. queued = Discoverable
        BY <4>1, <4>2, <4>3, FS_Subset, FS_CardinalityType
      <4> QED
        BY <1>2, <4>4 DEF Discoverable
    <3>2. CASE ~(Cardinality(queued) >= MaxDiscovered)
      <4>1. found = {d \in Links[r] \cap Scope : d # r /\ d \notin queued /\ d \notin visited}
        BY <1>3, <3>2
      <4>2. visited \cup {r} \subseteq Scanned(pages)
        BY <1>2 DEF FirstRun, Charted, Nested
      <4> QED
        BY <4>1, <4>2
    <3> QED
      BY <3>1, <3>2
  <2> QED
    BY <2>1, <2>2, <2>3
<1>6. /\ \A d \in Routes : depth'[d] = depth[d] \/ (depth[d] = -1 /\ d \in found)
      /\ \A t \in Routes : depth[t] > MaxDepth => depth'[t] > MaxDepth
  <2>1. \A d \in Routes : depth'[d] = depth[d] \/ (depth[d] = -1 /\ d \in found)
    BY <1>5 DEF Below
  <2> QED
    BY <2>1, BoundAssumption DEF IInv, Traversal
<1>7. Charted(visited', pages', queue', queued', depth')
  <2>1. Charted(visited, pages, queue, queued, depth)
    BY DEF FirstRun
  <2>2. queued' \subseteq Discoverable
    BY <1>2, <1>5, <2>1 DEF Charted, Discoverable
  <2>3. queued' \ queue' \subseteq queued \ queue
    BY <1>5
  <2>4. \A d \in Routes : depth'[d] # -1 => \/ d \in Scanned(pages) \cup queued'
                                            \/ depth'[d] > MaxDepth
    BY <1>5, <1>6, <2>1 DEF Charted
  <2> QED
    BY <1>4, <2>1, <2>2, <2>3, <2>4 DEF Charted
<1>8. /\ Framed(s) /\ Nested(s, visited, pages) /\ (stack[1].origin = "probe" <=> s # <<>>)
  BY <1>2, Popped
<1>9. /\ \A x : x # r /\ OnStack(stack, x) => OnStack(stack', x)
      /\ \A x, c : x # r /\ Waits(stack, probed, x, c) => Waits(stack', probed, x, c)
      /\ \A i \in DOMAIN stack' : ~stack'[i].moved
      /\ pc' \in {"scan", "drain"}
  <2>1. /\ \A x : x # r /\ OnStack(stack, x) => OnStack(s, x)
        /\ \A x, c : x # r /\ Waits(stack, probed, x, c)
                         => <<x, c>> \notin probed /\ Waits(s, probed, x, c)
    BY <1>2, WaitsAbove
  <2>2. \A i \in DOMAIN s : ~s[i].moved
    <3>1. \A i \in DOMAIN s : i + 1 \in DOMAIN stack /\ s[i] = stack[i + 1]
      BY <1>2 DEF Framed
    <3> QED
      BY <3>1 DEF FirstRun, Course
  <2> HIDE DEF s
  <2>3. CASE Top.origin # "probe"
    <3>1. stack' = s /\ pc' = "drain"
      BY <2>3 DEF QueueLinks, ReturnFromScan, s
    <3> QED
      BY <2>1, <2>2, <3>1
  <2>4. CASE Top.origin = "probe"
    <3>1. stack' = TopDone(s, FALSE) /\ pc' = pc
      <4>1. ParentResumes /\ pc' = pc
        BY <2>4 DEF QueueLinks, ReturnFromScan
      <4>2. (at' = at /\ Top.moved) = FALSE
        BY <1>3
      <4> QED
        BY <4>1, <4>2 DEF ParentResumes, TopDone, s
    <3>2. s # <<>>
      BY <1>2, <1>8, <2>4
    <3>3. PICK f : /\ Continues(f, s) /\ f.phase = s[1].phase /\ f.probing = None
                   /\ f.moved = FALSE /\ TopDone(s, FALSE) = [s EXCEPT ![1] = f]
      BY <1>8, <3>2, ProbeEnds
    <3>4. stack' = [s EXCEPT ![1] = f]
      BY <3>1, <3>3
    <3>5. \A x : OnStack(s, x) => OnStack(stack', x)
      BY <1>8, <3>2, <3>3, <3>4, WaitsOnTop
    <3>6. ASSUME NEW x, NEW c, Waits(s, probed, x, c), <<x, c>> \notin probed
          PROVE  Waits(stack', probed, x, c)
      <4>1. CASE x # s[1].route
        BY <1>8, <3>2, <3>3, <3>4, <3>6, <4>1, WaitsOnTop
      <4>2. CASE x = s[1].route
        <5>1. f.phase # "links"
          BY <1>8, <3>2, <3>3, <3>6, <4>2, WaitsOnTop
        <5> QED
          BY <1>8, <3>2, <3>3, <3>4, <3>6, <4>2, <5>1, WaitsOnTop
      <4> QED
        BY <4>1, <4>2
    <3>7. \A i \in DOMAIN stack' : ~stack'[i].moved
      <4>1. DOMAIN stack' = DOMAIN s /\ \A i \in DOMAIN s : i # 1 => stack'[i] = s[i]
        BY <1>8, <3>4 DEF Framed
      <4>2. stack'[1] = f
        BY <1>8, <3>2, <3>3, <3>4, TopChanges
      <4> QED
        BY <2>2, <3>3, <4>1, <4>2
    <3> QED
      BY <1>1, <2>1, <3>1, <3>5, <3>6, <3>7
  <2> QED
    BY <2>3, <2>4
<1> HIDE DEF s
<1>10. Edges(pages', queued', depth', stack', probed')
  <2> SUFFICES ASSUME NEW x \in Scanned(pages)
               PROVE  Pursued(pages, queued', depth', stack', probed, x)
    BY <1>4 DEF Edges
  <2>1. Pursued(pages, queued, depth, stack, probed, x)
    BY DEF FirstRun, Edges
  <2>2. queued \subseteq queued'
    BY <1>5
  <2>3. OnStack(stack, x) => \/ OnStack(stack', x)
                             \/ Links[x] \cap Scope \subseteq Scanned(pages) \cup queued'
    BY <1>5, <1>9
  <2>4. ASSUME NEW c \in Candidates(x), Waits(stack, probed, x, c)
        PROVE  Followed(pages, queued', depth', stack', probed, x, c)
    <3>1. x # r
      <4>1. Continues(stack[1], stack)
        BY <1>2 DEF Continues, Framed
      <4> QED
        BY <1>1, <1>2, <2>4, <4>1, WaitsOnTop
    <3> QED
      BY <1>9, <2>4, <3>1 DEF Followed
  <2>5. \A c : ~ToOpen(stack, x, c)
    BY <1>1 DEF ToOpen
  <2> QED
    BY <1>6, <2>1, <2>2, <2>3, <2>4, <2>5, PursuedKept
<1>11. Course'
  BY <1>1, <1>4, <1>9 DEF FirstRun, Course
<1>12. FirstRun'
  BY <1>4, <1>7, <1>10, <1>11 DEF FirstRun
<1> QED
  BY <1>1, <1>9, <1>12 DEF Eased

---------------------------------------------------------------------------
(* The end of a run, its next start, and every step.                       *)

\* Where nothing waits, what is scanned is closed under all that a crawl follows.
LEMMA FirstIsClosed ==
    ASSUME Plain, IInv, FirstRun, pc = "end", Shallow(depth)
    PROVE  Reachable \subseteq Scanned(pages)
<1> DEFINE S == Scanned(pages)
<1>1. /\ queue = {} /\ agenda = {} /\ stack = <<>> /\ S \in SUBSET Scope
      /\ \A x \in S : Lands[x] = x
  BY DEF IInv, Scans, FirstRun, Course, Charted
<1>2. DOMAIN stack = {}
  BY <1>1
<1>3. \A d \in S \cup queued : Lands[d] \in Scope => Lands[d] \in S
  BY <1>1 DEF FirstRun, Charted, Covered
<1>4. \A m \in Selected : Lands[Home[m]] \in Scope => Lands[Home[m]] \in S
  BY <1>1 DEF FirstRun, Course, Covered
<1>5. ASSUME NEW x \in S, NEW c \in Candidates(x), Lands[LeadsTo[c]] \in Scope
      PROVE  Lands[LeadsTo[c]] \in S
  <2> DEFINE t == Lands[LeadsTo[c]]
  <2>1. c \in Controls /\ LeadsTo[c] \in Routes /\ t \in Routes
    BY Constant DEF Candidates, ControlsOf
  <2>2. Lands[t] = t
    BY <2>1 DEF Plain
  <2>3. ~Waits(stack, probed, x, c)
    BY <1>2 DEF Waits
  <2>4. depth[t] <= MaxDepth /\ depth[t] \in Int /\ MaxDepth \in Nat
    BY <2>1, BoundAssumption DEF Shallow, IInv, Traversal
  <2>5. t \in S \cup queued
    BY <1>5, <2>3, <2>4 DEF FirstRun, Edges, Pursued, Followed
  <2> QED
    BY <1>3, <1>5, <2>2, <2>5
<1>6. ASSUME NEW x \in S, NEW d \in InMenus(x) \cup Links[x], Lands[d] \in Scope
      PROVE  Lands[d] \in S
  <2>1. x \in Routes
    BY DEF Scanned
  <2>2. d \in Scope
    BY <1>6, <2>1 DEF Plain
  <2>3. /\ InMenus(x) \cap Scope \subseteq S \cup queued
        /\ Links[x] \cap Scope \subseteq S \cup queued
    BY <1>1, <1>2 DEF FirstRun, Edges, Pursued, Opened, ToOpen, OnStack, InMenus
  <2> QED
    BY <1>3, <1>6, <2>2, <2>3
<1> HIDE DEF S
<1>7. ASSUME NEW d \in UNION {{LeadsTo[c] : c \in Candidates(x)} \cup InMenus(x)
                                  \cup Links[x] : x \in {p \in S : Steady(p)}},
             Lands[d] \in Scope
      PROVE  Lands[d] \in S
  BY <1>5, <1>6, <1>7
<1> QED
  BY <1>1, <1>4, <1>7 DEF Reachable, S

\* The first run writes a complete checkpoint.
LEMMA FirstEnds ==
    ASSUME Plain, IInv, FirstRun, Eased, Finish
    PROVE  Between' /\ Eased' /\ starts' = starts
<1>1. /\ pc = "end" /\ UNCHANGED <<engineStop, stop, expired, starts, troubles>>
      /\ cp'.depth = depth /\ cp'.pages = pages /\ cp'.failed = failed
      /\ cp'.pending = queue /\ cp'.completed = completed
  BY DEF Finish, SaveCheckpoint, traversal, counters
<1>2. Selected \subseteq completed /\ queue = {} /\ failed \subseteq MayFail
  BY <1>1 DEF FirstRun, Course
<1>3. Shallow(depth) => Reachable \subseteq Scanned(pages)
  BY <1>1, FirstIsClosed
<1> QED
  BY <1>1, <1>2, <1>3 DEF Between, Eased, Shallow, Scanned

\* The next start of a complete run finds all its modules completed.
LEMMA LaterStep ==
    ASSUME IInv, LaterRun, Eased, starts > 1, troubles' = {},
           CrawlStep
    PROVE  Eased' /\ starts' = starts /\ (IF pc' = "off" THEN Between' ELSE LaterRun')
<1>1. CASE SkipCompletedModule \/ MenuIsDone
  <2>1. /\ depth' = depth /\ pages' = pages /\ failed' = failed /\ queue' = queue
        /\ completed' = completed /\ status' = status /\ starts' = starts
        /\ engineStop' = engineStop /\ stop' = stop /\ expired' = expired
    BY <1>1 DEF SkipCompletedModule, MenuIsDone, traversal, counters
  <2>2. pc' \in {"menu", "end"} /\ agenda' \subseteq agenda
    BY <1>1 DEF SkipCompletedModule, MenuIsDone, LaterRun
  <2> QED
    BY <2>1, <2>2 DEF LaterRun, Eased, Shallow, Scanned
<1>2. CASE Finish
  <2>1. /\ UNCHANGED <<engineStop, stop, expired, starts>> /\ pc' = "off"
        /\ cp'.depth = depth /\ cp'.pages = pages /\ cp'.failed = failed
        /\ cp'.pending = queue /\ cp'.completed = completed
    BY <1>2 DEF Finish, SaveCheckpoint, traversal, counters
  <2> QED
    BY <2>1 DEF LaterRun, Between, Eased, Shallow, Scanned
<1>3. ~EnterModule /\ ~MenuStops
  BY Untroubled DEF EnterModule, Upcoming, LaterRun, MenuStops
<1>4. ~Scanning
  BY DEF Scanning, MenuNavigates, MenuNavigationFails, MenuRouteKnown, OpenOverlay,
         OverlayFindsNothing, OverlaysDone, ProbeStops, StartProbe, ProbeFindsNoControl, Press, ScoreRoute, QueueLinks, ScanRaises, InTop, LaterRun
<1>5. /\ ~DrainStops /\ ~DrainIsDone /\ \A u \in Routes : ~VisitQueued(u)
      /\ ~CompleteModule /\ ~ReviewEnds /\ ~RetryModule
  BY DEF DrainStops, DrainIsDone, VisitQueued, CompleteModule, ReviewEnds, RetryModule, LaterRun
<1> QED
  BY <1>1, <1>2, <1>3, <1>4, <1>5 DEF CrawlStep

\* Every step of a first run that nothing disturbs.
LEMMA FirstStep ==
    ASSUME Plain, IInv, FirstRun, Eased, troubles' = {}, CrawlStep
    PROVE  Eased' /\ starts' = starts /\ (IF pc' = "off" THEN Between' ELSE FirstRun')
<1>1. /\ ~MenuStops /\ ~MenuNavigationFails /\ ~ScanRaises /\ ~DrainStops
      /\ ~ReviewEnds /\ ~RetryModule /\ \A c \in Controls : ~ProbeStops(c)
  BY Untroubled DEF MenuStops, MenuNavigationFails, ScanRaises, DrainStops, ReviewEnds,
                    RetryModule, ProbeStops
<1>2. ~ProbeFindsNoControl /\ ~OverlayFindsNothing
  <2> SUFFICES ASSUME ProbeFindsNoControl \/ OverlayFindsNothing PROVE FALSE
    OBVIOUS
  <2>1. pc = "scan" /\ Displaced
    BY Untroubled DEF ProbeFindsNoControl, OverlayFindsNothing, InTop
  <2> QED
    BY <2>1, OnPage
<1>3. CASE Finish
  <2>1. pc' = "off"
    BY <1>3 DEF Finish
  <2> QED
    BY <1>3, <2>1, FirstEnds
<1>4. CASE \/ SkipCompletedModule \/ EnterModule \/ MenuIsDone \/ MenuRouteKnown \/ DrainIsDone
           \/ CompleteModule
  BY <1>4, FirstQuiet
<1>5. CASE MenuNavigates \/ OverlaysDone \/ ScoreRoute \/ QueueLinks
  BY <1>5, FirstMenu, FirstControls, FirstScore, FirstLinks
<1>6. CASE \E c \in Controls : OpenOverlay(c) \/ StartProbe(c) \/ Press(c)
  BY <1>6, FirstOverlay, FirstProbe, FirstPress
<1>7. CASE \E u \in Routes : VisitQueued(u)
  BY <1>7, FirstVisit
<1> QED
  BY <1>1, <1>2, <1>3, <1>4, <1>5, <1>6, <1>7 DEF CrawlStep, Scanning

\* A start begins a first run, or goes on from a complete checkpoint.
LEMMA StartIsCalm ==
    ASSUME Plain, IInv, Calm, troubles' = {}, StartCrawl
    PROVE  Calm'
<1>1. /\ pc = "off" /\ starts' = starts + 1 /\ starts \in Nat /\ troubles = {}
      /\ pc' = "menu" /\ agenda' = Selected /\ stack' = <<>> /\ probed' = {}
      /\ engineStop' = FALSE /\ expired' = FALSE /\ stop' = stop /\ status' = "running"
  BY DEF StartCrawl, IInv, Counts
<1>2. /\ visited' = cp.visited /\ depth' = cp.depth /\ failed' = {}
      /\ pages' = [x \in Routes |-> IF x \in cp.failed THEN None ELSE cp.pages[x]]
      /\ queue' = cp.pending \ cp.visited /\ queued' = cp.pending \ cp.visited
      /\ completed' = cp.completed
  BY DEF StartCrawl, LoadCheckpoint
<1>3. Eased'
  BY <1>1 DEF Calm, Eased
<1>4. CASE starts = 0
  <2>1. cp = NoCheckpoint
    BY <1>1, <1>4 DEF Calm
  <2>2. /\ visited' = {} /\ queue' = {} /\ queued' = {} /\ completed' = {}
        /\ \A x \in Routes : depth'[x] = -1 /\ pages'[x] = None
    BY <1>2, <2>1 DEF NoCheckpoint
  <2>3. Scanned(pages') = {} /\ DOMAIN stack' = {}
    BY <1>1, <2>2 DEF Scanned
  <2>4. FirstRun'
    BY <1>1, <1>2, <2>2, <2>3 DEF FirstRun, Charted, Edges, Course
  <2> QED
    BY <1>1, <1>3, <1>4, <2>4 DEF Calm, Eased
<1>5. CASE starts # 0
  <2>1. Between
    BY <1>1, <1>5 DEF Calm
  <2>2. Scanned(pages') = Scanned(cp.pages) \ cp.failed
    BY <1>2 DEF Scanned
  <2>3. LaterRun'
    BY <1>1, <1>2, <2>1, <2>2 DEF LaterRun, Between, Shallow
  <2> QED
    BY <1>1, <1>3, <1>5, <2>3 DEF Calm, Eased
<1> QED
  BY <1>4, <1>5

\* What has disturbed a run is not forgotten.
LEMMA TroublesStay ==
    ASSUME CrawlStep
    PROVE  troubles \subseteq troubles'
<1>1. CASE MenuStops \/ SkipCompletedModule \/ EnterModule \/ MenuIsDone
  BY <1>1 DEF MenuStops, SkipCompletedModule, EnterModule, MenuIsDone, counters, PollStops,
              Fault, NoFault
<1>2. CASE MenuNavigates \/ MenuNavigationFails \/ MenuRouteKnown
  BY <1>2 DEF MenuNavigates, MenuNavigationFails, MenuRouteKnown, counters, Unreachable,
              Fault, NoFault
<1>3. CASE \E c \in Controls : OpenOverlay(c) \/ ProbeStops(c) \/ StartProbe(c) \/ Press(c)
  <2>1. PICK c \in Controls : OpenOverlay(c) \/ ProbeStops(c) \/ StartProbe(c) \/ Press(c)
    BY <1>3
  <2>2. CASE OpenOverlay(c) \/ ProbeStops(c) \/ StartProbe(c)
    BY <2>2 DEF OpenOverlay, ProbeStops, StartProbe, counters, PollStops, Fault, NoFault
  <2>3. CASE Press(c)
    BY <2>3 DEF Press, PressInPlace, PressLeadsNowhere, PressOpensChild, Restore, counters,
                Fault, NoFault
  <2> QED
    BY <2>1, <2>2, <2>3
<1>4. CASE \/ OverlayFindsNothing \/ OverlaysDone \/ ProbeFindsNoControl \/ ScoreRoute
           \/ QueueLinks \/ ScanRaises
  BY <1>4 DEF OverlayFindsNothing, OverlaysDone, ProbeFindsNoControl, ScoreRoute, QueueLinks, ScanRaises, ReturnFromScan, Restore,
              Unreachable, Fault, NoFault
<1>5. CASE DrainStops \/ DrainIsDone \/ \E u \in Routes : VisitQueued(u)
  BY <1>5 DEF DrainStops, DrainIsDone, VisitQueued, counters, PollStops, Unreachable,
              Fault, NoFault
<1>6. CASE CompleteModule \/ ReviewEnds \/ RetryModule \/ Finish
  BY <1>6 DEF CompleteModule, ReviewEnds, RetryModule, Finish, counters
<1> QED
  BY <1>1, <1>2, <1>3, <1>4, <1>5, <1>6 DEF CrawlStep, Scanning

\* The invariant of an undisturbed run is inductive.
LEMMA CalmIsKept ==
    ASSUME Plain, IInv, Calm, [Next]_vars
    PROVE  Calm'
<1> SUFFICES ASSUME troubles' = {} PROVE Calm'
  BY DEF Calm
<1>1. CASE UNCHANGED vars
  <2>1. /\ pc' = pc /\ agenda' = agenda /\ module' = module
        /\ stack' = stack /\ probed' = probed /\ engineStop' = engineStop
        /\ cp' = cp /\ stop' = stop /\ expired' = expired /\ status' = status
        /\ starts' = starts /\ troubles' = troubles
    BY <1>1 DEF vars, memory, counters
  <2>2. /\ visited' = visited /\ depth' = depth /\ pages' = pages /\ failed' = failed
        /\ queue' = queue /\ queued' = queued /\ completed' = completed
    BY <1>1 DEF vars, memory, traversal
  <2>3. FirstRun => FirstRun'
    BY <2>1, <2>2 DEF FirstRun, Charted, Edges, Course, Pursued, Opened, ToOpen, Followed, Waits, OnStack,
                      Covered, Scanned
  <2>4. (LaterRun => LaterRun') /\ (Between => Between')
    BY <2>1, <2>2 DEF LaterRun, Between, Shallow, Scanned
  <2> QED
    BY <2>1, <2>3, <2>4 DEF Calm
<1>2. CASE StartCrawl
  BY <1>2, StartIsCalm
<1>3. ~StopRequest /\ ~SessionExpires /\ ~Crash
  BY DEF StopRequest, SessionExpires, Crash, Fault
<1>4. CASE CrawlStep
  <2>1. troubles = {}
    BY <1>4, TroublesStay
  <2>2. pc # "off"
    BY <1>4 DEF CrawlStep, MenuStops, SkipCompletedModule, EnterModule, MenuIsDone, Scanning,
                MenuNavigates, MenuNavigationFails, MenuRouteKnown, OpenOverlay,
                OverlayFindsNothing, OverlaysDone, ProbeStops, StartProbe,
                ProbeFindsNoControl, Press, ScoreRoute, QueueLinks, ScanRaises, InTop,
                DrainStops, DrainIsDone, VisitQueued, CompleteModule, ReviewEnds, RetryModule,
                Finish
  <2>3. Eased /\ starts \in Nat /\ starts # 0
    BY <2>1, <2>2 DEF Calm, Eased, IInv, Counts
  <2>4. CASE starts = 1
    <3>1. FirstRun
      BY <2>1, <2>2, <2>4 DEF Calm
    <3>2. Eased' /\ starts' = starts /\ (IF pc' = "off" THEN Between' ELSE FirstRun')
      BY <1>4, <2>3, <3>1, FirstStep
    <3> QED
      BY <2>4, <3>2 DEF Calm, Eased
  <2>5. CASE starts # 1
    <3>1. LaterRun /\ starts > 1
      BY <2>1, <2>2, <2>3, <2>5 DEF Calm
    <3>2. Eased' /\ starts' = starts /\ (IF pc' = "off" THEN Between' ELSE LaterRun')
      BY <1>4, <2>3, <3>1, LaterStep
    <3> QED
      BY <2>3, <2>5, <3>2 DEF Calm, Eased
  <2> QED
    BY <2>4, <2>5
<1> QED
  BY <1>1, <1>2, <1>3, <1>4 DEF Next

\* A run that says "scanned", and that nothing disturbed, has scanned every route its
\* modules lead to, whatever order the queue and the controls are taken in: the early
\* returns of _scan_route, the duplicate checks, the known routes and the restored
\* parents lose none.  The site is plain, and no node of the graph is too deep.
THEOREM UndisturbedRunIsComplete ==
    ASSUME Plain
    PROVE  Spec => [](Shallow(cp.depth) => ScannedRunIsComplete)
<1>1. Init => Calm
  BY Constant DEF Init, Calm
<1>2. IInv /\ Calm /\ [Next]_vars => Calm'
  BY CalmIsKept
<1>3. IInv /\ Calm => (Shallow(cp.depth) => ScannedRunIsComplete)
  <2> SUFFICES ASSUME IInv, Calm, Shallow(cp.depth), status = "scanned", troubles = {}
               PROVE  (IF starts = 1 THEN Reachable ELSE Reachable \ MayFail)
                          \subseteq Scanned(cp.pages)
    BY DEF ScannedRunIsComplete
  <2>1. starts \in Nat /\ starts > 0 /\ pc = "off"
    BY DEF Calm, FirstRun, LaterRun, IInv, Counts
  <2>2. Between
    BY <2>1 DEF Calm
  <2> QED
    BY <2>2 DEF Between
<1> QED
  BY <1>1, <1>2, <1>3, Invariance, PTL DEF Spec
=============================================================================
