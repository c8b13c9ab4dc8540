------------------------ MODULE SecurityReviewProofs ------------------------
(***************************************************************************)
(* Proofs about SecurityReview for every set of runs, every site, whatever *)
(* its links, every budget and every cap: the types with the budget of     *)
(* requests, one review at a time, and what a report that says "completed" *)
(* has looked at.                                                          *)
(***************************************************************************)
EXTENDS SecurityReview, FiniteSetTheorems, TLAPS

\* The assumptions, constant by constant.
LEMMA Constant ==
    /\ IsFiniteSet(Pages) /\ Fallback \subseteq Pages
    /\ \A r \in Runs : Captured[r] \subseteq Pages
    /\ \A p \in Pages : Links[p] \subseteq Pages
    /\ Probes \in Nat /\ SeenCap \in Nat /\ MaxRequests \in Nat /\ MaxStarts \in Nat
    /\ MaxControls \in Nat /\ None \notin Runs
BY SiteAssumption, BoundAssumption, NoneAssumption

OnPage == {"answer", "askProbe", "answerProbe", "pageDone"}

\* A review has a place in its code that agrees with its queue; what it has completed
\* is no longer in the queue and never comes back.
Accounted(r, j) ==
    /\ j.queue \subseteq j.seen /\ j.report.endpoints \subseteq j.seen
    /\ Captured[r] \subseteq j.seen
    /\ j.pc \in OnPage => j.page \in j.queue
    /\ j.pc \in OnPage \ {"answer"} => j.page \in j.report.endpoints
    /\ j.pc \in {"askProbe", "answerProbe"} => j.left >= 1
    /\ j.report.completed <= Cardinality(j.seen \ j.queue)

\* The links of every page that was answered are in the queue or were, up to the cap.
LinksSeen(endpoints, seen) ==
    \A p \in endpoints : Links[p] \subseteq seen \/ Cardinality(seen) >= SeenCap

\* Without a warning, every page that was found is answered or waits in the queue.
Whole(j) ==
    /\ ~j.report.gaps => j.seen = j.report.endpoints \cup j.queue
    /\ (~j.report.gaps /\ j.pc # "failed") => LinksSeen(j.report.endpoints, j.seen)
    /\ j.report.status = "completed" => j.pc = "closing" /\ ~j.report.gaps /\ j.queue = {}

JobOK(r, j) == j \in JobRecords /\ Accounted(r, j) /\ Whole(j)

\* What a saved report owes to its reader.
Kept(r, s) ==
    s.status = "completed" =>
        /\ s.pending = 0
        /\ Reachable(r) \subseteq s.endpoints \/ Cardinality(s.endpoints) >= SeenCap

IInv ==
    /\ exists \subseteq Runs /\ jobs \subseteq Runs /\ starting \in Runs \cup {None}
    /\ starts \in 0..MaxStarts /\ controls \in 0..MaxControls
    /\ saved \in [Runs -> SavedReports \cup {None}]
    /\ job \in [Runs -> JobRecords \cup {None}]
    /\ \A r, s \in jobs : r = s
    /\ \A r \in jobs : JobOK(r, job[r])
    /\ \A r \in Runs \ jobs : job[r] = None
    /\ starting # None => starting \in jobs /\ job[starting].pc = "unborn"
    /\ \A r \in Runs : saved[r] # None => Kept(r, saved[r])

---------------------------------------------------------------------------
(* Sizes of sets of pages.                                                 *)

LEMMA Size ==
    ASSUME NEW S \in SUBSET Pages
    PROVE  /\ IsFiniteSet(S) /\ Cardinality(S) \in 0..Cardinality(Pages)
           /\ Cardinality(S) \in Nat
<1>1. IsFiniteSet(Pages) /\ IsFiniteSet(S)
  BY Constant, FS_Subset
<1>2. Cardinality(Pages) \in Nat /\ Cardinality(S) \in Nat /\ Cardinality(S) <= Cardinality(Pages)
  BY <1>1, FS_CardinalityType, FS_Subset
<1> QED
  BY <1>1, <1>2

LEMMA Smaller ==
    ASSUME NEW S \in SUBSET Pages, NEW T \in SUBSET S
    PROVE  Cardinality(T) <= Cardinality(S)
<1>1. IsFiniteSet(S)
  BY Size
<1> QED
  BY <1>1, FS_Subset

\* Pages that join the seen ones do not take a link away.
LEMMA MoreSeen ==
    ASSUME NEW endpoints, NEW seen, NEW more \in SUBSET Pages, seen \subseteq more,
           LinksSeen(endpoints, seen)
    PROVE  LinksSeen(endpoints, more)
<1>1. Cardinality(seen) <= Cardinality(more) /\ Cardinality(seen) \in Nat /\ Cardinality(more) \in Nat
  BY Smaller, Size
<1>2. ASSUME NEW p \in endpoints
      PROVE  Links[p] \subseteq more \/ Cardinality(more) >= SeenCap
  BY <1>1, <1>2, Constant DEF LinksSeen
<1> QED
  BY <1>2 DEF LinksSeen

\* What a whole page adds is all that it links to, or what the cap leaves.
LEMMA FoundAll ==
    ASSUME NEW seen \in SUBSET Pages, NEW links \in SUBSET Pages,
           NEW found \in SUBSET (links \ seen),
           \/ found = links \ seen /\ Cardinality(seen \cup found) <= SeenCap
           \/ /\ Cardinality(seen \cup (links \ seen)) > SeenCap
              /\ Cardinality(found) = IF Cardinality(seen) >= SeenCap THEN 0
                                      ELSE SeenCap - Cardinality(seen)
    PROVE  links \subseteq seen \cup found \/ Cardinality(seen \cup found) >= SeenCap
<1>1. CASE found = links \ seen
  BY <1>1
<1>2. CASE Cardinality(found) = IF Cardinality(seen) >= SeenCap THEN 0
                                ELSE SeenCap - Cardinality(seen)
  <2>1. /\ IsFiniteSet(seen) /\ IsFiniteSet(found)
        /\ Cardinality(seen) \in Nat /\ Cardinality(found) \in Nat
    BY Size
  <2>2. seen \cap found = {}
    OBVIOUS
  <2>3. Cardinality(seen \cup found) =
            Cardinality(seen) + Cardinality(found) - Cardinality(seen \cap found)
    BY <2>1, FS_Union
  <2>4. Cardinality(seen \cap found) = 0
    BY <2>2, FS_EmptySet
  <2> QED
    BY <1>2, <2>1, <2>3, <2>4, Constant
<1> QED
  BY <1>1, <1>2

\* A report that is whole has answered whatever links lead to.
LEMMA ReachableAnswered ==
    ASSUME NEW r \in Runs, NEW S \in SUBSET Pages, Captured[r] \subseteq S, LinksSeen(S, S)
    PROVE  Reachable(r) \subseteq S \/ Cardinality(S) >= SeenCap
<1>1. CASE Closed(S)
  BY <1>1 DEF Reachable
<1>2. CASE ~Closed(S)
  BY <1>2 DEF Closed, LinksSeen
<1> QED
  BY <1>1, <1>2

---------------------------------------------------------------------------
(* What the steps of the worker make of its job.                           *)

\* A move in the code, without a page that is answered.
LEMMA Moved ==
    ASSUME NEW r \in Runs, NEW j, JobOK(r, j), j.report.status # "completed",
           NEW pc \in {"unborn", "next", "interrupted", "failed", "pageDone"},
           pc = "pageDone" => j.pc \in OnPage \ {"answer"}, j.pc = "failed" => pc = "failed"
    PROVE  JobOK(r, [j EXCEPT !.pc = pc])
<1> DEFINE x == [j EXCEPT !.pc = pc]
<1>1. j \in JobRecords /\ pc \in PCs /\ Accounted(r, j) /\ Whole(j)
  BY DEF JobOK, PCs
<1>2. /\ x \in JobRecords /\ x.pc = pc /\ x.queue = j.queue /\ x.seen = j.seen /\ x.page = j.page
      /\ x.left = j.left /\ x.report = j.report
  BY <1>1 DEF JobRecords
<1> HIDE DEF x
<1>3. Accounted(r, x)
  BY <1>1, <1>2 DEF Accounted, OnPage
<1>4. Whole(x)
  BY <1>1, <1>2 DEF Whole
<1> QED
  BY <1>2, <1>3, <1>4 DEF JobOK, x

\* request: one more of the budget.
LEMMA PageAsked ==
    ASSUME NEW r \in Runs, NEW j, JobOK(r, j), j.pc = "next", NEW p \in j.queue,
           j.report.requests < MaxRequests
    PROVE  JobOK(r, [j EXCEPT !.pc = "answer", !.page = p, !.report.requests = @ + 1])
<1> DEFINE rep == [j.report EXCEPT !.requests = @ + 1]
           x == [j EXCEPT !.pc = "answer", !.page = p, !.report.requests = @ + 1]
<1>1. j \in JobRecords /\ Accounted(r, j) /\ Whole(j) /\ p \in Pages /\ j.report \in Reports
  BY DEF JobOK, JobRecords
<1>2. /\ rep \in Reports /\ rep.status = j.report.status /\ rep.completed = j.report.completed
      /\ rep.gaps = j.report.gaps /\ rep.endpoints = j.report.endpoints
  BY <1>1, Constant DEF Reports
<1>3. /\ x \in JobRecords /\ x.pc = "answer" /\ x.queue = j.queue /\ x.seen = j.seen /\ x.page = p
      /\ x.left = j.left /\ x.report = rep
  BY <1>1, <1>2 DEF JobRecords, PCs
<1> HIDE DEF x, rep
<1>4. Accounted(r, x)
  BY <1>1, <1>2, <1>3 DEF Accounted, OnPage
<1>5. Whole(x)
  BY <1>1, <1>2, <1>3 DEF Whole
<1> QED
  BY <1>3, <1>4, <1>5 DEF JobOK, x

LEMMA ProbeAsked ==
    ASSUME NEW r \in Runs, NEW j, JobOK(r, j), j.pc = "askProbe",
           j.report.requests < MaxRequests
    PROVE  JobOK(r, [j EXCEPT !.pc = "answerProbe", !.report.requests = @ + 1])
<1> DEFINE rep == [j.report EXCEPT !.requests = @ + 1]
           x == [j EXCEPT !.pc = "answerProbe", !.report.requests = @ + 1]
<1>1. j \in JobRecords /\ Accounted(r, j) /\ Whole(j) /\ j.report \in Reports
  BY DEF JobOK, JobRecords
<1>2. /\ rep \in Reports /\ rep.status = j.report.status /\ rep.completed = j.report.completed
      /\ rep.gaps = j.report.gaps /\ rep.endpoints = j.report.endpoints
  BY <1>1, Constant DEF Reports
<1>3. /\ x \in JobRecords /\ x.pc = "answerProbe" /\ x.queue = j.queue /\ x.seen = j.seen
      /\ x.page = j.page /\ x.left = j.left /\ x.report = rep
  BY <1>1, <1>2 DEF JobRecords, PCs
<1> HIDE DEF x, rep
<1>4. Accounted(r, x)
  BY <1>1, <1>2, <1>3 DEF Accounted, OnPage
<1>5. Whole(x)
  BY <1>1, <1>2, <1>3 DEF Whole
<1> QED
  BY <1>3, <1>4, <1>5 DEF JobOK, x

\* What leaves the queue stays among what was looked at.
LEMMA Looked ==
    ASSUME NEW seen \in SUBSET Pages, NEW queue \in SUBSET seen, NEW p \in queue
    PROVE  /\ Cardinality(seen \ (queue \ {p})) = Cardinality(seen \ queue) + 1
           /\ Cardinality(seen \ (queue \ {p})) <= Cardinality(Pages)
           /\ Cardinality(seen \ queue) \in Nat
<1>1. seen \ (queue \ {p}) = (seen \ queue) \cup {p} /\ p \notin seen \ queue
  OBVIOUS
<1>2. IsFiniteSet(seen \ queue) /\ Cardinality(seen \ queue) \in Nat
  BY Size
<1>3. Cardinality((seen \ queue) \cup {p}) = Cardinality(seen \ queue) + 1
  BY <1>1, <1>2, FS_AddElement
<1>4. Cardinality(seen \ (queue \ {p})) = Cardinality(seen \ queue) + 1
  BY <1>1, <1>3, Zenon
<1>5. /\ Cardinality(seen \ (queue \ {p})) \in 0..Cardinality(Pages)
      /\ Cardinality(Pages) \in Nat
  BY Size
<1>6. Cardinality(seen \ (queue \ {p})) <= Cardinality(Pages)
  BY <1>5
<1> QED
  BY <1>2, <1>4, <1>6, Zenon

\* A page that could not be read.
LEMMA Unread ==
    ASSUME NEW r \in Runs, NEW j, JobOK(r, j), j.pc = "answer",
           NEW rest, rest = j.queue \ {j.page}
    PROVE  JobOK(r, [j EXCEPT !.pc = "next", !.queue = rest, !.report.gaps = TRUE,
                              !.report.pending = Cardinality(rest)])
<1> DEFINE rep == [j.report EXCEPT !.gaps = TRUE, !.pending = Cardinality(rest)]
           x == [j EXCEPT !.pc = "next", !.queue = rest, !.report.gaps = TRUE,
                          !.report.pending = Cardinality(rest)]
<1>1. /\ j \in JobRecords /\ Accounted(r, j) /\ Whole(j) /\ j.report \in Reports
      /\ j.seen \in SUBSET Pages /\ j.queue \in SUBSET j.seen /\ j.page \in j.queue
      /\ rest \in SUBSET Pages
  BY DEF JobOK, JobRecords, Accounted, OnPage
<1>2. /\ Cardinality(rest) \in 0..Cardinality(Pages)
      /\ j.report.completed <= Cardinality(j.seen \ rest)
  <2>1. j.report.completed \in Nat /\ j.report.completed <= Cardinality(j.seen \ j.queue)
    BY <1>1 DEF Reports, Accounted
  <2>2. /\ Cardinality(j.seen \ rest) = Cardinality(j.seen \ j.queue) + 1
        /\ Cardinality(j.seen \ j.queue) \in Nat
    BY <1>1, Looked
  <2> QED
    BY <2>1, <2>2, <1>1, Size
<1>3. /\ rep \in Reports /\ rep.status = j.report.status /\ rep.completed = j.report.completed
      /\ rep.gaps = TRUE /\ rep.endpoints = j.report.endpoints
  BY <1>1, <1>2 DEF Reports
<1>4. /\ x \in JobRecords /\ x.pc = "next" /\ x.queue = rest /\ x.seen = j.seen /\ x.page = j.page
      /\ x.left = j.left /\ x.report = rep
  BY <1>1, <1>3 DEF JobRecords, PCs
<1> HIDE DEF x, rep
<1>5. Accounted(r, x)
  BY <1>1, <1>2, <1>3, <1>4 DEF Accounted, OnPage
<1>6. Whole(x)
  BY <1>1, <1>3, <1>4 DEF Whole
<1> QED
  BY <1>4, <1>5, <1>6 DEF JobOK, x

LEMMA BackedOff ==
    ASSUME NEW r \in Runs, NEW j, JobOK(r, j), j.pc = "answer"
    PROVE  JobOK(r, [j EXCEPT !.pc = "interrupted", !.report.gaps = TRUE,
                              !.report.endpoints = @ \cup {j.page}])
<1> DEFINE rep == [j.report EXCEPT !.gaps = TRUE, !.endpoints = @ \cup {j.page}]
           x == [j EXCEPT !.pc = "interrupted", !.report.gaps = TRUE,
                          !.report.endpoints = @ \cup {j.page}]
<1>1. /\ j \in JobRecords /\ Accounted(r, j) /\ Whole(j) /\ j.report \in Reports
      /\ j.page \in j.queue /\ j.page \in Pages
  BY DEF JobOK, JobRecords, Accounted, OnPage
<1>2. /\ rep \in Reports /\ rep.status = j.report.status /\ rep.completed = j.report.completed
      /\ rep.gaps = TRUE /\ rep.endpoints = j.report.endpoints \cup {j.page}
  BY <1>1 DEF Reports
<1>3. /\ x \in JobRecords /\ x.pc = "interrupted" /\ x.queue = j.queue /\ x.seen = j.seen
      /\ x.page = j.page /\ x.left = j.left /\ x.report = rep
  BY <1>1, <1>2 DEF JobRecords, PCs
<1> HIDE DEF x, rep
<1>4. Accounted(r, x)
  BY <1>1, <1>2, <1>3 DEF Accounted, OnPage
<1>5. Whole(x)
  BY <1>1, <1>2, <1>3 DEF Whole
<1> QED
  BY <1>3, <1>4, <1>5 DEF JobOK, x

LEMMA Broken ==
    ASSUME NEW r \in Runs, NEW j, JobOK(r, j), j.pc = "answer", NEW valid \in BOOLEAN
    PROVE  JobOK(r, [j EXCEPT !.pc = "failed", !.report.valid = valid,
                              !.report.endpoints = @ \cup {j.page}])
<1> DEFINE rep == [j.report EXCEPT !.valid = valid, !.endpoints = @ \cup {j.page}]
           x == [j EXCEPT !.pc = "failed", !.report.valid = valid,
                          !.report.endpoints = @ \cup {j.page}]
<1>1. /\ j \in JobRecords /\ Accounted(r, j) /\ Whole(j) /\ j.report \in Reports
      /\ j.page \in j.queue /\ j.page \in Pages
  BY DEF JobOK, JobRecords, Accounted, OnPage
<1>2. /\ rep \in Reports /\ rep.status = j.report.status /\ rep.completed = j.report.completed
      /\ rep.gaps = j.report.gaps /\ rep.endpoints = j.report.endpoints \cup {j.page}
  BY <1>1 DEF Reports
<1>3. /\ x \in JobRecords /\ x.pc = "failed" /\ x.queue = j.queue /\ x.seen = j.seen
      /\ x.page = j.page /\ x.left = j.left /\ x.report = rep
  BY <1>1, <1>2 DEF JobRecords, PCs
<1> HIDE DEF x, rep
<1>4. Accounted(r, x)
  BY <1>1, <1>2, <1>3 DEF Accounted, OnPage
<1>5. Whole(x)
  BY <1>1, <1>2, <1>3 DEF Whole
<1> QED
  BY <1>3, <1>4, <1>5 DEF JobOK, x


\* The job after an answer of a kind, with the pages it added and the probes it allows.
AnsweredJob(j, kind, found, left) ==
    [j EXCEPT !.pc = IF left > 0 THEN "askProbe" ELSE "pageDone",
              !.left = left,
              !.queue = @ \cup found, !.seen = @ \cup found,
              !.report.endpoints = @ \cup {j.page},
              !.report.valid = @ \/ kind # "refused",
              !.report.gaps = @ \/ kind # "whole"]

\* A page that is answered, with the links that were found on it.
LEMMA Answered ==
    ASSUME NEW r \in Runs, NEW j, JobOK(r, j), j.pc = "answer", NEW kind \in AnswerKinds,
           NEW links \in LinksOf(j.page, kind), NEW found \in SUBSET (links \ j.seen),
           \/ found = links \ j.seen /\ Cardinality(j.seen \cup found) <= SeenCap
           \/ /\ Cardinality(j.seen \cup (links \ j.seen)) > SeenCap
              /\ Cardinality(found) = IF Cardinality(j.seen) >= SeenCap THEN 0
                                      ELSE SeenCap - Cardinality(j.seen),
           NEW left, left \in {0, j.probes}
    PROVE  JobOK(r, AnsweredJob(j, kind, found, left))
<1> DEFINE ends == j.report.endpoints \cup {j.page}
           rep == [j.report EXCEPT !.endpoints = @ \cup {j.page},
                                   !.valid = @ \/ kind # "refused",
                                   !.gaps = @ \/ kind # "whole"]
           x == AnsweredJob(j, kind, found, left)
<1>1. /\ j \in JobRecords /\ Accounted(r, j) /\ Whole(j) /\ j.report \in Reports
      /\ j.seen \in SUBSET Pages /\ j.queue \in SUBSET j.seen
      /\ j.page \in j.queue /\ j.page \in Pages /\ j.probes \in 0..Probes
      /\ j.report.endpoints \in SUBSET j.seen
  BY DEF JobOK, JobRecords, Accounted, OnPage
<1>2. links \in SUBSET Pages /\ found \in SUBSET Pages /\ found \cap j.seen = {}
  BY <1>1, Constant DEF LinksOf
<1>3. PICK gaps \in BOOLEAN : gaps = (j.report.gaps \/ kind # "whole")
  OBVIOUS
<1>4. PICK valid \in BOOLEAN : valid = (j.report.valid \/ kind # "refused")
  OBVIOUS
<1>5. PICK pc \in {"askProbe", "pageDone"} :
         pc = (IF left > 0 THEN "askProbe" ELSE "pageDone")
  OBVIOUS
<1>6. left \in 0..Probes /\ pc \in PCs /\ (pc = "askProbe" => left >= 1)
  BY <1>1, <1>5, Constant DEF PCs
<1>7. /\ rep \in Reports /\ rep.status = j.report.status /\ rep.completed = j.report.completed
      /\ rep.gaps = gaps /\ rep.endpoints = ends
  <2>1. rep = [j.report EXCEPT !.endpoints = ends, !.valid = valid, !.gaps = gaps]
    BY <1>3, <1>4
  <2>2. ends \in SUBSET Pages
    BY <1>1
  <2> HIDE DEF ends, rep
  <2> QED
    BY <1>1, <2>1, <2>2 DEF Reports
<1>8. /\ x \in JobRecords /\ x.pc = pc /\ x.queue = j.queue \cup found
      /\ x.seen = j.seen \cup found /\ x.page = j.page /\ x.left = left /\ x.report = rep
  <2>1. x = [j EXCEPT !.pc = pc, !.left = left, !.queue = j.queue \cup found,
                      !.seen = j.seen \cup found, !.report = rep]
    BY <1>1, <1>5, ZenonT(60) DEF JobRecords, AnsweredJob
  <2> HIDE DEF x, rep
  <2> QED
    BY <1>1, <1>2, <1>6, <1>7, <2>1 DEF JobRecords
<1>9. Accounted(r, x)
  <2>1. x.seen \ x.queue = j.seen \ j.queue
    BY <1>1, <1>2, <1>8
  <2> HIDE DEF x, rep
  <2>2. x.report.completed <= Cardinality(x.seen \ x.queue)
    BY <1>1, <1>7, <1>8, <2>1 DEF Accounted
  <2>3. /\ x.queue \subseteq x.seen /\ x.report.endpoints \subseteq x.seen
        /\ Captured[r] \subseteq x.seen /\ x.page \in x.queue /\ x.page \in x.report.endpoints
    BY <1>1, <1>7, <1>8 DEF Accounted
  <2> QED
    BY <1>5, <1>6, <1>8, <2>2, <2>3 DEF Accounted, OnPage
<1>10. Whole(x)
  <2> HIDE DEF x, rep
  <2>1. j.report.status # "completed"
    BY <1>1 DEF Whole
  <2>2. ASSUME ~gaps
        PROVE  x.seen = ends \cup x.queue /\ LinksSeen(ends, x.seen)
    <3>1. ~j.report.gaps /\ kind = "whole" /\ links = Links[j.page]
      BY <1>3, <2>2 DEF LinksOf
    <3>2. j.seen = j.report.endpoints \cup j.queue /\ LinksSeen(j.report.endpoints, j.seen)
      BY <1>1, <3>1 DEF Whole
    <3>3. x.seen = j.seen \cup found /\ x.seen \in SUBSET Pages
      BY <1>1, <1>2, <1>8
    <3>4. LinksSeen(j.report.endpoints, x.seen)
      BY <3>2, <3>3, MoreSeen
    <3>5. Links[j.page] \subseteq x.seen \/ Cardinality(x.seen) >= SeenCap
      BY <1>1, <1>2, <3>1, <3>3, FoundAll
    <3> QED
      BY <1>1, <1>8, <3>2, <3>4, <3>5 DEF LinksSeen
  <2> QED
    BY <1>7, <1>8, <2>1, <2>2 DEF Whole
<1> QED
  BY <1>8, <1>9, <1>10 DEF JobOK, x

LEMMA ProbeDone ==
    ASSUME NEW r \in Runs, NEW j, JobOK(r, j), j.pc = "answerProbe"
    PROVE  JobOK(r, [j EXCEPT !.pc = IF j.left > 1 THEN "askProbe" ELSE "pageDone",
                              !.left = @ - 1])
<1> DEFINE x == [j EXCEPT !.pc = IF j.left > 1 THEN "askProbe" ELSE "pageDone",
                          !.left = @ - 1]
<1>1. j \in JobRecords /\ Accounted(r, j) /\ Whole(j) /\ j.left \in 0..Probes /\ j.left >= 1
  BY DEF JobOK, JobRecords, Accounted
<1>2. PICK pc \in {"askProbe", "pageDone"} :
         pc = (IF j.left > 1 THEN "askProbe" ELSE "pageDone")
  OBVIOUS
<1>3. pc \in PCs /\ j.left - 1 \in 0..Probes /\ (pc = "askProbe" => j.left - 1 >= 1)
  BY <1>1, <1>2, Constant DEF PCs
<1>4. x = [j EXCEPT !.pc = pc, !.left = j.left - 1]
  BY <1>2
<1> HIDE DEF x
<1>5. /\ x \in JobRecords /\ x.pc = pc /\ x.queue = j.queue /\ x.seen = j.seen
      /\ x.page = j.page /\ x.left = j.left - 1 /\ x.report = j.report
  BY <1>1, <1>3, <1>4 DEF JobRecords
<1>6. Accounted(r, x)
  BY <1>1, <1>3, <1>5 DEF Accounted, OnPage
<1>7. Whole(x)
  BY <1>1, <1>5 DEF Whole
<1> QED
  BY <1>5, <1>6, <1>7 DEF JobOK, x

LEMMA ProbeLost ==
    ASSUME NEW r \in Runs, NEW j, JobOK(r, j), j.pc = "answerProbe"
    PROVE  JobOK(r, [j EXCEPT !.pc = "pageDone", !.left = 0, !.report.gaps = TRUE])
<1> DEFINE rep == [j.report EXCEPT !.gaps = TRUE]
           x == [j EXCEPT !.pc = "pageDone", !.left = 0, !.report.gaps = TRUE]
<1>1. j \in JobRecords /\ Accounted(r, j) /\ Whole(j) /\ j.report \in Reports
  BY DEF JobOK, JobRecords
<1>2. /\ rep \in Reports /\ rep.status = j.report.status /\ rep.completed = j.report.completed
      /\ rep.gaps = TRUE /\ rep.endpoints = j.report.endpoints
  BY <1>1 DEF Reports
<1>3. x = [j EXCEPT !.pc = "pageDone", !.left = 0, !.report = rep]
  BY <1>1 DEF JobRecords
<1>4. 0 \in 0..Probes
  BY Constant
<1> HIDE DEF x, rep
<1>5. /\ x \in JobRecords /\ x.pc = "pageDone" /\ x.queue = j.queue /\ x.seen = j.seen
      /\ x.page = j.page /\ x.report = rep
  BY <1>1, <1>2, <1>3, <1>4 DEF JobRecords, PCs
<1>6. Accounted(r, x)
  BY <1>1, <1>2, <1>5 DEF Accounted, OnPage
<1>7. Whole(x)
  BY <1>1, <1>2, <1>5 DEF Whole
<1> QED
  BY <1>5, <1>6, <1>7 DEF JobOK, x

\* A page that is completed; the root may take its place.
LEMMA Completed ==
    ASSUME NEW r \in Runs, NEW j, JobOK(r, j), j.pc = "pageDone",
           NEW root \in SUBSET (Pages \ j.seen), NEW rest, rest = j.queue \ {j.page},
           NEW pc \in {"next", "failed"}, NEW pending, pending = Cardinality(rest \cup root),
           NEW rep, rep = [j.report EXCEPT !.completed = @ + 1, !.pending = pending]
    PROVE  /\ rep \in Reports /\ rep.status # "completed"
           /\ JobOK(r, [j EXCEPT !.pc = pc, !.queue = rest \cup root, !.seen = @ \cup root,
                                 !.report = rep])
<1> DEFINE x == [j EXCEPT !.pc = pc, !.queue = rest \cup root, !.seen = @ \cup root,
                          !.report = rep]
<1>1. /\ j \in JobRecords /\ Accounted(r, j) /\ Whole(j) /\ j.report \in Reports
      /\ j.seen \in SUBSET Pages /\ j.queue \in SUBSET j.seen
      /\ j.page \in j.queue /\ j.page \in j.report.endpoints
      /\ j.report.status # "completed" /\ j.report.completed \in Nat
      /\ j.report.completed <= Cardinality(j.seen \ j.queue)
  BY DEF JobOK, JobRecords, Reports, Accounted, OnPage, Whole
<1>2. /\ j.report.completed + 1 <= Cardinality(j.seen \ rest)
      /\ j.report.completed + 1 \in 0..Cardinality(Pages)
  <2>1. /\ Cardinality(j.seen \ rest) = Cardinality(j.seen \ j.queue) + 1
        /\ Cardinality(j.seen \ rest) <= Cardinality(Pages)
        /\ Cardinality(j.seen \ j.queue) \in Nat
    BY <1>1, Looked
  <2>2. Cardinality(Pages) \in Nat
    BY Size
  <2> QED
    BY <1>1, <2>1, <2>2
<1>3. rest \cup root \in SUBSET Pages /\ pending \in 0..Cardinality(Pages)
  BY <1>1, Size
<1>4. /\ rep \in Reports /\ rep.status = j.report.status
      /\ rep.completed = j.report.completed + 1
      /\ rep.gaps = j.report.gaps /\ rep.endpoints = j.report.endpoints
  BY <1>1, <1>2, <1>3 DEF Reports
<1>5. /\ x \in JobRecords /\ x.pc = pc /\ x.queue = rest \cup root /\ x.seen = j.seen \cup root
      /\ x.report = rep
  BY <1>1, <1>3, <1>4 DEF JobRecords, PCs
<1> HIDE DEF x
<1>6. Accounted(r, x)
  <2>1. x.seen \ x.queue = j.seen \ rest
    BY <1>1, <1>5
  <2>2. Cardinality(x.seen \ x.queue) = Cardinality(j.seen \ rest)
    BY <2>1, Zenon
  <2>3. x.report.completed <= Cardinality(x.seen \ x.queue)
    BY <1>2, <1>4, <1>5, <2>2
  <2>4. /\ x.queue \subseteq x.seen /\ x.report.endpoints \subseteq x.seen
        /\ Captured[r] \subseteq x.seen
    BY <1>1, <1>4, <1>5 DEF Accounted
  <2> QED
    BY <1>5, <2>3, <2>4 DEF Accounted, OnPage
<1>7. Whole(x)
  <2>1. ~j.report.gaps => x.seen = j.report.endpoints \cup x.queue
    BY <1>1, <1>5 DEF Whole
  <2>2. x.seen \in SUBSET Pages /\ j.seen \subseteq x.seen
    BY <1>1, <1>5
  <2>3. ~j.report.gaps => LinksSeen(j.report.endpoints, x.seen)
    <3> SUFFICES ASSUME ~j.report.gaps PROVE LinksSeen(j.report.endpoints, x.seen)
      OBVIOUS
    <3>1. LinksSeen(j.report.endpoints, j.seen)
      BY <1>1 DEF Whole
    <3> QED
      BY <2>2, <3>1, MoreSeen
  <2> QED
    BY <1>1, <1>4, <1>5, <2>1, <2>3 DEF Whole
<1> QED
  BY <1>1, <1>4, <1>5, <1>6, <1>7 DEF JobOK, x

\* The worker's last word.
LEMMA Concluded ==
    ASSUME NEW r \in Runs, NEW j, JobOK(r, j),
           NEW status \in Statuses \ Live,
           status = "completed" => j.pc = "next" /\ j.queue = {} /\ ~j.report.gaps,
           j.pc = "failed" => status = "scanner_error"
    PROVE  JobOK(r, [j EXCEPT !.pc = "closing", !.report.status = status,
                              !.report.gaps = @ \/ status \notin {"completed", "stopped"}])
<1>1. PICK gaps \in BOOLEAN : gaps = (j.report.gaps \/ status \notin {"completed", "stopped"})
  OBVIOUS
<1> DEFINE rep == [j.report EXCEPT !.status = status, !.gaps = gaps]
           x == [j EXCEPT !.pc = "closing", !.report.status = status,
                          !.report.gaps = @ \/ status \notin {"completed", "stopped"}]
<1>2. j \in JobRecords /\ Accounted(r, j) /\ Whole(j) /\ j.report \in Reports
  BY DEF JobOK, JobRecords
<1>3. /\ rep \in Reports /\ rep.status = status /\ rep.completed = j.report.completed
      /\ rep.gaps = gaps /\ rep.endpoints = j.report.endpoints
  BY <1>2 DEF Reports
<1>4. x = [j EXCEPT !.pc = "closing", !.report = rep]
  BY <1>1, <1>2 DEF JobRecords
<1> HIDE DEF x, rep
<1>5. /\ x \in JobRecords /\ x.pc = "closing" /\ x.queue = j.queue /\ x.seen = j.seen
      /\ x.report = rep
  BY <1>2, <1>3, <1>4 DEF JobRecords, PCs
<1>6. Accounted(r, x)
  BY <1>2, <1>3, <1>5 DEF Accounted, OnPage
<1>7. Whole(x)
  BY <1>1, <1>2, <1>3, <1>5 DEF Whole
<1> QED
  BY <1>5, <1>6, <1>7 DEF JobOK, x

\* A request to pause, to go on or to stop; the deadline.
LEMMA Controlled ==
    ASSUME NEW r \in Runs, NEW j, JobOK(r, j), NEW stop \in BOOLEAN, NEW paused \in BOOLEAN,
           NEW status \in Live
    PROVE  JobOK(r, [j EXCEPT !.stop = stop, !.paused = paused, !.report.status = status])
<1> DEFINE rep == [j.report EXCEPT !.status = status]
           x == [j EXCEPT !.stop = stop, !.paused = paused, !.report.status = status]
<1>1. j \in JobRecords /\ Accounted(r, j) /\ Whole(j) /\ j.report \in Reports
  BY DEF JobOK, JobRecords
<1>2. /\ rep \in Reports /\ rep.status = status /\ rep.completed = j.report.completed
      /\ rep.gaps = j.report.gaps /\ rep.endpoints = j.report.endpoints
  BY <1>1 DEF Reports, Statuses
<1>3. /\ x \in JobRecords /\ x.pc = j.pc /\ x.queue = j.queue /\ x.seen = j.seen
      /\ x.page = j.page /\ x.left = j.left /\ x.report = rep
  BY <1>1, <1>2 DEF JobRecords
<1> HIDE DEF x, rep
<1>4. Accounted(r, x)
  BY <1>1, <1>2, <1>3 DEF Accounted, OnPage
<1>5. Whole(x)
  BY <1>1, <1>2, <1>3 DEF Whole, Live
<1> QED
  BY <1>3, <1>4, <1>5 DEF JobOK, x

LEMMA Late ==
    ASSUME NEW r \in Runs, NEW j, JobOK(r, j)
    PROVE  JobOK(r, [j EXCEPT !.late = TRUE])
<1> DEFINE x == [j EXCEPT !.late = TRUE]
<1>1. j \in JobRecords /\ Accounted(r, j) /\ Whole(j)
  BY DEF JobOK
<1>2. /\ x \in JobRecords /\ x.pc = j.pc /\ x.queue = j.queue /\ x.seen = j.seen /\ x.page = j.page
      /\ x.left = j.left /\ x.report = j.report
  BY <1>1 DEF JobRecords
<1> HIDE DEF x
<1> QED
  BY <1>1, <1>2 DEF JobOK, Accounted, Whole, x

LEMMA Begun ==
    ASSUME NEW r \in Runs, NEW probes \in 0..Probes
    PROVE  JobOK(r, NewJob(r, probes)) /\ NewJob(r, probes).pc = "unborn"
<1> DEFINE x == NewJob(r, probes)
           rep == NewReport(r)
<1>1. Captured[r] \in SUBSET Pages /\ Cardinality(Captured[r]) \in 0..Cardinality(Pages)
  BY Constant, Size
<1>2. /\ 0 \in 0..MaxRequests /\ 0 \in 0..Cardinality(Pages) /\ 0 \in 0..Probes
      /\ Captured[r] \ Captured[r] = {}
  BY Constant, Size
<1>3. rep \in Reports
  BY <1>1, <1>2 DEF NewReport, Reports, Statuses, Live
<1>4. /\ rep.status = "running" /\ rep.completed = 0 /\ ~rep.gaps /\ rep.endpoints = {}
  BY DEF NewReport
<1>5. /\ x.pc = "unborn" /\ x.queue = Captured[r] /\ x.seen = Captured[r] /\ x.report = rep
  BY DEF NewJob
<1> HIDE DEF rep
<1>6. x \in JobRecords
  BY <1>1, <1>2, <1>3 DEF NewJob, JobRecords, PCs, rep
<1> HIDE DEF x
<1>7. Accounted(r, x)
  <2>1. Cardinality(x.seen \ x.queue) = 0
    BY <1>2, <1>5, FS_EmptySet
  <2> QED
    BY <1>4, <1>5, <2>1 DEF Accounted, OnPage
<1>8. Whole(x)
  BY <1>4, <1>5 DEF Whole, LinksSeen
<1> QED
  BY <1>5, <1>6, <1>7, <1>8 DEF JobOK, x

---------------------------------------------------------------------------
(* The steps.                                                              *)

SavedOK ==
    /\ saved \in [Runs -> SavedReports \cup {None}]
    /\ \A r \in Runs : saved[r] # None => Kept(r, saved[r])

LEMMA Persisted ==
    ASSUME SavedOK, NEW r \in Runs, NEW report, Copy(report) \in SavedReports,
           Kept(r, Copy(report)), Persist(r, report)
    PROVE  SavedOK'
<1> DEFINE copy == Copy(report)
<1>1. saved' = saved \/ saved' = [saved EXCEPT ![r] = copy]
  BY DEF Persist
<1>2. copy \in SavedReports /\ Kept(r, copy)
  OBVIOUS
<1> HIDE DEF copy
<1>3. CASE saved' = saved
  BY <1>3 DEF SavedOK
<1>4. CASE saved' = [saved EXCEPT ![r] = copy]
  BY <1>2, <1>4 DEF SavedOK
<1> QED
  BY <1>1, <1>3, <1>4

\* A report that is not final promises nothing.
LEMMA PersistedLive ==
    ASSUME SavedOK, NEW r \in Runs, NEW report \in Reports, report.status # "completed",
           Persist(r, report)
    PROVE  SavedOK'
<1>1. /\ Copy(report) \in SavedReports /\ Copy(report).status = report.status
  BY DEF Copy, SavedReports, Reports
<1>2. Kept(r, Copy(report))
  BY <1>1 DEF Kept
<1> QED
  BY <1>1, <1>2, Persisted

\* One job changes.
LEMMA JobStep ==
    ASSUME IInv, NEW r \in jobs, starting = None, NEW x, JobOK(r, x),
           job' = [job EXCEPT ![r] = x], SavedOK',
           UNCHANGED <<exists, jobs, starting, starts>>, controls' \in 0..MaxControls
    PROVE  IInv'
<1>1. r \in Runs /\ x \in JobRecords
  BY DEF IInv, JobOK
<1>2. /\ exists' = exists /\ jobs' = jobs /\ starting' = None /\ starts' = starts
  OBVIOUS
<1>3. /\ job' \in [Runs -> JobRecords \cup {None}] /\ job'[r] = x
      /\ \A s \in Runs \ {r} : job'[s] = job[s]
  BY <1>1 DEF IInv
<1>4. \A s \in jobs' : JobOK(s, job'[s])
  BY <1>2, <1>3 DEF IInv
<1>5. \A s \in Runs \ jobs' : job'[s] = None
  BY <1>2, <1>3 DEF IInv
<1> QED
  BY <1>2, <1>3, <1>4, <1>5 DEF IInv, SavedOK

LEMMA AtWork ==
    ASSUME IInv, NEW r \in Runs, Working(r)
    PROVE  /\ r \in jobs /\ starting = None /\ JobOK(r, job[r]) /\ SavedOK
           /\ job[r] \in JobRecords
<1>1. r \in jobs
  BY DEF IInv, Working
<1>2. starting = None
  BY <1>1 DEF IInv, Working
<1> QED
  BY <1>1, <1>2 DEF IInv, SavedOK, JobOK

LEMMA WorkerOnly ==
    ASSUME IInv, NEW r \in Runs, Working(r), NEW x, JobOK(r, x), Worker(r, x)
    PROVE  IInv'
<1>1. /\ job' = [job EXCEPT ![r] = x] /\ UNCHANGED <<exists, jobs, starting, starts>>
      /\ controls' = controls /\ saved' = saved
  BY DEF Worker
<1>2. r \in jobs /\ starting = None /\ SavedOK /\ controls \in 0..MaxControls
  BY AtWork DEF IInv
<1>3. SavedOK' /\ controls' \in 0..MaxControls
  BY <1>1, <1>2 DEF SavedOK
<1> QED
  BY <1>1, <1>2, <1>3, JobStep

LEMMA AskStep ==
    ASSUME IInv, NEW r \in Runs, AskPage(r) \/ AskProbe(r) \/ AskRefused(r)
    PROVE  IInv'
<1>1. Working(r) /\ MayAsk(r)
  BY DEF AskPage, AskProbe, AskRefused, MayAsk
<1>2. JobOK(r, job[r]) /\ job[r].report.requests \in Nat
  BY <1>1, AtWork, Constant DEF JobRecords, Reports
<1>3. CASE AskPage(r)
  <2>1. PICK p \in job[r].queue :
           Worker(r, [job[r] EXCEPT !.pc = "answer", !.page = p, !.report.requests = @ + 1])
    BY <1>3 DEF AskPage
  <2>2. job[r].pc = "next" /\ ~OutOfBudget(r)
    BY <1>3 DEF AskPage
  <2>3. job[r].report.requests < MaxRequests
    BY <1>2, <2>2, Constant DEF OutOfBudget
  <2>4. JobOK(r, [job[r] EXCEPT !.pc = "answer", !.page = p, !.report.requests = @ + 1])
    BY <1>2, <2>2, <2>3, PageAsked
  <2> QED
    BY <1>1, <2>1, <2>4, WorkerOnly
<1>4. CASE AskProbe(r)
  <2>1. /\ Worker(r, [job[r] EXCEPT !.pc = "answerProbe", !.report.requests = @ + 1])
        /\ job[r].pc = "askProbe" /\ job[r].report.requests < MaxRequests
    BY <1>2, <1>4, Constant DEF AskProbe, OutOfBudget
  <2>2. JobOK(r, [job[r] EXCEPT !.pc = "answerProbe", !.report.requests = @ + 1])
    BY <1>2, <2>1, ProbeAsked
  <2> QED
    BY <1>1, <2>1, <2>2, WorkerOnly
<1>5. CASE AskRefused(r)
  <2>1. /\ Worker(r, [job[r] EXCEPT !.pc = "interrupted"])
        /\ job[r].pc \in {"next", "askProbe"}
    BY <1>5 DEF AskRefused, MayAsk
  <2>2. job[r].report.status # "completed"
    BY <1>2, <2>1 DEF JobOK, Whole
  <2>3. JobOK(r, [job[r] EXCEPT !.pc = "interrupted"])
    BY <1>2, <2>1, <2>2, Moved
  <2> QED
    BY <1>1, <2>1, <2>3, WorkerOnly
<1> QED
  BY <1>3, <1>4, <1>5

\* A step that persists: the worker of a run that is gone fails.
LEMMA PersistStep ==
    ASSUME IInv, NEW r \in Runs, Working(r), NEW x, JobOK(r, x), x.report.status # "completed",
           Persist(r, x.report),
           job' = [job EXCEPT ![r] = x] \/ job' = [job EXCEPT ![r] = [x EXCEPT !.pc = "failed"]],
           UNCHANGED <<exists, jobs, starting, starts, controls>>
    PROVE  IInv'
<1>1. r \in jobs /\ starting = None /\ SavedOK /\ controls \in 0..MaxControls
  BY AtWork DEF IInv
<1>2. x.report \in Reports
  BY DEF JobOK, JobRecords
<1>3. SavedOK'
  BY <1>1, <1>2, PersistedLive
<1>4. JobOK(r, [x EXCEPT !.pc = "failed"])
  BY Moved
<1>5. UNCHANGED <<exists, jobs, starting, starts>> /\ controls' \in 0..MaxControls
  BY <1>1
<1>6. CASE job' = [job EXCEPT ![r] = x]
  BY <1>1, <1>3, <1>5, <1>6, JobStep
<1>7. CASE job' = [job EXCEPT ![r] = [x EXCEPT !.pc = "failed"]]
  BY <1>1, <1>3, <1>4, <1>5, <1>7, JobStep
<1> QED
  BY <1>6, <1>7

LEMMA AnswerStep ==
    ASSUME IInv, NEW r \in Runs,
           PageUnread(r) \/ PageBacksOff(r) \/ PageAnswered(r) \/ PageBreaksReview(r)
    PROVE  IInv'
<1>1. Working(r) /\ job[r].pc = "answer"
  BY DEF PageUnread, PageBacksOff, PageAnswered, PageBreaksReview
<1>2. JobOK(r, job[r])
  BY <1>1, AtWork
<1>3. CASE PageUnread(r)
  <2> DEFINE rest == job[r].queue \ {job[r].page}
             x == [job[r] EXCEPT !.pc = "next", !.queue = rest, !.report.gaps = TRUE,
                                 !.report.pending = Cardinality(rest)]
  <2>1. PersistJob(r, x)
    BY <1>3 DEF PageUnread
  <2>2. JobOK(r, x)
    BY <1>1, <1>2, Unread
  <2>3. x.pc = "next"
    BY <1>2 DEF JobOK, JobRecords
  <2> HIDE DEF x
  <2>4. x.report.status # "completed"
    BY <2>2, <2>3 DEF JobOK, Whole
  <2>5. /\ Persist(r, x.report) /\ UNCHANGED <<exists, jobs, starting, starts, controls>>
        /\ job' = [job EXCEPT ![r] = x] \/ job' = [job EXCEPT ![r] = [x EXCEPT !.pc = "failed"]]
    BY <2>1 DEF PersistJob
  <2> QED
    BY <1>1, <2>2, <2>4, <2>5, PersistStep
<1>4. CASE PageBacksOff(r)
  <2>1. Worker(r, [job[r] EXCEPT !.pc = "interrupted", !.report.gaps = TRUE,
                                 !.report.endpoints = @ \cup {job[r].page}])
    BY <1>4 DEF PageBacksOff
  <2> QED
    BY <1>1, <1>2, <2>1, BackedOff, WorkerOnly
<1>5. CASE PageAnswered(r)
  <2>1. PICK kind \in AnswerKinds : \E links \in LinksOf(job[r].page, kind) :
           \E found \in New(r, links) :
              LET left == IF kind \in {"whole", "truncated"} THEN job[r].probes ELSE 0
              IN  Worker(r, AnsweredJob(job[r], kind, found, left))
    BY <1>5 DEF PageAnswered, AnsweredJob
  <2>2. PICK links \in LinksOf(job[r].page, kind) : \E found \in New(r, links) :
           \E left \in {0, job[r].probes} : Worker(r, AnsweredJob(job[r], kind, found, left))
    BY <2>1, Zenon
  <2>3. PICK found \in New(r, links), left \in {0, job[r].probes} :
           Worker(r, AnsweredJob(job[r], kind, found, left))
    BY <2>2, Zenon
  <2>4. /\ found \in SUBSET (links \ job[r].seen)
        /\ \/ found = links \ job[r].seen /\ Cardinality(job[r].seen \cup found) <= SeenCap
           \/ /\ Cardinality(job[r].seen \cup (links \ job[r].seen)) > SeenCap
              /\ Cardinality(found) = IF Cardinality(job[r].seen) >= SeenCap THEN 0
                                      ELSE SeenCap - Cardinality(job[r].seen)
    BY <2>3 DEF New
  <2>5. /\ kind \in AnswerKinds /\ links \in LinksOf(job[r].page, kind)
        /\ left \in {0, job[r].probes}
    BY <2>1, <2>2, <2>3, Zenon
  <2>6. JobOK(r, AnsweredJob(job[r], kind, found, left))
    BY <1>1, <1>2, <2>4, <2>5, Answered
  <2> QED
    BY <1>1, <2>3, <2>6, WorkerOnly
<1>6. CASE PageBreaksReview(r)
  <2>1. PICK valid \in {job[r].report.valid, TRUE} :
           Worker(r, [job[r] EXCEPT !.pc = "failed", !.report.valid = valid,
                                    !.report.endpoints = @ \cup {job[r].page}])
    BY <1>6 DEF PageBreaksReview
  <2>2. valid \in BOOLEAN
    BY <1>2 DEF JobOK, JobRecords, Reports
  <2> QED
    BY <1>1, <1>2, <2>1, <2>2, Broken, WorkerOnly
<1> QED
  BY <1>3, <1>4, <1>5, <1>6

LEMMA ProbeStep ==
    ASSUME IInv, NEW r \in Runs, ProbeAnswered(r) \/ ProbeFails(r) \/ DeadlinePasses(r)
    PROVE  IInv'
<1>1. Working(r)
  BY DEF ProbeAnswered, ProbeFails, DeadlinePasses
<1>2. JobOK(r, job[r])
  BY <1>1, AtWork
<1>3. CASE ProbeAnswered(r)
  BY <1>1, <1>2, <1>3, ProbeDone, WorkerOnly DEF ProbeAnswered
<1>4. CASE ProbeFails(r)
  BY <1>1, <1>2, <1>4, ProbeLost, WorkerOnly DEF ProbeFails
<1>5. CASE DeadlinePasses(r)
  BY <1>1, <1>2, <1>5, Late, WorkerOnly DEF DeadlinePasses
<1> QED
  BY <1>3, <1>4, <1>5

LEMMA PageDoneStep ==
    ASSUME IInv, NEW r \in Runs, PageDone(r)
    PROVE  IInv'
<1> DEFINE j == job[r]
           rest == j.queue \ {j.page}
           root == IF rest = {} /\ ~j.report.valid /\ j.report.requests < MaxRequests
                   THEN Fallback \ j.seen ELSE {}
           report == [j.report EXCEPT !.completed = @ + 1, !.pending = Cardinality(rest)]
           gone == [j EXCEPT !.pc = "failed", !.queue = rest, !.report = report]
           rooted == [report EXCEPT !.pending = Cardinality(rest \cup root)]
           next == [j EXCEPT !.pc = "next", !.queue = rest \cup root, !.seen = @ \cup root,
                             !.report = rooted]
<1>1. Working(r) /\ j.pc = "pageDone" /\ Persist(r, report)
  BY DEF PageDone
<1>2. /\ job' = [job EXCEPT ![r] = IF r \notin exists THEN gone ELSE next]
      /\ UNCHANGED <<exists, jobs, starting, starts, controls>>
  BY DEF PageDone
<1>3. JobOK(r, j) /\ r \in jobs /\ starting = None /\ SavedOK /\ controls \in 0..MaxControls
  BY <1>1, AtWork DEF IInv
<1>4. j \in JobRecords /\ j.report \in Reports /\ j.seen \in SUBSET Pages
  BY <1>3 DEF JobOK, JobRecords
<1>5. root \in SUBSET (Pages \ j.seen)
  BY Constant
<1>6. rest = rest \cup {} /\ j.seen \cup {} = j.seen
  OBVIOUS
<1>7. rooted = [j.report EXCEPT !.completed = @ + 1, !.pending = Cardinality(rest \cup root)]
  BY <1>4 DEF Reports
<1>8. JobOK(r, next)
  <2> HIDE DEF rooted, root, report
  <2> QED
    BY <1>1, <1>3, <1>5, <1>7, Completed
<1>9. /\ report \in Reports /\ report.status # "completed"
      /\ JobOK(r, [j EXCEPT !.pc = "failed", !.queue = rest \cup {}, !.seen = @ \cup {},
                            !.report = report])
  <2>1. report = [j.report EXCEPT !.completed = @ + 1, !.pending = Cardinality(rest \cup {})]
    BY <1>6, Zenon
  <2>2. {} \in SUBSET (Pages \ j.seen)
    OBVIOUS
  <2> HIDE DEF report
  <2> QED
    BY <1>1, <1>3, <2>1, <2>2, Completed
<1>10. gone = [j EXCEPT !.pc = "failed", !.queue = rest \cup {}, !.seen = @ \cup {},
                        !.report = report]
  <2> HIDE DEF report
  <2> QED
    BY <1>4, <1>6 DEF JobRecords
<1>11. JobOK(r, gone)
  BY <1>9, <1>10, Zenon
<1>12. SavedOK'
  <2> HIDE DEF report
  <2> QED
    BY <1>1, <1>3, <1>9, PersistedLive
<1> HIDE DEF gone, next
<1>13. UNCHANGED <<exists, jobs, starting, starts>> /\ controls' \in 0..MaxControls
  BY <1>2, <1>3
<1>14. CASE r \in exists
  <2>1. job' = [job EXCEPT ![r] = next]
    BY <1>2, <1>14, Zenon
  <2> QED
    BY <1>3, <1>8, <1>12, <1>13, <2>1, JobStep
<1>15. CASE r \notin exists
  <2>1. job' = [job EXCEPT ![r] = gone]
    BY <1>2, <1>15, Zenon
  <2> QED
    BY <1>3, <1>11, <1>12, <1>13, <2>1, JobStep
<1> QED
  BY <1>14, <1>15

LEMMA ConcludeStep ==
    ASSUME IInv, NEW r \in Runs, QueueIsEmpty(r) \/ Interrupted(r) \/ Failed(r)
    PROVE  IInv'
<1>1. Working(r)
  BY DEF QueueIsEmpty, Interrupted, Failed
<1>2. JobOK(r, job[r])
  BY <1>1, AtWork
<1>3. ASSUME NEW status \in Statuses \ Live, Conclude(r, status),
             status = "completed" =>
                job[r].pc = "next" /\ job[r].queue = {} /\ ~job[r].report.gaps,
             job[r].pc = "failed" => status = "scanner_error"
      PROVE  IInv'
  <2>1. JobOK(r, [job[r] EXCEPT !.pc = "closing", !.report.status = status,
                      !.report.gaps = @ \/ status \notin {"completed", "stopped"}])
    BY <1>2, <1>3, Concluded
  <2>2. Worker(r, [job[r] EXCEPT !.pc = "closing", !.report.status = status,
                      !.report.gaps = @ \/ status \notin {"completed", "stopped"}])
    BY <1>3 DEF Conclude
  <2> QED
    BY <1>1, <2>1, <2>2, WorkerOnly
<1>4. CASE QueueIsEmpty(r)
  <2> DEFINE report == job[r].report
             status == CASE report.completed > 0 /\ ~report.valid -> "route_validation_failed"
                         [] (report.completed = 0 \/ report.valid) /\ job[r].stop -> "stopped"
                         [] (report.completed = 0 \/ report.valid) /\ ~job[r].stop ->
                                IF report.gaps THEN "completed_with_gaps" ELSE "completed"
  <2>1. job[r].pc = "next" /\ job[r].queue = {} /\ Conclude(r, status)
    BY <1>4 DEF QueueIsEmpty
  <2>2. /\ report.completed \in Nat /\ report.valid \in BOOLEAN /\ report.gaps \in BOOLEAN
        /\ job[r].stop \in BOOLEAN
    BY <1>2 DEF JobOK, JobRecords, Reports
  <2>3. status \in Statuses \ Live /\ (status = "completed" => ~report.gaps)
    BY <2>2 DEF Statuses, Live
  <2> HIDE DEF status
  <2> QED
    BY <1>3, <2>1, <2>3
<1>5. CASE Interrupted(r)
  <2> DEFINE status == IF job[r].stop THEN "stopped" ELSE "partial"
  <2>1. job[r].pc = "interrupted" /\ Conclude(r, status)
    BY <1>5 DEF Interrupted
  <2>2. status \in {"stopped", "partial"} /\ status \in Statuses \ Live
    BY DEF Statuses, Live
  <2> HIDE DEF status
  <2> QED
    BY <1>3, <2>1, <2>2
<1>6. CASE Failed(r)
  <2>1. "scanner_error" \in Statuses \ Live
    BY DEF Statuses, Live
  <2> QED
    BY <1>3, <1>6, <2>1 DEF Failed
<1> QED
  BY <1>4, <1>5, <1>6

\* The report of a finished worker goes into the context, and the job is gone.
LEMMA CloseStep ==
    ASSUME IInv, NEW r \in Runs, Close(r)
    PROVE  IInv'
<1> DEFINE j == job[r]
           report == [j.report EXCEPT !.pending = Cardinality(j.queue)]
<1>1. /\ Working(r) /\ Persist(r, report) /\ jobs' = jobs \ {r} /\ job' = [job EXCEPT ![r] = None]
      /\ exists' = exists /\ starting' = starting /\ starts' = starts /\ controls' = controls
  BY DEF Close
<1>2. JobOK(r, j) /\ r \in jobs /\ starting = None /\ SavedOK
  BY <1>1, AtWork
<1>3. /\ j.report \in Reports /\ j.queue \in SUBSET Pages /\ j.seen \in SUBSET Pages
      /\ Accounted(r, j) /\ Whole(j)
  BY <1>2 DEF JobOK, JobRecords
<1>4. Cardinality(j.queue) \in 0..Cardinality(Pages)
  BY <1>3, Size
<1>5. /\ Copy(report) \in SavedReports /\ Copy(report).status = j.report.status
      /\ Copy(report).pending = Cardinality(j.queue)
      /\ Copy(report).endpoints = j.report.endpoints
  <2>1. /\ report \in Reports /\ report.status = j.report.status
        /\ report.pending = Cardinality(j.queue) /\ report.endpoints = j.report.endpoints
    BY <1>3, <1>4 DEF Reports
  <2> HIDE DEF report
  <2> QED
    BY <2>1 DEF Copy, SavedReports, Reports
<1>6. Kept(r, Copy(report))
  <2> SUFFICES ASSUME j.report.status = "completed"
               PROVE  /\ Cardinality(j.queue) = 0
                      /\ \/ Reachable(r) \subseteq j.report.endpoints
                         \/ Cardinality(j.report.endpoints) >= SeenCap
    BY <1>5 DEF Kept
  <2>1. /\ j.pc = "closing" /\ ~j.report.gaps /\ j.queue = {} /\ j.seen = j.report.endpoints
        /\ LinksSeen(j.report.endpoints, j.seen) /\ Captured[r] \subseteq j.seen
    BY <1>3 DEF Whole, Accounted
  <2>2. Cardinality(j.queue) = 0
    BY <2>1, FS_EmptySet
  <2> QED
    BY <1>3, <2>1, <2>2, ReachableAnswered
<1> HIDE DEF report
<1>7. SavedOK'
  BY <1>1, <1>2, <1>5, <1>6, Persisted
<1>8. job' \in [Runs -> JobRecords \cup {None}] /\ job'[r] = None
      /\ \A s \in Runs \ {r} : job'[s] = job[s]
  BY <1>1 DEF IInv
<1> QED
  BY <1>1, <1>2, <1>7, <1>8 DEF IInv, SavedOK

---------------------------------------------------------------------------
(* The requests and a restart.                                             *)

LEMMA StartStep ==
    ASSUME IInv, NEW r \in Runs, StartReview(r)
    PROVE  IInv'
<1>1. PICK probes \in 0..Probes : job' = [job EXCEPT ![r] = NewJob(r, probes)]
  BY DEF StartReview
<1>2. /\ jobs = {} /\ starting = None /\ jobs' = {r} /\ starting' = r
      /\ exists' = exists /\ saved' = saved /\ controls' = controls
      /\ starts < MaxStarts /\ starts' = starts + 1
  BY DEF StartReview
<1>3. JobOK(r, NewJob(r, probes)) /\ NewJob(r, probes).pc = "unborn"
  BY Begun
<1>4. NewJob(r, probes) \in JobRecords
  BY <1>3 DEF JobOK
<1>5. /\ job' \in [Runs -> JobRecords \cup {None}] /\ job'[r] = NewJob(r, probes)
      /\ \A s \in Runs \ {r} : job'[s] = job[s]
  BY <1>1, <1>4 DEF IInv
<1>6. starts' \in 0..MaxStarts
  BY <1>2, Constant DEF IInv
<1>7. JobOK(r, job'[r]) /\ job'[r].pc = "unborn"
  BY <1>3, <1>5
<1> QED
  BY <1>2, <1>5, <1>6, <1>7 DEF IInv

LEMMA StartAnswerStep ==
    ASSUME IInv, StartAnswer
    PROVE  IInv'
<1> DEFINE r == starting
           j == job[r]
<1>1. /\ r # None /\ Persist(r, j.report) /\ starting' = None
      /\ job' = [job EXCEPT ![r].pc = IF r \in exists THEN "next" ELSE "unborn"]
      /\ UNCHANGED <<exists, jobs, starts, controls>>
  BY DEF StartAnswer
<1>2. r \in jobs /\ j.pc = "unborn" /\ JobOK(r, j) /\ SavedOK /\ r \in Runs
  BY <1>1 DEF IInv, SavedOK
<1>3. j.report \in Reports /\ j.report.status # "completed"
  BY <1>2 DEF JobOK, JobRecords, Whole
<1>4. SavedOK'
  BY <1>1, <1>2, <1>3, PersistedLive
<1>5. PICK pc \in {"next", "unborn"} : job' = [job EXCEPT ![r] = [j EXCEPT !.pc = pc]]
  BY <1>1
<1>6. JobOK(r, [j EXCEPT !.pc = pc])
  BY <1>2, <1>3, Moved
<1> DEFINE x == [j EXCEPT !.pc = pc]
<1>7. JobOK(r, x) /\ x \in JobRecords
  BY <1>6 DEF JobOK
<1> HIDE DEF x
<1>8. /\ job' \in [Runs -> JobRecords \cup {None}] /\ job'[r] = x
      /\ \A s \in Runs \ {r} : job'[s] = job[s]
  BY <1>2, <1>5, <1>7 DEF IInv, x
<1>9. /\ exists' = exists /\ jobs' = jobs /\ starts' = starts /\ controls' = controls
  BY <1>1
<1>10. \A s \in jobs' : JobOK(s, job'[s])
  BY <1>7, <1>8, <1>9 DEF IInv
<1>11. \A s \in Runs \ jobs' : job'[s] = None
  BY <1>2, <1>8, <1>9 DEF IInv
<1> QED
  BY <1>1, <1>4, <1>8, <1>9, <1>10, <1>11 DEF IInv, SavedOK

LEMMA ControlStep ==
    ASSUME IInv, NEW r \in Runs, StopReview(r) \/ PauseReview(r) \/ ResumeReview(r)
    PROVE  IInv'
<1>1. r \in jobs /\ JobOK(r, job[r]) /\ job[r] \in JobRecords
  BY DEF IInv, JobOK, StopReview, PauseReview, ResumeReview
<1>2. \E stop, paused \in BOOLEAN, status \in Live : Control(r, stop, paused, status)
  BY <1>1 DEF StopReview, PauseReview, ResumeReview, JobRecords, Live
<1>3. PICK stop \in BOOLEAN, paused \in BOOLEAN, status \in Live :
         Control(r, stop, paused, status)
  BY <1>2
<1> DEFINE x == [job[r] EXCEPT !.stop = stop, !.paused = paused, !.report.status = status]
<1>4. /\ job' = [job EXCEPT ![r] = x] /\ Persist(r, job'[r].report) /\ starting = None
      /\ controls < MaxControls /\ controls' = controls + 1
      /\ UNCHANGED <<exists, jobs, starting, starts>>
  BY <1>3 DEF Control
<1>5. JobOK(r, x)
  BY <1>1, <1>3, Controlled
<1>6. x.report.status = status
  BY <1>1 DEF JobRecords, Reports
<1> HIDE DEF x
<1>7. x.report \in Reports /\ x.report.status # "completed"
  BY <1>3, <1>5, <1>6 DEF JobOK, JobRecords, Live
<1>8. job'[r] = x
  BY <1>1, <1>4 DEF IInv
<1>9. SavedOK /\ controls' \in 0..MaxControls
  BY <1>4, Constant DEF IInv, SavedOK
<1>10. Persist(r, x.report)
  BY <1>4, <1>8
<1>11. SavedOK'
  BY <1>7, <1>9, <1>10, PersistedLive
<1> QED
  BY <1>1, <1>4, <1>5, <1>9, <1>11, JobStep

\* A step that leaves the jobs alone.
LEMMA SavedStep ==
    ASSUME IInv, SavedOK', exists' \subseteq Runs,
           UNCHANGED <<jobs, job, starting, starts, controls>>
    PROVE  IInv'
<1>1. /\ jobs' = jobs /\ job' = job /\ starting' = starting /\ starts' = starts
      /\ controls' = controls
  OBVIOUS
<1> QED
  BY <1>1 DEF IInv, SavedOK

LEMMA SnapshotStep ==
    ASSUME IInv, NEW r \in Runs, Snapshot(r)
    PROVE  IInv'
<1> DEFINE report == [saved[r] EXCEPT !.status = "interrupted"]
<1>1. /\ saved[r] # None /\ Persist(r, report)
      /\ UNCHANGED <<exists, jobs, job, starting, starts, controls>>
  BY DEF Snapshot
<1>2. SavedOK /\ saved[r] \in SavedReports
  BY <1>1 DEF IInv, SavedOK
<1>3. /\ report \in SavedReports /\ report.status = "interrupted"
  BY <1>2 DEF SavedReports, Statuses
<1> HIDE DEF report
<1>4. Copy(report) \in SavedReports /\ Copy(report).status = "interrupted"
  BY <1>3 DEF Copy, SavedReports
<1>5. Kept(r, Copy(report))
  BY <1>4 DEF Kept
<1>6. SavedOK'
  BY <1>1, <1>2, <1>4, <1>5, Persisted
<1> QED
  BY <1>1, <1>6, SavedStep DEF IInv

LEMMA DeleteStep ==
    ASSUME IInv, ClearReports \/ \E r \in Runs : DeleteRun(r)
    PROVE  IInv'
<1>1. UNCHANGED <<jobs, job, starting, starts, controls>> /\ exists' \subseteq Runs
  BY DEF IInv, ClearReports, DeleteRun
<1>2. SavedOK'
  BY DEF IInv, SavedOK, ClearReports, DeleteRun
<1> QED
  BY <1>1, <1>2, SavedStep

LEMMA RestartStep ==
    ASSUME IInv, Restart
    PROVE  IInv'
BY DEF IInv, Restart

---------------------------------------------------------------------------
LEMMA Initially == Init => IInv
BY Constant DEF Init, IInv

LEMMA Inductive == IInv /\ [Next]_vars => IInv'
<1> SUFFICES ASSUME IInv, [Next]_vars PROVE IInv'
  OBVIOUS
<1>1. CASE UNCHANGED vars
  BY <1>1 DEF vars, IInv
<1>2. CASE UserRequest
  BY <1>2, StartStep, ControlStep, SnapshotStep, DeleteStep DEF UserRequest
<1>3. CASE StartAnswer
  BY <1>3, StartAnswerStep
<1>4. ASSUME NEW r \in Runs, WorkerStep(r) \/ DeadlinePasses(r)
      PROVE  IInv'
  BY <1>4, AskStep, AnswerStep, ProbeStep, PageDoneStep, ConcludeStep, CloseStep DEF WorkerStep
<1>5. CASE Restart
  BY <1>5, RestartStep
<1> QED
  BY <1>1, <1>2, <1>3, <1>4, <1>5 DEF Next

(* The inductive invariant holds of every behaviour of the review: requests, *)
(* controls, deletions, the worker and restarts in any order.              *)
THEOREM Invariance == Spec => []IInv
BY Initially, Inductive, PTL DEF Spec

(* The types: a review never sends more requests than its budget, probes   *)
(* included, and never completes more pages than there are.                *)
THEOREM TypesAreOK == Spec => []TypeOK
<1>1. ASSUME IInv PROVE TypeOK
  BY <1>1 DEF IInv, TypeOK
<1> QED
  BY <1>1, Invariance, PTL

(* No two reviews at a time, and no worker that is not registered, through *)
(* every interleaving of requests, deletions, workers and restarts.        *)
THEOREM OneReviewAtATime == Spec => []OneReview
<1>1. ASSUME IInv PROVE OneReview
  BY <1>1 DEF IInv, OneReview, Working
<1> QED
  BY <1>1, Invariance, PTL

(* A report that says "completed" has an answer of every page that the     *)
(* links of the captured routes lead to, or of as many as the cap allows,  *)
(* for every site and every order of its answers.                          *)
THEOREM CompletedReportIsWhole == Spec => []CompletedIsWhole
<1>1. ASSUME IInv PROVE CompletedIsWhole
  BY <1>1 DEF IInv, Kept, CompletedIsWhole
<1> QED
  BY <1>1, Invariance, PTL
=============================================================================
