---------------------------- MODULE TestJobsProofs ----------------------------
(***************************************************************************)
(* Proofs about the two kinds of jobs around tests, for every value of     *)
(* their constants.                                                        *)
(*                                                                         *)
(* ExecutionJobs: the types with the place of every execution in the plan, *)
(* what a client is told of a job after a restart, and the status that a   *)
(* run is left with.                                                       *)
(*                                                                         *)
(* TestPlanning: whoever plans, what the endpoint returns is safe and      *)
(* grounded, no longer than what was asked for, and has distinct ids.      *)
(***************************************************************************)
EXTENDS ExecutionJobs, TestPlanning, SequenceTheorems, FiniteSetTheorems, WellFoundedInduction, TLAPS

\* The assumptions, constant by constant.
LEMMA Constant ==
    /\ None \notin Executions /\ HasScan \in BOOLEAN /\ MaxRestarts \in Nat
    /\ Plan \in Seq(Seq(Actions)) /\ Plan # <<>>
    /\ \A c \in Cases : Plan[c] # <<>>
BY PlanAssumption, NoneAssumption, ScanAssumption, BoundAssumption

Places == {"new", "task", "session", "open", "case", "write", "project", "store", "resume",
           "raised", "done"}

Record == [pc : Places, kind : Kinds, allow : BOOLEAN, case : Cases, step : Nat,
           attempt : 1..MAX_TRANSIENT_RETRIES + 1, failed : BOOLEAN, rows : Seq(Row),
           expired : BOOLEAN]

\* An execution is at a step that its case has.
Placed(x) == x \in Record /\ x.step \in DOMAIN Plan[x.case]

Context == [status : {"discovered", "scanned", "executing", "executed", "failed"},
            scanned : BOOLEAN, results : Executions \cup {None}, job : Executions \cup {None},
            jobStatus : {"none", "running", "completed", "failed"}, auth : {"valid", "expired"}]

Types ==
    /\ registry \in [Executions -> {None, "running", "completed", "failed"}]
    /\ exec \in [Executions -> Record]
    /\ \A e \in Executions : Placed(exec[e])
    /\ ctx \in Context /\ file \in Context
    /\ since \in [Executions -> SUBSET Executions]
    /\ restarts \in Nat

\* By the history S, a context c that says that its job is completed has results that
\* were stored after the job was started.
Honest(c, S) ==
    \A e \in Executions :
        (c.job = e /\ (c.jobStatus = "completed" \/ (c.status = "executed" /\ c.results # None)))
        => c.results \in S[e]

\* The job of a context has been started.
Started(c, E) == \A e \in Executions : E[e].pc = "new" => c.job # e

\* A selected execution that a start of this process has left at work.
AtWork(x) == x.kind = "selected" /\ x.pc \notin {"new", "done"}

IInv ==
    /\ Types
    /\ Honest(ctx, since) /\ Honest(file, since)
    /\ Started(ctx, exec) /\ Started(file, exec)
    /\ (restarts = 0 /\ ctx.status = "executing") => \E e \in Executions : AtWork(exec[e])

---------------------------------------------------------------------------
\* The first step of the first case.
LEMMA FirstStep == 1 \in Cases /\ 1 \in DOMAIN Plan[1]
<1>1. Len(Plan) \in Nat /\ DOMAIN Plan = 1..Len(Plan) /\ Len(Plan) # 0
  BY Constant DEF Cases
<1>2. 1 \in Cases
  BY <1>1 DEF Cases
<1>3. Plan[1] \in Seq(Actions) /\ Plan[1] # <<>>
  BY <1>2, Constant DEF Cases
<1> QED
  BY <1>2, <1>3

LEMMA AsleepPlaced ==
    /\ Asleep \in Record
    /\ \A x \in Record : x.case = Asleep.case /\ x.step = Asleep.step => Placed(x)
<1>1. <<>> \in Seq(Row) /\ 1 \in 1..MAX_TRANSIENT_RETRIES + 1
  BY DEF MAX_TRANSIENT_RETRIES
<1>2. Asleep \in Record /\ Asleep.case = 1 /\ Asleep.step = 1
  BY <1>1, FirstStep DEF Asleep, Record, Places, Kinds
<1> QED
  BY <1>2, FirstStep DEF Placed

\* A step of one execution, whatever it does to the rest.
LEMMA OneExecution ==
    ASSUME IInv, NEW e \in Executions, NEW x, Placed(x), x.pc # "new",
           exec' = [exec EXCEPT ![e] = x],
           registry' \in [Executions -> {None, "running", "completed", "failed"}],
           since' \in [Executions -> SUBSET Executions],
           restarts' = restarts, ctx' \in Context, file' \in Context,
           Honest(ctx', since'), Honest(file', since'),
           ctx'.job \in {ctx.job, e}, file'.job \in {ctx.job, file.job, e},
           ctx'.status = "executing" =>
              AtWork(x) \/ (ctx.status = "executing" /\ (AtWork(exec[e]) => AtWork(x)))
    PROVE  IInv'
<1>1. /\ exec' \in [Executions -> Record]
      /\ exec'[e] = x
      /\ \A d \in Executions \ {e} : exec'[d] = exec[d]
  BY DEF IInv, Types, Placed
<1>2. Types'
  <2>1. \A d \in Executions : Placed(exec'[d])
    BY <1>1 DEF IInv, Types
  <2> QED
    BY <1>1, <2>1 DEF IInv, Types, Placed
<1>3. Started(ctx', exec') /\ Started(file', exec')
  BY <1>1 DEF IInv, Started
<1>4. ASSUME restarts' = 0, ctx'.status = "executing"
      PROVE  \E d \in Executions : AtWork(exec'[d])
  <2>1. CASE AtWork(x)
    BY <1>1, <2>1
  <2>2. CASE ctx.status = "executing" /\ (AtWork(exec[e]) => AtWork(x))
    <3>1. PICK d \in Executions : AtWork(exec[d])
      BY <1>4, <2>2 DEF IInv
    <3> QED
      BY <1>1, <2>2, <3>1
  <2> QED
    BY <1>4, <2>1, <2>2
<1> QED
  BY <1>2, <1>3, <1>4 DEF IInv

\* A step of a thread or of a coroutine that touches nothing else.
LEMMA LocalStep ==
    ASSUME IInv, NEW e \in Executions, NEW x, Placed(x), x.pc # "new",
           exec' = [exec EXCEPT ![e] = x], AtWork(exec[e]) => AtWork(x),
           ThreadOnly
    PROVE  IInv'
<1>1. /\ registry' = registry /\ ctx' = ctx /\ file' = file /\ since' = since
      /\ restarts' = restarts
  BY DEF ThreadOnly
<1> QED
  BY <1>1, OneExecution DEF IInv, Types

\* A step that only moves an execution to another place of its code.
LEMMA GotoStep ==
    ASSUME IInv, NEW e \in Executions, NEW place \in Places \ {"new", "done"},
           exec[e].pc # "new", Goto(e, place), ThreadOnly
    PROVE  IInv'
<1> DEFINE x == [exec[e] EXCEPT !.pc = place]
<1>1. exec \in [Executions -> Record] /\ Placed(exec[e])
  BY DEF IInv, Types
<1>2. exec' = [exec EXCEPT ![e] = x]
  BY <1>1 DEF Goto
<1>3. Placed(x) /\ x.pc = place /\ x.kind = exec[e].kind
  BY <1>1 DEF Placed, Record
<1>4. AtWork(exec[e]) => AtWork(x)
  BY <1>3 DEF AtWork
<1> HIDE DEF x
<1> QED
  BY <1>2, <1>3, <1>4, LocalStep

\* A step that stores a new context, whether or not it reaches the disk.
LEMMA SaveStep ==
    ASSUME IInv, NEW e \in Executions, NEW x, Placed(x), x.pc # "new",
           exec' = [exec EXCEPT ![e] = x],
           registry' \in [Executions -> {None, "running", "completed", "failed"}],
           since' \in [Executions -> SUBSET Executions],
           \A j \in Executions : exec[j].pc # "new" => since[j] \subseteq since'[j],
           restarts' = restarts,
           NEW new \in Context, Save(new), Honest(new, since'), new.job \in {ctx.job, e},
           new.status = "executing" =>
              AtWork(x) \/ (ctx.status = "executing" /\ (AtWork(exec[e]) => AtWork(x)))
    PROVE  IInv'
<1>1. ctx' = new /\ (file' = new \/ file' = file)
  BY DEF Save
<1>2. Honest(file, since')
  BY DEF IInv, Honest, Started
<1>3. ctx' \in Context /\ file' \in Context
  BY <1>1 DEF IInv, Types
<1>4. Honest(ctx', since') /\ Honest(file', since')
  BY <1>1, <1>2
<1>5. ctx'.job \in {ctx.job, e} /\ file'.job \in {ctx.job, file.job, e}
  BY <1>1
<1>6. ctx'.status = "executing" =>
         AtWork(x) \/ (ctx.status = "executing" /\ (AtWork(exec[e]) => AtWork(x)))
  BY <1>1
<1> HIDE DEF IInv, Honest, Context, Placed, AtWork
<1> QED
  BY <1>3, <1>4, <1>5, <1>6, OneExecution

\* What an execution stores is new for every job.
LEMMA StoredHonest ==
    ASSUME NEW c \in Context, NEW e \in Executions,
           since \in [Executions -> SUBSET Executions], StoredNow(e)
    PROVE  /\ Stored(c, e) \in Context /\ Stored(c, e).results = e
           /\ Stored(c, e).job = c.job /\ Stored(c, e).status = "executed"
           /\ Honest(Stored(c, e), since')
           /\ since' \in [Executions -> SUBSET Executions]
           /\ \A j \in Executions : since[j] \subseteq since'[j] /\ e \in since'[j]
<1>1. /\ Stored(c, e) \in Context /\ Stored(c, e).results = e
      /\ Stored(c, e).job = c.job /\ Stored(c, e).status = "executed"
  BY DEF Stored, Context
<1>2. /\ since' \in [Executions -> SUBSET Executions]
      /\ \A j \in Executions : since[j] \subseteq since'[j] /\ e \in since'[j]
  BY DEF StoredNow
<1> QED
  BY <1>1, <1>2 DEF Honest

---------------------------------------------------------------------------
(* The executor.                                                           *)

\* A row for the step at hand: the next step of the case, the next case, or the end.
LEMMA ReportStep ==
    ASSUME IInv, NEW e \in Executions, NEW status \in Statuses, At(e, "case"),
           Report(e, status), ThreadOnly
    PROVE  IInv'
<1> DEFINE x == exec[e]
           inCase == x.step < Len(Plan[x.case])
           more == x.case < Len(Plan)
           row == [case |-> x.case, step |-> x.step, status |-> status]
           y == [x EXCEPT
                   !.rows = Append(@, row),
                   !.attempt = 1,
                   !.step = IF inCase THEN @ + 1 ELSE 1,
                   !.case = IF inCase \/ ~more THEN @ ELSE @ + 1,
                   !.failed = inCase /\ (@ \/ status = "Fail"),
                   !.pc = IF inCase THEN "case" ELSE IF more THEN "open" ELSE "write"]
<1>1. x \in Record /\ x.step \in DOMAIN Plan[x.case] /\ x.case \in Cases /\ x.step \in Nat
  BY DEF IInv, Types, Placed, Record
<1>2. /\ Plan[x.case] \in Seq(Actions) /\ DOMAIN Plan[x.case] = 1..Len(Plan[x.case])
      /\ Len(Plan[x.case]) \in Nat
      /\ Len(Plan) \in Nat /\ Cases = 1..Len(Plan)
  BY <1>1, Constant DEF Cases
<1>3. row \in Row
  BY <1>1 DEF Row
<1>4. Append(x.rows, row) \in Seq(Row)
  <2>1. x.rows \in Seq(Row)
    BY <1>1 DEF Record
  <2> QED
    BY <2>1, <1>3, AppendProperties
<1>5. ~inCase /\ more => x.case + 1 \in Cases
  BY <1>1, <1>2
<1>6. PICK failed \in BOOLEAN : failed = (inCase /\ (x.failed \/ status = "Fail"))
  OBVIOUS
<1>7. PICK step \in Nat : step = (IF inCase THEN x.step + 1 ELSE 1)
  BY <1>1
<1>8. PICK case \in Cases : case = (IF inCase \/ ~more THEN x.case ELSE x.case + 1)
  BY <1>1, <1>5
<1>9. PICK place \in {"case", "open", "write"} :
         place = (IF inCase THEN "case" ELSE IF more THEN "open" ELSE "write")
  OBVIOUS
<1>10. step \in DOMAIN Plan[case]
  <2>1. CASE inCase
    BY <2>1, <1>1, <1>2, <1>7, <1>8
  <2>2. CASE ~inCase
    <3>1. Plan[case] \in Seq(Actions) /\ Plan[case] # <<>>
      BY Constant DEF Cases
    <3> QED
      BY <3>1, <2>2, <1>7
  <2> QED
    BY <2>1, <2>2
<1>11. y = [x EXCEPT !.rows = Append(x.rows, row), !.attempt = 1, !.step = step,
                     !.case = case, !.failed = failed, !.pc = place]
  BY <1>6, <1>7, <1>8, <1>9
<1>12. exec' = [exec EXCEPT ![e] = y]
  BY DEF Report
<1> HIDE DEF row, inCase, more, x, y
<1>13. Placed(y) /\ y.pc = place /\ y.kind = x.kind
  <2>1. 1 \in 1..MAX_TRANSIENT_RETRIES + 1 /\ place \in Places
    BY DEF MAX_TRANSIENT_RETRIES, Places
  <2>2. y \in Record /\ y.step = step /\ y.case = case /\ y.pc = place /\ y.kind = x.kind
    BY <1>1, <1>4, <1>11, <2>1 DEF Record
  <2> QED
    BY <2>2, <1>10 DEF Placed
<1>14. AtWork(exec[e]) => AtWork(y)
  BY <1>13 DEF AtWork, x
<1> QED
  BY <1>12, <1>13, <1>14, LocalStep

LEMMA ThreadStep ==
    ASSUME IInv, NEW e \in Executions, Thread(e)
    PROVE  IInv'
<1> DEFINE x == exec[e]
<1>1. exec \in [Executions -> Record] /\ Placed(x) /\ x \in Record
  BY DEF IInv, Types
<1>2. ASSUME NEW y, Placed(y), y.pc \in Places \ {"new", "done"}, y.kind = x.kind,
             exec' = [exec EXCEPT ![e] = y], x.pc # "new", ThreadOnly
      PROVE  IInv'
  <2>1. AtWork(x) => AtWork(y)
    BY <1>2 DEF AtWork
  <2> QED
    BY <1>2, <2>1, LocalStep
\* The login is gone: the execution raises.
<1>3. ASSUME exec' = [exec EXCEPT ![e].pc = "raised", ![e].expired = TRUE],
             x.pc # "new", ThreadOnly
      PROVE  IInv'
  <2> DEFINE y == [x EXCEPT !.pc = "raised", !.expired = TRUE]
  <2>1. exec' = [exec EXCEPT ![e] = y]
    BY <1>1, <1>3
  <2>2. Placed(y) /\ y.pc = "raised" /\ y.kind = x.kind
    BY <1>1 DEF Placed, Record, Places
  <2> HIDE DEF y
  <2> QED
    BY <2>1, <2>2, <1>2, <1>3 DEF Places
<1>4. CASE CheckSession(e)
  <2>1. x.pc = "session" /\ ThreadOnly
    BY <1>4 DEF CheckSession, At
  <2>2. CASE Goto(e, "open")
    BY <2>1, <2>2, GotoStep DEF Places
  <2> QED
    BY <1>3, <1>4, <2>1, <2>2 DEF CheckSession
<1>5. CASE OpenBrowser(e)
  <2>1. x.pc = "open" /\ ThreadOnly
    BY <1>5 DEF OpenBrowser, At
  <2>2. CASE Goto(e, "case")
    BY <2>1, <2>2, GotoStep DEF Places
  <2>3. CASE ~Goto(e, "case")
    <3> DEFINE row == [case |-> 0, step |-> 0, status |-> "Fail"]
               y == [x EXCEPT !.pc = "write", !.rows = Append(@, row)]
    <3>1. exec' = [exec EXCEPT ![e] = y]
      BY <1>1, <1>5, <2>3 DEF OpenBrowser
    <3>2. row \in Row
      BY DEF Row, Statuses
    <3>3. Append(x.rows, row) \in Seq(Row)
      <4>1. x.rows \in Seq(Row)
        BY <1>1 DEF Record
      <4> HIDE DEF row
      <4> QED
        BY <3>2, <4>1, AppendProperties
    <3> HIDE DEF row
    <3>4. Placed(y) /\ y.pc = "write" /\ y.kind = x.kind
      BY <1>1, <3>3 DEF Placed, Record, Places
    <3> HIDE DEF y
    <3> QED
      BY <1>2, <2>1, <3>1, <3>4 DEF Places
  <2> QED
    BY <2>2, <2>3
<1>6. CASE SkipStep(e)
  BY <1>6, ReportStep DEF SkipStep, Statuses
<1>7. CASE PassStep(e)
  BY <1>7, ReportStep DEF PassStep, Statuses
<1>8. CASE FailStep(e)
  BY <1>8, ReportStep DEF FailStep, Statuses
<1>9. CASE RetryStep(e)
  <2> DEFINE y == [x EXCEPT !.attempt = @ + 1]
  <2>1. x.pc = "case" /\ x.attempt <= MAX_TRANSIENT_RETRIES /\ ThreadOnly
    BY <1>9 DEF RetryStep, At
  <2>2. exec' = [exec EXCEPT ![e] = y]
    BY <1>1, <1>9 DEF RetryStep
  <2>3. x.attempt + 1 \in 1..MAX_TRANSIENT_RETRIES + 1
    BY <1>1, <2>1 DEF Record, MAX_TRANSIENT_RETRIES
  <2>4. Placed(y) /\ y.pc = "case" /\ y.kind = x.kind
    BY <1>1, <2>1, <2>3 DEF Placed, Record
  <2> HIDE DEF y
  <2> QED
    BY <1>2, <2>1, <2>2, <2>4 DEF Places
<1>10. CASE LoginSeen(e)
  <2>1. x.pc = "case"
    BY <1>10 DEF LoginSeen, At
  <2> QED
    BY <1>3, <1>10, <2>1 DEF LoginSeen
<1>11. CASE WriteArtifacts(e)
  BY <1>11, GotoStep DEF WriteArtifacts, At, Places
<1>12. CASE ProjectArtifacts(e)
  <2>1. PICK next \in {"store", "resume"} :
           exec' = [exec EXCEPT ![e] = [Asleep EXCEPT !.pc = next, !.kind = x.kind]]
    BY <1>12 DEF ProjectArtifacts
  <2> DEFINE y == [Asleep EXCEPT !.pc = next, !.kind = x.kind]
  <2>2. x.kind \in Kinds /\ next \in Places
    BY <1>1 DEF Record, Places
  <2>3. y \in Record /\ y.case = Asleep.case /\ y.step = Asleep.step
    BY <2>2, AsleepPlaced DEF Record
  <2>4. Placed(y) /\ y.pc = next /\ y.kind = x.kind
    BY <2>3, AsleepPlaced DEF Record
  <2>5. x.pc = "project" /\ ThreadOnly
    BY <1>12 DEF ProjectArtifacts, At
  <2>6. next \in Places \ {"new", "done"} /\ x.pc # "new"
    BY <2>5 DEF Places
  <2>7. exec' = [exec EXCEPT ![e] = y]
    BY <2>1
  <2>8. AtWork(exec[e]) => AtWork(y)
    BY <2>4, <2>6 DEF AtWork
  <2> HIDE DEF y
  <2>9. y.pc # "new"
    BY <2>4, <2>6
  <2> QED
    BY <2>4, <2>5, <2>7, <2>8, <2>9, LocalStep
<1>13. CASE StoreResults(e)
  <2> DEFINE y == [x EXCEPT !.pc = "resume"]
  <2>1. exec' = [exec EXCEPT ![e] = y]
    BY <1>1, <1>13 DEF StoreResults, Goto
  <2>2. Placed(y) /\ y.pc = "resume" /\ y.kind = x.kind
    BY <1>1 DEF Placed, Record, Places
  <2>3. ctx \in Context /\ since \in [Executions -> SUBSET Executions]
    BY DEF IInv, Types
  <2>4. /\ Save(Stored(ctx, e)) /\ StoredNow(e)
        /\ registry' = registry /\ restarts' = restarts
    BY <1>13 DEF StoreResults
  <2>5. registry' \in [Executions -> {None, "running", "completed", "failed"}]
    BY <2>4 DEF IInv, Types
  <2> HIDE DEF y
  <2> QED
    BY <2>1, <2>2, <2>3, <2>4, <2>5, StoredHonest, SaveStep, ZenonT(60)
<1> QED
  BY <1>4, <1>5, <1>6, <1>7, <1>8, <1>9, <1>10, <1>11, <1>12, <1>13 DEF Thread

---------------------------------------------------------------------------
(* The handlers, the end of an execution and a restart.                    *)

\* An execution that ends.
LEMMA EndedExecution ==
    LET x == [Asleep EXCEPT !.pc = "done"]
    IN  Placed(x) /\ x.pc = "done"
<1> DEFINE x == [Asleep EXCEPT !.pc = "done"]
<1>1. x \in Record /\ x.case = Asleep.case /\ x.step = Asleep.step /\ x.pc = "done"
  BY AsleepPlaced DEF Record, Places
<1> QED
  BY <1>1, AsleepPlaced

LEMMA StartStep ==
    ASSUME IInv, NEW e \in Executions, NEW allow \in BOOLEAN,
           StartSelected(e, allow) \/ StartExecution(e, allow) \/ Replay(e)
    PROVE  IInv'
<1>1. /\ ctx \in Context /\ file \in Context /\ since \in [Executions -> SUBSET Executions]
      /\ registry \in [Executions -> {None, "running", "completed", "failed"}]
      /\ exec \in [Executions -> Record]
  BY DEF IInv, Types
<1>2. exec[e].pc = "new"
  BY DEF StartSelected, StartExecution, Replay, At
<1>3. CASE StartSelected(e, allow)
  <2> DEFINE x == [Asleep EXCEPT !.pc = "task", !.kind = "selected", !.allow = allow]
             new == PersistJob(ctx, e, "running", FALSE)
  <2>1. Placed(x) /\ x.pc = "task" /\ x.kind = "selected"
    <3>1. /\ x \in Record /\ x.case = Asleep.case /\ x.step = Asleep.step
          /\ x.pc = "task" /\ x.kind = "selected"
      BY AsleepPlaced DEF Record, Places, Kinds
    <3> QED
      BY <3>1, AsleepPlaced
  <2>2. /\ exec' = [exec EXCEPT ![e] = x] /\ Save(new) /\ restarts' = restarts
        /\ registry' = [registry EXCEPT ![e] = "running"] /\ since' = [since EXCEPT ![e] = {}]
    BY <1>3 DEF StartSelected
  <2>3. registry' \in [Executions -> {None, "running", "completed", "failed"}]
    BY <1>1, <2>2
  <2>4. /\ since' \in [Executions -> SUBSET Executions]
        /\ \A j \in Executions : exec[j].pc # "new" => since[j] \subseteq since'[j]
    BY <1>1, <1>2, <2>2
  <2>5. new \in Context /\ new.job = e /\ new.jobStatus = "running" /\ new.status = "executing"
    BY <1>1 DEF PersistJob, Context
  <2>6. Honest(new, since')
    BY <2>5 DEF Honest
  <2>7. AtWork(x)
    BY <2>1 DEF AtWork
  <2> HIDE DEF x, new
  <2> QED
    BY <2>1, <2>2, <2>3, <2>4, <2>5, <2>6, <2>7, SaveStep
<1>4. CASE StartExecution(e, allow)
  <2> DEFINE x == [Asleep EXCEPT !.pc = "task", !.allow = allow]
  <2>1. x \in Record /\ x.case = Asleep.case /\ x.step = Asleep.step /\ x.pc = "task"
    BY AsleepPlaced DEF Record, Places
  <2>2. Placed(x) /\ x.pc # "new"
    BY <2>1, AsleepPlaced
  <2>3. /\ exec' = [exec EXCEPT ![e] = x] /\ restarts' = restarts
        /\ registry' = [registry EXCEPT ![e] = "running"]
        /\ ctx' = ctx /\ file' = file /\ since' = since
    BY <1>4 DEF StartExecution
  <2>4. registry' \in [Executions -> {None, "running", "completed", "failed"}]
    BY <1>1, <2>3
  <2>5. AtWork(exec[e]) => AtWork(x)
    BY <1>2 DEF AtWork
  <2>6. Honest(ctx', since') /\ Honest(file', since')
    BY <2>3 DEF IInv
  <2> HIDE DEF x
  <2> QED
    BY <1>1, <2>2, <2>3, <2>4, <2>5, <2>6, OneExecution
<1>5. CASE Replay(e)
  <2> DEFINE x == [Asleep EXCEPT !.pc = "task", !.kind = "replay"]
  <2>1. x \in Record /\ x.case = Asleep.case /\ x.step = Asleep.step /\ x.pc = "task"
    BY AsleepPlaced DEF Record, Places, Kinds
  <2>2. Placed(x) /\ x.pc # "new"
    BY <2>1, AsleepPlaced
  <2>3. exec' = [exec EXCEPT ![e] = x] /\ ThreadOnly
    BY <1>5 DEF Replay
  <2>4. AtWork(exec[e]) => AtWork(x)
    BY <1>2 DEF AtWork
  <2> HIDE DEF x
  <2> QED
    BY <2>2, <2>3, <2>4, LocalStep
<1> QED
  BY <1>3, <1>4, <1>5

\* An execution that ends without a change of the context was not a selected one.
LEMMA QuietEnd ==
    ASSUME IInv, NEW e \in Executions, Done(e), exec[e].kind # "selected",
           registry' \in [Executions -> {None, "running", "completed", "failed"}],
           restarts' = restarts,
           \/ StoredNow(e) /\ Save(Stored(ctx, e))
           \/ UNCHANGED <<since, ctx, file>>
    PROVE  IInv'
<1> DEFINE x == [Asleep EXCEPT !.pc = "done"]
<1>1. ctx \in Context /\ file \in Context /\ since \in [Executions -> SUBSET Executions]
  BY DEF IInv, Types
<1>2. exec' = [exec EXCEPT ![e] = x] /\ Placed(x) /\ x.pc # "new"
  BY EndedExecution DEF Done
<1>3. ~AtWork(exec[e])
  BY DEF AtWork
<1> HIDE DEF x
<1>4. CASE StoredNow(e) /\ Save(Stored(ctx, e))
  <2> DEFINE new == Stored(ctx, e)
  <2>1. /\ new \in Context /\ new.job = ctx.job /\ new.status = "executed"
        /\ Honest(new, since') /\ since' \in [Executions -> SUBSET Executions]
        /\ \A j \in Executions : since[j] \subseteq since'[j]
    BY <1>1, <1>4, StoredHonest
  <2>2. Save(new)
    BY <1>4
  <2>3. new.status # "executing" /\ new.job \in {ctx.job, e}
    BY <2>1
  <2> HIDE DEF new
  <2> QED
    BY <1>2, <2>1, <2>2, <2>3, SaveStep
<1>5. CASE UNCHANGED <<since, ctx, file>>
  <2>1. since' = since /\ ctx' = ctx /\ file' = file
    BY <1>5
  <2>2. Honest(ctx', since') /\ Honest(file', since')
    BY <2>1 DEF IInv
  <2> QED
    BY <1>1, <1>2, <1>3, <2>1, <2>2, OneExecution
<1> QED
  BY <1>4, <1>5

LEMMA CoroutineStep ==
    ASSUME IInv, NEW e \in Executions, Coroutine(e)
    PROVE  IInv'
<1> DEFINE x == [Asleep EXCEPT !.pc = "done"]
<1>1. /\ ctx \in Context /\ since \in [Executions -> SUBSET Executions]
      /\ registry \in [Executions -> {None, "running", "completed", "failed"}]
  BY DEF IInv, Types
<1>2. CASE TaskPlain(e) \/ TaskSelected(e) \/ TaskReplay(e)
  BY <1>2, GotoStep DEF TaskPlain, TaskSelected, TaskReplay, At, Places
<1>3. CASE ResumePlain(e)
  BY <1>1, <1>3, QuietEnd DEF ResumePlain
<1>4. CASE ResumeReplay(e)
  BY <1>1, <1>4, QuietEnd DEF ResumeReplay
<1>5. CASE RaisedPlain(e)
  BY <1>1, <1>5, QuietEnd DEF RaisedPlain
<1>6. CASE RaisedReplay(e)
  BY <1>1, <1>6, QuietEnd DEF RaisedReplay, ThreadOnly
<1>7. CASE ResumeSelected(e)
  <2> DEFINE stored == Stored(ctx, e)
             new == PersistJob(stored, e, "completed", FALSE)
  <2>1. /\ exec' = [exec EXCEPT ![e] = x] /\ Placed(x) /\ x.pc # "new"
        /\ Save(new) /\ StoredNow(e) /\ restarts' = restarts
        /\ registry' = [registry EXCEPT ![e] = "completed"]
    BY <1>7, EndedExecution DEF ResumeSelected, Done
  <2>2. registry' \in [Executions -> {None, "running", "completed", "failed"}]
    BY <1>1, <2>1
  <2>3. /\ stored \in Context /\ stored.results = e /\ stored.status = "executed"
        /\ since' \in [Executions -> SUBSET Executions]
        /\ \A j \in Executions : since[j] \subseteq since'[j] /\ e \in since'[j]
    BY <1>1, <2>1, StoredHonest
  <2> HIDE DEF stored, x
  <2>4. new \in Context /\ new.results = e /\ new.job = e /\ new.status = "executed"
    BY <2>3 DEF PersistJob, Context
  <2>5. Honest(new, since')
    BY <2>3, <2>4 DEF Honest
  <2> HIDE DEF new
  <2> QED
    BY <2>1, <2>2, <2>3, <2>4, <2>5, SaveStep
<1>8. CASE RaisedSelected(e)
  <2> DEFINE new == PersistJob(ctx, e, "failed", exec[e].expired)
  <2>1. /\ exec' = [exec EXCEPT ![e] = x] /\ Placed(x) /\ x.pc # "new"
        /\ Save(new) /\ since' = since /\ restarts' = restarts
        /\ registry' = [registry EXCEPT ![e] = "failed"]
    BY <1>8, EndedExecution DEF RaisedSelected, Done
  <2>2. registry' \in [Executions -> {None, "running", "completed", "failed"}]
    BY <1>1, <2>1
  <2>3. /\ new \in Context /\ new.job = e /\ new.jobStatus = "failed"
        /\ new.status \in {"scanned", "failed"}
    BY <1>1 DEF PersistJob, Context
  <2>4. Honest(new, since')
    BY <2>3 DEF Honest
  <2> HIDE DEF new, x
  <2> QED
    BY <1>1, <2>1, <2>2, <2>3, <2>4, SaveStep
<1> QED
  BY <1>2, <1>3, <1>4, <1>5, <1>6, <1>7, <1>8 DEF Coroutine

\* The context is the file's; what was not asked for yet may still be.
LEMMA RestartStep ==
    ASSUME IInv, Restart
    PROVE  IInv'
<1>1. /\ restarts' = restarts + 1 /\ registry' = [e \in Executions |-> None]
      /\ ctx' = file /\ file' = file /\ since' = since
      /\ exec' = [e \in Executions |-> IF At(e, "new") THEN Asleep ELSE [Asleep EXCEPT !.pc = "done"]]
  BY DEF Restart
<1>2. Types /\ Honest(file, since) /\ Started(file, exec)
  BY DEF IInv
<1>3. restarts' \in Nat /\ restarts' # 0
  BY <1>1, <1>2 DEF Types
<1>4. Placed(Asleep) /\ Placed([Asleep EXCEPT !.pc = "done"]) /\ [Asleep EXCEPT !.pc = "done"].pc = "done"
  BY AsleepPlaced, EndedExecution
<1>5. \A e \in Executions :
         /\ Placed(exec'[e])
         /\ exec'[e].pc = "new" => exec[e].pc = "new"
  BY <1>1, <1>4 DEF At
<1>6. exec' \in [Executions -> Record]
  BY <1>1, <1>5 DEF Placed
<1>7. Types'
  BY <1>1, <1>2, <1>3, <1>5, <1>6 DEF Types
<1>8. Started(ctx', exec') /\ Started(file', exec')
  BY <1>1, <1>2, <1>5 DEF Started
<1>9. Honest(ctx', since') /\ Honest(file', since')
  BY <1>1, <1>2
<1> QED
  BY <1>3, <1>7, <1>8, <1>9 DEF IInv

---------------------------------------------------------------------------
LEMMA Initially == Init => IInv
<1> SUFFICES ASSUME Init PROVE IInv
  OBVIOUS
<1>1. ctx \in Context /\ file = ctx /\ ctx.job = None /\ ctx.results = None /\ ctx.status # "executing"
  BY Constant DEF Init, Context
<1>2. exec = [e \in Executions |-> Asleep] /\ \A e \in Executions : Placed(exec[e])
  BY AsleepPlaced DEF Init
<1>3. Types
  BY <1>1, <1>2, AsleepPlaced DEF Types, Init
<1>4. Honest(ctx, since) /\ Honest(file, since) /\ Started(ctx, exec) /\ Started(file, exec)
  BY <1>1, Constant DEF Honest, Started
<1> QED
  BY <1>1, <1>3, <1>4 DEF IInv

LEMMA Inductive == IInv /\ [Next]_vars => IInv'
<1> SUFFICES ASSUME IInv, [Next]_vars PROVE IInv'
  OBVIOUS
<1>1. CASE UNCHANGED vars
  BY <1>1 DEF vars, IInv, Types, Honest, Started
<1>2. CASE Restart
  BY <1>2, RestartStep
<1>3. ASSUME NEW e \in Executions, NEW allow \in BOOLEAN,
             \/ StartSelected(e, allow) \/ StartExecution(e, allow) \/ Replay(e)
             \/ Coroutine(e) \/ Thread(e)
      PROVE  IInv'
  BY <1>3, StartStep, CoroutineStep, ThreadStep
<1> QED
  BY <1>1, <1>2, <1>3 DEF Next

(* The inductive invariant holds of every behaviour of the executions of a *)
(* run, whatever fails, and through restarts.                              *)
THEOREM Invariance == Spec => []IInv
BY Initially, Inductive, PTL DEF Spec

(* The types, and that every execution is at a step that its plan has,     *)
(* through retries, parked steps and restarts.                             *)
THEOREM TypesAreOK == Spec => []TypeOK
<1>1. ASSUME IInv PROVE TypeOK
  BY <1>1, SMTT(30) DEF IInv, Types, Placed, Record, Context, TypeOK
<1> QED
  BY <1>1, Invariance, PTL

(* The status endpoint recovers no job with results from before it was     *)
(* started, for any number of executions next to it and of restarts.       *)
THEOREM RecoveryIsFresh == Spec => []NothingStaleIsRecovered
<1>1. ASSUME IInv PROVE NothingStaleIsRecovered
  BY <1>1 DEF IInv, Honest, NothingStaleIsRecovered, RecoverJob
<1> QED
  BY <1>1, Invariance, PTL

(* A run without an execution at work does not say that it is executing.   *)
THEOREM RunIsReleased == Spec => []NotLeftExecuting
<1>1. ASSUME IInv PROVE NotLeftExecuting
  BY <1>1 DEF IInv, AtWork, NotLeftExecuting
<1> QED
  BY <1>1, Invariance, PTL

---------------------------------------------------------------------------
(* TestPlanning                                                            *)

\* Every set of natural numbers that has a member has a least one.
LEMMA LeastNumber == ASSUME NEW T \in SUBSET Nat, T # {} PROVE \E x \in T : \A y \in T : x <= y
<1> DEFINE Less == {p \in Nat \X Nat : p[1] < p[2]}
<1>1. IsWellFoundedOn(Less, Nat)
  BY NatLessThanWellFounded DEF OpToRel
<1>2. PICK x \in T : \A y \in T : <<y, x>> \notin Less
  BY <1>1, WFMin
<1>3. ASSUME NEW y \in T PROVE x <= y
  <2>1. <<y, x>> \in Less <=> y < x
    OBVIOUS
  <2>2. ~(y < x)
    BY <1>2, <2>1
  <2> QED
    BY <2>2
<1> QED BY <1>3

\* A member of T[n] at every place n, when it is so at the first and goes on to the next.
LEMMA StepByStep ==
    ASSUME NEW m \in Nat, NEW L \in Nat, m <= L, NEW g, NEW T, g[m] \in T[m],
           \A n \in m .. L : n # m /\ g[n - 1] \in T[n - 1] => g[n] \in T[n]
    PROVE  \A n \in m .. L : g[n] \in T[n]
<1> DEFINE Bad == {n \in m .. L : g[n] \notin T[n]}
<1>1. SUFFICES ASSUME Bad # {} PROVE FALSE
  OBVIOUS
<1>2. PICK k \in Bad : \A n \in Bad : k <= n
  BY <1>1, LeastNumber, Bad \in SUBSET Nat
<1>3. k \in m .. L /\ k # m /\ k - 1 \in m .. L
  BY <1>2
<1>4. g[k - 1] \in T[k - 1]
  BY <1>2, <1>3
<1> QED
  BY <1>2, <1>3, <1>4

(* Going from base in T[m], W[n] leads from T[n - 1] to T[n], for n up to L; *)
(* R contains all of these.                                                *)
Leads(m, L, R, T, W, base) ==
    /\ m \in Nat /\ L \in Nat /\ m <= L /\ base \in T[m]
    /\ \A n \in m .. L : T[n] \subseteq R
    /\ \A n \in m .. L : n # m => \A b \in T[n - 1] : W[n][b] \in T[n]

\* Then there is a function that says where one is.
LEMMA Chained ==
    ASSUME NEW m, NEW L, NEW R, NEW T, NEW W, NEW base, Leads(m, L, R, T, W, base)
    PROVE  \E g \in [m .. L -> R] :
               /\ g[m] = base
               /\ \A n \in m .. L : g[n] \in T[n] /\ (n # m => g[n] = W[n][g[n - 1]])
<1>0. /\ m \in Nat /\ L \in Nat /\ m <= L /\ base \in T[m]
      /\ \A n \in m .. L : T[n] \subseteq R
      /\ \A n \in m .. L : n # m => \A b \in T[n - 1] : W[n][b] \in T[n]
  BY DEF Leads
<1> DEFINE Chain(K, g) ==
             /\ g[m] = base
             /\ \A n \in m .. K : g[n] \in T[n] /\ (n # m => g[n] = W[n][g[n - 1]])
           Bad == {K \in m .. L : ~ \E g \in [m .. K -> R] : Chain(K, g)}
<1>1. SUFFICES ASSUME Bad # {} PROVE FALSE
  BY <1>0
<1>2. PICK K \in Bad : \A n \in Bad : K <= n
  BY <1>0, <1>1, LeastNumber, Bad \in SUBSET Nat
<1>3. CASE K = m
  <2> DEFINE g == [n \in m .. m |-> base]
  <2>1. g \in [m .. m -> R] /\ g[m] = base /\ \A n \in m .. m : n = m
    <3>1. base \in R
      BY <1>0
    <3> QED
      BY <1>0, <3>1
  <2>2. \A n \in m .. m : g[n] \in T[n]
    BY <1>0
  <2>3. Chain(m, g)
    BY <1>0, <2>1, <2>2
  <2> HIDE DEF g, Chain
  <2> QED
    BY <1>2, <1>3, <2>1, <2>3
<1>4. CASE K # m
  <2>1. K \in m .. L /\ K - 1 \in m .. L /\ K - 1 \in m .. K - 1
    BY <1>0, <1>2, <1>4
  <2>2. PICK h : Chain(K - 1, h)
    <3>1. K - 1 \notin Bad
      <4> K \in Nat
        BY <1>0, <2>1
      <4> HIDE DEF Bad
      <4> QED
        BY <1>2
    <3> QED BY <3>1, <2>1
  <2>a. h[m] = base /\ \A n \in m .. K - 1 : h[n] \in T[n] /\ (n # m => h[n] = W[n][h[n - 1]])
    BY <2>2
  <2>b. h[K - 1] \in T[K - 1]
    BY <1>0, <2>1, <2>a
  <2> HIDE DEF Chain
  <2> DEFINE g == [n \in m .. K |-> IF n = K THEN W[K][h[K - 1]] ELSE h[n]]
  <2>3. \A n \in m .. K - 1 : g[n] = h[n] /\ h[n] \in T[n]
    BY <1>0, <2>1, <2>a
  <2>c. g[K] = W[K][h[K - 1]]
    BY <1>0, <2>1
  <2>4. g[K] = W[K][g[K - 1]] /\ g[K] \in T[K]
    <3> HIDE DEF g
    <3>1. g[K - 1] = h[K - 1]
      BY <2>1, <2>3
    <3> QED
      BY <1>0, <3>1, <2>1, <2>b, <2>c, <1>4
  <2>5. \A n \in m .. K : g[n] \in T[n]
    <3> HIDE DEF g
    <3>1. \A n \in m .. K : n \in m .. K - 1 \/ n = K
      BY <1>0, <2>1
    <3> QED
      BY <3>1, <2>3, <2>4
  <2>6. ASSUME NEW n \in m .. K
        PROVE  (n = m => g[n] = base) /\ (n # m => g[n] = W[n][g[n - 1]])
    <3>1. CASE n = K
      BY <1>0, <3>1, <2>1, <2>4, <1>4
    <3>2. CASE n # K
      <4>1. n \in m .. K - 1
        BY <1>0, <3>2, <2>1
      <4>2. (n = m => h[n] = base) /\ (n # m => h[n] = W[n][h[n - 1]])
        BY <4>1, <2>a
      <4>3. n # m => n - 1 \in m .. K - 1
        BY <1>0, <4>1, <2>1
      <4> HIDE DEF g
      <4> QED
        BY <1>0, <4>1, <4>2, <4>3, <2>3
    <3> QED
      BY <3>1, <3>2
  <2>7. g \in [m .. K -> R]
    <3>1. \A n \in m .. K : n \in m .. L
      BY <1>0, <2>1
    <3>2. g = [n \in m .. K |-> g[n]]
      OBVIOUS
    <3> HIDE DEF g
    <3> QED
      BY <1>0, <3>1, <3>2, <2>5
  <2> HIDE DEF g
  <2>8. Chain(K, g)
    BY <1>0, <2>5, <2>6, <2>1 DEF Chain
  <2> QED
    BY <1>0, <1>2, <2>7, <2>8
<1> QED
  BY <1>3, <1>4

\* Who starts at base and goes where W leads is in T[L] in the end.
LEMMA Arrives ==
    ASSUME NEW m, NEW L, NEW R, NEW T, NEW W, NEW base, Leads(m, L, R, T, W, base),
           NEW f, f[m] = base,
           \A n \in m .. L : n # m /\ f[n - 1] \in T[n - 1] => f[n] = W[n][f[n - 1]]
    PROVE  f[L] \in T[L]
<1>1. m \in Nat /\ L \in Nat /\ m <= L /\ f[m] \in T[m]
  BY DEF Leads
<1>2. ASSUME NEW n \in m .. L, n # m, f[n - 1] \in T[n - 1] PROVE f[n] \in T[n]
  BY <1>2 DEF Leads
<1>3. \A n \in m .. L : n # m /\ f[n - 1] \in T[n - 1] => f[n] \in T[n]
  BY <1>2
<1>4. \A n \in m .. L : f[n] \in T[n]
  BY <1>1, <1>3, StepByStep, Zenon
<1> QED
  BY <1>1, <1>4

\* The member of a set with one.
LEMMA TheOne == \A x : The({x}) = x
BY DEF The

(* Gathering the members of s at the places I leads from T[n - 1] to T[n], *)
(* whether or not n is one of them.                                        *)
Gathers(S, s, I, T) ==
    /\ \A n \in 0 .. Len(s) : T[n] \subseteq Seq(S)
    /\ <<>> \in T[0]
    /\ \A n \in 1 .. Len(s) : \A b \in T[n - 1] : (IF n \in I THEN Append(b, s[n]) ELSE b) \in T[n]

\* Then what is kept of s is in the last of these sets.
LEMMA KeptBy ==
    ASSUME NEW S, NEW s \in Seq(S), NEW I, NEW T, Gathers(S, s, I, T)
    PROVE  Kept(s, I) \in T[Len(s)]
<1> DEFINE L == Len(s)
           M == Seq(S)
           W == [n \in 1 .. L |-> [b \in M |-> IF n \in I THEN Append(b, s[n]) ELSE b]]
           Rec(g) == [n \in 0 .. L |-> IF n = 0 THEN <<>>
                                       ELSE IF n \in I THEN Append(g[n - 1], s[n]) ELSE g[n - 1]]
           f == CHOOSE g : g = Rec(g)
<1>1. L \in Nat
  BY LenProperties
<1>2. /\ \A n \in 0 .. L : T[n] \subseteq M
      /\ <<>> \in T[0]
      /\ \A n \in 1 .. L : \A b \in T[n - 1] : (IF n \in I THEN Append(b, s[n]) ELSE b) \in T[n]
  BY DEF Gathers
<1>3. \A n \in 0 .. L : n # 0 =>
         /\ n \in 1 .. L /\ n - 1 \in 0 .. L
         /\ \A b \in M : W[n][b] = (IF n \in I THEN Append(b, s[n]) ELSE b)
  BY <1>1
<1> HIDE DEF W, M
<1>4. Leads(0, L, M, T, W, <<>>)
  <2> HIDE DEF L
  <2>1. ASSUME NEW n \in 0 .. L, n # 0, NEW b \in T[n - 1] PROVE W[n][b] \in T[n]
    <3>1. n \in 1 .. L /\ b \in M
      BY <1>2, <1>3, <2>1
    <3>2. (IF n \in I THEN Append(b, s[n]) ELSE b) \in T[n]
      BY <1>2, <2>1, <3>1
    <3> QED
      BY <1>3, <2>1, <3>1, <3>2
  <2>2. 0 \in Nat /\ L \in Nat /\ 0 <= L
    BY <1>1
  <2> QED
    BY <1>2, <2>1, <2>2 DEF Leads
<1>5. \E g : g = Rec(g)
  <2>1. PICK g \in [0 .. L -> M] :
               /\ g[0] = <<>>
               /\ \A n \in 0 .. L : g[n] \in T[n] /\ (n # 0 => g[n] = W[n][g[n - 1]])
    <3> HIDE DEF L
    <3> QED
      BY <1>4, Chained
  <2>2. ASSUME NEW n \in 0 .. L
        PROVE  g[n] = IF n = 0 THEN <<>> ELSE IF n \in I THEN Append(g[n - 1], s[n]) ELSE g[n - 1]
    BY <2>1, <1>3
  <2> QED
    BY <2>1, <2>2
<1>6. f = Rec(f)
  <2> HIDE DEF Rec
  <2> QED
    BY <1>5
<1> HIDE DEF f
<1>7. f[0] = <<>> /\ \A n \in 0 .. L : n # 0 /\ f[n - 1] \in T[n - 1] => f[n] = W[n][f[n - 1]]
  <2>1. ASSUME NEW n \in 0 .. L, n # 0, f[n - 1] \in T[n - 1] PROVE f[n] = W[n][f[n - 1]]
    <3>1. f[n] = IF n \in I THEN Append(f[n - 1], s[n]) ELSE f[n - 1]
      BY <1>6, <2>1
    <3>2. f[n - 1] \in M
      BY <1>2, <1>3, <2>1
    <3> QED
      BY <3>1, <3>2, <2>1, <1>3
  <2>2. 0 \in 0 .. L
    BY <1>1
  <2>3. f[0] = <<>>
    BY <1>6, <2>2
  <2> QED
    BY <2>1, <2>3
<1>8. f[L] \in T[L]
  <2> HIDE DEF L
  <2> QED
    BY <1>4, <1>7, Arrives
<1>9. AtPlaces(s, I) = f[L]
  BY DEF AtPlaces, f
<1>10. Kept(s, I) = AtPlaces(s, I)
  <2>1. \A t : The({AtPlaces(t, J) : J \in {I}}) = AtPlaces(t, I)
    <3> TAKE t
    <3>1. {AtPlaces(t, J) : J \in {I}} = {AtPlaces(t, I)}
      OBVIOUS
    <3> QED
      BY <3>1, TheOne
  <2>2. {The({AtPlaces(t, J) : J \in {I}}) : t \in {s}} = {The({AtPlaces(s, J) : J \in {I}})}
    OBVIOUS
  <2> QED
    BY <2>1, <2>2, TheOne DEF Kept
<1> QED
  BY <1>8, <1>9, <1>10

\* The members of a sequence at some of its places are a sequence of some of its members.
LEMMA KeptMembers ==
    ASSUME NEW S, NEW s \in Seq(S), NEW I
    PROVE  Kept(s, I) \in Seq({s[i] : i \in I \cap 1 .. Len(s)})
<1> DEFINE M == {s[i] : i \in I \cap 1 .. Len(s)}
           T == [n \in 0 .. Len(s) |-> Seq(M)]
<1>1. Len(s) \in Nat /\ M \subseteq S
  BY LenProperties, ElementOfSeq
<1>2. ASSUME NEW n \in 1 .. Len(s), NEW b \in Seq(M) PROVE (IF n \in I THEN Append(b, s[n]) ELSE b) \in Seq(M)
  <2>1. n \in I => s[n] \in M
    OBVIOUS
  <2> HIDE DEF M
  <2> QED
    BY <2>1, AppendProperties
<1> HIDE DEF M
<1>3. /\ \A n \in 0 .. Len(s) : T[n] = Seq(M)
      /\ \A n \in 1 .. Len(s) : T[n] = Seq(M) /\ T[n - 1] = Seq(M)
  BY <1>1
<1>4. Len(s) \in 0 .. Len(s) /\ 0 \in 0 .. Len(s) /\ <<>> \in Seq(M)
  BY <1>1, EmptySeq
<1> HIDE DEF T
<1>5. Gathers(S, s, I, T)
  <2>1. Seq(M) \subseteq Seq(S)
    BY <1>1, SeqMonotonic
  <2> QED
    BY <1>2, <1>3, <1>4, <2>1 DEF Gathers
<1>6. Kept(s, I) \in T[Len(s)]
  BY <1>5, KeptBy
<1> QED
  BY <1>3, <1>4, <1>6 DEF M

\* ... all of them in U, when the members at these places are.
LEMMA KeptIn ==
    ASSUME NEW S, NEW s \in Seq(S), NEW I, NEW U, \A i \in I \cap 1 .. Len(s) : s[i] \in U
    PROVE  Kept(s, I) \in Seq(U)
<1> DEFINE M == {s[i] : i \in I \cap 1 .. Len(s)}
<1>1. M \subseteq U
  OBVIOUS
<1>2. Kept(s, I) \in Seq(M)
  BY KeptMembers
<1> HIDE DEF M
<1> QED
  BY <1>1, <1>2, SeqMonotonic

\* ... in any case of its members.
LEMMA KeptSeq == ASSUME NEW S, NEW s \in Seq(S), NEW I PROVE Kept(s, I) \in Seq(S)
<1>1. \A i \in I \cap 1 .. Len(s) : s[i] \in S
  BY ElementOfSeq
<1> QED
  BY <1>1, KeptIn

(* The places I of s up to k have members of X; and all of these are among *)
(* the first m of t, which are of X.                                       *)
Begins(s, I, k, X) == k \in 0 .. Len(s) /\ \A i \in I \cap 1 .. k : s[i] \in X
StartsWith(t, m, s, I, k, X) ==
    /\ m \in 0 .. Len(t)
    /\ \A j \in 1 .. m : t[j] \in X
    /\ \A i \in I \cap 1 .. k : \E j \in 1 .. m : t[j] = s[i]

\* What comes first in a sequence comes first in what is kept of it.
LEMMA KeptFirst ==
    ASSUME NEW S, NEW s \in Seq(S), NEW I, NEW X, NEW k, Begins(s, I, k, X)
    PROVE  \E m : StartsWith(Kept(s, I), m, s, I, k, X)
<1> DEFINE Ahead(n, b, m) == /\ \A j \in 1 .. m : b[j] \in X
                             /\ \A i \in I \cap 1 .. k : i <= n => \E j \in 1 .. m : b[j] = s[i]
                             /\ n <= k => m = Len(b)
           F(n) == {b \in Seq(S) : \E m \in 0 .. Len(b) : Ahead(n, b, m)}
           T == [n \in 0 .. Len(s) |-> F(n)]
<1>0. k \in 0 .. Len(s) /\ \A i \in I \cap 1 .. k : s[i] \in X
  BY DEF Begins
<1>1. Len(s) \in Nat /\ k \in Nat /\ k <= Len(s)
  BY <1>0, LenProperties
<1>2. <<>> \in F(0)
  BY <1>1
<1>3. ASSUME NEW n \in 1 .. Len(s), NEW b \in F(n - 1) PROVE (IF n \in I THEN Append(b, s[n]) ELSE b) \in F(n)
  <2>1. b \in Seq(S) /\ Len(b) \in Nat /\ s[n] \in S /\ n \in Nat
    BY <1>1, LenProperties, ElementOfSeq
  <2>2. PICK m \in 0 .. Len(b) : Ahead(n - 1, b, m)
    OBVIOUS
  <2>3. /\ \A j \in 1 .. m : b[j] \in X
        /\ \A i \in I \cap 1 .. k : i <= n - 1 => \E j \in 1 .. m : b[j] = s[i]
        /\ n - 1 <= k => m = Len(b)
        /\ m \in Nat
    BY <2>1, <2>2
  <2>4. CASE n \notin I
    <3>1. \A i \in I \cap 1 .. k : i <= n => i <= n - 1
      BY <2>1, <2>4, <1>1
    <3>2. Ahead(n, b, m)
      BY <2>1, <2>3, <3>1, <1>1
    <3> HIDE DEF Ahead
    <3> QED
      BY <2>1, <2>4, <3>2
  <2>5. CASE n \in I
    <3> DEFINE a == Append(b, s[n])
    <3>1. /\ a \in Seq(S) /\ Len(a) = Len(b) + 1
          /\ \A j \in 1 .. Len(b) : a[j] = b[j]
          /\ a[Len(b) + 1] = s[n]
      BY <2>1, AppendProperties
    <3> HIDE DEF a
    <3>2. CASE n <= k
      <4>1. m = Len(b) /\ s[n] \in X
        BY <2>1, <2>3, <2>5, <3>2, <1>0, <1>1
      <4>2. \A j \in 1 .. m + 1 : j \in 1 .. m \/ j = m + 1
        BY <2>3
      <4>3. \A j \in 1 .. m + 1 : a[j] \in X
        BY <2>3, <3>1, <4>1, <4>2
      <4>4. ASSUME NEW i \in I \cap 1 .. k, i <= n PROVE \E j \in 1 .. m + 1 : a[j] = s[i]
        <5>1. CASE i = n
          BY <2>3, <3>1, <4>1, <5>1
        <5>2. CASE i # n
          <6>1. i <= n - 1
            BY <2>1, <1>1, <4>4, <5>2
          <6>2. PICK j \in 1 .. m : b[j] = s[i]
            BY <2>3, <6>1
          <6>3. j \in 1 .. m + 1 /\ a[j] = b[j]
            BY <2>3, <3>1, <4>1
          <6> QED
            BY <6>2, <6>3
        <5> QED
          BY <5>1, <5>2
      <4>5. Ahead(n, a, m + 1) /\ m + 1 \in 0 .. Len(a)
        BY <2>1, <2>3, <3>1, <4>1, <4>3, <4>4
      <4> HIDE DEF Ahead
      <4> QED
        BY <2>5, <3>1, <4>5 DEF a
    <3>3. CASE ~(n <= k)
      <4>1. ASSUME NEW i \in I \cap 1 .. k, i <= n PROVE \E j \in 1 .. m : a[j] = s[i]
        <5>1. i <= n - 1
          BY <2>1, <3>3, <1>1
        <5>2. PICK j \in 1 .. m : b[j] = s[i]
          BY <2>3, <5>1
        <5>3. a[j] = b[j]
          BY <2>1, <2>3, <3>1
        <5> QED
          BY <5>2, <5>3
      <4>2. \A j \in 1 .. m : a[j] \in X
        BY <2>1, <2>3, <3>1
      <4>3. Ahead(n, a, m) /\ m \in 0 .. Len(a)
        BY <2>1, <2>3, <3>1, <3>3, <4>1, <4>2
      <4> HIDE DEF Ahead
      <4> QED
        BY <2>5, <3>1, <4>3 DEF a
    <3> QED
      BY <3>2, <3>3
  <2> QED
    BY <2>4, <2>5
<1> HIDE DEF Ahead
<1>4. /\ \A n \in 0 .. Len(s) : T[n] = F(n) /\ F(n) \subseteq Seq(S)
      /\ \A n \in 1 .. Len(s) : T[n] = F(n) /\ T[n - 1] = F(n - 1)
      /\ 0 \in 0 .. Len(s) /\ Len(s) \in 0 .. Len(s)
  BY <1>1
<1> HIDE DEF F, T
<1>5. Gathers(S, s, I, T)
  <2>1. \A n \in 0 .. Len(s) : T[n] \subseteq Seq(S)
    BY <1>4
  <2>2. <<>> \in T[0]
    BY <1>2, <1>4
  <2>3. ASSUME NEW n \in 1 .. Len(s), NEW b \in T[n - 1] PROVE (IF n \in I THEN Append(b, s[n]) ELSE b) \in T[n]
    <3>1. b \in F(n - 1)
      BY <1>4
    <3>2. (IF n \in I THEN Append(b, s[n]) ELSE b) \in F(n)
      BY <1>3, <3>1
    <3> QED
      BY <1>4, <3>2
  <2> QED
    BY <2>1, <2>2, <2>3 DEF Gathers
<1>6. Kept(s, I) \in F(Len(s))
  <2>1. Kept(s, I) \in T[Len(s)]
    BY <1>5, KeptBy
  <2>2. T[Len(s)] = F(Len(s))
    BY <1>4
  <2> QED
    BY <2>1, <2>2
<1>7. PICK m \in 0 .. Len(Kept(s, I)) : Ahead(Len(s), Kept(s, I), m)
  BY <1>6 DEF F
<1>8. \A i \in I \cap 1 .. k : i <= Len(s)
  BY <1>1
<1> QED
  BY <1>7, <1>8 DEF Ahead, StartsWith

\* Nothing is lost of what is kept.
LEMMA KeptAll ==
    ASSUME NEW S, NEW s \in Seq(S), NEW I, NEW i \in I, i \in 1 .. Len(s)
    PROVE  \E j \in 1 .. Len(Kept(s, I)) : Kept(s, I)[j] = s[i]
<1>1. Len(s) \in Nat /\ Len(s) \in 0 .. Len(s) /\ Kept(s, I) \in Seq(S)
  BY LenProperties, KeptSeq
<1>2. Len(Kept(s, I)) \in Nat
  BY <1>1, LenProperties
<1>3. \A x \in I \cap 1 .. Len(s) : s[x] \in S
  BY ElementOfSeq
<1>4. Begins(s, I, Len(s), S)
  BY <1>1, <1>3 DEF Begins
<1>5. PICK m : StartsWith(Kept(s, I), m, s, I, Len(s), S)
  BY <1>4, KeptFirst
<1>6. i \in I \cap 1 .. Len(s)
  OBVIOUS
<1>7. PICK j \in 1 .. m : Kept(s, I)[j] = s[i]
  BY <1>5, <1>6 DEF StartsWith
<1>8. j \in 1 .. Len(Kept(s, I))
  BY <1>2, <1>5 DEF StartsWith
<1> QED
  BY <1>7, <1>8

\* The members without one of the ids are all there.
LEMMA OthersHave ==
    ASSUME NEW S, NEW s \in Seq(S), NEW ids, NEW i \in 1 .. Len(s), s[i].id \notin ids
    PROVE  \E j \in 1 .. Len(OtherCases(s, ids)) : OtherCases(s, ids)[j] = s[i]
<1>1. i \in {x \in DOMAIN s : s[x].id \notin ids}
  BY LenProperties
<1> QED
  BY <1>1, KeptAll DEF OtherCases

\* ... and so are the ones with one of them.
LEMMA SelectedHave ==
    ASSUME NEW S, NEW s \in Seq(S), NEW ids, NEW i \in 1 .. Len(s), s[i].id \in ids
    PROVE  \E j \in 1 .. Len(SelectCases(s, ids)) : SelectCases(s, ids)[j] = s[i]
<1>1. i \in {x \in DOMAIN s : s[x].id \in ids}
  BY LenProperties
<1> QED
  BY <1>1, KeptAll DEF SelectCases

\* A key comes first somewhere.
LEMMA FirstPlace ==
    ASSUME NEW n \in Nat, NEW keys, DOMAIN keys = 1 .. n, NEW i \in 1 .. n
    PROVE  \E q \in FirstPlaces(keys, {}) : q \in 1 .. i /\ keys[q] = keys[i]
<1> DEFINE P == {j \in 1 .. n : keys[j] = keys[i]}
<1>1. P \in SUBSET Nat /\ P # {} /\ i \in P
  OBVIOUS
<1>2. PICK q \in P : \A y \in P : q <= y
  <2> HIDE DEF P
  <2> QED
    BY <1>1, LeastNumber
<1>3. q \in 1 .. n /\ q \in 1 .. i /\ keys[q] = keys[i]
  BY <1>1, <1>2
<1>4. ASSUME NEW j \in 1 .. q - 1 PROVE keys[j] # keys[q]
  <2>1. j \in 1 .. n /\ ~(q <= j)
    BY <1>3
  <2>2. j \notin P
    BY <1>2, <2>1
  <2> QED
    BY <1>3, <2>1, <2>2
<1>5. q \in FirstPlaces(keys, {})
  BY <1>3, <1>4 DEF FirstPlaces
<1> QED
  BY <1>3, <1>5

\* The ones with a new key are at the places where it comes first.
LEMMA NewOnesAre == \A s, keys, known : NewOnes(s, keys, known) = Kept(s, FirstPlaces(keys, known))
<1> TAKE s, keys, known
<1>1. \A ks : The({Kept(s, FirstPlaces(ks, kn)) : kn \in {known}}) = Kept(s, FirstPlaces(ks, known))
  <2> TAKE ks
  <2>1. {Kept(s, FirstPlaces(ks, kn)) : kn \in {known}} = {Kept(s, FirstPlaces(ks, known))}
    OBVIOUS
  <2> QED
    BY <2>1, TheOne
<1>2. {The({Kept(s, FirstPlaces(ks, kn)) : kn \in {known}}) : ks \in {keys}}
      = {The({Kept(s, FirstPlaces(keys, kn)) : kn \in {known}})}
  OBVIOUS
<1> QED
  BY <1>1, <1>2, TheOne DEF NewOnes

\* They are a sequence of members too.
LEMMA NewOnesSeq ==
    ASSUME NEW S, NEW s \in Seq(S), NEW keys, NEW known PROVE NewOnes(s, keys, known) \in Seq(S)
BY NewOnesAre, KeptSeq

\* What is cut is a sequence of the same, and short enough.
LEMMA AtMostSeq ==
    ASSUME NEW S, NEW s \in Seq(S), NEW n \in Nat
    PROVE  /\ AtMost(n, s) \in Seq(S) /\ Len(AtMost(n, s)) <= Len(s)
           /\ n > 0 => Len(AtMost(n, s)) <= n
<1>1. Len(s) \in Nat
  BY LenProperties
<1>2. CASE n > 0 /\ Len(s) > n
  <2>1. \A i \in 1 .. n : s[i] \in S
    BY <1>1, <1>2, ElementOfSeq
  <2>2. SubSeq(s, 1, n) \in Seq(S) /\ Len(SubSeq(s, 1, n)) = n
    BY <1>2, <2>1, SubSeqProperties
  <2> QED
    BY <1>1, <1>2, <2>2 DEF AtMost
<1>3. CASE ~(n > 0 /\ Len(s) > n)
  BY <1>1, <1>3 DEF AtMost
<1> QED
  BY <1>2, <1>3

\* What is cut is the same as far as it goes.
LEMMA CutAt ==
    ASSUME NEW S, NEW s \in Seq(S), NEW n \in Nat, AtMost(n, s) # s
    PROVE  /\ n > 0 /\ Len(s) > n /\ AtMost(n, s) \in Seq(S) /\ Len(AtMost(n, s)) = n
           /\ \A i \in 1 .. n : AtMost(n, s)[i] = s[i]
<1>1. Len(s) \in Nat /\ n > 0 /\ Len(s) > n /\ AtMost(n, s) = SubSeq(s, 1, n)
  BY LenProperties DEF AtMost
<1>2. \A i \in 1 .. n : s[i] \in S
  BY <1>1, ElementOfSeq
<1>3. /\ SubSeq(s, 1, n) \in Seq(S) /\ Len(SubSeq(s, 1, n)) = n
      /\ \A i \in 1 .. n : SubSeq(s, 1, n)[i] = s[i]
  BY <1>1, <1>2, SubSeqProperties
<1> QED
  BY <1>1, <1>3

\* Of the numbers from n on, one too many for the used ones to have them all is tried.
LEMMA FreeIdIsFree ==
    ASSUME NEW n \in Nat, NEW used, IsFiniteSet(used)
    PROVE  FreeId(n, used) \in TestIds \ used
<1> DEFINE C == Cardinality(used)
           Tried == n .. n + C
           Free == {m \in Tried : TC(m) \notin used}
           IsFirst(m) == TC(m) \notin used /\ \A k \in n .. m - 1 : TC(k) \in used
<1>1. C \in Nat
  BY FS_CardinalityType
<1>2. IsFiniteSet(Tried) /\ Cardinality(Tried) = C + 1
  <2> DEFINE b == n + C
  <2>1. ~(n > b) /\ b - n + 1 = C + 1 /\ b \in Int /\ n \in Int
    BY <1>1
  <2> HIDE DEF C, b
  <2>2. IsFiniteSet(n .. b) /\ Cardinality(n .. b) = IF n > b THEN 0 ELSE b - n + 1
    BY <2>1, FS_Interval
  <2>3. IsFiniteSet(n .. b) /\ Cardinality(n .. b) = C + 1
    BY <2>1, <2>2
  <2> QED
    BY <2>3 DEF b
<1>3. Free # {}
  <2> SUFFICES ASSUME Free = {} PROVE FALSE
    OBVIOUS
  <2> DEFINE f == [m \in Tried |-> TC(m)]
  <2>1. f \in [Tried -> used]
    OBVIOUS
  <2>2. \A a, b \in Tried : f[a] = f[b] => a = b
    BY DEF TC
  <2>3. f \in Injection(Tried, used)
    BY <2>1, <2>2 DEF Injection, IsInjective
  <2>4. Cardinality(Tried) <= C
    BY <2>3, <1>2, FS_Injection
  <2> QED
    BY <2>4, <1>2, <1>1
<1>4. PICK m \in Free : \A k \in Free : m <= k
  BY <1>1, <1>3, LeastNumber, Free \in SUBSET Nat
<1>5. m \in Tried /\ IsFirst(m)
  <2>1. \A k \in n .. m - 1 : k \in Tried /\ ~(m <= k)
    BY <1>1
  <2> QED
    BY <2>1, <1>4
<1> DEFINE x == CHOOSE y \in Tried : IsFirst(y)
<1>6. x \in Tried /\ IsFirst(x)
  <2> HIDE DEF Tried, IsFirst
  <2> QED
    BY <1>5
<1>7. FreeId(n, used) = TC(x)
  BY DEF FreeId
<1>8. x \in Nat
  <2> HIDE DEF x
  <2> QED
    BY <1>1, <1>6
<1> HIDE DEF x, Tried
<1>9. TC(x) \notin used
  BY <1>6
<1>10. TC(x) \in TestIds
  BY <1>8, TextAssumption DEF TC, TestIds, Words
<1> QED
  BY <1>7, <1>9, <1>10

\* Sequences put one after the other.
LEMMA FlattenSeqs == ASSUME NEW S, NEW seqs \in Seq(Seq(S)) PROVE FlattenSeq(seqs) \in Seq(S)
<1> DEFINE L == Len(seqs)
           M == Seq(S)
           T == [n \in 1 .. L |-> M]
           W == [n \in 1 .. L |-> [b \in M |-> b \o seqs[n]]]
           Rec(g) == [n \in 1 .. L |-> IF n = 1 THEN seqs[n] ELSE g[n - 1] \o seqs[n]]
           f == CHOOSE g : g = Rec(g)
<1>1. L \in Nat /\ \A n \in 1 .. L : seqs[n] \in M
  BY LenProperties, ElementOfSeq
<1>2. CASE L = 0
  <2>1. seqs = <<>>
    BY <1>2, EmptySeq
  <2> QED
    BY <2>1, <1>2 DEF FlattenSeq
<1>3. CASE L # 0
  <2>1. 1 \in 1 .. L /\ L \in 1 .. L /\ 1 <= L /\ seqs[1] \in M
    BY <1>1, <1>3
  <2>2. /\ \A n \in 1 .. L : T[n] = M
        /\ \A n \in 1 .. L : n # 1 => n - 1 \in 1 .. L /\ T[n - 1] = M
        /\ \A n \in 1 .. L : n # 1 => \A b \in M : W[n][b] = b \o seqs[n]
    BY <1>1
  <2>3. \A n \in 1 .. L : \A b \in M : b \o seqs[n] \in M
    BY <1>1, ConcatProperties
  <2>4. Leads(1, L, M, T, W, seqs[1])
    <3> HIDE DEF W, T, M, L
    <3>1. 1 \in Nat /\ L \in Nat /\ 1 <= L /\ seqs[1] \in T[1]
      BY <1>1, <2>1, <2>2
    <3>2. \A n \in 1 .. L : T[n] \subseteq M
      BY <2>2
    <3>3. \A n \in 1 .. L : n # 1 => \A b \in T[n - 1] : W[n][b] \in T[n]
      BY <2>2, <2>3
    <3> QED
      BY <3>1, <3>2, <3>3 DEF Leads
  <2> HIDE DEF W, T, M
  <2>5. \E g : g = Rec(g)
    <3>1. PICK g \in [1 .. L -> M] :
                 /\ g[1] = seqs[1]
                 /\ \A n \in 1 .. L : g[n] \in T[n] /\ (n # 1 => g[n] = W[n][g[n - 1]])
      <4> HIDE DEF L
      <4> QED
        BY <2>4, Chained
    <3>2. ASSUME NEW n \in 1 .. L PROVE g[n] = IF n = 1 THEN seqs[n] ELSE g[n - 1] \o seqs[n]
      BY <3>1, <2>2
    <3>3. g = [n \in 1 .. L |-> g[n]]
      BY <3>1
    <3> QED
      BY <3>2, <3>3
  <2>6. f = Rec(f)
    <3> HIDE DEF Rec
    <3> QED
      BY <2>5
  <2> HIDE DEF f
  <2>7. f[1] = seqs[1] /\ \A n \in 1 .. L : n # 1 /\ f[n - 1] \in T[n - 1] => f[n] = W[n][f[n - 1]]
    <3>1. ASSUME NEW n \in 1 .. L, n # 1, f[n - 1] \in T[n - 1] PROVE f[n] = W[n][f[n - 1]]
      <4>1. f[n] = f[n - 1] \o seqs[n]
        BY <2>6, <3>1
      <4> QED
        BY <4>1, <3>1, <2>2
    <3> QED
      BY <2>1, <2>6, <3>1
  <2>8. f[L] \in T[L]
    <3> HIDE DEF L
    <3> QED
      BY <2>4, <2>7, Arrives
  <2>9. FlattenSeq(seqs) = f[L]
    BY <1>3 DEF FlattenSeq, f
  <2>10. f[L] \in M
    BY <2>1, <2>2, <2>8
  <2> QED
    BY <2>9, <2>10 DEF M
<1> QED
  BY <1>2, <1>3

(* No step but a visit has a destructive word, and one that needs a        *)
(* control is on one that the scan has on the route: a step of a planner   *)
(* that is built in, on one that is neither blocked nor destructive.       *)
SafeSteps(scan, path, author) ==
    {s \in Steps :
        /\ s.action # "navigate" => s.label \notin Destructive
        /\ s.action \notin PageActions =>
             OnRoute(scan, path, s) /\ (author = "built-in" => OnHarmlessControl(scan, path, s))}
SafeCases(scan, author) == {c \in PlanCases : c.steps \in Seq(SafeSteps(scan, c.route, author))}
Author == IF BuiltIn THEN "built-in" ELSE "provider"
ScanShape == [parked : SUBSET Texts, routes : Seq(Pages)]

\* The words of the planners are texts.
LEMMA TextFacts ==
    /\ Absent \in Texts /\ Inventory \in Texts /\ "" \in Texts /\ "NEG" \in Texts /\ "EDGE" \in Texts
    /\ "ITEM" \in Texts /\ "positive" \in Texts /\ "negative" \in Texts /\ "edge" \in Texts
    /\ "deterministic" \in Texts /\ "service" \in Texts /\ "expansion" \in Texts /\ "row" \in Texts
    /\ "navigate" \in Texts /\ "click" \in Texts /\ "select" \in Texts /\ "type" \in Texts
    /\ "assert_visible" \in Texts /\ "assert_cart_count" \in Texts /\ "assert_url" \in Texts
BY TextAssumption DEF Words

\* What the shape of a scan says of one of its routes and of the controls on it.
LEMMA RoutesOf ==
    ASSUME NEW scan \in ScanShape, NEW i \in DOMAIN scan.routes
    PROVE  /\ scan.routes \in Seq(Pages) /\ scan.routes[i] \in Pages /\ scan.routes[i] \in ToSet(scan.routes)
           /\ scan.routes[i].path \in Texts /\ scan.routes[i].name \in Texts
           /\ scan.routes[i].targets \in Seq(Controls)
           /\ \A n \in DOMAIN scan.routes[i].targets :
                 /\ scan.routes[i].targets[n] \in Controls
                 /\ scan.routes[i].targets[n] \in Targets(scan, scan.routes[i].path)
                 /\ scan.routes[i].targets[n] \in AllTargets(scan)
<1>1. scan.routes \in Seq(Pages)
  BY DEF ScanShape
<1>2. scan.routes[i] \in Pages
  BY <1>1, LenProperties, ElementOfSeq
<1>3. scan.routes[i] \in ToSet(scan.routes)
  BY DEF ToSet
<1>4. /\ scan.routes[i].path \in Texts /\ scan.routes[i].name \in Texts
      /\ scan.routes[i].targets \in Seq(Controls)
  BY <1>2 DEF Pages
<1>5. ASSUME NEW n \in DOMAIN scan.routes[i].targets
      PROVE  /\ scan.routes[i].targets[n] \in Controls
             /\ scan.routes[i].targets[n] \in ToSet(scan.routes[i].targets)
  BY <1>4, LenProperties, ElementOfSeq DEF ToSet
<1>6. /\ ToSet(scan.routes[i].targets) \subseteq Targets(scan, scan.routes[i].path)
      /\ ToSet(scan.routes[i].targets) \subseteq AllTargets(scan)
  BY <1>3 DEF Targets, AllTargets
<1> QED
  BY <1>1, <1>2, <1>3, <1>4, <1>5, <1>6

\* To go to a page is safe.
LEMMA NavigateIsSafe ==
    ASSUME NEW author, NEW scan, NEW path, NEW to \in Texts, NEW name \in Texts
    PROVE  Navigate(to, name) \in SafeSteps(scan, path, author)
BY TextFacts DEF Navigate, Step, SafeSteps, Steps, PageActions

\* A step on a control of the route with a harmless word.
LEMMA OnControl ==
    ASSUME NEW author, NEW scan, NEW path \in Texts, NEW t \in Controls, t \in Targets(scan, path),
           t.label # Absent, t.label \notin Destructive, ~t.blocked, NEW action \in Texts
    PROVE  Step(action, path, t.label, t.selector) \in SafeSteps(scan, path, author)
<1> DEFINE s == Step(action, path, t.label, t.selector)
<1>1. s \in Steps /\ s.label = t.label
  BY DEF Step, Steps, Controls
<1>2. t.label \in Names(t) \cap Names(s)
  BY <1>1 DEF Names
<1>3. OnRoute(scan, path, s)
  BY <1>2 DEF OnRoute
<1>4. OnHarmlessControl(scan, path, s)
  BY DEF OnHarmlessControl, Step
<1> QED
  BY <1>1, <1>3, <1>4 DEF SafeSteps

\* One more control, if it is not left out for its word.
LEMMA ControlIsSafe ==
    ASSUME NEW author, NEW scan, NEW path \in Texts, NEW t \in Controls, t \in Targets(scan, path),
           NEW excluded, t.blocked \/ t.label \in Destructive => t \in excluded,
           NEW steps \in Seq(SafeSteps(scan, path, author))
    PROVE  WithControl(steps, path, t, excluded) \in Seq(SafeSteps(scan, path, author))
<1> DEFINE SS == SafeSteps(scan, path, author)
           all == steps \o <<ElementStep(path, t)>> \o FollowUp(path, t)
<1>1. CASE t \in excluded \/ t.label = Absent
  BY <1>1 DEF WithControl
<1>2. CASE ~(t \in excluded \/ t.label = Absent)
  <2>1. ActionFor(t) \in Texts
    BY TextFacts DEF ActionFor
  <2>2. ElementStep(path, t) \in SS
    BY <1>2, <2>1, OnControl DEF ElementStep
  <2>3. Step("assert_cart_count", path, Absent, Absent) \in SS
    BY TextFacts, WordAssumption DEF Step, SafeSteps, Steps, PageActions
  <2>4. Step("assert_url", Inventory, Absent, Absent) \in SS
    BY TextFacts, WordAssumption DEF Step, SafeSteps, Steps, PageActions
  <2> HIDE DEF SS
  <2>5. FollowUp(path, t) \in Seq(SS)
    BY <2>3, <2>4 DEF FollowUp
  <2>6. all \in Seq(SS)
    BY <2>2, <2>5, ConcatProperties DEF SS
  <2>7. AtMost(MaxSteps, all) \in Seq(SS)
    BY <2>6, PlanningBounds, AtMostSeq
  <2>8. WithControl(steps, path, t, excluded) \in {steps, AtMost(MaxSteps, all)}
    BY DEF WithControl
  <2> QED
    BY <2>7, <2>8 DEF SS
<1> QED
  BY <1>1, <1>2

(* The built-in planner on a route: what it leaves out covers the controls *)
(* with a destructive word.                                                *)
LEMMA StepsAreSafe ==
    ASSUME NEW author, NEW scan \in ScanShape, NEW i \in DOMAIN scan.routes, NEW excluded,
           \A t \in AllTargets(scan) : t.blocked \/ t.label \in Destructive => t \in excluded
    PROVE  StepsOnRoute(scan.routes[i], excluded) \in Seq(SafeSteps(scan, scan.routes[i].path, author))
<1> DEFINE route == scan.routes[i]
           ts == route.targets
           L == Len(ts)
           M == Seq(SafeSteps(scan, route.path, author))
           base == <<Navigate(route.path, route.name)>>
           T == [n \in 0 .. L |-> M]
           W == [n \in 0 .. L |-> [b \in M |-> WithControl(b, route.path, ts[n], excluded)]]
           Rec(g) == [n \in 0 .. L |->
                        IF n = 0 THEN <<Navigate(route.path, route.name)>>
                        ELSE The({WithControl(b, route.path, ts[n], excluded) : b \in {g[n - 1]}})]
           f == CHOOSE g : g = Rec(g)
<1>1. /\ route.path \in Texts /\ route.name \in Texts /\ ts \in Seq(Controls) /\ L \in Nat
      /\ \A n \in 1 .. L : ts[n] \in Controls /\ ts[n] \in Targets(scan, route.path) /\ ts[n] \in AllTargets(scan)
  BY RoutesOf, LenProperties
<1>2. base \in M
  BY <1>1, NavigateIsSafe
<1>3. ASSUME NEW n \in 0 .. L, n # 0, NEW b \in M
      PROVE  WithControl(b, route.path, ts[n], excluded) \in M
  <2>1. /\ ts[n] \in Controls /\ ts[n] \in Targets(scan, route.path)
        /\ ts[n].blocked \/ ts[n].label \in Destructive => ts[n] \in excluded
    BY <1>1, <1>3
  <2> QED
    BY <1>1, <2>1, ControlIsSafe
<1>4. /\ \A n \in 0 .. L : T[n] = M
      /\ \A n \in 0 .. L : n # 0 => n - 1 \in 0 .. L /\ T[n - 1] = M
      /\ \A n \in 0 .. L : n # 0 => \A b \in M : W[n][b] = WithControl(b, route.path, ts[n], excluded)
  BY <1>1
<1>5. \A n, x : The({WithControl(b, route.path, ts[n], excluded) : b \in {x}})
                 = WithControl(x, route.path, ts[n], excluded)
  <2> TAKE n, x
  <2>1. {WithControl(b, route.path, ts[n], excluded) : b \in {x}} = {WithControl(x, route.path, ts[n], excluded)}
    OBVIOUS
  <2> QED
    BY <2>1, TheOne
<1>6. StepsOnRoute(route, excluded) = f[L]
  BY DEF StepsOnRoute, f
<1> HIDE DEF W, T, M, base
<1>7. Leads(0, L, M, T, W, base)
  <2> HIDE DEF L, ts, route
  <2>1. 0 \in Nat /\ L \in Nat /\ 0 <= L /\ base \in T[0]
    BY <1>1, <1>2, <1>4
  <2>2. \A n \in 0 .. L : T[n] \subseteq M
    BY <1>4
  <2>3. \A n \in 0 .. L : n # 0 => \A b \in T[n - 1] : W[n][b] \in T[n]
    BY <1>3, <1>4
  <2> QED
    BY <2>1, <2>2, <2>3 DEF Leads
<1>8. \E g : g = Rec(g)
  <2>1. PICK g \in [0 .. L -> M] :
               /\ g[0] = base
               /\ \A n \in 0 .. L : g[n] \in T[n] /\ (n # 0 => g[n] = W[n][g[n - 1]])
    <3> HIDE DEF L
    <3> QED
      BY <1>7, Chained
  <2> HIDE DEF L
  <2>2. ASSUME NEW n \in 0 .. L, n # 0
        PROVE  g[n] = The({WithControl(b, route.path, ts[n], excluded) : b \in {g[n - 1]}})
    <3>1. g[n] = WithControl(g[n - 1], route.path, ts[n], excluded)
      BY <2>1, <2>2, <1>4
    <3> QED
      BY <3>1, <1>5
  <2>3. g = [n \in 0 .. L |-> g[n]] /\ g[0] = <<Navigate(route.path, route.name)>>
    BY <2>1 DEF base
  <2> QED
    BY <2>2, <2>3
<1>9. f = Rec(f)
  <2> HIDE DEF Rec
  <2> QED
    BY <1>8
<1> HIDE DEF f
<1>10. /\ f[0] = base
       /\ \A n \in 0 .. L : n # 0 /\ f[n - 1] \in T[n - 1] => f[n] = W[n][f[n - 1]]
  <2>1. f[0] = base
    BY <1>1, <1>9 DEF base
  <2>2. ASSUME NEW n \in 0 .. L, n # 0, f[n - 1] \in T[n - 1] PROVE f[n] = W[n][f[n - 1]]
    <3>1. f[n] = The({WithControl(b, route.path, ts[n], excluded) : b \in {f[n - 1]}})
      BY <1>9, <2>2
    <3>2. f[n] = WithControl(f[n - 1], route.path, ts[n], excluded)
      BY <3>1, <1>5
    <3> QED
      BY <3>2, <2>2, <1>4
  <2> QED
    BY <2>1, <2>2
<1>11. f[L] \in T[L]
  <2> HIDE DEF L
  <2> QED
    BY <1>7, <1>10, Arrives
<1>12. f[L] \in M
  BY <1>1, <1>4, <1>11
<1> QED
  BY <1>6, <1>12 DEF M

\* A function on 1 .. n is a sequence.
LEMMA FunctionIsSeq ==
    ASSUME NEW S, NEW n \in Nat, NEW f \in [1 .. n -> S] PROVE f \in Seq(S) /\ Len(f) = n
OBVIOUS

\* A sequence whose members are all in U is a sequence over U.
LEMMA AllIn ==
    ASSUME NEW S, NEW s \in Seq(S), NEW U, \A i \in 1 .. Len(s) : s[i] \in U
    PROVE  s \in Seq(U)
<1>1. Len(s) \in Nat /\ s \in [1 .. Len(s) -> U]
  BY LenProperties
<1> QED
  BY <1>1, FunctionIsSeq

\* The built-in planner on the whole scan.
LEMMA CasesAreSafe ==
    ASSUME NEW author, NEW scan \in ScanShape, NEW by \in Texts, NEW excluded,
           \A t \in AllTargets(scan) : t.blocked \/ t.label \in Destructive => t \in excluded
    PROVE  CasePerRoute(scan, by, excluded) \in Seq(SafeCases(scan, author))
<1> DEFINE case(i) == [id |-> TC(i), stem |-> TC(i), route |-> scan.routes[i].path, kind |-> "positive",
                       by |-> by, textual |-> FALSE, steps |-> StepsOnRoute(scan.routes[i], excluded)]
           L == Len(scan.routes)
           all == [i \in DOMAIN scan.routes |-> case(i)]
<1>1. L \in Nat /\ DOMAIN scan.routes = 1 .. L
  BY LenProperties DEF ScanShape
<1>2. ASSUME NEW i \in 1 .. L PROVE case(i) \in SafeCases(scan, author)
  <2>1. scan.routes[i].path \in Texts
    BY <1>1, RoutesOf
  <2>2. TC(i) \in TestIds
    <3>1. i \in Nat
      BY <1>1
    <3> QED
      BY <3>1, TextFacts DEF TC, TestIds
  <2>3. StepsOnRoute(scan.routes[i], excluded) \in Seq(SafeSteps(scan, scan.routes[i].path, author))
    BY <1>1, StepsAreSafe
  <2>4. StepsOnRoute(scan.routes[i], excluded) \in Seq(Steps)
    BY <2>3, SeqMonotonic DEF SafeSteps
  <2> QED
    BY <2>1, <2>2, <2>3, <2>4, TextFacts DEF SafeCases, PlanCases
<1>3. all \in Seq(SafeCases(scan, author))
  <2> HIDE DEF case
  <2>1. all \in [1 .. L -> SafeCases(scan, author)]
    BY <1>1, <1>2
  <2> HIDE DEF L, all
  <2> QED
    BY <1>1, <2>1, FunctionIsSeq
<1>4. CasePerRoute(scan, by, excluded) = Kept(all, {i \in DOMAIN scan.routes : scan.routes[i].working})
  BY DEF CasePerRoute
<1> HIDE DEF all
<1> QED
  BY <1>3, <1>4, KeptSeq

\* A variant has the steps and the route of its case.
LEMMA VariantsAreSafe ==
    ASSUME NEW author, NEW scan, NEW s \in Seq(SafeCases(scan, author)) PROVE Variants(s) \in Seq(SafeCases(scan, author))
<1> DEFINE variant(c, suffix, kind) == [c EXCEPT !.id = <<c.id[1], suffix>>, !.kind = kind]
           pairs == [i \in DOMAIN s |-> <<variant(s[i], "NEG", "negative"), variant(s[i], "EDGE", "edge")>>]
<1>1. ASSUME NEW c \in SafeCases(scan, author), NEW suffix \in Texts, NEW kind \in Texts
      PROVE  variant(c, suffix, kind) \in SafeCases(scan, author)
  BY DEF SafeCases, PlanCases, TestIds
<1>2. Len(s) \in Nat /\ DOMAIN s = 1 .. Len(s) /\ \A i \in DOMAIN s : s[i] \in SafeCases(scan, author)
  BY LenProperties, ElementOfSeq
<1>3. ASSUME NEW i \in DOMAIN s
      PROVE  <<variant(s[i], "NEG", "negative"), variant(s[i], "EDGE", "edge")>> \in Seq(SafeCases(scan, author))
  <2> HIDE DEF variant
  <2>1. /\ variant(s[i], "NEG", "negative") \in SafeCases(scan, author)
        /\ variant(s[i], "EDGE", "edge") \in SafeCases(scan, author)
    BY <1>1, <1>2, TextFacts
  <2> QED
    BY <2>1
<1>4. pairs \in Seq(Seq(SafeCases(scan, author)))
  <2> HIDE DEF variant
  <2>1. pairs \in [1 .. Len(s) -> Seq(SafeCases(scan, author))]
    BY <1>2, <1>3
  <2> HIDE DEF pairs
  <2> QED
    BY <1>2, <2>1, FunctionIsSeq
<1>5. Variants(s) = FlattenSeq(pairs)
  BY DEF Variants
<1> HIDE DEF pairs
<1> QED
  BY <1>4, <1>5, FlattenSeqs

UploadShape == [format : Texts, rows : Seq([id : TestIds \cup {Absent}, route : Texts])]
RequestShape == [scan : ScanShape, provider : Providers, count : Nat, upload : UploadShape, broad : BOOLEAN]

\* The gateway's own exclusion covers the destructive words ...
LEMMA BuiltInIsSafe ==
    ASSUME NEW author, NEW r \in RequestShape PROVE DeterministicPlan(r) \in Seq(SafeCases(r.scan, author))
<1> DEFINE excluded == {t \in AllTargets(r.scan) : ExcludedByGateway(r.scan, t)}
           base == CasePerRoute(r.scan, "deterministic", excluded)
<1>1. r.scan \in ScanShape
  BY DEF RequestShape
<1>2. \A t \in AllTargets(r.scan) : t.blocked \/ t.label \in Destructive => t \in excluded
  BY DEF ExcludedByGateway
<1> HIDE DEF excluded
<1>3. base \in Seq(SafeCases(r.scan, author))
  BY <1>1, <1>2, TextFacts, CasesAreSafe
<1>4. DeterministicPlan(r) \in {base, base \o Variants(base)}
  BY DEF DeterministicPlan, excluded
<1> HIDE DEF base
<1> QED
  BY <1>3, <1>4, VariantsAreSafe, ConcatProperties

\* ... and so does the service's, because its words include them.
LEMMA ServiceIsSafe ==
    ASSUME NEW author, NEW scan \in ScanShape PROVE BuildTestCases(scan) \in Seq(SafeCases(scan, author))
<1> DEFINE excluded == {t \in AllTargets(scan) : ExcludedByService(t)}
<1>1. \A t \in AllTargets(scan) : t.blocked \/ t.label \in Destructive => t \in excluded
  BY WordAssumption DEF ExcludedByService
<1>2. BuildTestCases(scan) = CasePerRoute(scan, "service", excluded)
  BY DEF BuildTestCases
<1> HIDE DEF excluded
<1> QED
  BY <1>1, <1>2, TextFacts, CasesAreSafe

\* Min and Max of places are among them.
LEMMA LeastOf == ASSUME NEW n \in Nat, NEW T \in SUBSET (1 .. n), T # {} PROVE Min(T) \in T
<1>1. \E x \in T : \A y \in T : x <= y
  BY LeastNumber, T \in SUBSET Nat
<1> QED
  BY <1>1 DEF Min

\* ... and the greatest.
LEMMA GreatestOf == ASSUME NEW n \in Nat, NEW T \in SUBSET (1 .. n), T # {} PROVE Max(T) \in T
<1> DEFINE D == {n - x : x \in T}
<1>1. D \in SUBSET Nat /\ D # {}
  <2>1. \A x \in T : x \in 1 .. n /\ n - x \in Nat
    OBVIOUS
  <2>2. PICK x \in T : TRUE
    OBVIOUS
  <2>3. n - x \in D
    BY <2>2
  <2> QED
    BY <2>1, <2>3
<1>2. PICK d \in D : \A e \in D : d <= e
  BY <1>1, LeastNumber
<1>3. PICK x \in T : d = n - x
  BY <1>2
<1>4. ASSUME NEW y \in T PROVE x >= y
  <2>1. d <= n - y
    BY <1>2
  <2> QED
    BY <2>1, <1>3
<1>5. \E z \in T : \A y \in T : z >= y
  BY <1>4
<1> QED
  BY <1>5 DEF Max

\* Nothing is wrong: then nothing is at any place.
LEMMA NoFault ==
    ASSUME NEW n \in Nat, NEW faults, DOMAIN faults = 1 .. n, FirstFault(faults) = ""
    PROVE  \A i \in 1 .. n : faults[i] = ""
<1> DEFINE found == {i \in DOMAIN faults : faults[i] # ""}
<1>1. SUFFICES ASSUME found # {} PROVE FALSE
  OBVIOUS
<1>2. found \in SUBSET (1 .. n)
  OBVIOUS
<1>3. Min(found) \in found
  <2> HIDE DEF found
  <2> QED
    BY <1>1, <1>2, LeastOf
<1> QED
  BY <1>1, <1>3 DEF FirstFault

(* What a provider plans and the validation lets pass is safe.  An action  *)
(* on a page needs no control, every other one a control of the route.     *)
LEMMA ValidIsSafe ==
    ASSUME NEW author, author # "built-in",
           NEW scan, NEW p \in Seq(PlanCases), GroundingFault(scan, p) = ""
    PROVE  p \in Seq(SafeCases(scan, author))
<1>1. Len(p) \in Nat /\ DOMAIN p = 1 .. Len(p) /\ \A i \in 1 .. Len(p) : p[i] \in PlanCases
  BY LenProperties, ElementOfSeq
<1>2. ASSUME NEW i \in 1 .. Len(p) PROVE p[i] \in SafeCases(scan, author)
  <2> DEFINE c == p[i]
  <2>1. CaseFault(scan, c) = ""
    <3> DEFINE faults == [j \in DOMAIN p |-> CaseFault(scan, p[j])]
    <3>1. FirstFault(faults) = ""
      BY DEF GroundingFault
    <3>2. DOMAIN faults = 1 .. Len(p) /\ faults[i] = CaseFault(scan, c)
      BY <1>1
    <3> HIDE DEF faults
    <3> QED
      BY <1>1, <3>1, <3>2, NoFault
  <2>2. c \in PlanCases /\ c.steps \in Seq(Steps)
    BY <1>1 DEF PlanCases
  <2>3. Len(c.steps) \in Nat /\ DOMAIN c.steps = 1 .. Len(c.steps) /\ \A j \in 1 .. Len(c.steps) : c.steps[j] \in Steps
    BY <2>2, LenProperties, ElementOfSeq
  <2>4. ASSUME NEW j \in 1 .. Len(c.steps) PROVE c.steps[j] \in SafeSteps(scan, c.route, author)
    <3> DEFINE faults == [k \in DOMAIN c.steps |-> StepFault(scan, c, c.steps[k])]
    <3>1. FirstFault(faults) = ""
      BY <2>1 DEF CaseFault
    <3>2. DOMAIN faults = 1 .. Len(c.steps) /\ faults[j] = StepFault(scan, c, c.steps[j])
      BY <2>3
    <3> HIDE DEF faults
    <3>3. StepFault(scan, c, c.steps[j]) = ""
      BY <2>3, <3>1, <3>2, NoFault
    <3> QED
      BY <2>3, <3>3 DEF StepFault, SafeSteps
  <2>5. c.steps \in Seq(SafeSteps(scan, c.route, author))
    <3> HIDE DEF c
    <3> QED
      BY <2>2, <2>4, AllIn
  <2> QED
    BY <2>2, <2>5 DEF SafeCases
<1> QED
  BY <1>2, AllIn

\* The ids of a sequence, place by place.
LEMMA IdsOf ==
    ASSUME NEW S, NEW s \in Seq(S) PROVE Ids(s) = {s[i].id : i \in 1 .. Len(s)}
<1>1. DOMAIN s = 1 .. Len(s)
  BY LenProperties
<1> QED
  BY <1>1 DEF Ids, ToSet

\* The ids of a sequence of cases are as many as its places at most.
LEMMA IdsFinite ==
    ASSUME NEW s \in Seq(PlanCases) PROVE IsFiniteSet(Ids(s)) /\ Ids(s) = {s[i].id : i \in 1 .. Len(s)}
<1> DEFINE f == [i \in 1 .. Len(s) |-> s[i].id]
<1>1. Len(s) \in Nat /\ DOMAIN s = 1 .. Len(s)
  BY LenProperties
<1>2. Ids(s) = {s[i].id : i \in 1 .. Len(s)}
  BY <1>1 DEF Ids, ToSet
<1>3. f \in Surjection(1 .. Len(s), Ids(s))
  BY <1>2 DEF Surjection
<1>4. IsFiniteSet(1 .. Len(s))
  BY <1>1, FS_Interval
<1> QED
  BY <1>2, <1>3, <1>4, FS_Surjection

(* What the expansion makes a case of: a safe case, one of the safe steps  *)
(* on its route and what follows it.                                       *)
Foci(scan, author) ==
    {f \in [base : PlanCases, step : Steps, follow : Seq(Steps)] :
        /\ f.base \in SafeCases(scan, author)
        /\ f.step \in SafeSteps(scan, f.base.route, author)
        /\ f.follow \in Seq(SafeSteps(scan, f.base.route, author))}

\* A safe case, a safe step on its route and safe steps to follow make a focus.
LEMMA FocusOfStep ==
    ASSUME NEW author, NEW scan, NEW c \in SafeCases(scan, author), NEW step \in SafeSteps(scan, c.route, author),
           NEW follow \in Seq(SafeSteps(scan, c.route, author))
    PROVE  [base |-> c, step |-> step, follow |-> follow] \in Foci(scan, author)
<1>1. c \in PlanCases /\ step \in Steps
  BY DEF SafeCases, SafeSteps
<1>2. follow \in Seq(Steps)
  BY SeqMonotonic DEF SafeSteps
<1> QED
  BY <1>1, <1>2 DEF Foci

\* What a safe case has.
LEMMA CaseOf ==
    ASSUME NEW author, NEW scan, NEW c \in SafeCases(scan, author)
    PROVE  /\ c \in PlanCases /\ c.route \in Texts /\ c.id \in TestIds
           /\ c.steps \in Seq(SafeSteps(scan, c.route, author))
           /\ Len(c.steps) \in Nat /\ DOMAIN c.steps = 1 .. Len(c.steps)
           /\ \A i \in 1 .. Len(c.steps) : c.steps[i] \in SafeSteps(scan, c.route, author)
<1>1. c \in PlanCases /\ c.steps \in Seq(SafeSteps(scan, c.route, author))
  BY DEF SafeCases
<1> QED
  BY <1>1, LenProperties, ElementOfSeq DEF PlanCases

\* Every step of a safe case, with the assertion that follows it, is a focus.
LEMMA FociOfCase ==
    ASSUME NEW author, NEW scan, NEW c \in SafeCases(scan, author) PROVE FocusesOfCase(c) \in Seq(Foci(scan, author))
<1> DEFINE L == Len(c.steps)
           focus(i) == [base |-> c, step |-> c.steps[i], follow |-> FollowingAssertion(c.steps, i)]
           all == [i \in DOMAIN c.steps |-> focus(i)]
<1>1. L \in Nat /\ DOMAIN c.steps = 1 .. L
  BY CaseOf
<1>2. ASSUME NEW i \in 1 .. L PROVE focus(i) \in Foci(scan, author)
  <2>1. c.steps[i] \in SafeSteps(scan, c.route, author)
    BY CaseOf
  <2>2. i < L => c.steps[i + 1] \in SafeSteps(scan, c.route, author)
    <3>1. i < L => i + 1 \in 1 .. L
      BY <1>1
    <3> QED
      BY <3>1, CaseOf
  <2>3. FollowingAssertion(c.steps, i) \in Seq(SafeSteps(scan, c.route, author))
    <3> DEFINE SS == SafeSteps(scan, c.route, author)
               next == c.steps[i + 1]
    <3>1. \/ FollowingAssertion(c.steps, i) = <<next>> /\ i < L
          \/ FollowingAssertion(c.steps, i) = <<>>
      BY DEF FollowingAssertion
    <3>2. i < L => next \in SS
      BY <2>2
    <3> HIDE DEF SS, next
    <3>3. <<>> \in Seq(SS) /\ (next \in SS => <<next>> \in Seq(SS))
      OBVIOUS
    <3> QED
      BY <3>1, <3>2, <3>3 DEF SS
  <2> QED
    BY <2>1, <2>3, FocusOfStep
<1>3. all \in [1 .. L -> Foci(scan, author)]
  <2> HIDE DEF focus
  <2> QED
    BY <1>1, <1>2
<1>4. FocusesOfCase(c) = Kept(all, {i \in DOMAIN c.steps : c.steps[i].action # "navigate"})
  BY DEF FocusesOfCase
<1> HIDE DEF all, L
<1>5. all \in Seq(Foci(scan, author))
  BY <1>1, <1>3, FunctionIsSeq
<1> QED
  BY <1>4, <1>5, KeptSeq

\* The case that the control of a route is put on: one of the route, or a visit.
LEMMA BaseIsSafe ==
    ASSUME NEW author, NEW scan, NEW p \in Seq(SafeCases(scan, author)), NEW route \in Pages
    PROVE  BaseOnRoute(p, route) \in SafeCases(scan, author) /\ BaseOnRoute(p, route).route = route.path
<1> DEFINE path == route.path
           there == {i \in DOMAIN p : p[i].route = path}
           visit == [id |-> TC(0), stem |-> TC(0), route |-> path, kind |-> "positive", by |-> "expansion",
                     textual |-> FALSE, steps |-> <<Navigate(route.path, route.name)>>]
<1>1. /\ Len(p) \in Nat /\ DOMAIN p = 1 .. Len(p)
      /\ route.path \in Texts /\ route.name \in Texts
  BY LenProperties DEF Pages
<1>2. CASE there # {}
  <2>1. there \in SUBSET (1 .. Len(p))
    BY <1>1
  <2>2. Max(there) \in there
    <3> HIDE DEF there
    <3> QED
      BY <1>1, <1>2, <2>1, GreatestOf
  <2>3. Max(there) \in 1 .. Len(p) /\ p[Max(there)].route = path
    BY <2>1, <2>2
  <2>4. BaseOnRoute(p, route) = p[Max(there)]
    BY <1>2 DEF BaseOnRoute
  <2> HIDE DEF there
  <2> QED
    BY <2>3, <2>4, ElementOfSeq
<1>3. CASE there = {}
  <2>1. BaseOnRoute(p, route) = visit
    BY <1>3 DEF BaseOnRoute
  <2>2. visit \in SafeCases(scan, author)
    <3>1. Navigate(route.path, route.name) \in SafeSteps(scan, path, author) /\ Navigate(route.path, route.name) \in Steps
      BY <1>1, NavigateIsSafe DEF SafeSteps
    <3>2. TC(0) \in TestIds
      BY TextFacts DEF TC, TestIds
    <3>3. <<Navigate(route.path, route.name)>> \in Seq(SafeSteps(scan, path, author)) /\ <<Navigate(route.path, route.name)>> \in Seq(Steps)
      BY <3>1
    <3> QED
      BY <1>1, <3>2, <3>3, TextFacts DEF SafeCases, PlanCases
  <2> QED
    BY <2>1, <2>2
<1> QED
  BY <1>2, <1>3

\* Every control of a route with a harmless word is a focus, whatever the plan has.
LEMMA FociOfRoute ==
    ASSUME NEW author, NEW scan \in ScanShape, NEW p \in Seq(SafeCases(scan, author)), NEW r \in DOMAIN scan.routes
    PROVE  FocusesOfRoute(p, scan.routes[r]) \in Seq(Foci(scan, author))
<1> DEFINE route == scan.routes[r]
           ts == route.targets
           L == Len(ts)
           shown(i) == Step("assert_visible", route.path, ts[i].label, ts[i].selector)
           focus(i) == [base |-> BaseOnRoute(p, route), follow |-> <<>>, step |-> shown(i)]
           all == [i \in DOMAIN ts |-> focus(i)]
           Shapes == [base : PlanCases, step : Steps, follow : Seq(Steps)]
           I == {i \in DOMAIN ts : HarmlessTarget(ts[i])}
<1>1. /\ route \in Pages /\ route.path \in Texts /\ ts \in Seq(Controls) /\ L \in Nat /\ DOMAIN ts = 1 .. L
      /\ \A i \in 1 .. L : ts[i] \in Controls /\ ts[i] \in Targets(scan, route.path)
  BY RoutesOf, LenProperties
<1>2. BaseOnRoute(p, route) \in SafeCases(scan, author) /\ BaseOnRoute(p, route).route = route.path
  BY <1>1, BaseIsSafe
<1>3. ASSUME NEW i \in 1 .. L PROVE focus(i) \in Shapes
  <2>1. shown(i) \in Steps
    BY <1>1, TextFacts DEF Step, Steps, Controls
  <2>2. BaseOnRoute(p, route) \in PlanCases
    BY <1>2, CaseOf
  <2> HIDE DEF shown, route, L, ts
  <2> QED
    BY <2>1, <2>2
<1>4. ASSUME NEW i \in 1 .. L, HarmlessTarget(ts[i]) PROVE focus(i) \in Foci(scan, author)
  <2>1. shown(i) \in SafeSteps(scan, route.path, author)
    <3>1. ts[i].label # Absent /\ ts[i].label \notin Destructive /\ ~ts[i].blocked
      BY <1>4 DEF HarmlessTarget
    <3>2. ts[i] \in Controls /\ ts[i] \in Targets(scan, route.path)
      BY <1>1
    <3> QED
      BY <1>1, <3>1, <3>2, OnControl, TextFacts
  <2>2. <<>> \in Seq(SafeSteps(scan, route.path, author))
    OBVIOUS
  <2> HIDE DEF shown, route, L, ts
  <2>3. focus(i) = [base |-> BaseOnRoute(p, route), step |-> shown(i), follow |-> <<>>]
    OBVIOUS
  <2> HIDE DEF focus
  <2> QED
    BY <1>2, <2>1, <2>2, <2>3, FocusOfStep
<1>5. all \in [1 .. L -> Shapes]
  <2> HIDE DEF focus, Shapes
  <2> QED
    BY <1>1, <1>3
<1>6. \A i \in I \cap 1 .. L : all[i] \in Foci(scan, author)
  <2> HIDE DEF focus
  <2> QED
    BY <1>1, <1>4
<1>7. FocusesOfRoute(p, route) = Kept(all, I)
  BY DEF FocusesOfRoute
<1> HIDE DEF all, L, I, Shapes
<1>8. all \in Seq(Shapes) /\ Len(all) = L
  BY <1>1, <1>5, FunctionIsSeq
<1>9. Kept(all, I) \in Seq(Foci(scan, author))
  BY <1>6, <1>8, KeptIn
<1> QED
  BY <1>7, <1>9

\* Those of the plan and then those of the scan.
LEMMA AllFoci ==
    ASSUME NEW author, NEW scan \in ScanShape, NEW p \in Seq(SafeCases(scan, author)) PROVE Focuses(p, scan) \in Seq(Foci(scan, author))
<1> DEFINE P == [i \in DOMAIN p |-> FocusesOfCase(p[i])]
           R == [i \in DOMAIN scan.routes |-> FocusesOfRoute(p, scan.routes[i])]
           said == FlattenSeq(P)
           left == FlattenSeq(R)
           F == Foci(scan, author)
<1>1. /\ Len(p) \in Nat /\ DOMAIN p = 1 .. Len(p)
      /\ Len(scan.routes) \in Nat /\ DOMAIN scan.routes = 1 .. Len(scan.routes)
  BY LenProperties DEF ScanShape
<1>2. P \in [1 .. Len(p) -> Seq(F)]
  <2>1. \A i \in 1 .. Len(p) : FocusesOfCase(p[i]) \in Seq(F)
    BY FociOfCase, ElementOfSeq
  <2> HIDE DEF F
  <2> QED
    BY <1>1, <2>1
<1>3. R \in [1 .. Len(scan.routes) -> Seq(F)]
  <2>1. \A i \in 1 .. Len(scan.routes) : FocusesOfRoute(p, scan.routes[i]) \in Seq(F)
    BY <1>1, FociOfRoute
  <2> HIDE DEF F
  <2> QED
    BY <1>1, <2>1
<1> HIDE DEF P, R, F
<1>4. said \in Seq(F) /\ left \in Seq(F)
  <2>1. P \in Seq(Seq(F)) /\ R \in Seq(Seq(F))
    BY <1>1, <1>2, <1>3, FunctionIsSeq
  <2> QED
    BY <2>1, FlattenSeqs
<1> HIDE DEF said, left
<1>5. FocusList(said, left) \in Seq(F)
  <2> DEFINE start == NewOnes(said, [i \in DOMAIN said |-> said[i].step], {})
             control(step) == <<step.route, step.label, step.selector>>
             rest == NewOnes(left, [i \in DOMAIN left |-> control(left[i].step)],
                             {control(f.step) : f \in ToSet(start)})
  <2>1. start \in Seq(F) /\ rest \in Seq(F)
    BY <1>4, NewOnesSeq
  <2>2. FocusList(said, left) = start \o rest
    BY DEF FocusList
  <2> HIDE DEF start, rest
  <2> QED
    BY <2>1, <2>2, ConcatProperties
<1>6. Focuses(p, scan) = FocusList(said, left)
  <2>1. {The({FocusList(a, b) : b \in {left}}) : a \in {said}} = {The({FocusList(said, b) : b \in {left}})}
    OBVIOUS
  <2>2. {FocusList(said, b) : b \in {left}} = {FocusList(said, left)}
    OBVIOUS
  <2>3. Focuses(p, scan) = The({The({FocusList(a, b) : b \in {left}}) : a \in {said}})
    BY DEF Focuses, said, left, P, R
  <2> QED
    BY <2>1, <2>2, <2>3, TheOne
<1> QED
  BY <1>5, <1>6 DEF F

\* The case that is made of a focus is safe.
LEMMA FocusedIsSafe ==
    ASSUME NEW author, NEW scan, NEW f \in Foci(scan, author), NEW id \in TestIds
    PROVE  FocusedCase(f, id) \in SafeCases(scan, author)
<1> DEFINE steps == f.base.steps
           SS == SafeSteps(scan, f.base.route, author)
           navigation == Kept(steps, {i \in DOMAIN steps : steps[i].action = "navigate"})
           new == AtMost(1, navigation) \o <<f.step>> \o f.follow
<1>1. f.base \in SafeCases(scan, author) /\ f.step \in SS /\ f.follow \in Seq(SS)
  BY DEF Foci
<1>2. f.base \in PlanCases /\ steps \in Seq(SS)
  BY <1>1 DEF SafeCases
<1>3. SS \subseteq Steps
  BY DEF SafeSteps
<1>4. FocusedCase(f, id) = [f.base EXCEPT !.id = id, !.stem = id, !.by = "expansion", !.steps = new]
  BY DEF FocusedCase
<1> HIDE DEF SS, steps
<1>5. AtMost(1, navigation) \in Seq(SS)
  <2>1. navigation \in Seq(SS)
    BY <1>2, KeptSeq
  <2> HIDE DEF navigation
  <2> QED
    BY <2>1, AtMostSeq
<1> HIDE DEF navigation
<1>6. new \in Seq(SS)
  <2> DEFINE front == AtMost(1, navigation) \o <<f.step>>
  <2>1. <<f.step>> \in Seq(SS)
    BY <1>1
  <2>2. front \in Seq(SS)
    BY <1>5, <2>1, ConcatProperties
  <2> HIDE DEF front
  <2>3. front \o f.follow \in Seq(SS)
    BY <1>1, <2>2, ConcatProperties
  <2> QED
    BY <2>3 DEF front
<1>7. new \in Seq(Steps)
  BY <1>3, <1>6, SeqMonotonic
<1> HIDE DEF new
<1>8. FocusedCase(f, id) \in PlanCases /\ FocusedCase(f, id).route = f.base.route /\ FocusedCase(f, id).steps = new
  BY <1>2, <1>4, <1>7, TextFacts DEF PlanCases
<1> QED
  BY <1>6, <1>8 DEF SafeCases, SS

\* One focus more, under a free id, if there are not enough.
LEMMA FocusStep ==
    ASSUME NEW author, NEW scan, NEW s \in Seq(SafeCases(scan, author)), NEW f \in Foci(scan, author), NEW count
    PROVE  WithFocus(s, f, count) \in Seq(SafeCases(scan, author))
<1> DEFINE id == FreeId(Len(s) + 1, Ids(s))
<1>1. s \in Seq(PlanCases)
  BY SeqMonotonic DEF SafeCases
<1>2. id \in TestIds
  <2> DEFINE n == Len(s) + 1
             used == Ids(s)
  <2>1. IsFiniteSet(used) /\ n \in Nat
    BY <1>1, IdsFinite, LenProperties
  <2> HIDE DEF n, used
  <2>2. FreeId(n, used) \in TestIds
    BY <2>1, FreeIdIsFree
  <2> QED
    BY <2>2 DEF n, used
<1>3. WithFocus(s, f, count) \in {s, Append(s, FocusedCase(f, id))}
  BY DEF WithFocus
<1> HIDE DEF id
<1>4. FocusedCase(f, id) \in SafeCases(scan, author)
  BY <1>2, FocusedIsSafe
<1> QED
  BY <1>3, <1>4, AppendProperties

\* All of them, one after the other.
LEMMA FocusesAreSafe ==
    ASSUME NEW author, NEW scan, NEW p \in Seq(SafeCases(scan, author)), NEW count, NEW focuses \in Seq(Foci(scan, author))
    PROVE  WithFocuses(p, count, focuses) \in Seq(SafeCases(scan, author))
<1> DEFINE L == Len(focuses)
           M == Seq(SafeCases(scan, author))
           base == p
           T == [n \in 0 .. L |-> M]
           W == [n \in 0 .. L |-> [b \in M |-> WithFocus(b, focuses[n], count)]]
           Rec(g) == [n \in 0 .. L |->
                        IF n = 0 THEN p ELSE The({WithFocus(b, focuses[n], count) : b \in {g[n - 1]}})]
           f == CHOOSE g : g = Rec(g)
<1>1. L \in Nat /\ \A n \in 1 .. L : focuses[n] \in Foci(scan, author)
  BY LenProperties, ElementOfSeq
<1>2. base \in T[0]
  BY <1>1
<1>3. ASSUME NEW n \in 0 .. L, n # 0, NEW b \in M
      PROVE  WithFocus(b, focuses[n], count) \in M
  BY <1>1, <1>3, FocusStep
<1>4. \A n, x : The({WithFocus(b, focuses[n], count) : b \in {x}}) = WithFocus(x, focuses[n], count)
  <2> TAKE n, x
  <2>1. {WithFocus(b, focuses[n], count) : b \in {x}} = {WithFocus(x, focuses[n], count)}
    OBVIOUS
  <2> QED
    BY <2>1, TheOne
<1>5. /\ \A n \in 0 .. L : T[n] = M
      /\ \A n \in 0 .. L : n # 0 => n - 1 \in 0 .. L /\ T[n - 1] = M
      /\ \A n \in 0 .. L : n # 0 => \A b \in M : W[n][b] = WithFocus(b, focuses[n], count)
  BY <1>1
<1>6. WithFocuses(p, count, focuses) = f[L]
  BY DEF WithFocuses, f
<1>7. \A n \in 0 .. L : T[n] \subseteq M
  OBVIOUS
<1> HIDE DEF T, W, M, base
<1>8. Leads(0, L, M, T, W, base)
  <2> HIDE DEF L
  <2>1. 0 \in Nat /\ L \in Nat /\ 0 <= L
    BY <1>1
  <2>2. \A n \in 0 .. L : n # 0 => \A b \in T[n - 1] : W[n][b] \in T[n]
    <3> SUFFICES ASSUME NEW n \in 0 .. L, n # 0, NEW b \in T[n - 1] PROVE W[n][b] \in T[n]
      OBVIOUS
    <3>1. b \in M /\ b \in M
      BY <1>5, <1>7
    <3>2. W[n][b] = WithFocus(b, focuses[n], count)
      BY <3>1, <1>5
    <3>3. WithFocus(b, focuses[n], count) \in M
      BY <3>1, <1>3
    <3> QED
      BY <3>2, <3>3, <1>5
  <2> QED
    BY <1>2, <1>7, <2>1, <2>2 DEF Leads
<1>9. \E g : g = Rec(g)
  <2>1. PICK g \in [0 .. L -> M] :
               /\ g[0] = base
               /\ \A n \in 0 .. L : g[n] \in T[n] /\ (n # 0 => g[n] = W[n][g[n - 1]])
    <3> HIDE DEF L
    <3> QED
      BY <1>8, Chained
  <2> HIDE DEF L
  <2>2. ASSUME NEW n \in 0 .. L, n # 0
        PROVE  g[n] = The({WithFocus(b, focuses[n], count) : b \in {g[n - 1]}})
    <3>1. g[n - 1] \in M
      BY <2>1, <2>2, <1>5
    <3>2. g[n] = WithFocus(g[n - 1], focuses[n], count)
      BY <2>1, <2>2, <3>1, <1>5
    <3> QED
      BY <3>2, <1>4
  <2>3. g = [n \in 0 .. L |-> g[n]] /\ g[0] = p
    BY <2>1 DEF base
  <2> QED
    BY <2>2, <2>3
<1>10. f = Rec(f)
  <2> HIDE DEF Rec
  <2> QED
    BY <1>9
<1> HIDE DEF f
<1>11. f[0] = base
  BY <1>1, <1>10 DEF base
<1>12. \A n \in 0 .. L : n # 0 /\ f[n - 1] \in T[n - 1] => f[n] = W[n][f[n - 1]]
  <2> SUFFICES ASSUME NEW n \in 0 .. L, n # 0, f[n - 1] \in T[n - 1] PROVE f[n] = W[n][f[n - 1]]
    OBVIOUS
  <2>1. f[n] = The({WithFocus(b, focuses[n], count) : b \in {f[n - 1]}})
    BY <1>10
  <2>2. f[n] = WithFocus(f[n - 1], focuses[n], count)
    BY <2>1, <1>4
  <2>3. f[n - 1] \in M
    BY <1>5, <1>7
  <2> QED
    BY <2>2, <2>3, <1>5
<1>13. f[L] \in T[L]
  <2> HIDE DEF L
  <2> QED
    BY <1>8, <1>11, <1>12, Arrives
<1>14. f[L] \in M
  BY <1>1, <1>5, <1>13
<1> QED
  BY <1>6, <1>14 DEF M

\* A plan that is too short stays safe when it is expanded.
LEMMA ExpansionIsSafe ==
    ASSUME NEW author, NEW scan \in ScanShape, NEW p \in Seq(SafeCases(scan, author)), NEW count
    PROVE  Expanded(p, count, scan) \in Seq(SafeCases(scan, author))
<1>1. Focuses(p, scan) \in Seq(Foci(scan, author))
  BY AllFoci
<1>2. {WithFocuses(p, count, focuses) : focuses \in {Focuses(p, scan)}} = {WithFocuses(p, count, Focuses(p, scan))}
  OBVIOUS
<1>3. Expanded(p, count, scan) = WithFocuses(p, count, Focuses(p, scan))
  BY <1>2, TheOne DEF Expanded
<1> QED
  BY <1>1, <1>3, FocusesAreSafe

\* Its id says nothing of what a case does.
LEMMA Renamed ==
    ASSUME NEW author, NEW scan, NEW c \in SafeCases(scan, author), NEW id \in TestIds, NEW stem \in TestIds
    PROVE  /\ [c EXCEPT !.id = id] \in SafeCases(scan, author)
           /\ [c EXCEPT !.id = id, !.stem = stem] \in SafeCases(scan, author)
BY DEF SafeCases, PlanCases

\* One case more is read.
LEMMA ReadStep ==
    ASSUME NEW author, NEW scan, NEW s \in Seq(SafeCases(scan, author)), NEW c \in SafeCases(scan, author)
    PROVE  WithRead(s, c) \in Seq(SafeCases(scan, author))
<1> DEFINE again == [c EXCEPT !.id = TC(Len(s) + 1)]
<1>1. again \in SafeCases(scan, author)
  <2>1. Len(s) + 1 \in Nat
    BY LenProperties
  <2>2. TC(Len(s) + 1) \in TestIds
    BY <2>1, TextFacts DEF TC, TestIds
  <2> QED
    BY <2>2, CaseOf, Renamed
<1>2. WithRead(s, c) \in {s, Append(s, c), Append(s, again)}
  BY DEF WithRead
<1> HIDE DEF again
<1> QED
  BY <1>1, <1>2, AppendProperties

\* What the endpoint reads of a safe plan is safe.
LEMMA AssembledIsSafe ==
    ASSUME NEW author, NEW scan, NEW p \in Seq(SafeCases(scan, author)) PROVE Assembled(p) \in Seq(SafeCases(scan, author))
<1> DEFINE L == Len(p)
           M == Seq(SafeCases(scan, author))
           base == <<>>
           T == [n \in 0 .. L |-> M]
           W == [n \in 0 .. L |-> [b \in M |-> WithRead(b, p[n])]]
           Rec(g) == [n \in 0 .. L |->
                        IF n = 0 THEN <<>> ELSE The({WithRead(b, p[n]) : b \in {g[n - 1]}})]
           f == CHOOSE g : g = Rec(g)
<1>1. L \in Nat /\ \A n \in 1 .. L : p[n] \in SafeCases(scan, author)
  BY LenProperties, ElementOfSeq
<1>2. base \in T[0]
  <2>1. base \in M
    BY EmptySeq
  <2> HIDE DEF base, M
  <2> QED
    BY <1>1, <2>1
<1>3. ASSUME NEW n \in 0 .. L, n # 0, NEW b \in M
      PROVE  WithRead(b, p[n]) \in M
  <2>1. p[n] \in SafeCases(scan, author)
    BY <1>1, <1>3
  <2> QED
    BY <2>1, ReadStep
<1>4. \A n, x : The({WithRead(b, p[n]) : b \in {x}}) = WithRead(x, p[n])
  <2> TAKE n, x
  <2>1. {WithRead(b, p[n]) : b \in {x}} = {WithRead(x, p[n])}
    OBVIOUS
  <2> QED
    BY <2>1, TheOne
<1>5. /\ \A n \in 0 .. L : T[n] = M
      /\ \A n \in 0 .. L : n # 0 => n - 1 \in 0 .. L /\ T[n - 1] = M
      /\ \A n \in 0 .. L : n # 0 => \A b \in M : W[n][b] = WithRead(b, p[n])
  BY <1>1
<1>6. Assembled(p) = f[L]
  BY DEF Assembled, f
<1>7. \A n \in 0 .. L : T[n] \subseteq M
  OBVIOUS
<1> HIDE DEF T, W, M, base
<1>8. Leads(0, L, M, T, W, base)
  <2> HIDE DEF L
  <2>1. 0 \in Nat /\ L \in Nat /\ 0 <= L
    BY <1>1
  <2>2. \A n \in 0 .. L : n # 0 => \A b \in T[n - 1] : W[n][b] \in T[n]
    <3> SUFFICES ASSUME NEW n \in 0 .. L, n # 0, NEW b \in T[n - 1] PROVE W[n][b] \in T[n]
      OBVIOUS
    <3>1. b \in M /\ b \in M
      BY <1>5, <1>7
    <3>2. W[n][b] = WithRead(b, p[n])
      BY <3>1, <1>5
    <3>3. WithRead(b, p[n]) \in M
      BY <3>1, <1>3
    <3> QED
      BY <3>2, <3>3, <1>5
  <2> QED
    BY <1>2, <1>7, <2>1, <2>2 DEF Leads
<1>9. \E g : g = Rec(g)
  <2>1. PICK g \in [0 .. L -> M] :
               /\ g[0] = base
               /\ \A n \in 0 .. L : g[n] \in T[n] /\ (n # 0 => g[n] = W[n][g[n - 1]])
    <3> HIDE DEF L
    <3> QED
      BY <1>8, Chained
  <2> HIDE DEF L
  <2>2. ASSUME NEW n \in 0 .. L, n # 0
        PROVE  g[n] = The({WithRead(b, p[n]) : b \in {g[n - 1]}})
    <3>1. g[n - 1] \in M
      BY <2>1, <2>2, <1>5
    <3>2. g[n] = WithRead(g[n - 1], p[n])
      BY <2>1, <2>2, <3>1, <1>5
    <3> QED
      BY <3>2, <1>4
  <2>3. g = [n \in 0 .. L |-> g[n]] /\ g[0] = <<>>
    BY <2>1 DEF base
  <2> QED
    BY <2>2, <2>3
<1>10. f = Rec(f)
  <2> HIDE DEF Rec
  <2> QED
    BY <1>9
<1> HIDE DEF f
<1>11. f[0] = base
  BY <1>1, <1>10 DEF base
<1>12. \A n \in 0 .. L : n # 0 /\ f[n - 1] \in T[n - 1] => f[n] = W[n][f[n - 1]]
  <2> SUFFICES ASSUME NEW n \in 0 .. L, n # 0, f[n - 1] \in T[n - 1] PROVE f[n] = W[n][f[n - 1]]
    OBVIOUS
  <2>1. f[n] = The({WithRead(b, p[n]) : b \in {f[n - 1]}})
    BY <1>10
  <2>2. f[n] = WithRead(f[n - 1], p[n])
    BY <2>1, <1>4
  <2>3. f[n - 1] \in M
    BY <1>5, <1>7
  <2> QED
    BY <2>2, <2>3, <1>5
<1>13. f[L] \in T[L]
  <2> HIDE DEF L
  <2> QED
    BY <1>8, <1>11, <1>12, Arrives
<1>14. f[L] \in M
  BY <1>1, <1>5, <1>13
<1> QED
  BY <1>6, <1>14 DEF M

(* The first n cases of s with distinct ids: as many safe cases, each with *)
(* the content of its place, and every id that s has there.                *)
Numbering(scan, author, s, n) ==
    {t \in Seq(SafeCases(scan, author)) :
        /\ Len(t) = n
        /\ \A i, j \in 1 .. n : t[i].id = t[j].id => i = j
        /\ \A i \in 1 .. n : s[i].id \in Ids(t) /\ SameTest(s[i], t[i])}

\* One case more gets its number: its own id, or a free one when the id is there.
LEMMA NumberStep ==
    ASSUME NEW author, NEW scan, NEW s, NEW n \in Nat, NEW t \in Numbering(scan, author, s, n), s[n + 1] \in SafeCases(scan, author)
    PROVE  WithNumber(t, s[n + 1]) \in Numbering(scan, author, s, n + 1)
<1> DEFINE c == s[n + 1]
           id == FreeId(Len(t) + 1, Ids(t))
           again == [c EXCEPT !.id = id, !.stem = id]
           new == IF c.id \notin Ids(t) THEN c ELSE again
<1>1. /\ t \in Seq(SafeCases(scan, author)) /\ Len(t) = n
      /\ \A i, j \in 1 .. n : t[i].id = t[j].id => i = j
      /\ \A i \in 1 .. n : s[i].id \in Ids(t) /\ SameTest(s[i], t[i])
  BY DEF Numbering
<1>2. t \in Seq(PlanCases)
  BY <1>1, SeqMonotonic DEF SafeCases
<1>3. IsFiniteSet(Ids(t)) /\ Ids(t) = {t[i].id : i \in 1 .. n}
  BY <1>1, <1>2, IdsFinite
<1>4. id \in TestIds \ Ids(t)
  <2> DEFINE k == Len(t) + 1
             used == Ids(t)
  <2>1. IsFiniteSet(used) /\ k \in Nat
    BY <1>1, <1>3
  <2> HIDE DEF k, used
  <2>2. FreeId(k, used) \in TestIds \ used
    BY <2>1, FreeIdIsFree
  <2> QED
    BY <2>2 DEF k, used
<1> HIDE DEF id, c
<1>0. c \in SafeCases(scan, author) /\ s[n + 1] = c
  BY DEF c
<1>5. again \in SafeCases(scan, author) /\ again.id = id /\ SameTest(c, again)
  <2>1. again.id = id /\ again.route = c.route /\ again.kind = c.kind /\ again.steps = c.steps
    BY <1>0, CaseOf DEF PlanCases
  <2>2. again \in SafeCases(scan, author)
    BY <1>0, <1>4, Renamed
  <2> HIDE DEF again
  <2> QED
    BY <2>1, <2>2 DEF SameTest
<1> HIDE DEF again
<1>6. /\ new \in SafeCases(scan, author) /\ new.id \notin Ids(t) /\ SameTest(c, new)
      /\ c.id \in Ids(t) \/ c.id = new.id
  BY <1>0, <1>4, <1>5 DEF SameTest
<1>7. WithNumber(t, s[n + 1]) = Append(t, new)
  BY <1>0 DEF WithNumber, new, again, id
<1> HIDE DEF new
<1> DEFINE a == Append(t, new)
<1>8. /\ a \in Seq(SafeCases(scan, author)) /\ Len(a) = n + 1
      /\ \A i \in 1 .. n : a[i] = t[i]
      /\ a[n + 1] = new
  BY <1>1, <1>6, AppendProperties
<1>9. \A i \in 1 .. n : t[i].id # new.id
  BY <1>3, <1>6
<1> HIDE DEF a
<1>10. ASSUME NEW i \in 1 .. n + 1, NEW j \in 1 .. n + 1, a[i].id = a[j].id
       PROVE  i = j
  <2>1. (i \in 1 .. n \/ i = n + 1) /\ (j \in 1 .. n \/ j = n + 1)
    OBVIOUS
  <2> QED
    BY <1>1, <1>8, <1>9, <1>10, <2>1
<1>11. Ids(t) \subseteq Ids(a) /\ new.id \in Ids(a)
  <2>1. Ids(a) = {a[i].id : i \in 1 .. n + 1}
    BY <1>8, IdsOf
  <2>2. n + 1 \in 1 .. n + 1 /\ \A i \in 1 .. n : i \in 1 .. n + 1
    OBVIOUS
  <2> QED
    BY <1>3, <1>8, <2>1, <2>2
<1>12. ASSUME NEW i \in 1 .. n + 1 PROVE s[i].id \in Ids(a) /\ SameTest(s[i], a[i])
  <2>1. i \in 1 .. n \/ i = n + 1
    OBVIOUS
  <2>2. CASE i \in 1 .. n
    <3>1. s[i].id \in Ids(t) /\ SameTest(s[i], t[i]) /\ a[i] = t[i]
      BY <1>1, <1>8, <2>2
    <3> QED
      BY <3>1, <1>11
  <2>3. CASE i = n + 1
    BY <1>0, <1>6, <1>8, <1>11, <2>3
  <2> QED
    BY <2>1, <2>2, <2>3
<1> QED
  BY <1>7, <1>8, <1>10, <1>12 DEF Numbering, a

\* As many cases as before with distinct ids, and no id is lost.
LEMMA NumberedKeeps ==
    ASSUME NEW author, NEW scan, NEW s \in Seq(SafeCases(scan, author)) PROVE Numbered(s) \in Numbering(scan, author, s, Len(s))
<1> DEFINE L == Len(s)
           M == Seq(SafeCases(scan, author))
           base == <<>>
           T == [n \in 0 .. L |-> Numbering(scan, author, s, n)]
           W == [n \in 0 .. L |-> [b \in M |-> WithNumber(b, s[n])]]
           Rec(g) == [n \in 0 .. L |->
                        IF n = 0 THEN <<>> ELSE The({WithNumber(b, s[n]) : b \in {g[n - 1]}})]
           f == CHOOSE g : g = Rec(g)
<1>1. L \in Nat /\ \A n \in 1 .. L : s[n] \in SafeCases(scan, author)
  BY LenProperties, ElementOfSeq
<1>2. base \in T[0]
  <2>1. <<>> \in Numbering(scan, author, s, 0)
    BY DEF Numbering
  <2> QED
    BY <1>1, <2>1
<1>3. ASSUME NEW n \in 0 .. L, n # 0, NEW b \in Numbering(scan, author, s, n - 1)
      PROVE  WithNumber(b, s[n]) \in Numbering(scan, author, s, n)
  <2> DEFINE k == n - 1
  <2>1. k \in Nat /\ k + 1 = n /\ s[k + 1] \in SafeCases(scan, author) /\ b \in Numbering(scan, author, s, k)
    BY <1>1, <1>3
  <2> HIDE DEF k
  <2>2. WithNumber(b, s[k + 1]) \in Numbering(scan, author, s, k + 1)
    BY <2>1, NumberStep
  <2> QED
    BY <2>1, <2>2
<1>4. \A n, x : The({WithNumber(b, s[n]) : b \in {x}}) = WithNumber(x, s[n])
  <2> TAKE n, x
  <2>1. {WithNumber(b, s[n]) : b \in {x}} = {WithNumber(x, s[n])}
    OBVIOUS
  <2> QED
    BY <2>1, TheOne
<1>5. /\ \A n \in 0 .. L : T[n] = Numbering(scan, author, s, n)
      /\ \A n \in 0 .. L : n # 0 => n - 1 \in 0 .. L /\ T[n - 1] = Numbering(scan, author, s, n - 1)
      /\ \A n \in 0 .. L : n # 0 => \A b \in M : W[n][b] = WithNumber(b, s[n])
  BY <1>1
<1>6. Numbered(s) = f[L]
  BY DEF Numbered, f
<1>7. \A n \in 0 .. L : T[n] \subseteq M
  BY DEF Numbering
<1> HIDE DEF T, W, M, base
<1>8. Leads(0, L, M, T, W, base)
  <2> HIDE DEF L
  <2>1. 0 \in Nat /\ L \in Nat /\ 0 <= L
    BY <1>1
  <2>2. \A n \in 0 .. L : n # 0 => \A b \in T[n - 1] : W[n][b] \in T[n]
    <3> SUFFICES ASSUME NEW n \in 0 .. L, n # 0, NEW b \in T[n - 1] PROVE W[n][b] \in T[n]
      OBVIOUS
    <3>1. b \in M /\ b \in Numbering(scan, author, s, n - 1)
      BY <1>5, <1>7
    <3>2. W[n][b] = WithNumber(b, s[n])
      BY <3>1, <1>5
    <3>3. WithNumber(b, s[n]) \in Numbering(scan, author, s, n)
      BY <3>1, <1>3
    <3> QED
      BY <3>2, <3>3, <1>5
  <2> QED
    BY <1>2, <1>7, <2>1, <2>2 DEF Leads
<1>9. \E g : g = Rec(g)
  <2>1. PICK g \in [0 .. L -> M] :
               /\ g[0] = base
               /\ \A n \in 0 .. L : g[n] \in T[n] /\ (n # 0 => g[n] = W[n][g[n - 1]])
    <3> HIDE DEF L
    <3> QED
      BY <1>8, Chained
  <2> HIDE DEF L
  <2>2. ASSUME NEW n \in 0 .. L, n # 0
        PROVE  g[n] = The({WithNumber(b, s[n]) : b \in {g[n - 1]}})
    <3>1. g[n - 1] \in M
      BY <2>1, <2>2, <1>5
    <3>2. g[n] = WithNumber(g[n - 1], s[n])
      BY <2>1, <2>2, <3>1, <1>5
    <3> QED
      BY <3>2, <1>4
  <2>3. g = [n \in 0 .. L |-> g[n]] /\ g[0] = <<>>
    BY <2>1 DEF base
  <2> QED
    BY <2>2, <2>3
<1>10. f = Rec(f)
  <2> HIDE DEF Rec
  <2> QED
    BY <1>9
<1> HIDE DEF f
<1>11. f[0] = base
  BY <1>1, <1>10 DEF base
<1>12. \A n \in 0 .. L : n # 0 /\ f[n - 1] \in T[n - 1] => f[n] = W[n][f[n - 1]]
  <2> SUFFICES ASSUME NEW n \in 0 .. L, n # 0, f[n - 1] \in T[n - 1] PROVE f[n] = W[n][f[n - 1]]
    OBVIOUS
  <2>1. f[n] = The({WithNumber(b, s[n]) : b \in {f[n - 1]}})
    BY <1>10
  <2>2. f[n] = WithNumber(f[n - 1], s[n])
    BY <2>1, <1>4
  <2>3. f[n - 1] \in M
    BY <1>5, <1>7
  <2> QED
    BY <2>2, <2>3, <1>5
<1>13. f[L] \in T[L]
  <2> HIDE DEF L
  <2> QED
    BY <1>8, <1>11, <1>12, Arrives
<1>14. f[L] \in Numbering(scan, author, s, L)
  BY <1>1, <1>5, <1>13
<1> QED
  BY <1>6, <1>14 DEF M

\* First the ones with the ids of the user, then the others.
LEMMA UploadedFirstIs == \A s, ids : UploadedFirst(s, ids) = SelectCases(s, ids) \o OtherCases(s, ids)
<1> TAKE s, ids
<1>1. {SelectCases(s, known) \o OtherCases(s, known) : known \in {ids}} = {SelectCases(s, ids) \o OtherCases(s, ids)}
  OBVIOUS
<1> QED
  BY <1>1, TheOne DEF UploadedFirst

\* To put the uploaded ones first changes the order only.
LEMMA UploadedFirstSeq ==
    ASSUME NEW S, NEW s \in Seq(S), NEW ids PROVE UploadedFirst(s, ids) \in Seq(S)
<1>1. SelectCases(s, ids) \in Seq(S) /\ OtherCases(s, ids) \in Seq(S)
  BY KeptSeq DEF SelectCases, OtherCases
<1> QED
  BY <1>1, UploadedFirstIs, ConcatProperties

\* What is selected of safe cases is safe, and no more than was asked for.
LEMMA SelectedIsSafe ==
    ASSUME NEW author, NEW r \in RequestShape, NEW s \in Seq(SafeCases(r.scan, author))
    PROVE  /\ Selected(s, r) \in Seq(SafeCases(r.scan, author))
           /\ r.count > 0 => Len(Selected(s, r)) <= r.count
<1> DEFINE first == UploadedFirst(s, UploadedIds(r))
           once == WithoutRepeats(first)
           S == SafeCases(r.scan, author)
<1>1. first \in Seq(S)
  BY UploadedFirstSeq
<1> HIDE DEF first, S
<1>2. once \in Seq(S)
  BY <1>1, NewOnesSeq DEF WithoutRepeats
<1>3. Selected(s, r) = AtMost(r.count, once)
  BY DEF Selected, first
<1>4. r.count \in Nat
  BY DEF RequestShape
<1> HIDE DEF once
<1> QED
  BY <1>2, <1>3, <1>4, AtMostSeq DEF S

RowShape == [id : TestIds, route : Texts]

\* Every uploaded row that counts has an id.
LEMMA RowsAreRows == ASSUME NEW upload \in UploadShape PROVE Rows(upload) \in Seq(RowShape)
<1> DEFINE rows == upload.rows
           named(i) == IF rows[i].id # Absent THEN rows[i].id
                       ELSE IF upload.format = "table" THEN TC(i) ELSE <<i, "ITEM">>
           row(i) == [id |-> named(i), route |-> IF upload.format = "text" THEN Absent ELSE rows[i].route]
           all == [i \in DOMAIN rows |-> row(i)]
           In == [id : TestIds \cup {Absent}, route : Texts]
<1>1. rows \in Seq(In)
  BY DEF UploadShape
<1>2. Len(rows) \in Nat /\ DOMAIN rows = 1 .. Len(rows) /\ \A i \in 1 .. Len(rows) : rows[i] \in In
  <2> HIDE DEF In, rows
  <2> QED
    BY <1>1, LenProperties, ElementOfSeq
<1>3. ASSUME NEW i \in 1 .. Len(rows) PROVE row(i) \in RowShape
  <2>1. rows[i].id \in TestIds \cup {Absent} /\ rows[i].route \in Texts
    BY <1>2
  <2>2. i \in Nat
    BY <1>2
  <2>3. TC(i) \in TestIds /\ <<i, "ITEM">> \in TestIds
    BY <2>2, TextFacts DEF TC, TestIds
  <2>4. named(i) \in TestIds
    BY <2>1, <2>3
  <2> HIDE DEF named
  <2> QED
    BY <2>1, <2>4, TextFacts DEF RowShape
<1>4. all \in [1 .. Len(rows) -> RowShape]
  <2> HIDE DEF row, rows
  <2> QED
    BY <1>2, <1>3
<1>5. Rows(upload) = Kept(all, {i \in DOMAIN rows : upload.format = "json" => SaysTest(rows[i].id)})
  BY DEF Rows
<1> HIDE DEF all, rows
<1>6. all \in Seq(RowShape)
  BY <1>2, <1>4, FunctionIsSeq
<1> QED
  BY <1>5, <1>6, KeptSeq

\* There is a last row with the id of a row.
LEMMA LastRowIsRow ==
    ASSUME NEW S, NEW rows \in Seq(S), NEW i \in 1 .. Len(rows) PROVE LastRow(rows, rows[i].id) \in S
<1> DEFINE with == {j \in DOMAIN rows : rows[j].id = rows[i].id}
<1>1. Len(rows) \in Nat /\ DOMAIN rows = 1 .. Len(rows)
  BY LenProperties
<1>2. with \in SUBSET (1 .. Len(rows)) /\ with # {}
  BY <1>1
<1>3. LastRow(rows, rows[i].id) = rows[Max(with)]
  BY DEF LastRow
<1> HIDE DEF with
<1>4. Max(with) \in with
  BY <1>1, <1>2, GreatestOf
<1>5. Max(with) \in 1 .. Len(rows)
  BY <1>2, <1>4
<1> QED
  BY <1>3, <1>5, ElementOfSeq

\* The rows by id are rows.
LEMMA RowsByIdSeq == ASSUME NEW S, NEW rows \in Seq(S) PROVE RowsById(rows) \in Seq(S)
<1> DEFINE last == [i \in DOMAIN rows |-> LastRow(rows, rows[i].id)]
<1>1. Len(rows) \in Nat /\ DOMAIN rows = 1 .. Len(rows)
  BY LenProperties
<1>2. last \in [1 .. Len(rows) -> S]
  BY <1>1, LastRowIsRow
<1>3. RowsById(rows) = NewOnes(last, [i \in DOMAIN rows |-> rows[i].id], {})
  BY DEF RowsById
<1> HIDE DEF last
<1>4. last \in Seq(S)
  BY <1>1, <1>2, FunctionIsSeq
<1> QED
  BY <1>3, <1>4, NewOnesSeq

\* Every id of a row is the id of a row by id.
LEMMA RowsByIdHave ==
    ASSUME NEW rows \in Seq(RowShape), NEW id \in Ids(rows) PROVE id \in Ids(RowsById(rows))
<1> DEFINE last == [i \in DOMAIN rows |-> LastRow(rows, rows[i].id)]
           keys == [i \in DOMAIN rows |-> rows[i].id]
           I == FirstPlaces(keys, {})
<1>1. Len(rows) \in Nat /\ DOMAIN rows = 1 .. Len(rows)
  BY LenProperties
<1>2. PICK i \in 1 .. Len(rows) : rows[i].id = id
  BY IdsOf
<1>3. /\ last \in [1 .. Len(rows) -> RowShape] /\ DOMAIN keys = 1 .. Len(rows)
      /\ \A x \in 1 .. Len(rows) : keys[x] = rows[x].id /\ last[x] = LastRow(rows, rows[x].id)
  BY <1>1, LastRowIsRow
<1>4. RowsById(rows) = Kept(last, I)
  BY NewOnesAre DEF RowsById
<1> HIDE DEF last, keys
<1>5. PICK q \in I : q \in 1 .. i /\ keys[q] = keys[i]
  BY <1>1, <1>3, FirstPlace
<1>6. q \in 1 .. Len(rows) /\ rows[q].id = id
  BY <1>1, <1>2, <1>3, <1>5
<1> HIDE DEF I
<1>7. last[q].id = id
  <2> DEFINE with == {j \in DOMAIN rows : rows[j].id = rows[q].id}
  <2>1. with \in SUBSET (1 .. Len(rows)) /\ with # {}
    BY <1>1, <1>6
  <2>2. LastRow(rows, rows[q].id) = rows[Max(with)]
    BY DEF LastRow
  <2>3. \A x \in with : rows[x].id = id
    BY <1>6
  <2> HIDE DEF with
  <2>4. Max(with) \in with
    BY <1>1, <2>1, GreatestOf
  <2>5. last[q] = LastRow(rows, rows[q].id)
    BY <1>3, <1>6
  <2> QED
    BY <2>2, <2>3, <2>4, <2>5
<1>8. last \in Seq(RowShape) /\ Len(last) = Len(rows)
  BY <1>1, <1>3, FunctionIsSeq, LenProperties
<1>9. PICK j \in 1 .. Len(Kept(last, I)) : Kept(last, I)[j] = last[q]
  BY <1>6, <1>8, KeptAll
<1>10. Kept(last, I) \in Seq(RowShape)
  BY <1>8, KeptSeq
<1> QED
  BY <1>4, <1>7, <1>9, <1>10, IdsOf

\* A row that is kept as a visit goes to a page: its own, or the first that the scan has.
LEMMA RowIsSafe ==
    ASSUME NEW author, NEW scan \in ScanShape, scan.routes # <<>>, NEW row \in RowShape
    PROVE  RowCase(row, scan) \in SafeCases(scan, author)
<1> DEFINE path == IF row.route # Absent THEN row.route ELSE scan.routes[1].path
<1>1. path \in Texts
  <2>1. scan.routes \in Seq(Pages)
    BY DEF ScanShape
  <2>2. 1 \in DOMAIN scan.routes
    BY <2>1, LenProperties, EmptySeq
  <2>3. scan.routes[1].path \in Texts
    BY <2>2, RoutesOf
  <2> QED
    BY <2>3 DEF RowShape
<1>2. RowCase(row, scan) = [id |-> row.id, stem |-> row.id, route |-> path, kind |-> "positive", by |-> "row",
                            textual |-> FALSE, steps |-> <<Navigate(path, Absent)>>]
  BY DEF RowCase
<1> HIDE DEF path
<1>3. Navigate(path, Absent) \in SafeSteps(scan, path, author) /\ Navigate(path, Absent) \in Steps
  BY <1>1, NavigateIsSafe, TextFacts DEF SafeSteps
<1>4. <<Navigate(path, Absent)>> \in Seq(SafeSteps(scan, path, author)) /\ <<Navigate(path, Absent)>> \in Seq(Steps)
  BY <1>3
<1>5. RowCase(row, scan) \in PlanCases
  <2>1. row.id \in TestIds
    BY DEF RowShape
  <2>2. "positive" \in Texts /\ "row" \in Texts
    BY TextFacts
  <2> DEFINE steps == <<Navigate(path, Absent)>>
  <2>3. steps \in Seq(Steps)
    BY <1>4
  <2>4. RowCase(row, scan) = [id |-> row.id, stem |-> row.id, route |-> path, kind |-> "positive", by |-> "row",
                              textual |-> FALSE, steps |-> steps]
    BY <1>2
  <2> HIDE DEF steps
  <2> QED
    BY <1>1, <2>1, <2>2, <2>3, <2>4 DEF PlanCases
<1>6. RowCase(row, scan).route = path /\ RowCase(row, scan).steps = <<Navigate(path, Absent)>>
  BY <1>2
<1> QED
  BY <1>4, <1>5, <1>6 DEF SafeCases

---------------------------------------------------------------------------
(* From the start to the end of a request: what a provider plans has the   *)
(* shape of a plan, what passes the validation or comes from the built-in  *)
(* planner is safe, and so is everything the endpoint makes of it; the     *)
(* last step numbers it and has cut it.                                    *)
Models == {"ollama", "gemini", "hosted"}
RequestHasScan ==
    /\ pc # "idle" => request \in RequestShape
    /\ pc \notin {"idle", "refused"} => request.scan.routes # <<>>
PlanIsSafe ==
    /\ pc = "validate" => plan \in Seq(PlanCases)
    /\ pc = "validate" /\ request.provider \notin Models
       => plan \in Seq(SafeCases(request.scan, "built-in"))
    /\ pc \in {"fit", "assemble"} => plan \in Seq(SafeCases(request.scan, Author))
CasesSafe == pc \in {"retain", "select", "done"} => cases \in Seq(SafeCases(request.scan, Author))
RowsAreThere == pc = "select" => UploadedIds(request) \subseteq Ids(cases)
PlanningIInv == RequestHasScan /\ PlanIsSafe /\ CasesSafe /\ RowsAreThere /\ PlanFitsRequest

\* What may be asked for has the shape of a request.
LEMMA Requested == ASSUME NEW r \in Request PROVE r \in RequestShape
<1>1. Scans \subseteq ScanShape /\ Uploads \subseteq UploadShape
  BY ScanShapes, UploadShapes DEF ScanShape, UploadShape
<1>2. Counts \subseteq Nat
  BY PlanningBounds
<1> QED
  BY <1>1, <1>2 DEF Request, RequestShape

\* The steps that only lead from one stage before the validation to another.
LEMMA OnTheWay ==
    ASSUME PlanningIInv, pc \notin {"idle", "refused"}, request' = request,
           pc' \in {"health", "post", "built_in", "refused"}
    PROVE  PlanningIInv'
BY DEF PlanningIInv, RequestHasScan, PlanIsSafe, CasesSafe, RowsAreThere, PlanFitsRequest

\* generate_test refuses a scan without routes, so the others have one.
LEMMA StartKeeps == ASSUME PlanningIInv, NEW r \in Request, Start(r) PROVE PlanningIInv'
<1>1. r \in RequestShape
  BY Requested
<1>2. /\ request' = r /\ pc' \in {"refused", "health", "post", "built_in"}
      /\ pc' # "refused" => r.scan.routes # <<>>
  BY DEF Start, FirstStage
<1> QED
  BY <1>1, <1>2 DEF PlanningIInv, RequestHasScan, PlanIsSafe, CasesSafe, RowsAreThere, PlanFitsRequest

\* Health check, post, retries, failures and answers: a provider's answer is a plan, no more.
LEMMA ProviderKeeps ==
    ASSUME PlanningIInv,
           \/ HealthCheck \/ PostRefused \/ \E why \in DOMAIN FailureOf : PostFails(why)
           \/ OllamaAnswers \/ GeminiAnswers \/ HostedAnswers
    PROVE  PlanningIInv'
<1>1. ASSUME NEW p, p \in Seq(PlanCases), pc = "post", request.provider \in Models, Planned(p)
      PROVE  PlanningIInv'
  BY <1>1 DEF Planned, PlanningIInv, RequestHasScan, PlanIsSafe, CasesSafe, RowsAreThere, PlanFitsRequest
<1>2. \A p \in ProviderPlans \cup {<<>>} : p \in Seq(PlanCases)
  BY PlanShapes, EmptySeq
<1>3. CASE HealthCheck
  BY <1>3, OnTheWay DEF HealthCheck, FallBack
<1>4. CASE PostRefused
  BY <1>4, OnTheWay DEF PostRefused, FallBack
<1>5. ASSUME NEW why \in DOMAIN FailureOf, PostFails(why) PROVE PlanningIInv'
  BY <1>5, OnTheWay DEF PostFails, FallBack
<1>6. CASE OllamaAnswers
  BY <1>1, <1>2, <1>6 DEF OllamaAnswers, Models
<1>7. ASSUME pc = "post", NEW category, FallBack(category) PROVE PlanningIInv'
  BY <1>7, OnTheWay DEF FallBack
<1>8. CASE GeminiAnswers
  BY <1>1, <1>2, <1>7, <1>8 DEF GeminiAnswers, Models
<1>9. CASE HostedAnswers
  BY <1>1, <1>2, <1>7, <1>9 DEF HostedAnswers, Models
<1> QED
  BY <1>3, <1>4, <1>5, <1>6, <1>8, <1>9

\* What passes the validation is safe; what does not is forgotten.
LEMMA ValidateKeeps == ASSUME PlanningIInv, ValidatePlan PROVE PlanningIInv'
<1>1. /\ pc = "validate" /\ request' = request /\ plan' = plan /\ plan \in Seq(PlanCases)
      /\ request.provider \notin Models => plan \in Seq(SafeCases(request.scan, "built-in"))
      /\ pc' = "fit" => GroundingFault(request.scan, plan) = "" /\ fault' = ""
      /\ pc' \in {"fit", "built_in"}
  BY DEF ValidatePlan, PlanningIInv, PlanIsSafe
<1>2. CASE pc' = "fit"
  <2>1. plan \in Seq(SafeCases(request.scan, Author'))
    <3>1. CASE request.provider \in Models
      <4>1. Author' = "provider"
        BY <1>1, <1>2, <3>1 DEF Author, BuiltIn, Models
      <4>2. Author' # "built-in"
        BY <4>1
      <4> QED
        BY <1>1, <1>2, <4>2, ValidIsSafe
    <3>2. CASE request.provider \notin Models
      <4>1. Author' = "built-in"
        <5>1. request.provider \in Providers
          BY <1>1 DEF PlanningIInv, RequestHasScan, RequestShape
        <5> QED
          BY <1>1, <3>2, <5>1 DEF Author, BuiltIn, Models, Providers
      <4> QED
        BY <1>1, <3>2, <4>1
    <3> QED
      BY <3>1, <3>2
  <2> QED
    BY <1>1, <1>2, <2>1 DEF PlanningIInv, RequestHasScan, PlanIsSafe, CasesSafe, RowsAreThere, PlanFitsRequest
<1>3. CASE pc' = "built_in"
  BY <1>1, <1>3, OnTheWay
<1> QED
  BY <1>1, <1>2, <1>3

\* Who wrote the plan is settled when it is made.
LEMMA AuthorStays == ASSUME UNCHANGED <<request, fault>> PROVE Author' = Author
BY DEF Author, BuiltIn

\* Safe cases are cases.
LEMMA SafeIsPlan == ASSUME NEW author, NEW scan, NEW s \in Seq(SafeCases(scan, author)) PROVE s \in Seq(PlanCases)
BY SeqMonotonic DEF SafeCases

\* The built-in plan is safe, whether or not it is validated.
LEMMA BuiltInKeeps == ASSUME PlanningIInv, PlanBuiltIn PROVE PlanningIInv'
<1> DEFINE P == DeterministicPlan(request)
<1>1. request \in RequestShape /\ pc = "built_in"
  BY DEF PlanBuiltIn, PlanningIInv, RequestHasScan
<1>2. P \in Seq(SafeCases(request.scan, "built-in")) /\ P \in Seq(SafeCases(request.scan, Author))
  BY <1>1, BuiltInIsSafe
<1>3. P \in Seq(PlanCases)
  BY <1>2, SafeIsPlan
<1>4. plan' = P /\ request' = request /\ fault' = fault /\ pc' \in {"validate", "fit"}
  BY DEF PlanBuiltIn
<1>5. Author' = Author
  BY <1>4, AuthorStays
<1> HIDE DEF P
<1> QED
  BY <1>1, <1>2, <1>3, <1>4, <1>5
     DEF PlanningIInv, RequestHasScan, PlanIsSafe, CasesSafe, RowsAreThere, PlanFitsRequest

\* It is left, expanded or cut.
LEMMA FitKeeps == ASSUME PlanningIInv, FitPlan PROVE PlanningIInv'
<1> DEFINE S == SafeCases(request.scan, Author)
           longer == Expanded(plan, request.count, request.scan)
           first == UploadedFirst(plan, UploadedIds(request))
<1>1. request \in RequestShape /\ pc = "fit" /\ plan \in Seq(S)
  BY DEF FitPlan, PlanningIInv, RequestHasScan, PlanIsSafe
<1>2. request.scan \in ScanShape /\ request.count \in Nat
  BY <1>1 DEF RequestShape
<1>3. longer \in Seq(S)
  BY <1>1, <1>2, ExpansionIsSafe
<1>4. first \in Seq(S)
  <2> HIDE DEF S
  <2> QED
    BY <1>1, UploadedFirstSeq
<1> HIDE DEF first, longer, S
<1>5. AtMost(request.count, first) \in Seq(S)
  BY <1>2, <1>4, AtMostSeq
<1>6. plan' \in {plan, longer, AtMost(request.count, first)} /\ request' = request /\ fault' = fault /\ pc' = "assemble"
  BY DEF FitPlan, first, longer
<1>7. plan' \in Seq(S)
  BY <1>1, <1>3, <1>5, <1>6
<1>8. Author' = Author
  BY <1>6, AuthorStays
<1> QED
  BY <1>1, <1>6, <1>7, <1>8 DEF S, PlanningIInv, RequestHasScan, PlanIsSafe, CasesSafe, RowsAreThere, PlanFitsRequest

\* It is read, or the second planner takes its place.
LEMMA AssembleKeeps == ASSUME PlanningIInv, Assemble PROVE PlanningIInv'
<1>1. request \in RequestShape /\ pc = "assemble" /\ plan \in Seq(SafeCases(request.scan, Author))
  BY DEF Assemble, PlanningIInv, RequestHasScan, PlanIsSafe
<1>2. request.scan \in ScanShape
  BY <1>1 DEF RequestShape
<1>3. /\ cases' \in {Assembled(plan), BuildTestCases(request.scan)}
      /\ request' = request /\ fault' = fault /\ pc' = "retain"
  BY DEF Assemble
<1>4. cases' \in Seq(SafeCases(request.scan, Author))
  BY <1>1, <1>2, <1>3, AssembledIsSafe, ServiceIsSafe
<1>5. Author' = Author
  BY <1>3, AuthorStays
<1> QED
  BY <1>1, <1>3, <1>4, <1>5 DEF PlanningIInv, RequestHasScan, PlanIsSafe, CasesSafe, RowsAreThere, PlanFitsRequest

\* The rows that are missing are added as visits, so that every id of the user is there.
LEMMA RetainKeeps == ASSUME PlanningIInv, RetainRows PROVE PlanningIInv'
<1> DEFINE S == SafeCases(request.scan, Author)
           rows == RowsById(Rows(request.upload))
           missing == OtherCases(rows, Ids(cases))
           kept == [k \in DOMAIN missing |-> RowCase(missing[k], request.scan)]
<1>1. /\ request \in RequestShape /\ request.scan.routes # <<>> /\ pc = "retain" /\ cases \in Seq(S)
  BY DEF RetainRows, PlanningIInv, RequestHasScan, CasesSafe
<1>2. request.scan \in ScanShape /\ request.upload \in UploadShape
  BY <1>1 DEF RequestShape
<1>3. rows \in Seq(RowShape)
  BY <1>2, RowsAreRows, RowsByIdSeq
<1>4. cases' = cases \o kept /\ request' = request /\ fault' = fault /\ pc' = "select"
  BY DEF RetainRows
<1>b. Author' = Author
  BY <1>4, AuthorStays
<1> HIDE DEF rows, S
<1>5. missing \in Seq(RowShape)
  BY <1>3, KeptSeq DEF OtherCases
<1> HIDE DEF missing
<1>6. Len(missing) \in Nat /\ DOMAIN missing = 1 .. Len(missing)
  BY <1>5, LenProperties
<1>7. ASSUME NEW k \in 1 .. Len(missing) PROVE RowCase(missing[k], request.scan) \in S
  <2>1. missing[k] \in RowShape
    BY <1>5, ElementOfSeq
  <2> QED
    BY <1>1, <1>2, <2>1, RowIsSafe DEF S
<1>8. kept \in [1 .. Len(missing) -> S]
  BY <1>6, <1>7
<1>a. \A k \in 1 .. Len(missing) : kept[k].id = missing[k].id
  BY <1>6 DEF RowCase
<1> HIDE DEF kept
<1>9. kept \in Seq(S) /\ Len(kept) = Len(missing)
  BY <1>6, <1>8, FunctionIsSeq, LenProperties
<1>10. cases' \in Seq(S)
  BY <1>1, <1>4, <1>9, ConcatProperties
<1>11. ASSUME NEW id \in UploadedIds(request) PROVE id \in Ids(cases')
  <2>1. id \in Ids(Rows(request.upload)) /\ Rows(request.upload) \in Seq(RowShape)
    BY <1>2, RowsAreRows DEF UploadedIds
  <2>2. id \in Ids(rows)
    BY <2>1, RowsByIdHave DEF rows
  <2>3. PICK i \in 1 .. Len(rows) : rows[i].id = id
    BY <1>3, <2>2, IdsOf
  <2>4. /\ Len(cases) \in Nat
        /\ \A j \in 1 .. Len(cases) : j \in 1 .. Len(cases') /\ cases'[j] = cases[j]
        /\ \A j \in 1 .. Len(kept) : Len(cases) + j \in 1 .. Len(cases') /\ cases'[Len(cases) + j] = kept[j]
    <3>1. Len(cases) \in Nat /\ Len(kept) \in Nat
      BY <1>1, <1>9, LenProperties
    <3>2. /\ Len(cases') = Len(cases) + Len(kept)
          /\ \A j \in 1 .. Len(cases) + Len(kept) :
                cases'[j] = IF j <= Len(cases) THEN cases[j] ELSE kept[j - Len(cases)]
      <4> DEFINE both == cases \o kept
      <4>1. /\ Len(both) = Len(cases) + Len(kept)
            /\ \A j \in 1 .. Len(cases) + Len(kept) :
                  both[j] = IF j <= Len(cases) THEN cases[j] ELSE kept[j - Len(cases)]
        BY <1>1, <1>9, ConcatProperties
      <4>2. cases' = both
        BY <1>4
      <4> HIDE DEF both
      <4> QED
        BY <4>1, <4>2
    <3> QED
      BY <3>1, <3>2
  <2>5. Ids(cases') = {cases'[j].id : j \in 1 .. Len(cases')} /\ Ids(cases) = {cases[j].id : j \in 1 .. Len(cases)}
    BY <1>1, <1>10, IdsOf
  <2>6. CASE id \in Ids(cases)
    BY <2>4, <2>5, <2>6
  <2>7. CASE id \notin Ids(cases)
    <3>1. PICK j \in 1 .. Len(missing) : missing[j] = rows[i]
      BY <1>3, <2>3, <2>7, OthersHave DEF missing
    <3>2. kept[j].id = id /\ j \in 1 .. Len(kept)
      BY <1>9, <1>a, <2>3, <3>1
    <3> QED
      BY <2>4, <2>5, <3>2
  <2> QED
    BY <2>6, <2>7
<1> QED
  BY <1>1, <1>4, <1>b, <1>10, <1>11 DEF S, PlanningIInv, RequestHasScan, PlanIsSafe, CasesSafe, RowsAreThere, PlanFitsRequest

\* The selection cuts, and the numbering keeps the length.
LEMMA SelectKeeps == ASSUME PlanningIInv, SelectAndNumber PROVE PlanningIInv'
<1> DEFINE selected == Selected(cases, request)
           N == Len(selected)
<1>1. request \in RequestShape /\ pc = "select" /\ cases \in Seq(SafeCases(request.scan, Author))
  BY DEF SelectAndNumber, PlanningIInv, RequestHasScan, CasesSafe
<1>2. /\ selected \in Seq(SafeCases(request.scan, Author)) /\ N \in Nat
      /\ request.count > 0 => N <= request.count
  BY <1>1, SelectedIsSafe, LenProperties
<1>3. cases' = Numbered(selected) /\ request' = request /\ fault' = fault /\ pc' = "done"
  BY DEF SelectAndNumber
<1>a. Author' = Author
  BY <1>3, AuthorStays
<1>4. Numbered(selected) \in Numbering(request.scan, Author, selected, N)
  <2> HIDE DEF selected
  <2> QED
    BY <1>2, NumberedKeeps
<1> HIDE DEF selected, N
<1>5. /\ cases' \in Seq(SafeCases(request.scan, Author)) /\ Len(cases') = N
      /\ \A i, j \in 1 .. N : cases'[i].id = cases'[j].id => i = j
  BY <1>3, <1>4 DEF Numbering
<1>6. DOMAIN cases' = 1 .. N
  BY <1>5, LenProperties
<1>7. PlanFitsRequest'
  BY <1>2, <1>3, <1>5, <1>6 DEF PlanFitsRequest
<1> QED
  BY <1>1, <1>3, <1>a, <1>5, <1>7 DEF PlanningIInv, RequestHasScan, PlanIsSafe, CasesSafe, RowsAreThere

\* Every step keeps the invariant.
LEMMA PlanningInductive == PlanningIInv /\ [PlanningNext]_planningVars => PlanningIInv'
<1> SUFFICES ASSUME PlanningIInv, [PlanningNext]_planningVars PROVE PlanningIInv'
  OBVIOUS
<1>1. ASSUME NEW r \in Request, Start(r) PROVE PlanningIInv'
  BY <1>1, StartKeeps
<1>2. CASE PlanStep
  BY <1>2, ProviderKeeps, ValidateKeeps, BuiltInKeeps, FitKeeps, AssembleKeeps, RetainKeeps, SelectKeeps DEF PlanStep
<1>3. CASE ForgetJobs
  BY <1>3 DEF ForgetJobs, PlanningIInv, RequestHasScan, PlanIsSafe, CasesSafe, RowsAreThere, PlanFitsRequest
<1>4. CASE UNCHANGED planningVars
  <2>1. UNCHANGED <<pc, request, fault, plan, cases>>
    BY <1>4 DEF planningVars
  <2>2. Author' = Author
    BY <2>1, AuthorStays
  <2> QED
    BY <2>1, <2>2 DEF PlanningIInv, RequestHasScan, PlanIsSafe, CasesSafe, RowsAreThere, PlanFitsRequest
<1> QED
  BY <1>1, <1>2, <1>3, <1>4 DEF PlanningNext

(* The stages of a planning request keep their invariant: behind the       *)
(* validation or the built-in planner every plan is safe and grounded, and *)
(* the answer fits the request.                                            *)
THEOREM PlanningInvariance == PlanningSpec => []PlanningIInv
<1>1. PlanningInit => PlanningIInv
  BY DEF PlanningInit, PlanningIInv, RequestHasScan, PlanIsSafe, CasesSafe, RowsAreThere, PlanFitsRequest
<1> QED
  BY <1>1, PlanningInductive, PTL DEF PlanningSpec

(* Whatever a provider answers, whatever is uploaded and however many      *)
(* cases are asked for: no step of a plan that the endpoint returns, but a *)
(* visit, has a destructive word for a label, and each that needs a        *)
(* control says the label or the selector of one on the route of its case; *)
(* what the built-in planners write is on one that is neither blocked nor  *)
(* destructive (validate_plan_grounding, DeterministicAdapter,             *)
(* _expand_grounded_cases_to_requested_count, build_test_cases).           *)
THEOREM PlanIsGrounded == PlanningSpec => []PlanIsSafeAndGrounded
<1>1. PlanningIInv => PlanIsSafeAndGrounded
  <2> SUFFICES ASSUME PlanningIInv, pc = "done", NEW c \in ToSet(cases), NEW s \in ToSet(c.steps)
               PROVE  s \in SafeSteps(request.scan, c.route, Author)
    BY DEF PlanIsSafeAndGrounded, SafeSteps, Author
  <2>1. cases \in Seq(SafeCases(request.scan, Author))
    BY DEF PlanningIInv, CasesSafe
  <2>2. c \in SafeCases(request.scan, Author)
    BY <2>1, LenProperties, ElementOfSeq DEF ToSet
  <2>3. c.steps \in Seq(SafeSteps(request.scan, c.route, Author))
    BY <2>2 DEF SafeCases
  <2> QED
    BY <2>3, LenProperties, ElementOfSeq DEF ToSet
<1> QED
  BY <1>1, PlanningInvariance, PTL

(* What the endpoint returns is no longer than what was asked for, and its *)
(* ids are distinct, for every provider, upload and count.                 *)
THEOREM PlanFits == PlanningSpec => []PlanFitsRequest
<1>1. PlanningIInv => PlanFitsRequest
  BY DEF PlanningIInv
<1> QED
  BY <1>1, PlanningInvariance, PTL

(* The selection drops a row only for the two reasons of RowsComeFirst:    *)
(* the user's cases are in front, what is kept of them is in front, and    *)
(* what is cut is at the end.                                              *)
LEMMA SelectionKeepsRows ==
    ASSUME PlanningIInv, SelectAndNumber, NEW id \in UploadedIds(request) \ Ids(cases'),
           NEW users, users = {c \in ToSet(cases) : c.id \in UploadedIds(request)}
    PROVE  \/ \E c, d \in users : c.id = id /\ d # c /\ Fingerprint(c) = Fingerprint(d)
           \/ /\ Len(cases') = request.count
              /\ \A e \in ToSet(cases') : \E c \in users : SameTest(c, e)
<1> DEFINE S == SafeCases(request.scan, Author)
           known == UploadedIds(request)
           theirs == SelectCases(cases, known)
           others == OtherCases(cases, known)
           all == theirs \o others
           keys == [i \in DOMAIN all |-> Fingerprint(all[i])]
           I == FirstPlaces(keys, {})
           once == Kept(all, I)
           selected == AtMost(request.count, once)
           k == Len(theirs)
<1>1. request \in RequestShape /\ cases \in Seq(S) /\ known \subseteq Ids(cases)
  BY DEF SelectAndNumber, PlanningIInv, RequestHasScan, CasesSafe, RowsAreThere
<1>2. cases' = Numbered(selected)
  <2>1. Selected(cases, request) = selected
    BY NewOnesAre, UploadedFirstIs DEF Selected, WithoutRepeats
  <2> HIDE DEF selected
  <2> QED
    BY <2>1 DEF SelectAndNumber
<1> HIDE DEF S
<1>3. Len(cases) \in Nat /\ DOMAIN cases = 1 .. Len(cases) /\ Ids(cases) = {cases[i].id : i \in 1 .. Len(cases)}
  BY <1>1, IdsOf, LenProperties
<1>4. users = {cases[i] : i \in {x \in 1 .. Len(cases) : cases[x].id \in known}}
  BY <1>3 DEF ToSet
<1>5. theirs \in Seq(users) /\ theirs \in Seq(S) /\ others \in Seq(S)
  <2>1. \A i \in {x \in DOMAIN cases : cases[x].id \in known} \cap 1 .. Len(cases) : cases[i] \in users
    BY <1>3, <1>4
  <2> QED
    BY <1>1, <2>1, KeptIn, KeptSeq DEF SelectCases, OtherCases
<1>6. \A c \in users : \E p \in 1 .. k : theirs[p] = c
  <2> SUFFICES ASSUME NEW i \in 1 .. Len(cases), cases[i].id \in known
               PROVE  \E p \in 1 .. Len(theirs) : theirs[p] = cases[i]
    BY <1>4
  <2> QED
    BY <1>1, SelectedHave
<1> HIDE DEF theirs, others, known
<1>7. /\ k \in Nat /\ Len(all) \in Nat /\ k <= Len(all) /\ all \in Seq(S) /\ DOMAIN all = 1 .. Len(all)
      /\ \A i \in 1 .. k : i \in 1 .. Len(all) /\ all[i] = theirs[i] /\ all[i] \in users
  <2>1. k \in Nat /\ Len(others) \in Nat /\ \A i \in 1 .. k : theirs[i] \in users
    BY <1>5, LenProperties, ElementOfSeq
  <2>2. /\ all \in Seq(S) /\ Len(all) = k + Len(others)
        /\ \A i \in 1 .. k + Len(others) : all[i] = IF i <= k THEN theirs[i] ELSE others[i - k]
    BY <1>5, ConcatProperties
  <2> HIDE DEF k, all
  <2> QED
    BY <2>1, <2>2, LenProperties
<1>8. DOMAIN keys = 1 .. Len(all) /\ \A i \in 1 .. Len(all) : keys[i] = Fingerprint(all[i])
  BY <1>7
<1> HIDE DEF all, keys, k
<1>9. Begins(all, I, k, users)
  BY <1>7 DEF Begins
<1>10. PICK m : StartsWith(once, m, all, I, k, users)
  <2> HIDE DEF I
  <2> QED
    BY <1>7, <1>9, KeptFirst
<1>11. once \in Seq(S) /\ Len(once) \in Nat
  BY <1>7, KeptSeq, LenProperties
<1>12. PICK c \in users : c.id = id
  <2>1. PICK i \in 1 .. Len(cases) : cases[i].id = id
    BY <1>1, <1>3 DEF known
  <2> QED
    BY <1>4, <2>1 DEF known
<1>13. PICK p \in 1 .. k : all[p] = c
  BY <1>6, <1>7, <1>12
<1>14. PICK q \in I : q \in 1 .. p /\ keys[q] = keys[p]
  <2>1. p \in 1 .. Len(all)
    BY <1>7, <1>13
  <2> QED
    BY <1>7, <1>8, <2>1, FirstPlace
<1> HIDE DEF I
<1>15. q \in I \cap 1 .. k /\ all[q] \in users /\ Fingerprint(all[q]) = Fingerprint(c)
  BY <1>7, <1>8, <1>13, <1>14
<1>16. CASE all[q] # c
  BY <1>12, <1>15, <1>16
<1>17. CASE all[q] = c
  <2>1. PICK w \in 1 .. m : once[w] = c
    BY <1>10, <1>15, <1>17 DEF StartsWith
  <2>2. m \in 0 .. Len(once) /\ w \in 1 .. Len(once) /\ \A j \in 1 .. m : once[j] \in users
    BY <1>10, <1>11, <2>1 DEF StartsWith
  <2>3. request.count \in Nat
    BY <1>1 DEF RequestShape
  <2>4. selected \in Seq(S) /\ Len(selected) \in Nat
    BY <1>11, <2>3, AtMostSeq, LenProperties
  <2> HIDE DEF once
  <2>5. \/ selected = once
        \/ /\ Len(selected) = request.count
           /\ \A i \in 1 .. request.count : selected[i] = once[i]
    BY <1>11, <2>3, CutAt
  <2> HIDE DEF selected
  <2>6. cases' \in Numbering(request.scan, Author, selected, Len(selected))
    BY <1>2, <2>4, NumberedKeeps DEF S
  <2>7. /\ cases' \in Seq(S) /\ Len(cases') = Len(selected)
        /\ \A i \in 1 .. Len(selected) : selected[i].id \in Ids(cases') /\ SameTest(selected[i], cases'[i])
    BY <2>6 DEF Numbering, S
  <2>8. w \notin 1 .. Len(selected) \/ selected[w] # c
    BY <1>12, <2>7
  <2>9. /\ Len(selected) = request.count /\ request.count < w
        /\ \A i \in 1 .. request.count : selected[i] = once[i]
    BY <2>1, <2>2, <2>3, <2>5, <2>8
  <2>10. ASSUME NEW e \in ToSet(cases') PROVE \E d \in users : SameTest(d, e)
    <3>1. PICK j \in 1 .. Len(selected) : cases'[j] = e
      BY <2>7, LenProperties DEF ToSet
    <3>2. j \in 1 .. m /\ selected[j] = once[j]
      BY <2>1, <2>2, <2>3, <2>9, <3>1
    <3> QED
      BY <2>2, <2>7, <3>1, <3>2
  <2> QED
    BY <2>7, <2>9, <2>10
<1> QED
  BY <1>16, <1>17

(* Whatever a provider answers and whatever is uploaded: a row of the user *)
(* is dropped only for another one that says the same, or because the      *)
(* user's cases fill the plan.                                             *)
THEOREM RowsFirst == PlanningSpec => RowsComeFirst
<1> DEFINE A == pc = "select" /\ pc' = "done" =>
                LET users == {c \in ToSet(cases) : c.id \in UploadedIds(request)}
                IN  \A id \in UploadedIds(request) \ Ids(cases') :
                      \/ \E c, d \in users : c.id = id /\ d # c /\ Fingerprint(c) = Fingerprint(d)
                      \/ /\ Len(cases') = request.count
                         /\ \A e \in ToSet(cases') : \E c \in users : SameTest(c, e)
<1>1. PlanningIInv /\ [PlanningNext]_planningVars => [A]_planningVars
  <2> SUFFICES ASSUME PlanningIInv, PlanningNext, pc = "select", pc' = "done" PROVE A
    OBVIOUS
  <2>1. SelectAndNumber
    BY DEF PlanningNext, PlanStep, Start, FirstStage, ForgetJobs, HealthCheck, PostRefused, PostFails,
           OllamaAnswers, GeminiAnswers, HostedAnswers, ValidatePlan, PlanBuiltIn, FitPlan, Assemble, RetainRows
  <2> QED
    BY <2>1, SelectionKeepsRows
<1>2. PlanningSpec => [][PlanningNext]_planningVars
  BY DEF PlanningSpec
<1> QED
  BY <1>1, <1>2, PlanningInvariance, PTL DEF RowsComeFirst
===============================================================================
