----------------------- MODULE VerificationJobsProofs -----------------------
(***************************************************************************)
(* Proofs about VerificationJobs for every set of callers, correlations    *)
(* and scenarios and every bound: the types of the tables, the pair of a   *)
(* delivery, the numbers of attempts and the evidence of verdicts; and     *)
(* about the checks that an attempt of a job runs, AssuranceChecks, for    *)
(* every registry, figure, tolerance and window.                           *)
(***************************************************************************)
EXTENDS VerificationJobs, AssuranceChecks, SequenceTheorems, FiniteSetTheorems, WellFoundedInduction, TLAPS

\* The assumptions, constant by constant.
LEMMA Constant ==
    /\ RetryLimit \in Nat /\ MaxManual \in Nat /\ MaxCalls \in Nat
    /\ None \notin Scenarios /\ None \notin Correlations
BY NoneAssumption, BoundAssumption

USE Constant

Places == {"idle", "insert", "write", "bind", "queue", "plan", "execute", "attempt",
           "insertAttempt", "evidence", "conclude", "assign", "assignWrite", "requeue"}

\* What a thread holds: a row is a job, or the correlation id of a delivery.
Call == [pc : Places, job : Nat, row : Job \cup Correlations \cup {None},
         incident : Incident \cup {None}, target : States, verdict : Verdicts \cup {None},
         then : {"idle", "plan", "execute", "concluded"}, fresh : BOOLEAN, scenario : Scenarios \cup {None},
         place : Nat, tries : Nat]

\* By the attempts A and the evidence E of all jobs, job j has an orchestrated attempt
\* with the outcome v, and its evidence.
Backed(A, E, j, v) ==
    \E n \in E[j] : n \in 1..Len(A[j]) /\ A[j][n].outcome = v /\ A[j][n].orchestrated

\* What a call x relies on, with J jobs in the table: its job is there, it has read what it
\* is about to write, its number is at most the next one, and what it has recorded is still
\* recorded.
CallOK(x, J, A, E) ==
    /\ x.pc \notin {"idle", "insert"} => x.job \in 1..J
    /\ x.pc = "insert" => x.row \in Correlations
    /\ x.pc = "requeue" => x.row \in Job
    /\ x.pc = "write" => x.row \in Job /\ x.incident \in Incident
    /\ x.pc = "assignWrite" => x.incident \in Incident
    /\ x.pc \in {"attempt", "insertAttempt", "evidence", "conclude"} => x.verdict \in Verdicts
    /\ x.pc = "insertAttempt" => x.place \in 1 .. Len(A[x.job]) + 1
    /\ x.pc = "evidence" =>
          /\ x.place \in 1..Len(A[x.job])
          /\ A[x.job][x.place].outcome = x.verdict /\ A[x.job][x.place].orchestrated
    /\ x.pc = "conclude" \/ (x.pc = "write" /\ x.then = "concluded")
          => Backed(A, E, x.job, x.verdict)

Tables ==
    /\ TypeOK
    /\ \A j \in DOMAIN jobs : jobs[j].incident \in DOMAIN incidents

\* A correlation id has one incident, and that has one intake job.
Intakes(J, i) == {j \in DOMAIN J : J[j].incident = i /\ J[j].intake}
Pairs ==
    \A i \in DOMAIN incidents : incidents[i].correlation # None =>
        /\ \A k \in DOMAIN incidents : incidents[k].correlation = incidents[i].correlation => k = i
        /\ \E j \in DOMAIN jobs : Intakes(jobs, i) = {j}

Threads ==
    /\ call \in [Callers -> Call]
    /\ \A c \in Callers : CallOK(call[c], Len(jobs), attempts, evidence)

Concluded ==
    \A pair \in concluded :
        \E j \in 1..Len(jobs), v \in Verdicts :
            pair = <<j, v>> /\ Backed(attempts, evidence, j, v)

IInv == Tables /\ Pairs /\ AttemptsAreNumbered /\ Threads /\ Concluded

---------------------------------------------------------------------------
\* No row of a job, an attempt or evidence is ever taken back.
Grown(J, A, E, J2, A2, E2) ==
    /\ J2 >= J
    /\ \A j \in 1..J :
        /\ Len(A2[j]) >= Len(A[j])
        /\ \A n \in 1..Len(A[j]) : A2[j][n] = A[j][n]
        /\ E[j] \subseteq E2[j]

\* What was backed stays so.
LEMMA BackedKept ==
    ASSUME NEW J \in Nat, NEW A, NEW E, NEW J2 \in Nat, NEW A2, NEW E2,
           Grown(J, A, E, J2, A2, E2),
           NEW j \in 1..J, NEW v, Len(A[j]) \in Nat, Len(A2[j]) \in Nat,
           Backed(A, E, j, v)
    PROVE  Backed(A2, E2, j, v)
<1>1. PICK n \in E[j] : n \in 1..Len(A[j]) /\ A[j][n].outcome = v /\ A[j][n].orchestrated
  BY DEF Backed
<1>2. n \in E2[j] /\ n \in 1..Len(A2[j]) /\ A2[j][n] = A[j][n]
  BY <1>1 DEF Grown
<1> QED
  BY <1>1, <1>2 DEF Backed

\* What a call relies on stays true while the tables grow.
LEMMA CallKept ==
    ASSUME NEW J \in Nat, NEW A, NEW E, NEW J2 \in Nat, NEW A2, NEW E2,
           Grown(J, A, E, J2, A2, E2),
           \A j \in 1..J : Len(A[j]) \in Nat /\ Len(A2[j]) \in Nat,
           NEW x \in Call, CallOK(x, J, A, E)
    PROVE  CallOK(x, J2, A2, E2)
<1>1. x.pc \notin {"idle", "insert"} => x.job \in 1..J2
  BY DEF CallOK, Grown
<1>2. x.pc = "insertAttempt" => x.place \in 1 .. Len(A2[x.job]) + 1
  BY DEF CallOK, Grown
<1>3. x.pc = "evidence" =>
          /\ x.place \in 1..Len(A2[x.job])
          /\ A2[x.job][x.place].outcome = x.verdict /\ A2[x.job][x.place].orchestrated
  <2> SUFFICES ASSUME x.pc = "evidence"
               PROVE  /\ x.place \in 1..Len(A2[x.job])
                      /\ A2[x.job][x.place] = A[x.job][x.place]
    BY DEF CallOK
  <2>1. x.job \in 1..J /\ x.place \in 1..Len(A[x.job])
    BY DEF CallOK
  <2>2. /\ Len(A2[x.job]) >= Len(A[x.job])
        /\ \A n \in 1..Len(A[x.job]) : A2[x.job][n] = A[x.job][n]
    BY <2>1 DEF Grown
  <2>3. Len(A[x.job]) \in Nat /\ Len(A2[x.job]) \in Nat
    BY <2>1
  <2> QED
    BY <2>1, <2>2, <2>3
<1>4. x.pc = "conclude" \/ (x.pc = "write" /\ x.then = "concluded")
          => Backed(A2, E2, x.job, x.verdict)
  <2> SUFFICES ASSUME x.pc = "conclude" \/ (x.pc = "write" /\ x.then = "concluded")
               PROVE  Backed(A2, E2, x.job, x.verdict)
    OBVIOUS
  <2>1. x.job \in 1..J /\ Backed(A, E, x.job, x.verdict)
    BY DEF CallOK
  <2> QED
    BY <2>1, BackedKept
<1> QED
  BY <1>1, <1>2, <1>3, <1>4 DEF CallOK

\* The tables as functions.
LEMMA TableShapes ==
    ASSUME TypeOK
    PROVE  /\ Len(jobs) \in Nat /\ DOMAIN jobs = 1..Len(jobs)
           /\ DOMAIN incidents = 1..Len(incidents) /\ Len(incidents) \in Nat
           /\ DOMAIN attempts = 1..Len(jobs) /\ DOMAIN evidence = 1..Len(jobs)
           /\ \A j \in 1..Len(jobs) :
                 /\ jobs[j] \in Job
                 /\ attempts[j] \in Seq(Attempt) /\ Len(attempts[j]) \in Nat
                 /\ DOMAIN attempts[j] = 1..Len(attempts[j])
                 /\ evidence[j] \in SUBSET Nat
           /\ \A i \in 1..Len(incidents) : incidents[i] \in Incident
<1>1. /\ Len(jobs) \in Nat /\ jobs \in [1..Len(jobs) -> Job]
      /\ Len(incidents) \in Nat /\ incidents \in [1..Len(incidents) -> Incident]
      /\ attempts \in [1..Len(jobs) -> Seq(Attempt)]
      /\ evidence \in [1..Len(jobs) -> SUBSET Nat]
  BY LenProperties DEF TypeOK
<1>2. \A j \in 1..Len(jobs) : /\ attempts[j] \in Seq(Attempt) /\ Len(attempts[j]) \in Nat
                              /\ DOMAIN attempts[j] = 1..Len(attempts[j])
  BY <1>1, LenProperties
<1> QED
  BY <1>1, <1>2

\* A step that only moves one thread keeps the invariant when the thread's new record does.
OneThreadMoves ==
    \E c \in Callers : \E x \in Call :
        call' = [call EXCEPT ![c] = x] /\ CallOK(x, Len(jobs), attempts, evidence)

LEMMA ThreadMoves ==
    ASSUME IInv, OneThreadMoves, UNCHANGED <<tables, enabled, concluded>>,
           manual' \in Nat, calls' \in Nat
    PROVE  IInv'
<1> USE DEF tables
<1>1. Tables'
  BY DEF IInv, Tables, TypeOK
<1>2. Pairs'
  BY DEF IInv, Pairs
<1>3. AttemptsAreNumbered'
  BY DEF IInv, AttemptsAreNumbered
<1>4. Threads'
  <2>1. PICK c \in Callers, x \in Call :
            call' = [call EXCEPT ![c] = x] /\ CallOK(x, Len(jobs), attempts, evidence)
    BY DEF OneThreadMoves
  <2>2. call' \in [Callers -> Call]
    BY <2>1 DEF IInv, Threads
  <2>3. \A d \in Callers : call'[d] = x \/ call'[d] = call[d]
    BY <2>1 DEF IInv, Threads
  <2> QED
    BY <2>1, <2>2, <2>3 DEF IInv, Threads
<1>5. Concluded'
  BY DEF IInv, Concluded
<1> QED
  BY <1>1, <1>2, <1>3, <1>4, <1>5 DEF IInv

LEMMA InitIInv == Init => IInv
<1> SUFFICES ASSUME Init PROVE IInv
  OBVIOUS
<1>1. Tables
  BY EmptySeq DEF Init, Tables, TypeOK
<1>2. Threads
  <2>1. Idle \in Call
    <3>1. /\ None \in Job \cup Correlations \cup {None} /\ None \in Incident \cup {None}
          /\ None \in Verdicts \cup {None} /\ None \in Scenarios \cup {None}
      OBVIOUS
    <3> QED
      BY <3>1 DEF Idle, Call, States, Places
  <2>2. CallOK(Idle, Len(jobs), attempts, evidence)
    BY DEF CallOK, Idle
  <2> QED
    BY <2>1, <2>2 DEF Init, Threads
<1>3. DOMAIN incidents = {} /\ DOMAIN jobs = {}
  BY DEF Init
<1> QED
  BY <1>1, <1>2, <1>3 DEF Init, IInv, Pairs, AttemptsAreNumbered, Concluded

---------------------------------------------------------------------------
(* The steps that change no table.  In each the new record of the thread   *)
(* is shown to be one that the tables bear out.                            *)
Unmoved == UNCHANGED <<tables, enabled, concluded>> /\ manual' \in Nat /\ calls' \in Nat

\* A thread that returns holds nothing.
LEMMA IdleIsOK == Idle \in Call /\ \A J, A, E : CallOK(Idle, J, A, E)
<1>1. /\ None \in Job \cup Correlations \cup {None} /\ None \in Incident \cup {None}
      /\ None \in Verdicts \cup {None} /\ None \in Scenarios \cup {None}
  OBVIOUS
<1>2. Idle \in Call
  BY <1>1 DEF Idle, Call, States, Places
<1> QED
  BY <1>2 DEF CallOK, Idle

LEMMA ReturnIsOK ==
    ASSUME NEW c \in Callers, Return(c)
    PROVE  OneThreadMoves
BY IdleIsOK DEF Return, OneThreadMoves

\* What a transition has read is what is in the tables.
LEMMA TransitIsOK ==
    ASSUME IInv, NEW c \in Callers, NEW j \in DOMAIN jobs, NEW target,
           NEW verdict \in Verdicts \cup {None}, NEW then \in {"idle", "plan", "execute", "concluded"},
           then = "concluded" => Backed(attempts, evidence, j, verdict),
           Transit(c, j, target, verdict, then)
    PROVE  OneThreadMoves
<1>1. CASE Return(c)
  BY <1>1, ReturnIsOK
<1>2. CASE ~Return(c)
  <2> DEFINE x == [call[c] EXCEPT !.pc = "write", !.job = j, !.target = target, !.verdict = verdict,
                                  !.then = then, !.row = jobs[j], !.incident = incidents[IncidentOf(j)]]
  <2>1. call' = [call EXCEPT ![c] = x]
    BY <1>2 DEF Transit
  <2>2. call[c] \in Call
    BY DEF IInv, Threads
  <2>3. /\ j \in 1..Len(jobs) /\ Len(jobs) \in Nat
        /\ jobs[j] \in Job /\ incidents[IncidentOf(j)] \in Incident
    BY TableShapes DEF IInv, Tables, IncidentOf
  <2>4. x \in Call
    <3>0. target \in States
      <4>1. target \in Allowed[jobs[j].state] /\ jobs[j].state \in States
        BY <1>2, <2>3 DEF Transit, Job
      <4> QED
        BY <4>1 DEF Allowed, States
    <3>1. /\ "write" \in Places /\ j \in Nat
          /\ jobs[j] \in Job \cup Correlations \cup {None}
          /\ incidents[IncidentOf(j)] \in Incident \cup {None}
      BY <2>3 DEF Places
    <3> QED
      BY <2>2, <3>0, <3>1 DEF Call
  <2>5. CallOK(x, Len(jobs), attempts, evidence)
    BY <2>2, <2>3 DEF CallOK, Call
  <2> QED
    BY <2>1, <2>4, <2>5 DEF OneThreadMoves
<1> QED
  BY <1>1, <1>2

LEMMA IntakeKeeps ==
    ASSUME IInv, NEW c \in Callers, NEW k \in Correlations, Intake(c, k)
    PROVE  IInv'
<1> DEFINE x == [call[c] EXCEPT !.pc = "insert", !.row = k]
<1>1. call[c] \in Call
  BY DEF IInv, Threads
<1>2. x \in Call /\ CallOK(x, Len(jobs), attempts, evidence)
  BY <1>1 DEF Call, Places, CallOK
<1>3. call' = [call EXCEPT ![c] = x]
  BY DEF Intake
<1>4. OneThreadMoves
  BY <1>2, <1>3 DEF OneThreadMoves
<1> QED
  BY <1>4, ThreadMoves DEF Intake, bounds, IInv, Tables, TypeOK

LEMMA OrchestrateKeeps ==
    ASSUME IInv, NEW c \in Callers, NEW j \in DOMAIN jobs, NEW s \in Scenarios, Orchestrate(c, j, s)
    PROVE  IInv'
<1>0. PICK fresh \in BOOLEAN : fresh = (jobs[j].state = "created")
  OBVIOUS
<1> DEFINE x == [Idle EXCEPT !.pc = "bind", !.job = j, !.scenario = s, !.fresh = fresh]
<1>1. j \in 1..Len(jobs) /\ Len(jobs) \in Nat
  BY TableShapes DEF IInv, Tables
<1>2. x \in Call
  <2>1. Idle \in Call /\ "bind" \in Places /\ j \in Nat /\ s \in Scenarios \cup {None}
    BY <1>1, IdleIsOK DEF Places
  <2> QED
    BY <2>1 DEF Call
<1>3. CallOK(x, Len(jobs), attempts, evidence)
  BY <1>1, IdleIsOK DEF CallOK, Call
<1>4. call' = [call EXCEPT ![c] = x]
  BY <1>0 DEF Orchestrate
<1>5. OneThreadMoves
  BY <1>2, <1>3, <1>4 DEF OneThreadMoves
<1>6. UNCHANGED <<tables, enabled, concluded>> /\ manual' \in Nat /\ calls' \in Nat
  BY <1>0 DEF Orchestrate, IInv, Tables, TypeOK
<1> QED
  BY <1>5, <1>6, ThreadMoves

\* The job of a thread that is past its first read.
LEMMA JobOfThread ==
    ASSUME IInv, NEW c \in Callers, call[c].pc \notin {"idle", "insert"}
    PROVE  /\ call[c] \in Call /\ call[c].job \in DOMAIN jobs /\ call[c].job \in 1..Len(jobs)
           /\ jobs[call[c].job] \in Job /\ Len(jobs) \in Nat
           /\ CallOK(call[c], Len(jobs), attempts, evidence)
<1>1. CallOK(call[c], Len(jobs), attempts, evidence) /\ call[c] \in Call
  BY DEF IInv, Threads
<1>2. call[c].job \in 1..Len(jobs)
  BY <1>1 DEF CallOK
<1> QED
  BY <1>1, <1>2, TableShapes DEF IInv, Tables

\* The steps of a thread that do nothing but a transition.
LEMMA TransitKeeps ==
    ASSUME IInv, NEW c \in Callers,
           \/ Enqueue(c) \/ PlanIsReady(c) \/ Conclude(c)
           \/ \E j \in DOMAIN jobs : \E s \in States, v \in Verdicts \cup {None} : TransitionJob(c, j, s, v)
    PROVE  IInv'
<1>0. Unmoved
  BY DEF Enqueue, PlanIsReady, Conclude, TransitionJob, Manual, bounds, Unmoved, IInv, Tables,
         TypeOK
<1>1. CASE Enqueue(c)
  BY <1>0, <1>1, JobOfThread, TransitIsOK, ThreadMoves DEF Enqueue, At, Unmoved
<1>2. CASE PlanIsReady(c)
  BY <1>0, <1>2, JobOfThread, TransitIsOK, ThreadMoves DEF PlanIsReady, At, Unmoved
<1>3. CASE Conclude(c)
  <2>1. call[c].pc = "conclude"
    BY <1>3 DEF Conclude, At
  <2>2. Backed(attempts, evidence, call[c].job, call[c].verdict) /\ call[c].verdict \in Verdicts
    BY <2>1, JobOfThread DEF CallOK
  <2> QED
    BY <1>0, <1>3, <2>1, <2>2, JobOfThread, TransitIsOK, ThreadMoves DEF Conclude, Unmoved
<1>4. CASE \E j \in DOMAIN jobs : \E s \in States, v \in Verdicts \cup {None} : TransitionJob(c, j, s, v)
  <2>1. PICK j \in DOMAIN jobs, s \in States, v \in Verdicts \cup {None} : Transit(c, j, s, v, "idle")
    BY <1>4 DEF TransitionJob
  <2> QED
    BY <1>0, <2>1, TransitIsOK, ThreadMoves DEF Unmoved
<1> QED
  BY <1>1, <1>2, <1>3, <1>4

\* A number that has been read is at most the next one.
LEMMA NextNumberIsNext ==
    ASSUME IInv, NEW j \in DOMAIN jobs
    PROVE  NextNumber(j) = Len(attempts[j]) + 1 /\ Numbers(j) = 1..Len(attempts[j])
<1>1. j \in 1..Len(jobs) /\ DOMAIN attempts[j] = 1..Len(attempts[j]) /\ Len(attempts[j]) \in Nat
      /\ attempts[j] \in Seq(Attempt)
  BY TableShapes DEF IInv, Tables
<1>2. Numbers(j) = 1..Len(attempts[j])
  BY <1>1 DEF Numbers, IInv, AttemptsAreNumbered
<1>3. CASE attempts[j] = <<>>
  BY <1>2, <1>3 DEF NextNumber
<1>4. CASE attempts[j] # <<>>
  <2>1. Len(attempts[j]) >= 1
    BY <1>1, <1>4, EmptySeq
  <2>2. Max(1..Len(attempts[j])) = Len(attempts[j])
    BY <1>1, <2>1 DEF Max
  <2> QED
    BY <1>2, <1>4, <2>2 DEF NextNumber
<1> QED
  BY <1>2, <1>3, <1>4

\* The other steps that only move their thread.
LEMMA MoveKeeps ==
    ASSUME IInv, NEW c \in Callers,
           \/ PlanIsRefused(c) \/ Execute(c) \/ NumberAttempt(c) \/ AutoAssign(c) \/ Lost(c)
           \/ \E j \in DOMAIN jobs :
                Retry(c, j) \/ AssignIncident(c, j) \/ \E v \in Verdicts : AddAttempt(c, j, v)
    PROVE  IInv'
<1>0. Unmoved
  <2>1. manual \in Nat /\ calls \in Nat
    BY DEF IInv, Tables, TypeOK
  <2>2. CASE PlanIsRefused(c) \/ Execute(c) \/ NumberAttempt(c) \/ AutoAssign(c) \/ Lost(c)
    BY <2>1, <2>2 DEF PlanIsRefused, Execute, NumberAttempt, AutoAssign, Lost, bounds, Unmoved
  <2>3. CASE \E j \in DOMAIN jobs :
                Retry(c, j) \/ AssignIncident(c, j) \/ \E v \in Verdicts : AddAttempt(c, j, v)
    <3>1. ASSUME NEW j \in DOMAIN jobs, Retry(c, j) PROVE Unmoved
      <4>1. calls' = calls + 1 /\ UNCHANGED <<tables, enabled, concluded, manual>>
        BY <3>1, Zenon DEF Retry
      <4> QED
        BY <2>1, <4>1 DEF Unmoved
    <3>2. ASSUME NEW j \in DOMAIN jobs, AssignIncident(c, j) PROVE Unmoved
      <4>1. manual' = manual + 1 /\ UNCHANGED <<tables, enabled, concluded, calls>>
        BY <3>2, Zenon DEF AssignIncident, Manual
      <4> QED
        BY <2>1, <4>1 DEF Unmoved
    <3>3. ASSUME NEW j \in DOMAIN jobs, NEW v \in Verdicts, AddAttempt(c, j, v) PROVE Unmoved
      <4>1. manual' = manual + 1 /\ UNCHANGED <<tables, enabled, concluded, calls>>
        BY <3>3, Zenon DEF AddAttempt, Manual
      <4> QED
        BY <2>1, <4>1 DEF Unmoved
    <3> QED
      BY <2>3, <3>1, <3>2, <3>3
  <2> QED
    BY <2>2, <2>3
<1>m. SUFFICES OneThreadMoves
  BY <1>0, ThreadMoves DEF Unmoved
<1>1. CASE PlanIsRefused(c)
  <2> DEFINE x == [call[c] EXCEPT !.pc = "attempt", !.verdict = "blocked"]
  <2>1. call' = [call EXCEPT ![c] = x] /\ call[c].pc = "plan"
    BY <1>1 DEF PlanIsRefused, At
  <2>2. x \in Call /\ CallOK(x, Len(jobs), attempts, evidence)
    <3>1. "blocked" \in Verdicts /\ "attempt" \in Places
      BY DEF Verdicts, Places
    <3>2. x \in Call
      BY <2>1, <3>1, JobOfThread DEF Call
    <3> QED
      BY <2>1, <3>1, <3>2, JobOfThread DEF CallOK, Call
  <2> QED
    BY <2>1, <2>2 DEF OneThreadMoves
<1>2. CASE Execute(c)
  <2>1. PICK v \in Outcomes : call' = [call EXCEPT ![c].pc = "attempt", ![c].verdict = v]
    BY <1>2 DEF Execute
  <2> DEFINE x == [call[c] EXCEPT !.pc = "attempt", !.verdict = v]
  <2>2. v \in Verdicts /\ call[c].pc = "execute" /\ call' = [call EXCEPT ![c] = x]
    BY <1>2, <2>1 DEF Outcomes, Verdicts, Execute, At
  <2>3. x \in Call /\ CallOK(x, Len(jobs), attempts, evidence)
    BY <2>2, JobOfThread, ZenonT(60) DEF Call, Places, CallOK
  <2> QED
    BY <2>2, <2>3 DEF OneThreadMoves
<1>3. CASE NumberAttempt(c)
  <2> DEFINE n == NextNumber(call[c].job)
             x == [call[c] EXCEPT !.pc = "insertAttempt", !.place = n]
  <2>1. call[c].pc = "attempt" /\ (call' = [call EXCEPT ![c] = x] \/ Return(c))
    BY <1>3 DEF NumberAttempt, At
  <2>2. n \in 1 .. Len(attempts[call[c].job]) + 1 /\ n \in Nat
    BY <2>1, JobOfThread, NextNumberIsNext, TableShapes, SMTT(30) DEF IInv, Tables
  <2>3. x \in Call /\ CallOK(x, Len(jobs), attempts, evidence)
    BY <2>1, <2>2, JobOfThread, ZenonT(60) DEF Call, Places, CallOK
  <2> QED
    BY <2>1, <2>3, ReturnIsOK DEF OneThreadMoves
<1>4. CASE AutoAssign(c)
  <2> DEFINE i == incidents[IncidentOf(call[c].job)]
             x == [call[c] EXCEPT !.pc = "assignWrite", !.incident = i]
  <2>1. call[c].pc = "assign" /\ call' = [call EXCEPT ![c] = x]
    BY <1>4 DEF AutoAssign, At
  <2>2. i \in Incident
    BY <2>1, JobOfThread, TableShapes DEF IInv, Tables, IncidentOf
  <2>3. x \in Call /\ CallOK(x, Len(jobs), attempts, evidence)
    BY <2>1, <2>2, JobOfThread, ZenonT(60) DEF Call, Places, CallOK
  <2> QED
    BY <2>1, <2>3 DEF OneThreadMoves
<1>5. CASE Lost(c)
  BY <1>5, ReturnIsOK DEF Lost
<1>6. ASSUME NEW j \in DOMAIN jobs, Retry(c, j)
      PROVE  OneThreadMoves
  <2> DEFINE x == [Idle EXCEPT !.pc = "requeue", !.job = j, !.row = jobs[j]]
  <2>1. call' = [call EXCEPT ![c] = x]
    BY <1>6 DEF Retry
  <2>2. j \in 1..Len(jobs) /\ j \in Nat /\ jobs[j] \in Job /\ Idle \in Call
        /\ jobs[j] \in Job \cup Correlations \cup {None}
    BY TableShapes, IdleIsOK DEF IInv, Tables
  <2>3. x \in Call /\ CallOK(x, Len(jobs), attempts, evidence)
    BY <2>2, ZenonT(60) DEF Call, Places, CallOK
  <2> QED
    BY <2>1, <2>3 DEF OneThreadMoves
<1>7. ASSUME NEW j \in DOMAIN jobs, AssignIncident(c, j)
      PROVE  OneThreadMoves
  <2> DEFINE x == [Idle EXCEPT !.pc = "assign", !.job = j]
  <2>1. call' = [call EXCEPT ![c] = x]
    BY <1>7 DEF AssignIncident
  <2>2. j \in 1..Len(jobs) /\ j \in Nat /\ Idle \in Call
    BY TableShapes, IdleIsOK DEF IInv, Tables
  <2>3. x \in Call /\ CallOK(x, Len(jobs), attempts, evidence)
    BY <2>2, ZenonT(60) DEF Call, Places, CallOK
  <2> QED
    BY <2>1, <2>3 DEF OneThreadMoves
<1>8. ASSUME NEW j \in DOMAIN jobs, NEW v \in Verdicts, AddAttempt(c, j, v)
      PROVE  OneThreadMoves
  <2> DEFINE x == [Idle EXCEPT !.pc = "attempt", !.job = j, !.verdict = v]
  <2>1. call' = [call EXCEPT ![c] = x]
    BY <1>8 DEF AddAttempt
  <2>2. j \in 1..Len(jobs) /\ j \in Nat /\ Idle \in Call
    BY TableShapes, IdleIsOK DEF IInv, Tables
  <2>3. x \in Call /\ CallOK(x, Len(jobs), attempts, evidence)
    BY <2>2, ZenonT(60) DEF Call, Places, CallOK
  <2> QED
    BY <2>1, <2>3 DEF OneThreadMoves
<1> QED
  BY <1>1, <1>2, <1>3, <1>4, <1>5, <1>6, <1>7, <1>8

---------------------------------------------------------------------------
(* The steps that change a table.  The threads that do not move keep what  *)
(* they rely on because the tables only grow.                              *)
TablesGrow == Grown(Len(jobs), attempts, evidence, Len(jobs'), attempts', evidence')

\* call' is call but for the thread c, whose record the new tables bear out.
OneMovesOn(c) ==
    \E x \in Call : call' = [call EXCEPT ![c] = x] /\ CallOK(x, Len(jobs'), attempts', evidence')

LEMMA ThreadsKept ==
    ASSUME IInv, Tables', TablesGrow, \E c \in Callers : OneMovesOn(c)
    PROVE  Threads'
<1>1. PICK c \in Callers, x \in Call :
        call' = [call EXCEPT ![c] = x] /\ CallOK(x, Len(jobs'), attempts', evidence')
  BY DEF OneMovesOn
<1>2. /\ Len(jobs) \in Nat /\ Len(jobs') \in Nat /\ Len(jobs') >= Len(jobs)
      /\ \A j \in 1..Len(jobs) : Len(attempts[j]) \in Nat
      /\ \A j \in 1..Len(jobs') : Len(attempts'[j]) \in Nat
  <2>1. TypeOK'
    BY DEF Tables
  <2>2. Len(jobs') \in Nat /\ \A j \in 1..Len(jobs') : Len(attempts'[j]) \in Nat
    <3>1. /\ jobs' \in Seq(Job)
          /\ attempts' \in Seq(Seq(Attempt)) /\ Len(attempts') = Len(jobs')
      BY <2>1 DEF TypeOK
    <3> QED
      BY <3>1, LenProperties, ElementOfSeq
  <2> QED
    BY <2>2, TableShapes DEF IInv, Tables, TablesGrow, Grown
<1>3. \A j \in 1..Len(jobs) : Len(attempts[j]) \in Nat /\ Len(attempts'[j]) \in Nat
  BY <1>2
<1>4. ASSUME NEW d \in Callers, d # c
      PROVE  CallOK(call[d], Len(jobs'), attempts', evidence')
  BY <1>2, <1>3, CallKept DEF IInv, Threads, TablesGrow
<1>5. \A d \in Callers : call'[d] = IF d = c THEN x ELSE call[d]
  BY <1>1 DEF IInv, Threads
<1>6. call' \in [Callers -> Call]
  BY <1>1 DEF IInv, Threads
<1> QED
  BY <1>1, <1>4, <1>5, <1>6 DEF Threads

\* The verdicts that were given stay backed.
LEMMA ConcludedKept ==
    ASSUME IInv, Tables', TablesGrow, concluded' = concluded
    PROVE  Concluded'
<1>1. TypeOK'
  BY DEF Tables
<1>2. /\ Len(jobs') \in Nat
      /\ \A j \in 1..Len(jobs') : Len(attempts'[j]) \in Nat
  <2>1. /\ jobs' \in Seq(Job)
        /\ attempts' \in Seq(Seq(Attempt)) /\ Len(attempts') = Len(jobs')
    BY <1>1 DEF TypeOK
  <2> QED
    BY <2>1, LenProperties, ElementOfSeq
<1>3. /\ Len(jobs) \in Nat /\ Len(jobs') >= Len(jobs)
      /\ \A j \in 1..Len(jobs) : Len(attempts[j]) \in Nat
  BY TableShapes DEF IInv, Tables, TablesGrow, Grown
<1>4. ASSUME NEW pair \in concluded
      PROVE  \E j \in 1..Len(jobs'), v \in Verdicts :
                pair = <<j, v>> /\ Backed(attempts', evidence', j, v)
  <2>1. PICK j \in 1..Len(jobs), v \in Verdicts :
            pair = <<j, v>> /\ Backed(attempts, evidence, j, v)
    BY DEF IInv, Concluded
  <2>2. j \in 1..Len(jobs') /\ Len(attempts[j]) \in Nat /\ Len(attempts'[j]) \in Nat
    BY <1>2, <1>3
  <2>3. Backed(attempts', evidence', j, v)
    BY <1>2, <1>3, <2>1, <2>2, BackedKept DEF TablesGrow
  <2> QED
    BY <2>1, <2>2, <2>3
<1> QED
  BY <1>4 DEF Concluded

\* A new row of a job is without attempts and evidence.
LEMMA AddJobIsOK ==
    ASSUME IInv, NEW row \in Job, AddJob(row)
    PROVE  /\ TablesGrow /\ AttemptsAreNumbered'
           /\ jobs' \in Seq(Job) /\ Len(jobs') = Len(jobs) + 1 /\ Len(jobs) \in Nat
           /\ \A j \in 1..Len(jobs) : jobs'[j] = jobs[j]
           /\ jobs'[Len(jobs) + 1] = row
           /\ attempts' \in Seq(Seq(Attempt)) /\ Len(attempts') = Len(jobs')
           /\ evidence' \in Seq(SUBSET Nat) /\ Len(evidence') = Len(jobs')
           /\ DOMAIN jobs' = 1 .. Len(jobs) + 1
<1>1. /\ jobs \in Seq(Job) /\ attempts \in Seq(Seq(Attempt)) /\ Len(attempts) = Len(jobs)
      /\ evidence \in Seq(SUBSET Nat) /\ Len(evidence) = Len(jobs)
  BY DEF IInv, Tables, TypeOK
<1>2. <<>> \in Seq(Attempt) /\ Len(<<>>) = 0 /\ {} \in SUBSET Nat
  BY EmptySeq
<1>3. /\ jobs' \in Seq(Job) /\ Len(jobs') = Len(jobs) + 1 /\ Len(jobs) \in Nat
      /\ \A j \in 1..Len(jobs) : jobs'[j] = jobs[j]
      /\ jobs'[Len(jobs) + 1] = row
  BY <1>1, AppendProperties, LenProperties DEF AddJob
<1>4. /\ attempts' \in Seq(Seq(Attempt)) /\ Len(attempts') = Len(jobs) + 1
      /\ \A j \in 1..Len(jobs) : attempts'[j] = attempts[j]
      /\ attempts'[Len(jobs) + 1] = <<>>
  BY <1>1, <1>2, AppendProperties DEF AddJob
<1>5. /\ evidence' \in Seq(SUBSET Nat) /\ Len(evidence') = Len(jobs) + 1
      /\ \A j \in 1..Len(jobs) : evidence'[j] = evidence[j]
  BY <1>1, <1>2, AppendProperties DEF AddJob
<1>6. TablesGrow
  <2>1. \A j \in 1..Len(jobs) : Len(attempts[j]) \in Nat
    BY TableShapes DEF IInv, Tables
  <2>2. Len(jobs) \in Nat /\ Len(jobs') >= Len(jobs)
    BY <1>1, <1>3
  <2>3. ASSUME NEW j \in 1..Len(jobs)
        PROVE  /\ Len(attempts'[j]) >= Len(attempts[j]) /\ evidence[j] \subseteq evidence'[j]
               /\ \A n \in 1..Len(attempts[j]) : attempts'[j][n] = attempts[j][n]
    <3>1. attempts'[j] = attempts[j] /\ evidence'[j] = evidence[j]
      BY <1>4, <1>5
    <3>2. Len(attempts[j]) \in Nat
      BY <2>1
    <3> QED
      BY <3>1, <3>2
  <2> QED
    BY <2>2, <2>3 DEF TablesGrow, Grown
<1>7. DOMAIN jobs' = 1 .. Len(jobs) + 1 /\ DOMAIN jobs = 1..Len(jobs)
  BY <1>1, <1>3, LenProperties
<1>8. AttemptsAreNumbered'
  <2> SUFFICES ASSUME NEW j \in DOMAIN jobs', NEW n \in DOMAIN attempts'[j]
               PROVE  attempts'[j][n].number = n
    BY DEF AttemptsAreNumbered
  <2>1. CASE j \in 1..Len(jobs)
    BY <2>1, <1>4, <1>7 DEF IInv, AttemptsAreNumbered
  <2>2. CASE j = Len(jobs) + 1
    BY <2>2, <1>2, <1>4, LenProperties
  <2> QED
    BY <2>1, <2>2, <1>3, <1>7
<1> QED
  BY <1>3, <1>4, <1>5, <1>6, <1>7, <1>8

\* Rows that are rewritten keep what relates them.
LEMMA RowsRewritten ==
    ASSUME IInv,
           jobs' \in Seq(Job), Len(jobs') = Len(jobs),
           \A j \in 1..Len(jobs) :
                jobs'[j].incident = jobs[j].incident /\ jobs'[j].intake = jobs[j].intake,
           incidents' \in Seq(Incident), Len(incidents') = Len(incidents),
           \A i \in 1..Len(incidents) : incidents'[i].correlation = incidents[i].correlation,
           UNCHANGED <<attempts, evidence, enabled, manual, calls>>
    PROVE  Tables' /\ Pairs' /\ AttemptsAreNumbered' /\ TablesGrow
<1>1. /\ DOMAIN jobs = 1..Len(jobs) /\ DOMAIN jobs' = 1..Len(jobs)
      /\ DOMAIN incidents = 1..Len(incidents) /\ DOMAIN incidents' = 1..Len(incidents)
  BY LenProperties DEF IInv, Tables, TypeOK
<1>2. TypeOK'
  BY DEF IInv, Tables, TypeOK
<1>3. Tables'
  BY <1>1, <1>2 DEF IInv, Tables
<1>4. Pairs'
  <2>1. ASSUME NEW i PROVE Intakes(jobs', i) = Intakes(jobs, i)
    BY <1>1 DEF Intakes
  <2> QED
    BY <1>1, <2>1 DEF IInv, Pairs
<1>5. AttemptsAreNumbered'
  BY <1>1 DEF IInv, AttemptsAreNumbered
<1>6. TablesGrow
  <2>1. Len(jobs) \in Nat /\ \A j \in 1..Len(jobs) : Len(attempts[j]) \in Nat
    BY TableShapes DEF IInv, Tables
  <2> QED
    BY <2>1 DEF TablesGrow, Grown
<1> QED
  BY <1>3, <1>4, <1>5, <1>6

\* A delivery that finds no row inserts the pair.
LEMMA IntakeInsertKeeps ==
    ASSUME IInv, NEW c \in Callers, IntakeInsert(c)
    PROVE  IInv'
<1>1. CASE UNCHANGED tables
  <2>1. OneThreadMoves
    BY ReturnIsOK DEF IntakeInsert
  <2> QED
    BY <1>1, <2>1, ThreadMoves DEF IntakeInsert, bounds, IInv, Tables, TypeOK
<1>2. CASE UniqueCorrelation(call[c].row) /\ InsertIncident(call[c].row)
  <2> DEFINE k == call[c].row
             L == Len(incidents)
             pair == [correlation |-> k, status |-> "open", last |-> "pending"]
             row == [incident |-> L + 1, state |-> "created", verdict |-> "pending",
                     scenario |-> None, limit |-> RetryLimit, intake |-> TRUE]
  <2>1. k \in Correlations /\ k # None
    BY DEF IntakeInsert, At, IInv, Threads, CallOK
  <2>2. /\ L \in Nat /\ incidents \in Seq(Incident)
        /\ DOMAIN incidents = 1..L /\ DOMAIN jobs = 1..Len(jobs)
    BY TableShapes DEF IInv, Tables, TypeOK
  <2>3. pair \in Incident /\ row \in Job
    <3>1. None \in Scenarios \cup {None} /\ k \in Correlations \cup {None} /\ TRUE \in BOOLEAN
      BY <2>1
    <3> QED
      BY <2>2, <3>1 DEF Incident, Job, States, Verdicts
  <2>4. incidents' = Append(incidents, pair) /\ AddJob(row)
    BY <1>2 DEF InsertIncident
  <2>5. /\ incidents' \in Seq(Incident) /\ Len(incidents') = L + 1
        /\ \A i \in 1..L : incidents'[i] = incidents[i]
        /\ incidents'[L + 1] = pair /\ DOMAIN incidents' = 1 .. L + 1
    BY <2>2, <2>3, <2>4, AppendProperties, LenProperties
  <2>6. /\ TablesGrow /\ AttemptsAreNumbered'
        /\ jobs' \in Seq(Job) /\ DOMAIN jobs' = 1 .. Len(jobs) + 1
        /\ \A j \in 1..Len(jobs) : jobs'[j] = jobs[j]
        /\ jobs'[Len(jobs) + 1] = row
        /\ Len(jobs) \in Nat /\ Len(jobs') = Len(jobs) + 1
    BY <2>3, <2>4, AddJobIsOK
  <2>7. Tables'
    <3>1. TypeOK'
      <4>1. /\ attempts' \in Seq(Seq(Attempt)) /\ Len(attempts') = Len(jobs')
            /\ evidence' \in Seq(SUBSET Nat) /\ Len(evidence') = Len(jobs')
        BY <2>3, <2>4, AddJobIsOK
      <4>2. enabled' \in BOOLEAN /\ {manual, calls}' \subseteq Nat
        BY DEF IntakeInsert, bounds, IInv, Tables, TypeOK
      <4> QED
        BY <2>5, <2>6, <4>1, <4>2 DEF TypeOK
    <3>2. \A j \in DOMAIN jobs' : jobs'[j].incident \in DOMAIN incidents'
      BY <2>2, <2>5, <2>6 DEF IInv, Tables
    <3> QED
      BY <3>1, <3>2 DEF Tables
  <2>8. Pairs'
    <3>1. \A j \in 1..Len(jobs) : jobs[j].incident \in 1..L
      BY <2>2 DEF IInv, Tables
    <3>2. \A i \in 1..L : incidents[i].correlation # k
      BY <1>2, <2>2 DEF UniqueCorrelation, Delivered
    <3>3. ASSUME NEW i \in 1..L PROVE Intakes(jobs', i) = Intakes(jobs, i)
      <4>1. jobs'[Len(jobs) + 1].incident # i
        BY <2>2, <2>6
      <4> QED
        BY <2>2, <2>6, <4>1 DEF Intakes
    <3>4. Intakes(jobs', L + 1) = {Len(jobs) + 1}
      <4>1. \A j \in 1..Len(jobs) : jobs'[j].incident # L + 1
        BY <2>2, <2>6, <3>1
      <4>2. jobs'[Len(jobs) + 1].incident = L + 1 /\ jobs'[Len(jobs) + 1].intake
        BY <2>6
      <4> QED
        BY <2>6, <4>1, <4>2 DEF Intakes
    <3>5. ASSUME NEW i \in 1..L, incidents'[i].correlation # None
          PROVE  /\ \A l \in 1 .. L + 1 : incidents'[l].correlation = incidents'[i].correlation => l = i
                 /\ \E j \in 1 .. Len(jobs) + 1 : Intakes(jobs', i) = {j}
      <4>1. /\ \A l \in 1..L : incidents[l].correlation = incidents[i].correlation => l = i
            /\ \E j \in 1..Len(jobs) : Intakes(jobs, i) = {j}
        BY <2>2, <2>5, <3>5 DEF IInv, Pairs
      <4>2. \E j \in 1 .. Len(jobs) + 1 : Intakes(jobs', i) = {j}
        BY <2>6, <3>3, <4>1
      <4> QED
        BY <2>2, <2>5, <3>2, <4>1, <4>2, SMTT(30)
    <3>6. \A l \in 1 .. L + 1 : incidents'[l].correlation = incidents'[L + 1].correlation => l = L + 1
      BY <2>2, <2>5, <3>2
    <3>7. \A i \in 1 .. L + 1 : i \in 1..L \/ i = L + 1
      BY <2>2
    <3> QED
      <4> SUFFICES ASSUME NEW i \in DOMAIN incidents', incidents'[i].correlation # None
                   PROVE  /\ \A l \in DOMAIN incidents' :
                                incidents'[l].correlation = incidents'[i].correlation => l = i
                          /\ \E j \in DOMAIN jobs' : Intakes(jobs', i) = {j}
        BY DEF Pairs
      <4>1. CASE i \in 1..L
        BY <2>5, <2>6, <3>5, <4>1
      <4>2. CASE i = L + 1
        <5>1. \A l \in DOMAIN incidents' : incidents'[l].correlation = incidents'[i].correlation => l = i
          BY <2>5, <3>6, <4>2
        <5>2. Len(jobs) + 1 \in DOMAIN jobs' /\ Intakes(jobs', i) = {Len(jobs) + 1}
          BY <2>6, <3>4, <4>2
        <5> QED
          BY <5>1, <5>2
      <4> QED
        BY <2>5, <3>7, <4>1, <4>2
  <2>9. Threads'
    BY <2>6, <2>7, IdleIsOK, ThreadsKept DEF OneMovesOn, Return, IntakeInsert
  <2>10. Concluded'
    BY <2>6, <2>7, ConcludedKept DEF IntakeInsert
  <2> QED
    BY <2>6, <2>7, <2>8, <2>9, <2>10 DEF IInv
<1> QED
  BY <1>1, <1>2 DEF IntakeInsert

\* The configuration of the operation is no row of a table.
LEMMA ConfigureKeeps ==
    ASSUME IInv, ConfigureOperation
    PROVE  IInv'
<1>1. UNCHANGED <<tables, call, concluded, calls>> /\ manual' = manual + 1
  BY Zenon DEF ConfigureOperation, Manual
<1>2. enabled' \in BOOLEAN
  BY Zenon DEF ConfigureOperation
<1>3. Tables'
  BY <1>1, <1>2 DEF IInv, Tables, TypeOK, tables
<1>4. Pairs' /\ AttemptsAreNumbered' /\ Threads' /\ Concluded'
  BY <1>1 DEF IInv, Pairs, AttemptsAreNumbered, Threads, Concluded, tables
<1> QED
  BY <1>3, <1>4 DEF IInv

\* A manual trigger adds a job that is no intake, to an incident of its own or to one that is there.
LEMMA TriggerKeeps ==
    ASSUME IInv, NEW s \in Scenarios, Trigger(s)
    PROVE  IInv'
<1> DEFINE L == Len(incidents)
           opened == [correlation |-> None, status |-> "open", last |-> "pending"]
<1>1. PICK i \in IF StillReproduced = {} THEN {L + 1} ELSE StillReproduced :
        /\ incidents' = IF i \in DOMAIN incidents THEN incidents ELSE Append(incidents, opened)
        /\ AddJob([incident |-> i, state |-> "created", verdict |-> "pending",
                   scenario |-> s, limit |-> 0, intake |-> FALSE])
  BY DEF Trigger
<1> DEFINE row == [incident |-> i, state |-> "created", verdict |-> "pending",
                   scenario |-> s, limit |-> 0, intake |-> FALSE]
<1>2. /\ L \in Nat /\ incidents \in Seq(Incident)
      /\ DOMAIN incidents = 1..L /\ DOMAIN jobs = 1..Len(jobs)
  BY TableShapes DEF IInv, Tables, TypeOK
<1>3. i \in 1 .. L + 1
  BY <1>1, <1>2 DEF StillReproduced
<1>4. opened \in Incident /\ row \in Job
  <2>1. s \in Scenarios \cup {None} /\ None \in Correlations \cup {None} /\ FALSE \in BOOLEAN
    OBVIOUS
  <2> QED
    BY <1>2, <1>3, <2>1 DEF Incident, Job, States, Verdicts
<1>5. /\ incidents' \in Seq(Incident) /\ i \in DOMAIN incidents'
      /\ DOMAIN incidents \subseteq DOMAIN incidents'
      /\ \A k \in DOMAIN incidents : incidents'[k] = incidents[k]
      /\ \A k \in DOMAIN incidents' \ DOMAIN incidents : incidents'[k].correlation = None
  <2>1. CASE i \in DOMAIN incidents
    BY <1>1, <1>2, <2>1
  <2>2. CASE i \notin DOMAIN incidents
    <3>1. incidents' = Append(incidents, opened) /\ i = L + 1
      BY <1>1, <1>2, <1>3, <2>2
    <3>2. /\ incidents' \in Seq(Incident) /\ Len(incidents') = L + 1
          /\ \A k \in 1..L : incidents'[k] = incidents[k]
          /\ incidents'[L + 1] = opened /\ DOMAIN incidents' = 1 .. L + 1
      BY <1>2, <1>4, <3>1, AppendProperties, LenProperties
    <3> QED
      BY <1>2, <3>1, <3>2
  <2> QED
    BY <2>1, <2>2
<1>6. /\ TablesGrow /\ AttemptsAreNumbered'
      /\ jobs' \in Seq(Job) /\ DOMAIN jobs' = 1 .. Len(jobs) + 1
      /\ \A j \in 1..Len(jobs) : jobs'[j] = jobs[j]
      /\ jobs'[Len(jobs) + 1] = row
      /\ Len(jobs) \in Nat /\ Len(jobs') = Len(jobs) + 1
  BY <1>1, <1>4, AddJobIsOK
<1>7. Tables'
  <2>1. manual' \in Nat /\ UNCHANGED <<enabled, calls>>
    BY DEF Trigger, Manual, IInv, Tables, TypeOK
  <2>2. TypeOK'
    BY <1>1, <1>4, <1>5, <2>1, AddJobIsOK DEF IInv, Tables, TypeOK
  <2>3. \A j \in DOMAIN jobs' : jobs'[j].incident \in DOMAIN incidents'
    BY <1>2, <1>5, <1>6 DEF IInv, Tables
  <2> QED
    BY <2>2, <2>3 DEF Tables
<1>8. Pairs'
  <2>1. ASSUME NEW k PROVE Intakes(jobs', k) = Intakes(jobs, k)
    <3>1. ~jobs'[Len(jobs) + 1].intake
      BY <1>6
    <3> QED
      BY <1>2, <1>6, <3>1 DEF Intakes
  <2> SUFFICES ASSUME NEW k \in DOMAIN incidents', incidents'[k].correlation # None
               PROVE  /\ \A l \in DOMAIN incidents' :
                            incidents'[l].correlation = incidents'[k].correlation => l = k
                      /\ \E j \in DOMAIN jobs' : Intakes(jobs', k) = {j}
    BY DEF Pairs
  <2>2. k \in DOMAIN incidents /\ incidents[k].correlation # None
    BY <1>5
  <2>3. /\ \A l \in DOMAIN incidents : incidents[l].correlation = incidents[k].correlation => l = k
        /\ \E j \in DOMAIN jobs : Intakes(jobs, k) = {j}
    BY <2>2 DEF IInv, Pairs
  <2> QED
    <3>1. \A l \in DOMAIN incidents' : incidents'[l].correlation = incidents'[k].correlation => l = k
      BY <1>5, <2>2, <2>3
    <3>2. PICK j \in DOMAIN jobs : Intakes(jobs, k) = {j}
      BY <2>3
    <3>3. j \in DOMAIN jobs' /\ Intakes(jobs', k) = {j}
      BY <1>2, <1>6, <2>1, <3>2
    <3> QED
      BY <3>1, <3>3
<1>9. Threads'
  <2>1. call' = call
    BY DEF Trigger
  <2>2. CASE Callers = {}
    BY <2>1, <2>2 DEF IInv, Threads
  <2>3. ASSUME NEW c \in Callers PROVE OneMovesOn(c)
    <3>1. call' = [call EXCEPT ![c] = call[c]] /\ call[c] \in Call
      BY <2>1 DEF IInv, Threads
    <3>2. /\ Len(jobs') \in Nat
          /\ \A j \in 1..Len(jobs) : Len(attempts[j]) \in Nat /\ Len(attempts'[j]) \in Nat
      BY <1>1, <1>4, <1>6, AddJobIsOK, TableShapes, LenProperties, ElementOfSeq DEF IInv, Tables
    <3>3. CallOK(call[c], Len(jobs'), attempts', evidence')
      BY <1>6, <3>1, <3>2, CallKept DEF IInv, Threads, TablesGrow
    <3> QED
      BY <3>1, <3>3 DEF OneMovesOn
  <2> QED
    BY <1>6, <1>7, <2>2, <2>3, ThreadsKept
<1>10. Concluded'
  BY <1>6, <1>7, ConcludedKept DEF Trigger
<1> QED
  BY <1>6, <1>7, <1>8, <1>9, <1>10 DEF IInv

---------------------------------------------------------------------------
(* The steps that write columns of a row, or add to the attempts and the   *)
(* evidence of a job.                                                      *)

\* A job's row with a column changed is a row of the table.
LEMMA JobRewritten ==
    ASSUME IInv, NEW j \in 1..Len(jobs), NEW row \in Job,
           row.incident = jobs[j].incident, row.intake = jobs[j].intake,
           jobs' = [jobs EXCEPT ![j] = row]
    PROVE  /\ jobs' \in Seq(Job) /\ Len(jobs') = Len(jobs)
           /\ \A l \in 1..Len(jobs) :
                jobs'[l].incident = jobs[l].incident /\ jobs'[l].intake = jobs[l].intake
<1>1. jobs \in Seq(Job)
  BY DEF IInv, Tables, TypeOK
<1>2. /\ jobs' \in Seq(Job) /\ Len(jobs') = Len(jobs)
      /\ \A l \in 1..Len(jobs) : jobs'[l] = IF l = j THEN row ELSE jobs[l]
  BY <1>1, ExceptSeq
<1>3. ASSUME NEW l \in 1..Len(jobs)
      PROVE  jobs'[l].incident = jobs[l].incident /\ jobs'[l].intake = jobs[l].intake
  BY <1>2
<1> QED
  BY <1>2, <1>3

LEMMA BindKeeps ==
    ASSUME IInv, NEW c \in Callers, Bind(c)
    PROVE  IInv'
<1> DEFINE j == call[c].job
           row == [jobs[j] EXCEPT !.scenario = call[c].scenario]
<1>1. /\ call[c].pc = "bind" /\ call[c] \in Call /\ j \in 1..Len(jobs) /\ jobs[j] \in Job
      /\ Len(jobs) \in Nat
  BY JobOfThread DEF Bind, At
<1>2. /\ jobs' \in Seq(Job) /\ Len(jobs') = Len(jobs)
      /\ \A l \in 1..Len(jobs) :
            jobs'[l].incident = jobs[l].incident /\ jobs'[l].intake = jobs[l].intake
  <2>1. CASE jobs' = jobs
    BY <2>1 DEF IInv, Tables, TypeOK
  <2>2. CASE jobs' = [jobs EXCEPT ![j] = row]
    <3>1. row \in Job /\ row.incident = jobs[j].incident /\ row.intake = jobs[j].intake
      BY <1>1 DEF Job, Call
    <3> QED
      BY <1>1, <2>2, <3>1, JobRewritten
  <2> QED
    BY <2>1, <2>2 DEF Bind
<1>3. Tables' /\ Pairs' /\ AttemptsAreNumbered' /\ TablesGrow
  BY <1>2, RowsRewritten DEF Bind, bounds, IInv, Tables, TypeOK
<1>4. OneMovesOn(c)
  <2>1. CASE Return(c)
    BY <2>1, IdleIsOK DEF Return, OneMovesOn
  <2>2. CASE ~Return(c)
    <3>1. PICK pc \in {"queue", "plan"} : Goto(c, pc)
      BY <2>2 DEF Bind
    <3> DEFINE x == [Idle EXCEPT !.pc = pc, !.job = call[c].job, !.scenario = call[c].scenario,
                                 !.verdict = call[c].verdict, !.place = call[c].place]
    <3>2. x \in Call /\ CallOK(x, Len(jobs'), attempts', evidence')
      BY <1>1, <1>2, IdleIsOK, ZenonT(60) DEF Call, Places, CallOK
    <3> QED
      BY <3>1, <3>2 DEF Goto, OneMovesOn
  <2> QED
    BY <2>1, <2>2
<1>5. Threads'
  BY <1>3, <1>4, ThreadsKept
<1>6. Concluded'
  BY <1>3, ConcludedKept DEF Bind
<1> QED
  BY <1>3, <1>5, <1>6 DEF IInv

LEMMA RequeueKeeps ==
    ASSUME IInv, NEW c \in Callers, Requeue(c)
    PROVE  IInv'
<1> DEFINE j == call[c].job
           verdict == Column(jobs[j].verdict, call[c].row.verdict, "pending")
           row == [jobs[j] EXCEPT !.state = "queued", !.verdict = verdict]
<1>1. /\ call[c].pc = "requeue" /\ call[c] \in Call /\ j \in 1..Len(jobs) /\ jobs[j] \in Job
      /\ Len(jobs) \in Nat
  BY JobOfThread DEF Requeue, At
<1>2. /\ jobs' \in Seq(Job) /\ Len(jobs') = Len(jobs)
      /\ \A l \in 1..Len(jobs) :
            jobs'[l].incident = jobs[l].incident /\ jobs'[l].intake = jobs[l].intake
  <2>1. verdict \in Verdicts /\ "queued" \in States
    BY <1>1 DEF Column, Job, Verdicts, States
  <2>2. row \in Job /\ row.incident = jobs[j].incident /\ row.intake = jobs[j].intake
    BY <1>1, <2>1 DEF Job
  <2>3. jobs' = [jobs EXCEPT ![j] = row]
    BY DEF Requeue
  <2> QED
    BY <1>1, <2>2, <2>3, JobRewritten
<1>3. Tables' /\ Pairs' /\ AttemptsAreNumbered' /\ TablesGrow
  BY <1>2, RowsRewritten DEF Requeue, bounds, IInv, Tables, TypeOK
<1>4. OneMovesOn(c)
  <2>1. CASE Return(c)
    BY <2>1, IdleIsOK DEF Return, OneMovesOn
  <2>2. CASE ~Return(c)
    <3> DEFINE x == [Idle EXCEPT !.pc = "bind", !.job = j, !.scenario = jobs[j].scenario]
    <3>1. call' = [call EXCEPT ![c] = x]
      BY <2>2 DEF Requeue
    <3>2. jobs[j].scenario \in Scenarios \cup {None}
      BY <1>1 DEF Job
    <3>3. x \in Call /\ CallOK(x, Len(jobs'), attempts', evidence')
      BY <1>1, <1>2, <3>2, IdleIsOK, ZenonT(60) DEF Call, Places, CallOK
    <3> QED
      BY <3>1, <3>3 DEF OneMovesOn
  <2> QED
    BY <2>1, <2>2
<1>5. Threads'
  BY <1>3, <1>4, ThreadsKept
<1>6. Concluded'
  BY <1>3, ConcludedKept DEF Requeue
<1> QED
  BY <1>3, <1>5, <1>6 DEF IInv

\* The same of an incident's row.
LEMMA IncidentRewritten ==
    ASSUME IInv, NEW i \in 1..Len(incidents), NEW row \in Incident,
           row.correlation = incidents[i].correlation,
           incidents' = [incidents EXCEPT ![i] = row]
    PROVE  /\ incidents' \in Seq(Incident) /\ Len(incidents') = Len(incidents)
           /\ \A l \in 1..Len(incidents) : incidents'[l].correlation = incidents[l].correlation
<1>1. incidents \in Seq(Incident)
  BY DEF IInv, Tables, TypeOK
<1>2. /\ incidents' \in Seq(Incident) /\ Len(incidents') = Len(incidents)
      /\ \A l \in 1..Len(incidents) : incidents'[l] = IF l = i THEN row ELSE incidents[l]
  BY <1>1, ExceptSeq
<1>3. ASSUME NEW l \in 1..Len(incidents)
      PROVE  incidents'[l].correlation = incidents[l].correlation
  BY <1>2
<1> QED
  BY <1>2, <1>3

LEMMA AssignWriteKeeps ==
    ASSUME IInv, NEW c \in Callers, AssignWrite(c)
    PROVE  IInv'
<1> DEFINE j == call[c].job
           i == IncidentOf(j)
           row == [incidents[i] EXCEPT !.status = "assigned"]
<1>1. call[c].pc = "assignWrite" /\ j \in DOMAIN jobs
  BY JobOfThread DEF AssignWrite, At
<1>2. i \in 1..Len(incidents) /\ incidents[i] \in Incident
  BY <1>1, TableShapes DEF IInv, Tables, IncidentOf
<1>3. /\ incidents' \in Seq(Incident) /\ Len(incidents') = Len(incidents)
      /\ \A l \in 1..Len(incidents) : incidents'[l].correlation = incidents[l].correlation
  <2>1. CASE incidents' = incidents
    BY <2>1 DEF IInv, Tables, TypeOK
  <2>2. CASE incidents' = [incidents EXCEPT ![i] = row]
    <3>1. row \in Incident /\ row.correlation = incidents[i].correlation
      BY <1>2 DEF Incident
    <3> QED
      BY <1>2, <2>2, <3>1, IncidentRewritten
  <2> QED
    BY <2>1, <2>2 DEF AssignWrite
<1>4. Tables' /\ Pairs' /\ AttemptsAreNumbered' /\ TablesGrow
  BY <1>3, RowsRewritten DEF AssignWrite, bounds, IInv, Tables, TypeOK
<1>5. Threads'
  BY <1>4, IdleIsOK, ThreadsKept DEF AssignWrite, Return, OneMovesOn
<1>6. Concluded'
  BY <1>4, ConcludedKept DEF AssignWrite
<1> QED
  BY <1>4, <1>5, <1>6 DEF IInv

LEMMA TransitWriteKeeps ==
    ASSUME IInv, NEW c \in Callers, TransitWrite(c)
    PROVE  IInv'
<1> DEFINE me == call[c]
           j == me.job
           i == IncidentOf(j)
           verdict == VerdictAfter(me.row, me.target, me.verdict)
           last == Column(incidents[i].last, me.incident.last, verdict)
           status == Column(incidents[i].status, me.incident.status,
                            StatusAfter(me.incident.status, verdict))
           job == [jobs[j] EXCEPT !.state = me.target,
                                  !.verdict = Column(jobs[j].verdict, me.row.verdict, verdict)]
           incident == [incidents[i] EXCEPT !.last = last, !.status = status]
<1>1. /\ me.pc = "write" /\ me \in Call /\ j \in DOMAIN jobs /\ j \in 1..Len(jobs)
      /\ jobs[j] \in Job /\ Len(jobs) \in Nat
      /\ CallOK(me, Len(jobs), attempts, evidence)
  BY JobOfThread DEF TransitWrite, At
<1>2. i \in 1..Len(incidents) /\ incidents[i] \in Incident
  BY <1>1, TableShapes DEF IInv, Tables, IncidentOf
<1>3. me.row \in Job /\ me.incident \in Incident /\ me.target \in States
      /\ me.verdict \in Verdicts \cup {None}
  BY <1>1 DEF CallOK, Call
<1>4. verdict \in Verdicts
  <2>1. me.row.verdict \in Verdicts
    BY <1>3 DEF Job
  <2> QED
    BY <1>3, <2>1 DEF VerdictAfter, Verdicts
<1>5. job \in Job /\ job.incident = jobs[j].incident /\ job.intake = jobs[j].intake
  <2>1. Column(jobs[j].verdict, me.row.verdict, verdict) \in Verdicts
    BY <1>1, <1>4 DEF Column, Job
  <2> QED
    BY <1>1, <1>3, <2>1 DEF Job
<1>6. incident \in Incident /\ incident.correlation = incidents[i].correlation
  <2>1. last \in Verdicts
    BY <1>2, <1>4 DEF Column, Incident
  <2>2. status \in {"open", "assigned", "blocked", "resolved"}
    BY <1>2, <1>3 DEF Column, StatusAfter, Incident
  <2> QED
    BY <1>2, <2>1, <2>2 DEF Incident
<1>7. /\ jobs' \in Seq(Job) /\ Len(jobs') = Len(jobs)
      /\ \A l \in 1..Len(jobs) :
            jobs'[l].incident = jobs[l].incident /\ jobs'[l].intake = jobs[l].intake
  <2>1. jobs' = [jobs EXCEPT ![j] = job]
    BY DEF TransitWrite
  <2> QED
    BY <1>1, <1>5, <2>1, JobRewritten
<1>8. /\ incidents' \in Seq(Incident) /\ Len(incidents') = Len(incidents)
      /\ \A l \in 1..Len(incidents) : incidents'[l].correlation = incidents[l].correlation
  <2>1. CASE incidents' = incidents
    BY <2>1 DEF IInv, Tables, TypeOK
  <2>2. CASE incidents' = [incidents EXCEPT ![i] = incident]
    BY <1>2, <1>6, <2>2, IncidentRewritten
  <2> QED
    BY <2>1, <2>2 DEF TransitWrite
<1>9. Tables' /\ Pairs' /\ AttemptsAreNumbered' /\ TablesGrow
  BY <1>7, <1>8, RowsRewritten DEF TransitWrite, bounds, IInv, Tables, TypeOK
<1>10. OneMovesOn(c)
  <2>1. CASE Return(c)
    BY <2>1, IdleIsOK DEF Return, OneMovesOn
  <2>2. CASE ~Return(c)
    <3>1. PICK pc \in {"assign", "plan", "execute"} : Goto(c, pc)
      BY <2>2 DEF TransitWrite
    <3> DEFINE x == [Idle EXCEPT !.pc = pc, !.job = call[c].job, !.scenario = call[c].scenario,
                                 !.verdict = call[c].verdict, !.place = call[c].place]
    <3>2. /\ Idle \in Call /\ pc \in Places /\ j \in Nat /\ call[c].scenario \in Scenarios \cup {None}
          /\ call[c].verdict \in Verdicts \cup {None} /\ call[c].place \in Nat
      BY <1>1, IdleIsOK DEF Call, Places
    <3>3. x \in Call
      BY <3>2 DEF Call
    <3>4. CallOK(x, Len(jobs'), attempts', evidence')
      BY <1>1, <1>7, <3>2 DEF Call, CallOK
    <3> QED
      BY <3>1, <3>3, <3>4 DEF Goto, OneMovesOn
  <2> QED
    BY <2>1, <2>2
<1>11. Threads'
  BY <1>9, <1>10, ThreadsKept
<1>12. Concluded'
  <2>1. CASE concluded' = concluded
    BY <1>9, <2>1, ConcludedKept
  <2>2. CASE me.then = "concluded" /\ concluded' = concluded \cup {<<j, me.verdict>>}
    <3>1. PICK n \in evidence[j] :
            n \in 1..Len(attempts[j]) /\ attempts[j][n].outcome = me.verdict /\ attempts[j][n].orchestrated
      BY <1>1, <2>2 DEF CallOK, Backed
    <3>2. attempts[j][n] \in Attempt
      BY <1>1, <3>1, TableShapes, ElementOfSeq DEF IInv, Tables
    <3>3. me.verdict \in Verdicts /\ Backed(attempts, evidence, j, me.verdict)
      BY <3>1, <3>2 DEF Attempt, Backed
    <3>4. attempts' = attempts /\ evidence' = evidence
      BY DEF TransitWrite
    <3> QED
      BY <1>1, <1>7, <2>2, <3>3, <3>4 DEF IInv, Concluded
  <2> QED
    BY <2>1, <2>2 DEF TransitWrite
<1> QED
  BY <1>9, <1>11, <1>12 DEF IInv

\* A number that is free is the next one: the attempt goes to its place.
LEMMA InsertAttemptKeeps ==
    ASSUME IInv, NEW c \in Callers, InsertAttempt(c)
    PROVE  IInv'
<1> DEFINE me == call[c]
           j == me.job
           n == me.place
<1>0. UNCHANGED <<incidents, jobs, evidence, enabled, concluded, manual, calls>>
  BY DEF InsertAttempt, bounds
<1>1. /\ me.pc = "insertAttempt" /\ me \in Call /\ j \in DOMAIN jobs /\ j \in 1..Len(jobs)
      /\ Len(jobs) \in Nat /\ CallOK(me, Len(jobs), attempts, evidence)
  BY JobOfThread DEF InsertAttempt, At
<1>2. n \in 1 .. Len(attempts[j]) + 1 /\ me.verdict \in Verdicts /\ n \in Nat
  BY <1>1 DEF CallOK, Call
<1>3. /\ attempts \in Seq(Seq(Attempt)) /\ Len(attempts) = Len(jobs)
      /\ DOMAIN attempts = 1..Len(jobs) /\ attempts[j] \in Seq(Attempt)
      /\ Len(attempts[j]) \in Nat /\ DOMAIN attempts[j] = 1..Len(attempts[j])
  BY <1>1, TableShapes DEF IInv, Tables, TypeOK
<1>4. CASE ~UniqueAttempt(j, n) /\ UNCHANGED attempts
  <2>1. OneThreadMoves
    <3>1. CASE Return(c)
      BY <3>1, ReturnIsOK
    <3>2. CASE ~Return(c)
      <4> DEFINE x == [me EXCEPT !.pc = "attempt", !.tries = me.tries + 1]
      <4>1. call' = [call EXCEPT ![c] = x]
        BY <1>4, <3>2 DEF InsertAttempt
      <4>2. "attempt" \in Places /\ me.tries + 1 \in Nat
        BY <1>1 DEF Call, Places
      <4>3. x \in Call /\ x.pc = "attempt" /\ x.job = j /\ x.verdict = me.verdict
        BY <1>1, <4>2 DEF Call
      <4>4. CallOK(x, Len(jobs), attempts, evidence)
        BY <1>1, <1>2, <4>3 DEF CallOK
      <4> QED
        BY <4>1, <4>3, <4>4 DEF OneThreadMoves
    <3> QED
      BY <3>1, <3>2
  <2> QED
    BY <1>0, <1>4, <2>1, ThreadMoves DEF tables, IInv, Tables, TypeOK
<1>5. CASE UniqueAttempt(j, n)
  <2>0. PICK orchestrated \in BOOLEAN : orchestrated = (me.scenario # None)
    OBVIOUS
  <2> DEFINE a == [number |-> n, outcome |-> me.verdict, orchestrated |-> orchestrated]
             mine == Append(attempts[j], a)
  <2>1. attempts' = [attempts EXCEPT ![j] = mine]
    BY <1>5, <2>0 DEF InsertAttempt
  <2>2. IF orchestrated THEN Goto(c, "evidence") ELSE Return(c)
    BY <1>5, <2>0 DEF InsertAttempt
  <2>3. n = Len(attempts[j]) + 1
    BY <1>1, <1>2, <1>3, <1>5, NextNumberIsNext, SMTT(30) DEF UniqueAttempt
  <2>4. a \in Attempt
    BY <1>2 DEF Attempt
  <2>5. /\ mine \in Seq(Attempt) /\ Len(mine) = n /\ DOMAIN mine = 1..n
        /\ \A k \in 1..Len(attempts[j]) : mine[k] = attempts[j][k]
        /\ mine[n] = a
    BY <1>3, <2>3, <2>4, AppendProperties, LenProperties
  <2>6. /\ attempts' \in Seq(Seq(Attempt)) /\ Len(attempts') = Len(jobs)
        /\ \A k \in 1..Len(jobs) : attempts'[k] = IF k = j THEN mine ELSE attempts[k]
    BY <1>1, <1>3, <2>1, <2>5, ExceptSeq
  <2>7. Tables'
    BY <1>0, <2>6 DEF IInv, Tables, TypeOK
  <2>8. Pairs'
    BY <1>0 DEF IInv, Pairs
  <2>9. AttemptsAreNumbered'
    <3> SUFFICES ASSUME NEW l \in DOMAIN jobs', NEW k \in DOMAIN attempts'[l]
                 PROVE  attempts'[l][k].number = k
      BY DEF AttemptsAreNumbered
    <3>1. l \in 1..Len(jobs)
      BY <1>0, TableShapes DEF IInv, Tables
    <3>2. CASE l # j
      <4>1. attempts'[l] = attempts[l]
        BY <2>6, <3>1, <3>2
      <4>2. k \in DOMAIN attempts[l] /\ l \in DOMAIN jobs
        BY <1>0, <4>1
      <4> QED
        BY <4>1, <4>2 DEF IInv, AttemptsAreNumbered
    <3>3. CASE l = j
      <4>1. attempts'[l] = mine
        BY <2>6, <3>1, <3>3
      <4>2. k \in 1..n
        BY <2>5, <4>1
      <4>3. CASE k \in 1..Len(attempts[j])
        <5>1. attempts'[l][k] = attempts[j][k]
          BY <2>5, <4>1, <4>3
        <5>2. attempts[j][k].number = k
          BY <1>1, <1>3, <4>3 DEF IInv, AttemptsAreNumbered
        <5> QED
          BY <5>1, <5>2
      <4>4. CASE k = n
        <5>1. attempts'[l][k] = a
          BY <2>5, <4>1, <4>4
        <5> QED
          BY <4>4, <5>1
      <4> QED
        BY <1>3, <2>3, <4>2, <4>3, <4>4
    <3> QED
      BY <3>2, <3>3
  <2>10. TablesGrow
    <3>1. \A k \in 1..Len(jobs) : Len(attempts[k]) \in Nat
      BY TableShapes DEF IInv, Tables
    <3>2. ASSUME NEW k \in 1..Len(jobs)
          PROVE  /\ Len(attempts'[k]) >= Len(attempts[k])
                 /\ \A i \in 1..Len(attempts[k]) : attempts'[k][i] = attempts[k][i]
      <4>1. CASE k = j
        <5>1. attempts'[k] = mine
          BY <2>6, <4>1
        <5>2. Len(mine) >= Len(attempts[j])
          BY <1>3, <2>3, <2>5
        <5>3. \A i \in 1..Len(attempts[j]) : mine[i] = attempts[j][i]
          BY <2>5
        <5> QED
          BY <4>1, <5>1, <5>2, <5>3
      <4>2. CASE k # j
        <5>1. attempts'[k] = attempts[k]
          BY <2>6, <4>2
        <5> QED
          BY <3>1, <5>1
      <4> QED
        BY <4>1, <4>2
    <3> QED
      BY <1>0, <1>1, <3>2 DEF TablesGrow, Grown
  <2>11. OneMovesOn(c)
    <3>1. CASE ~orchestrated
      BY <2>2, <3>1, IdleIsOK DEF Return, OneMovesOn
    <3>2. CASE orchestrated
      <4> DEFINE x == [Idle EXCEPT !.pc = "evidence", !.job = me.job, !.scenario = me.scenario,
                                   !.verdict = me.verdict, !.place = me.place]
      <4>1. call' = [call EXCEPT ![c] = x]
        BY <2>2, <3>2 DEF Goto
      <4>2. x \in Call
        BY <1>1, IdleIsOK DEF Call, Places
      <4>3. x.pc = "evidence" /\ x.job = j /\ x.verdict = me.verdict /\ x.place = n
        BY <1>1 DEF Call, Idle
      <4>4. attempts'[j] = mine
        BY <1>1, <2>6
      <4>5. n \in 1..Len(attempts'[j]) /\ attempts'[j][n] = a
        BY <1>2, <2>3, <2>5, <1>3, <4>4
      <4>6. attempts'[j][n].outcome = me.verdict /\ attempts'[j][n].orchestrated
        BY <3>2, <4>5
      <4>7. CallOK(x, Len(jobs'), attempts', evidence')
        BY <1>0, <1>1, <1>2, <4>3, <4>5, <4>6 DEF CallOK
      <4> QED
        BY <4>1, <4>2, <4>7 DEF OneMovesOn
    <3> QED
      BY <3>1, <3>2
  <2>12. Threads'
    BY <2>7, <2>10, <2>11, ThreadsKept
  <2>13. Concluded'
    BY <1>0, <2>7, <2>10, ConcludedKept
  <2> QED
    BY <2>7, <2>8, <2>9, <2>12, <2>13 DEF IInv
<1> QED
  BY <1>4, <1>5 DEF InsertAttempt

\* The evidence of an attempt that was recorded backs its outcome.
LEMMA AddEvidenceKeeps ==
    ASSUME IInv, NEW c \in Callers, AddEvidence(c)
    PROVE  IInv'
<1> DEFINE me == call[c]
           j == me.job
           mine == evidence[j] \cup {me.place}
<1>0. UNCHANGED <<incidents, jobs, attempts, enabled, concluded, manual, calls>>
  BY DEF AddEvidence, bounds
<1>1. /\ me.pc = "evidence" /\ me \in Call /\ j \in 1..Len(jobs)
      /\ Len(jobs) \in Nat /\ CallOK(me, Len(jobs), attempts, evidence)
  BY JobOfThread DEF AddEvidence, At
<1>2. /\ evidence \in Seq(SUBSET Nat) /\ Len(evidence) = Len(jobs)
      /\ mine \in SUBSET Nat
  BY <1>1, TableShapes DEF IInv, Tables, TypeOK, Call
<1>3. /\ evidence' \in Seq(SUBSET Nat) /\ Len(evidence') = Len(jobs)
      /\ \A k \in 1..Len(jobs) : evidence'[k] = IF k = j THEN mine ELSE evidence[k]
  <2>1. evidence' = [evidence EXCEPT ![j] = mine]
    BY DEF AddEvidence
  <2> QED
    BY <1>1, <1>2, <2>1, ExceptSeq
<1>4. Tables'
  BY <1>0, <1>3 DEF IInv, Tables, TypeOK
<1>5. Pairs' /\ AttemptsAreNumbered'
  BY <1>0 DEF IInv, Pairs, AttemptsAreNumbered
<1>6. TablesGrow
  <2>1. \A k \in 1..Len(jobs) : Len(attempts[k]) \in Nat
    BY TableShapes DEF IInv, Tables
  <2> QED
    BY <1>0, <1>1, <1>3, <2>1 DEF TablesGrow, Grown
<1>7. OneMovesOn(c)
  <2> DEFINE x == [Idle EXCEPT !.pc = "conclude", !.job = me.job, !.scenario = me.scenario,
                               !.verdict = me.verdict, !.place = me.place]
  <2>1. call' = [call EXCEPT ![c] = x]
    BY DEF AddEvidence, Goto
  <2>2. x \in Call /\ x.pc = "conclude" /\ x.job = j /\ x.verdict = me.verdict
    BY <1>1, IdleIsOK DEF Call, Places
  <2>3. Backed(attempts', evidence', j, me.verdict)
    BY <1>0, <1>1, <1>3 DEF CallOK, Backed
  <2>4. CallOK(x, Len(jobs'), attempts', evidence')
    BY <1>0, <1>1, <2>2, <2>3 DEF CallOK
  <2> QED
    BY <2>1, <2>2, <2>4 DEF OneMovesOn
<1>8. Threads'
  BY <1>4, <1>6, <1>7, ThreadsKept
<1>9. Concluded'
  BY <1>0, <1>4, <1>6, ConcludedKept
<1> QED
  BY <1>4, <1>5, <1>8, <1>9 DEF IInv

---------------------------------------------------------------------------
\* Every step keeps the invariant.
LEMMA NextKeepsIInv == IInv /\ [Next]_vars => IInv'
<1> SUFFICES ASSUME IInv, [Next]_vars PROVE IInv'
  OBVIOUS
<1>1. CASE UNCHANGED vars
  BY <1>1 DEF vars, tables, bounds, IInv, Tables, TypeOK, Pairs, AttemptsAreNumbered, Threads,
              Concluded
<1>2. ASSUME NEW c \in Callers, Step(c) PROVE IInv'
  BY <1>2, IntakeInsertKeeps, TransitWriteKeeps, BindKeeps, TransitKeeps, MoveKeeps,
     InsertAttemptKeeps, AddEvidenceKeeps, AssignWriteKeeps, RequeueKeeps DEF Step
<1>3. ASSUME NEW c \in Callers, Request(c) PROVE IInv'
  BY <1>3, IntakeKeeps, OrchestrateKeeps, TransitKeeps, MoveKeeps DEF Request
<1>4. ASSUME NEW c \in Callers, Lost(c) PROVE IInv'
  BY <1>4, MoveKeeps
<1>5. ASSUME NEW s \in Scenarios, Trigger(s) PROVE IInv'
  BY <1>5, TriggerKeeps
<1>6. CASE ConfigureOperation
  BY <1>6, ConfigureKeeps
<1> QED
  BY <1>1, <1>2, <1>3, <1>4, <1>5, <1>6 DEF Next

(* The inductive invariant holds, whoever delivers, orchestrates, retries, *)
(* transitions and records at the same time, and is lost at any point.     *)
THEOREM Invariance == Spec => []IInv
<1>1. IInv /\ [Next]_vars => IInv'
  BY NextKeepsIInv
<1> QED
  BY <1>1, InitIInv, PTL DEF Spec

(* The tables keep their types, and have their rows for every job.         *)
THEOREM TypeCorrectness == Spec => []TypeOK
<1>1. IInv => TypeOK
  BY DEF IInv, Tables
<1> QED
  BY <1>1, Invariance, PTL

(* Attempts are numbered in the order they were recorded, for any number   *)
(* of threads: the unique index and the retry of the insert suffice.       *)
THEOREM AttemptsInOrder == Spec => []AttemptsAreNumbered
<1>1. IInv => AttemptsAreNumbered
  BY DEF IInv
<1> QED
  BY <1>1, Invariance, PTL

(* A correlation id that is delivered any number of times, by any number   *)
(* of threads, has one incident with one intake job.                       *)
THEOREM DeliveredOnce == Spec => []OnePairPerDelivery
<1>1. ASSUME IInv PROVE OnePairPerDelivery
  <2> SUFFICES ASSUME NEW k \in Correlations
               PROVE  LET mine == {i \in DOMAIN incidents : incidents[i].correlation = k}
                      IN  /\ Cardinality(mine) <= 1
                          /\ \A i \in mine :
                                Cardinality({j \in DOMAIN jobs : IncidentOf(j) = i /\ jobs[j].intake}) = 1
    BY DEF OnePairPerDelivery
  <2> DEFINE mine == {i \in DOMAIN incidents : incidents[i].correlation = k}
  <2>1. Cardinality(mine) <= 1
    <3>1. mine = {} \/ \E i : mine = {i}
      BY <1>1 DEF IInv, Pairs
    <3>2. CASE mine = {}
      <4>1. Cardinality(mine) = Cardinality({})
        BY <3>2
      <4> HIDE DEF mine
      <4> QED
        BY <4>1, FS_EmptySet
    <3>3. ASSUME NEW i, mine = {i} PROVE Cardinality(mine) <= 1
      <4>1. Cardinality(mine) = Cardinality({i})
        BY <3>3
      <4>2. Cardinality({i}) = 1
        BY FS_Singleton
      <4> HIDE DEF mine
      <4> QED
        BY <4>1, <4>2
    <3> QED
      BY <3>1, <3>2, <3>3
  <2>2. ASSUME NEW i \in mine
        PROVE  Cardinality({j \in DOMAIN jobs : IncidentOf(j) = i /\ jobs[j].intake}) = 1
    <3>1. PICK j \in DOMAIN jobs : Intakes(jobs, i) = {j}
      BY <1>1, <2>2 DEF IInv, Pairs
    <3>2. {l \in DOMAIN jobs : IncidentOf(l) = i /\ jobs[l].intake} = {j}
      BY <3>1 DEF Intakes, IncidentOf
    <3> QED
      BY <3>2, FS_Singleton
  <2> QED
    BY <2>1, <2>2
<1> QED
  BY <1>1, Invariance, PTL

(* A verdict that an orchestration gave is backed by its attempt and its   *)
(* evidence, wherever a process was stopped.                               *)
THEOREM VerdictsAreBacked == Spec => []VerdictIsBacked
<1>1. ASSUME IInv PROVE VerdictIsBacked
  <2> SUFFICES ASSUME NEW pair \in concluded
               PROVE  \E n \in evidence[pair[1]] :
                        /\ attempts[pair[1]][n].outcome = pair[2]
                        /\ attempts[pair[1]][n].orchestrated
    BY DEF VerdictIsBacked
  <2>1. PICK j \in 1..Len(jobs), v \in Verdicts :
            pair = <<j, v>> /\ Backed(attempts, evidence, j, v)
    BY <1>1 DEF IInv, Concluded
  <2> QED
    BY <2>1 DEF Backed
<1> QED
  BY <1>1, Invariance, PTL

---------------------------------------------------------------------------
(* The check of an attempt (AssuranceChecks): what its pass means, and what *)
(* a check that ends as a defect has seen.                                 *)
HIDE Constant

\* A figure is a sequence of shares, each at most one.
Shares == Seq(0..One)
(* What the two theorems on data checks suppose of a source that writes points: no      *)
(* share is above 0 and at most 1 percent, for the comparison would take   *)
(* its points for a fraction.                                              *)
UnambiguousPoints ==
    "points" \in SourceStyles
    => \A f \in Figures : \A n \in DOMAIN f : f[n] = 0 \/ 100 * f[n] > One

\* Every set of natural numbers that has a member has a least one.
LEMMA LeastNumber == ASSUME NEW T \in SUBSET Nat, T # {} PROVE \E x \in T : \A y \in T : x <= y
<1> DEFINE Less == {p \in Nat \X Nat : p[1] < p[2]}
<1>1. IsWellFoundedOn(Less, Nat)
  BY NatLessThanWellFounded DEF OpToRel
<1>2. PICK x \in T : \A y \in T : <<y, x>> \notin Less
  BY <1>1, WFMin
<1>3. ASSUME NEW y \in T PROVE x <= y
  <2>1. <<y, x>> \in Less <=> y < x
    OBVIOUS
  <2>2. ~(y < x)
    BY <1>2, <2>1
  <2> QED
    BY <2>2
<1> QED BY <1>3

\* The largest member of a bounded set of numbers.
LEMMA MaxOfBounded ==
    ASSUME NEW B \in Nat, NEW T \in SUBSET (0..B), T # {}
    PROVE  Max(T) \in T /\ \A y \in T : y <= Max(T)
<1> DEFINE D == {B - x : x \in T}
<1>1. D \in SUBSET Nat
  OBVIOUS
<1>2. D # {}
  <2>1. PICK x \in T : TRUE
    OBVIOUS
  <2>2. B - x \in D
    OBVIOUS
  <2> QED
    BY <2>2
<1> HIDE DEF D
<1>3. PICK d \in D : \A e \in D : d <= e
  BY <1>1, <1>2, LeastNumber
<1>4. PICK m \in T : d = B - m
  BY DEF D
<1>5. \A y \in T : m >= y
  <2> TAKE y \in T
  <2>1. d <= B - y
    BY <1>3 DEF D
  <2>2. y \in 0..B /\ m \in 0..B
    OBVIOUS
  <2> QED
    BY <1>4, <2>1, <2>2
<1>6. Max(T) \in T /\ \A y \in T : Max(T) >= y
  BY <1>5 DEF Max
<1>7. \A y \in T : y \in Int
  OBVIOUS
<1> QED
  BY <1>6, <1>7

\* A figure as a function on its indices.
LEMMA SharesOf ==
    ASSUME NEW f \in Shares
    PROVE  /\ f = [n \in DOMAIN f |-> f[n]] /\ DOMAIN f = 1..Len(f) /\ Len(f) \in Nat
           /\ \A n \in DOMAIN f : f[n] \in 0..One
<1>1. f \in [1..Len(f) -> 0..One] /\ Len(f) \in Nat
  BY LenProperties DEF Shares
<1>2. DOMAIN f = 1..Len(f)
  BY <1>1
<1>3. \A n \in DOMAIN f : f[n] \in 0..One
  BY <1>1
<1>4. f = [n \in DOMAIN f |-> f[n]]
  BY <1>1
<1> QED
  BY <1>1, <1>2, <1>3, <1>4

\* The difference of two series of one length bounds that of their shares, and is one of them.
LEMMA MaxDeltaBounds ==
    ASSUME NEW a \in Shares, NEW b \in Shares, Len(a) = Len(b), NEW n \in DOMAIN a
    PROVE  /\ MaxDelta(a, b) \in Nat
           /\ Abs(a[n] - b[n]) <= MaxDelta(a, b)
           /\ MaxDelta(a, b) = 0 \/ \E k \in DOMAIN a : MaxDelta(a, b) = Abs(a[k] - b[k])
<1> DEFINE T == {0} \cup {Abs(a[k] - b[k]) : k \in DOMAIN a}
<1>1. DOMAIN a = DOMAIN b
  BY SharesOf
<1>2. \A k \in DOMAIN a : a[k] \in 0..One /\ b[k] \in 0..One
  BY <1>1, SharesOf
<1>3. One \in Nat
  BY DEF One
<1>4. \A k \in DOMAIN a : Abs(a[k] - b[k]) \in 0..One
  <2> TAKE k \in DOMAIN a
  <2>1. a[k] \in 0..One /\ b[k] \in 0..One
    BY <1>2
  <2>2. \A i, j \in 0..One : Abs(i - j) \in 0..One
    BY <1>3 DEF Abs
  <2> QED
    BY <2>1, <2>2
<1>5. T \in SUBSET (0..One)
  BY <1>3, <1>4
<1>6. T # {}
  OBVIOUS
<1>7. MaxDelta(a, b) = Max(T)
  BY DEF MaxDelta, Max, Max
<1>8. Abs(a[n] - b[n]) \in T
  OBVIOUS
<1> HIDE DEF T
<1>9. Max(T) \in T /\ \A y \in T : y <= Max(T)
  BY <1>3, <1>5, <1>6, MaxOfBounded
<1>10. Max(T) \in Nat
  <2>1. \A x \in T : x \in 0..One
    BY <1>5
  <2>2. Max(T) \in T
    BY <1>9
  <2>3. Max(T) \in 0..One
    BY <2>1, <2>2
  <2> QED
    BY <1>3, <2>3
<1>11. Abs(a[n] - b[n]) <= Max(T)
  BY <1>8, <1>9
<1>12. MaxDelta(a, b) \in Nat
  BY <1>7, <1>10
<1>13. Abs(a[n] - b[n]) <= MaxDelta(a, b)
  BY <1>7, <1>11
<1>14. MaxDelta(a, b) = 0 \/ \E k \in DOMAIN a : MaxDelta(a, b) = Abs(a[k] - b[k])
  <2>1. Max(T) \in T
    BY <1>9
  <2> QED
    BY <1>7, <2>1 DEF T
<1> QED
  BY <1>12, <1>13, <1>14

\* A share keeps its value through the notation of the dashboard, and through that of a source
\* that writes fractions, or points that cannot be taken for a fraction.
LEMMA Notations ==
    ASSUME NEW share \in 0..One, NEW format, NEW style
    PROVE  /\ NormalizeScalar(OnScreen(share, format), format) = share
           /\ (style = "points" => share = 0 \/ 100 * share > One)
              => NormalizeScalar(InSource(share, format, style), format) = share
<1>1. One = 10000
  BY DEF One
<1>2. share \in Nat /\ ~(share > One)
  BY <1>1
<1>3. (100 * share) \div 100 = share
  BY <1>2
<1>4. NormalizeScalar(OnScreen(share, format), format) = share
  <2>1. CASE format = "percentage"
    BY <1>3, <2>1 DEF NormalizeScalar, OnScreen
  <2>2. CASE format # "percentage"
    BY <2>2 DEF NormalizeScalar, OnScreen
  <2> QED
    BY <2>1, <2>2
<1>5. ASSUME style = "points" => share = 0 \/ 100 * share > One
      PROVE  NormalizeScalar(InSource(share, format, style), format) = share
  <2>1. CASE format = "percentage" /\ style = "points" /\ share # 0
    <3>1. InSource(share, format, style).number = 100 * share
      BY <2>1 DEF InSource
    <3>2. 100 * share > One
      BY <1>5, <2>1
    <3> QED
      BY <1>3, <2>1, <3>1, <3>2 DEF NormalizeScalar
  <2>2. CASE ~(format = "percentage" /\ style = "points" /\ share # 0)
    <3>1. InSource(share, format, style).number = share
      BY <1>2, <2>2 DEF InSource
    <3>2. InSource(share, format, style).percent = FALSE
      BY DEF InSource
    <3> QED
      BY <1>2, <3>1, <3>2 DEF NormalizeScalar
  <2> QED
    BY <2>1, <2>2
<1> QED
  BY <1>4, <1>5

\* What is compared are the shares themselves, whatever notation they come in.
LEMMA SharesAreCompared ==
    ASSUME UnambiguousPoints,
           NEW scen, scen.style \in SourceStyles,
           NEW shown \in Figures, NEW reading, reading.figure \in Figures
    PROVE  DifferenceOf(scen, shown, reading)
           = IF Len(shown) # Len(reading.figure) THEN One + Tolerance + 1
             ELSE MaxDelta(shown, reading.figure)
<1> DEFINE read == reading.figure
           Seen(n) == NormalizeScalar(OnScreen(shown[n], scen.format), scen.format)
           Given(n) == NormalizeScalar(
                           InSource(read[n], scen.format, scen.style), scen.format)
           ui == [n \in DOMAIN shown |-> Seen(n)]
           source == [n \in DOMAIN read |-> Given(n)]
<1>1. shown \in Shares /\ read \in Shares
  BY FiguresAssumption DEF Shares
<1>2. /\ DOMAIN shown = 1..Len(shown) /\ shown = [n \in DOMAIN shown |-> shown[n]]
      /\ DOMAIN read = 1..Len(read) /\ read = [n \in DOMAIN read |-> read[n]]
  BY <1>1, SharesOf
<1>3. ui = shown
  <2>1. \A n \in DOMAIN shown : Seen(n) = shown[n]
    BY <1>1, SharesOf, Notations
  <2> HIDE DEF Seen
  <2> QED
    BY <1>2, <2>1
<1>4. source = read
  <2>1. ASSUME NEW n \in DOMAIN read PROVE Given(n) = read[n]
    <3>1. read[n] \in 0..One
      BY <1>1, SharesOf
    <3>2. scen.style = "points" => read[n] = 0 \/ 100 * read[n] > One
      BY DEF UnambiguousPoints
    <3> QED
      BY <3>1, <3>2, Notations
  <2> HIDE DEF Given
  <2> QED
    BY <1>2, <2>1
<1>5. DifferenceOf(scen, shown, reading)
      = IF Len(ui) # Len(source) THEN One + Tolerance + 1
        ELSE MaxDelta(ui, source)
  BY DEF DifferenceOf
<1> HIDE DEF ui, source
<1> QED
  BY <1>3, <1>4, <1>5

\* A comparison of values passes only on series that agree.
LEMMA PassedValuesAgree ==
    ASSUME UnambiguousPoints,
           NEW scen, scen.style \in SourceStyles,
           NEW shown \in Figures, NEW reading, reading.figure \in Figures,
           CompareValues(scen, shown, reading).result = "pass"
    PROVE  Agree(shown, reading.figure)
<1> DEFINE read == reading.figure
           delta == DifferenceOf(scen, shown, reading)
<1>1. shown \in Shares /\ read \in Shares
  BY FiguresAssumption DEF Shares
<1>2. /\ DOMAIN shown = 1..Len(shown) /\ DOMAIN read = 1..Len(read)
  BY <1>1, SharesOf
<1>5. delta = IF Len(shown) # Len(read) THEN One + Tolerance + 1
              ELSE MaxDelta(shown, read)
  BY SharesAreCompared
<1>6. delta = 0 \/ delta <= Tolerance
  BY DEF CompareValues, Outcome
<1> HIDE DEF delta, read
<1>7. Tolerance \in Nat /\ One \in Nat
  BY NumbersAssumption DEF One
<1>8. Len(shown) = Len(read)
  BY <1>5, <1>6, <1>7
<1>9. delta = MaxDelta(shown, read)
  BY <1>5, <1>8
<1>10. ASSUME NEW n \in DOMAIN shown PROVE Abs(shown[n] - read[n]) <= Tolerance
  <2>1. /\ MaxDelta(shown, read) \in Nat
        /\ Abs(shown[n] - read[n]) <= MaxDelta(shown, read)
    BY <1>1, <1>8, MaxDeltaBounds
  <2>2. MaxDelta(shown, read) <= Tolerance
    BY <1>6, <1>7, <1>9, <2>1
  <2>3. Abs(shown[n] - read[n]) \in Int
    <3>1. shown[n] \in 0..One /\ read[n] \in 0..One
      BY <1>1, <1>2, <1>8, SharesOf
    <3> QED
      BY <1>7, <3>1 DEF Abs
  <2> QED
    BY <1>7, <2>1, <2>2, <2>3
<1> QED
  BY <1>8, <1>10 DEF Agree, read

\* Values that are no series at all have no difference.
LEMMA NoDelta ==
    ASSUME NEW a \in Shares, NEW b \in Shares, Len(a) = 0
    PROVE  MaxDelta(a, b) = 0
<1>1. DOMAIN a = {}
  BY SharesOf
<1>2. {0} \cup {Abs(a[k] - b[k]) : k \in DOMAIN a} = {0}
  BY <1>1
<1>3. 0 \in Nat /\ {0} \in SUBSET (0..0) /\ {0} # {}
  OBVIOUS
<1>4. Max({0}) \in {0}
  BY <1>3, MaxOfBounded
<1> QED
  BY <1>2, <1>4 DEF MaxDelta, Max, Max

\* It fails only on series that differ: beyond the tolerance, or at all in a table.
LEMMA FailedValuesDiffer ==
    ASSUME UnambiguousPoints,
           NEW scen, scen.style \in SourceStyles,
           NEW shown \in Figures, NEW reading, reading.figure \in Figures,
           CompareValues(scen, shown, reading).result = "fail"
    PROVE  Differ(shown, reading.figure, scen.format = "table")
<1> DEFINE read == reading.figure
           delta == DifferenceOf(scen, shown, reading)
<1>1. shown \in Shares /\ read \in Shares
  BY FiguresAssumption DEF Shares
<1>2. DOMAIN shown = 1..Len(shown) /\ Len(shown) \in Nat /\ DOMAIN read = 1..Len(read)
  BY <1>1, SharesOf
<1>3. delta = IF Len(shown) # Len(read) THEN One + Tolerance + 1
              ELSE MaxDelta(shown, read)
  BY SharesAreCompared
<1>4. delta # 0 /\ (delta <= Tolerance => scen.format = "table")
  BY DEF CompareValues, Outcome
<1> HIDE DEF delta
<1>5. Tolerance \in Nat
  BY NumbersAssumption
<1>6. SUFFICES ASSUME Len(shown) = Len(read)
               PROVE  Differ(shown, read, scen.format = "table")
  BY DEF Differ, Agree
<1>7. delta = MaxDelta(shown, read)
  BY <1>3, <1>6
<1>8. Len(shown) # 0
  BY <1>1, <1>4, <1>7, NoDelta
<1>9. 1 \in DOMAIN shown
  BY <1>2, <1>8
<1>10. PICK k \in DOMAIN shown : delta = Abs(shown[k] - read[k])
  <2>1. MaxDelta(shown, read) = 0
        \/ \E k \in DOMAIN shown : MaxDelta(shown, read) = Abs(shown[k] - read[k])
    BY <1>1, <1>6, <1>9, MaxDeltaBounds
  <2> QED
    BY <1>4, <1>7, <2>1
<1>11. shown # read
  <2>1. ASSUME shown = read PROVE FALSE
    <3>1. read[k] \in 0..One
      BY <1>1, <1>2, <1>6, SharesOf
    <3>2. \A i \in 0..One : Abs(i - i) = 0
      BY DEF Abs, One
    <3>3. Abs(read[k] - read[k]) = 0
      BY <3>1, <3>2
    <3> QED
      BY <1>4, <1>10, <2>1, <3>3
  <2> QED
    BY <2>1
<1>12. scen.format # "table" => ~Agree(shown, read)
  BY <1>4, <1>10 DEF Agree
<1> HIDE DEF read
<1> QED
  BY <1>11, <1>12 DEF Differ

---------------------------------------------------------------------------
(* The invariant of a check, by its record c, the assertion a and the       *)
(* scenario s.                                                             *)
IsCheck(c) ==
    c = [pc |-> c.pc, via |-> c.via, contract |-> c.contract, op |-> c.op, negative |-> c.negative,
         given |-> c.given, shown |-> c.shown, at |-> c.at, uiFilter |-> c.uiFilter,
         sourceFilter |-> c.sourceFilter, reading |-> c.reading, outcome |-> c.outcome,
         verdict |-> c.verdict, fault |-> c.fault, stored |-> c.stored]
OnData(c, s) == c.via = "evaluate" \/ (c.via = "orchestrate" /\ s.kind = "data_assertion")
Ended(c) == c.pc \in {"record", "done"}

\* A registered assertion writes in one of the styles; a scenario on data has an assertion.
Referenced(a, s) ==
    /\ a # Absent => a.style \in SourceStyles
    /\ (s # Absent /\ s.kind # "api_contract") => a # Absent
\* What a check at each step goes by: a scenario, an assertion.
GoesBy(c, a, s) ==
    /\ c.via = "evaluate" => a # Absent
    /\ c.via = "orchestrate" => s # Absent
    /\ c.pc = "validate" => c.via # "evaluate" /\ (c.via = "orchestrate" => s.kind = "api_contract")
    /\ c.pc \in {"capture", "read", "compare"}
       => c.via = "evaluate" \/ (c.via = "orchestrate" /\ s.kind # "api_contract")
\* What a check holds of the dashboard and of the source.
Held(c) ==
    /\ c.shown \in Figures \cup {<<>>} /\ c.reading.figure \in Figures \cup {<<>>}
    /\ c.reading.result = "ok" => c.reading.figure \in Figures
    /\ c.at \in Nat /\ c.reading.stamp \in Nat
\* A pass of a data check, from the comparison on.
PassedAgrees(c, a, s) ==
    (Ended(c) /\ OnData(c, s) /\ c.outcome.result = "pass")
    => /\ Agree(c.shown, c.reading.figure)
       /\ c.uiFilter = c.sourceFilter
       /\ a.timed => c.at - c.reading.stamp <= Window
\* What a defect is made of: nothing shown, or what the comparison found.
Seen(c, a) ==
    /\ c.outcome.result = "fail"
    /\ c.shown = <<>> \/
       /\ c.reading.result = "ok"
       /\ \/ Differ(c.shown, c.reading.figure, a.format = "table")
          \/ c.uiFilter # c.sourceFilter
          \/ a.timed /\ c.at - c.reading.stamp > Window
\* A defect of a data check, and what a job has of the dashboard before and after the capture.
DefectSeen(c, a, s) ==
    /\ c.via = "evaluate" => c.verdict = "none"
    /\ (c.via = "orchestrate" /\ s.kind # "api_contract") =>
         /\ c.pc = "capture" => c.shown = <<>>
         /\ c.pc \in {"read", "compare"}
            => c.uiFilter = IF a.filtered THEN "expected" ELSE "none"
         /\ (Ended(c) /\ c.verdict = "reproduced") => Seen(c, a)

Measured ==
    /\ figure \in Figures /\ screen \in Figures \cup {<<>>}
    /\ stamp \in Nat /\ now \in Nat
\* The invariant of the registry and of the check, without its verdict.
ChecksInv ==
    /\ Measured
    /\ Referenced(assertion, scenario)
    /\ IsCheck(check)
    /\ GoesBy(check, assertion, scenario)
    /\ Held(check)

---------------------------------------------------------------------------
\* What the capture of the dashboard makes of the check.
LEMMA CaptureMoves ==
    ASSUME IsCheck(check), Capture
    PROVE  /\ IsCheck(check')
           /\ check'.via = check.via /\ check'.reading = check.reading /\ check'.at = now
           /\ check.via = "evaluate"
              => /\ check'.pc = "compare" /\ check'.shown \in {screen, <<>>}
                 /\ check'.verdict = check.verdict
           /\ check.via # "evaluate"
              => \E answer \in DashboardAnswers :
                    \/ /\ CaptureOf(answer).result = "ok" /\ check'.pc = "read"
                       /\ check'.shown = screen /\ check'.verdict = check.verdict
                       /\ check'.uiFilter = IF assertion.filtered THEN "expected" ELSE "none"
                    \/ /\ CaptureOf(answer).result # "ok" /\ check'.pc = "done"
                       /\ check'.shown = check.shown
                       /\ check'.outcome = CaptureOf(answer)
                       /\ check'.verdict = CaptureVerdict(CaptureOf(answer).category)
<1>1. PICK answer \in DashboardAnswers :
        LET o == CaptureOf(answer)
            seen == [check EXCEPT !.fault = @ \/ answer # "page", !.at = now]
            filter == IF assertion.filtered THEN "expected" ELSE "none"
        IN  check' = IF check.via = "evaluate"
                     THEN [seen EXCEPT !.pc = "compare",
                              !.shown = IF o.result = "ok" THEN screen ELSE <<>>,
                              !.uiFilter = IF o.result = "ok" THEN filter ELSE @]
                     ELSE IF o.result = "ok"
                     THEN [seen EXCEPT !.pc = "read", !.shown = screen, !.uiFilter = filter]
                     ELSE [seen EXCEPT !.pc = "done", !.outcome = o,
                              !.verdict = CaptureVerdict(o.category)]
  BY DEF Capture
<1> DEFINE o == CaptureOf(answer)
<1>2. CASE check.via = "evaluate"
  BY <1>1, <1>2 DEF IsCheck
<1>3. CASE check.via # "evaluate" /\ o.result = "ok"
  BY <1>1, <1>3 DEF IsCheck
<1>4. CASE check.via # "evaluate" /\ o.result # "ok"
  BY <1>1, <1>4 DEF IsCheck
<1> QED
  BY <1>2, <1>3, <1>4

\* What the reading of the source makes of it.
LEMMA ReadMoves ==
    ASSUME IsCheck(check), Read
    PROVE  /\ IsCheck(check')
           /\ check'.via = check.via /\ check'.shown = check.shown /\ check'.at = check.at
           /\ check'.verdict = check.verdict /\ check'.uiFilter = check.uiFilter
           /\ check'.reading \in Readings(check.contract, check.op, assertion.timed)
           /\ check'.pc = IF check.via = "evaluate" /\ check.shown = <<>>
                          THEN "capture" ELSE "compare"
<1>1. PICK r \in Readings(check.contract, check.op, assertion.timed) :
        check' = [check EXCEPT !.reading = r, !.fault = @ \/ r.result # "ok",
                     !.pc = IF check.via = "evaluate" /\ check.shown = <<>>
                            THEN "capture" ELSE "compare"]
  BY DEF Read
<1> QED
  BY <1>1 DEF IsCheck

\* What the comparison makes of it.
LEMMA CompareMoves ==
    ASSUME IsCheck(check), Compare
    PROVE  /\ IsCheck(check')
           /\ check'.via = check.via /\ check'.shown = check.shown /\ check'.at = check.at
           /\ check'.uiFilter = check.uiFilter /\ check'.sourceFilter = check.sourceFilter
           /\ check'.reading = check.reading /\ check'.pc = "record"
           /\ check'.outcome = CompareDashboardData(assertion, check)
           /\ check'.verdict = IF check.via = "evaluate" THEN "none"
                               ELSE ComparisonVerdict(check'.outcome)
  BY DEF Compare, IsCheck

\* What the validation of an operation makes of it.
LEMMA RunValidationMoves ==
    ASSUME IsCheck(check), RunValidation
    PROVE  /\ IsCheck(check')
           /\ check'.via = check.via /\ check'.shown = check.shown
           /\ check'.reading = check.reading /\ check'.at = check.at
           /\ check'.pc = IF check.via = "validate" THEN "record" ELSE "done"
<1>1. PICK o \in Validations(check.contract, check.op, check.negative, check.given) :
        check' = [check EXCEPT !.pc = IF check.via = "validate" THEN "record" ELSE "done", !.outcome = o,
                     !.fault = o.result = "blocked" \/ o.category = "authorization_failure",
                     !.verdict = IF check.via = "validate" THEN "none" ELSE ContractVerdict(o)]
  BY DEF RunValidation
<1> QED
  BY <1>1 DEF IsCheck

\* A record of the observation keeps what was observed.
LEMMA RecordMoves ==
    ASSUME IsCheck(check), RecordDataObservation \/ RecordApiObservation
    PROVE  /\ check.pc = "record"
           /\ \E linked \in BOOLEAN : check' = [check EXCEPT !.pc = "done", !.stored = linked]
           /\ IsCheck(check')
           /\ check'.pc = "done" /\ check'.via = check.via /\ check'.shown = check.shown
           /\ check'.reading = check.reading /\ check'.at = check.at
           /\ check'.uiFilter = check.uiFilter /\ check'.sourceFilter = check.sourceFilter
           /\ check'.outcome = check.outcome /\ check'.verdict = check.verdict
           /\ UNCHANGED <<registry, world>>
<1>1. /\ check.pc = "record" /\ UNCHANGED <<registry, world>>
      /\ \E linked \in BOOLEAN : check' = [check EXCEPT !.pc = "done", !.stored = linked]
  BY DEF RecordDataObservation, RecordApiObservation, AddObservation,
         CheckIsAt
<1>2. PICK linked \in BOOLEAN : check' = [check EXCEPT !.pc = "done", !.stored = linked]
  BY <1>1
<1> QED
  BY <1>1, <1>2 DEF IsCheck

\* What a check is at its start.
Started(c, via) ==
    /\ IsCheck(c) /\ c.via = via
    /\ c.reading = NoReading
    /\ c.shown \in Figures \cup {<<>>} /\ c.at \in {0, now}

\* The three ways to start a check, of which the job may be refused at once.
LEMMA Starts ==
    ASSUME OrchestrateCheck \/ Evaluate \/ Validate
    PROVE  /\ UNCHANGED <<registry, world>>
           /\ \/ /\ Started(check', "orchestrate") /\ scenario # Absent
                 /\ check'.pc = IF scenario.kind = "api_contract" THEN "validate" ELSE "capture"
                 /\ check'.shown = <<>>
              \/ /\ Started(check', "orchestrate") /\ scenario # Absent
                 /\ check'.pc = "done" /\ check'.verdict = "blocked"
                 /\ check'.outcome.result = "blocked"
              \/ /\ Started(check', "evaluate") /\ assertion # Absent
                 /\ check'.pc = "read" /\ check'.verdict = "none"
              \/ Started(check', "validate") /\ check'.pc = "validate"
<1>1. CASE OrchestrateCheck
  <2>1. PICK job \in Jobs :
          LET plan == PlanAssuranceJob(job)
              started == Registered("orchestrate", scenario.op)
          IN  check' = IF plan # "ready"
                       THEN [started EXCEPT !.pc = "done", !.verdict = "blocked",
                                            !.outcome = Blocked(plan)]
                       ELSE [started EXCEPT !.pc = IF scenario.kind = "api_contract"
                                                   THEN "validate" ELSE "capture"]
    BY <1>1 DEF OrchestrateCheck
  <2>2. scenario # Absent /\ UNCHANGED <<registry, world>>
    BY <1>1 DEF OrchestrateCheck
  <2>3. CASE PlanAssuranceJob(job) # "ready"
    BY <2>1, <2>2, <2>3 DEF Registered, NoCheck, IsCheck, Started,
                            Blocked
  <2>4. CASE PlanAssuranceJob(job) = "ready"
    BY <2>1, <2>2, <2>4 DEF Registered, NoCheck, IsCheck, Started
  <2> QED
    BY <2>3, <2>4
<1>2. CASE Evaluate
  <2>1. PICK value \in Figures \cup {<<>>}, ui \in Filters, source \in Filters :
          check' = [Registered("evaluate", assertion.op) EXCEPT
                     !.pc = "read", !.shown = value, !.at = now, !.uiFilter = ui, !.sourceFilter = source]
    BY <1>2 DEF Evaluate
  <2> QED
    BY <1>2, <2>1 DEF Evaluate, Registered, NoCheck, IsCheck, Started
<1>3. CASE Validate
  <2>1. PICK n \in DOMAIN ops, negative \in BOOLEAN, given \in {"none", "legal", "illegal"} :
          check' = [Registered("validate", n) EXCEPT
                      !.pc = "validate", !.negative = negative, !.given = given]
    BY <1>3 DEF Validate
  <2> QED
    BY <1>3, <2>1 DEF Validate, Registered, NoCheck, IsCheck, Started
<1> QED
  BY <1>1, <1>2, <1>3

\* The other actions leave the check as it is.
Others ==
    \/ RegisterContract \/ ConfigureRules
    \/ RegisterDataAssertion \/ RegisterScenario
    \/ SourceComputes \/ DashboardShows \/ SessionChanges
    \/ TargetChanges \/ Tick
    \/ UNCHANGED checksVars

\* They register what was not there, or change the application.
LEMMA OthersMove ==
    ASSUME Others
    PROVE  /\ check' = check
           /\ \/ UNCHANGED <<assertion, scenario>>
              \/ /\ assertion = Absent /\ scenario = Absent /\ scenario' = scenario
                 /\ assertion'.style \in SourceStyles
              \/ /\ scenario = Absent /\ assertion' = assertion
                 /\ scenario'.kind # "api_contract" => assertion # Absent
           /\ Measured => Measured'
<1>1. CASE RegisterContract \/ ConfigureRules \/ UNCHANGED checksVars
  BY <1>1 DEF RegisterContract, ConfigureRules, checksVars,
              world, registry, Measured
<1>2. CASE RegisterDataAssertion
  BY <1>2 DEF RegisterDataAssertion, world, Measured
<1>3. CASE RegisterScenario
  <2>1. PICK ref \in References, approved \in BOOLEAN :
          scenario' = [kind |-> ref.kind, op |-> ref.op, approved |-> approved]
    BY <1>3 DEF RegisterScenario
  <2>2. ref.kind # "api_contract" => assertion # Absent
    BY DEF References
  <2> QED
    BY <1>3, <2>1, <2>2 DEF RegisterScenario, world, Measured
<1>4. CASE \/ SourceComputes \/ DashboardShows \/ SessionChanges
           \/ TargetChanges \/ Tick
  BY <1>4 DEF SourceComputes, DashboardShows, SessionChanges,
              TargetChanges, Tick,
              WorldChanges, registry, Measured
<1> QED
  BY <1>1, <1>2, <1>3, <1>4 DEF Others

\* A step is one of the check or one that leaves it alone.
LEMMA NextCases ==
    [ChecksNext]_checksVars
    => \/ Capture \/ Read \/ Compare \/ RunValidation
       \/ (RecordDataObservation \/ RecordApiObservation)
       \/ (OrchestrateCheck \/ Evaluate \/ Validate)
       \/ Others
  BY DEF ChecksNext, Others

\* A source is read as a figure it computed, or not at all.
LEMMA ReadsAFigure ==
    ASSUME Measured, NEW con, NEW op, NEW timed, NEW r \in Readings(con, op, timed)
    PROVE  /\ r.figure \in Figures \cup {<<>>}
           /\ r.result = "ok" => r.figure \in Figures
           /\ r.stamp \in Nat
<1>1. CASE r = [result |-> "ok", category |-> "source_read", figure |-> figure, stamp |-> stamp]
  BY <1>1 DEF Measured
<1>2. ASSUME NEW category, r = Unread(category)
      PROVE  r.figure = <<>> /\ r.result = "blocked" /\ r.stamp = 0
  BY <1>2 DEF Unread, NoReading
<1> QED
  BY <1>1, <1>2 DEF Readings

\* Nothing is registered at first, and the check is idle.
LEMMA ChecksInvInit == ChecksInit => ChecksInv
<1> SUFFICES ASSUME ChecksInit PROVE ChecksInv
  OBVIOUS
<1>1. /\ check = NoCheck /\ assertion = Absent /\ scenario = Absent
      /\ figure \in Figures /\ screen = figure /\ stamp = 0 /\ now = 0
  BY DEF ChecksInit
<1>2. IsCheck(check) /\ Held(check)
  BY <1>1 DEF NoCheck, IsCheck, Held, NoReading
<1>3. GoesBy(check, assertion, scenario) /\ Referenced(assertion, scenario)
  BY <1>1 DEF NoCheck, GoesBy, Referenced
<1> QED
  BY <1>1, <1>2, <1>3 DEF ChecksInv, Measured

\* The registry of a check stays what the check goes by.
LEMMA ChecksInvStep == ChecksInv /\ [ChecksNext]_checksVars => ChecksInv'
<1> SUFFICES ASSUME ChecksInv, [ChecksNext]_checksVars PROVE ChecksInv'
  OBVIOUS
<1> USE DEF ChecksInv
<1>1. CASE Capture
  <2>1. UNCHANGED <<registry, world>> /\ check.pc = "capture"
    BY <1>1 DEF Capture, CheckIsAt
  <2>2. Measured' /\ Referenced(assertion, scenario)'
    BY <2>1 DEF registry, world, Measured, Referenced
  <2>3. GoesBy(check, assertion, scenario)' /\ Held(check)'
    <3>1. /\ check'.via = check.via /\ check'.reading = check.reading /\ check'.at = now
          /\ check'.pc \in {"compare", "read", "done"}
          /\ check'.shown \in {screen, <<>>, check.shown}
      BY <1>1, CaptureMoves
    <3> QED
      BY <2>1, <3>1 DEF registry, GoesBy, Held, Measured
  <2> QED
    BY <1>1, <2>2, <2>3, CaptureMoves
<1>2. CASE Read
  <2>1. UNCHANGED <<registry, world>> /\ check.pc = "read"
    BY <1>2 DEF Read, CheckIsAt
  <2>2. Measured' /\ Referenced(assertion, scenario)'
    BY <2>1 DEF registry, world, Measured, Referenced
  <2>3. GoesBy(check, assertion, scenario)' /\ Held(check)'
    <3>1. /\ check'.via = check.via /\ check'.shown = check.shown /\ check'.at = check.at
          /\ check'.pc \in {"compare", "capture"}
          /\ check'.reading \in Readings(check.contract, check.op, assertion.timed)
      BY <1>2, ReadMoves
    <3> QED
      BY <2>1, <3>1, ReadsAFigure DEF registry, GoesBy, Held
  <2> QED
    BY <1>2, <2>2, <2>3, ReadMoves
<1>3. CASE Compare
  <2>1. UNCHANGED <<registry, world>> /\ check.pc = "compare"
    BY <1>3 DEF Compare, CheckIsAt
  <2>2. Measured' /\ Referenced(assertion, scenario)'
    BY <2>1 DEF registry, world, Measured, Referenced
  <2>3. GoesBy(check, assertion, scenario)' /\ Held(check)'
    <3>1. /\ check'.via = check.via /\ check'.shown = check.shown /\ check'.at = check.at
          /\ check'.pc = "record" /\ check'.reading = check.reading
      BY <1>3, CompareMoves
    <3> QED
      BY <2>1, <3>1 DEF registry, GoesBy, Held
  <2> QED
    BY <1>3, <2>2, <2>3, CompareMoves
<1>4. CASE RunValidation
  <2>1. UNCHANGED <<registry, world>> /\ check.pc = "validate"
    BY <1>4 DEF RunValidation, CheckIsAt
  <2>2. Measured' /\ Referenced(assertion, scenario)'
    BY <2>1 DEF registry, world, Measured, Referenced
  <2>3. GoesBy(check, assertion, scenario)' /\ Held(check)'
    <3>1. /\ check'.via = check.via /\ check'.shown = check.shown /\ check'.at = check.at
          /\ check'.pc \in {"record", "done"} /\ check'.reading = check.reading
      BY <1>4, RunValidationMoves
    <3> QED
      BY <2>1, <3>1 DEF registry, GoesBy, Held
  <2> QED
    BY <1>4, <2>2, <2>3, RunValidationMoves
<1>5. CASE RecordDataObservation \/ RecordApiObservation
  <2>1. UNCHANGED <<registry, world>> /\ check.pc = "record"
    BY <1>5, RecordMoves
  <2>2. Measured' /\ Referenced(assertion, scenario)'
    BY <2>1 DEF registry, world, Measured, Referenced
  <2>3. GoesBy(check, assertion, scenario)' /\ Held(check)'
    <3>1. /\ check'.via = check.via /\ check'.shown = check.shown /\ check'.at = check.at
          /\ check'.pc = "done" /\ check'.reading = check.reading
      BY <1>5, RecordMoves
    <3> QED
      BY <2>1, <3>1 DEF registry, GoesBy, Held
  <2> QED
    BY <1>5, <2>2, <2>3, RecordMoves
<1>6. CASE OrchestrateCheck \/ Evaluate \/ Validate
  <2>1. UNCHANGED <<registry, world>>
    BY <1>6, Starts
  <2>2. Measured' /\ Referenced(assertion, scenario)'
    BY <2>1 DEF registry, world, Measured, Referenced
  <2>3. GoesBy(check, assertion, scenario)' /\ IsCheck(check)'
    BY <1>6, <2>1, Starts DEF registry, GoesBy, Started
  <2>4. Held(check)'
    <3>1. /\ check'.shown \in Figures \cup {<<>>} /\ check'.reading = NoReading
          /\ check'.at \in {0, now}
      BY <1>6, Starts DEF Started
    <3> QED
      BY <3>1 DEF Held, NoReading, Measured
  <2> QED
    BY <2>2, <2>3, <2>4
<1>7. CASE Others
  <2>1. check' = check /\ Measured'
    BY <1>7, OthersMove
  <2>2. IsCheck(check)' /\ Held(check)'
    BY <2>1 DEF IsCheck, Held
  <2>3. GoesBy(check, assertion, scenario)' /\ Referenced(assertion, scenario)'
    BY <1>7, <2>1, OthersMove DEF GoesBy, Referenced
  <2> QED
    BY <2>1, <2>2, <2>3
<1> QED
  BY <1>1, <1>2, <1>3, <1>4, <1>5, <1>6, <1>7, NextCases

\* A comparison passes only on what agrees, under one filter and within the window.
LEMMA ComparisonPasses ==
    ASSUME UnambiguousPoints, ChecksInv, assertion.style \in SourceStyles,
           CompareDashboardData(assertion, check).result = "pass"
    PROVE  /\ Agree(check.shown, check.reading.figure)
           /\ check.uiFilter = check.sourceFilter
           /\ assertion.timed => check.at - check.reading.stamp <= Window
<1> DEFINE expected == IF assertion.filtered THEN "expected" ELSE "none"
<1>1. /\ check.shown # <<>> /\ check.reading.result = "ok"
      /\ ~FilterMismatch(expected, check.uiFilter, check.sourceFilter)
      /\ ~Stale(assertion, check.at, check.reading)
      /\ CompareValues(assertion, check.shown, check.reading).result = "pass"
  BY DEF CompareDashboardData, Outcome
<1>2. check.uiFilter = check.sourceFilter
  BY <1>1 DEF FilterMismatch
<1>3. assertion.timed => check.at - check.reading.stamp <= Window
  <2>1. check.at \in Nat /\ check.reading.stamp \in Nat /\ Window \in Nat
    BY NumbersAssumption DEF ChecksInv, Held
  <2> QED
    BY <1>1, <2>1 DEF Stale
<1>4. check.shown \in Figures /\ check.reading.figure \in Figures
  BY <1>1 DEF ChecksInv, Held
<1>5. Agree(check.shown, check.reading.figure)
  BY <1>1, <1>4, PassedValuesAgree
<1> QED
  BY <1>2, <1>3, <1>5

\* A capture is blocked, failed, or has the value of the page.
LEMMA CapturesNeverPass ==
    ASSUME NEW answer \in DashboardAnswers
    PROVE  /\ CaptureOf(answer).result # "pass"
           /\ CaptureVerdict(CaptureOf(answer).category) = "reproduced"
              => CaptureOf(answer).result \in {"ok", "fail"}
<1>1. answer \in {"timeout", "unreachable", "out of scope", "page", "server error", "401 or 403",
                  "login path", "sign-in page"}
  BY DEF DashboardAnswers
<1> QED
  BY <1>1 DEF CaptureOf, ValueOnPage, Blocked, Outcome, CaptureVerdict

\* A comparison that makes a defect found nothing shown, or one of its three differences.
LEMMA ComparisonFails ==
    ASSUME UnambiguousPoints, ChecksInv, assertion.style \in SourceStyles,
           check.uiFilter = IF assertion.filtered THEN "expected" ELSE "none",
           ComparisonVerdict(CompareDashboardData(assertion, check)) = "reproduced"
    PROVE  /\ CompareDashboardData(assertion, check).result = "fail"
           /\ check.shown = <<>> \/
              /\ check.reading.result = "ok"
              /\ \/ Differ(check.shown, check.reading.figure, assertion.format = "table")
                 \/ check.uiFilter # check.sourceFilter
                 \/ assertion.timed /\ check.at - check.reading.stamp > Window
<1> DEFINE expected == IF assertion.filtered THEN "expected" ELSE "none"
           values == CompareValues(assertion, check.shown, check.reading)
<1>1. CompareDashboardData(assertion, check).result \notin {"pass", "blocked"}
  BY DEF ComparisonVerdict
<1>2. CASE check.shown = <<>>
  BY <1>2 DEF CompareDashboardData, Outcome
<1>3. CASE check.shown # <<>> /\ check.reading.result # "ok"
  BY <1>1, <1>3 DEF CompareDashboardData, Outcome
<1>4. CASE /\ check.shown # <<>> /\ check.reading.result = "ok"
           /\ FilterMismatch(expected, check.uiFilter, check.sourceFilter)
  <2>1. check.uiFilter # check.sourceFilter
    BY <1>4 DEF FilterMismatch
  <2> QED
    BY <1>4, <2>1 DEF CompareDashboardData, Outcome
<1>5. CASE /\ check.shown # <<>> /\ check.reading.result = "ok"
           /\ ~FilterMismatch(expected, check.uiFilter, check.sourceFilter)
           /\ Stale(assertion, check.at, check.reading)
  BY <1>5 DEF CompareDashboardData, Outcome, Stale
<1>6. CASE /\ check.shown # <<>> /\ check.reading.result = "ok"
           /\ ~FilterMismatch(expected, check.uiFilter, check.sourceFilter)
           /\ ~Stale(assertion, check.at, check.reading)
  <2>1. CompareDashboardData(assertion, check) = values
    BY <1>6 DEF CompareDashboardData
  <2>2. values.result = "fail"
    BY <1>1, <2>1 DEF CompareValues, Outcome
  <2>3. check.shown \in Figures /\ check.reading.figure \in Figures
    BY <1>6 DEF ChecksInv, Held
  <2>4. Differ(check.shown, check.reading.figure, assertion.format = "table")
    BY <2>2, <2>3, FailedValuesDiffer
  <2> QED
    BY <1>6, <2>1, <2>2, <2>4
<1> QED
  BY <1>2, <1>3, <1>4, <1>5, <1>6

\* Only the comparison makes a data check pass, and what it compared stays.
LEMMA PassedAgreesStep ==
    /\ UnambiguousPoints /\ ChecksInv
    /\ PassedAgrees(check, assertion, scenario) /\ [ChecksNext]_checksVars
    => PassedAgrees(check, assertion, scenario)'
<1> SUFFICES ASSUME UnambiguousPoints, ChecksInv,
                    PassedAgrees(check, assertion, scenario), [ChecksNext]_checksVars,
                    Ended(check'), OnData(check', scenario'), check'.outcome.result = "pass"
             PROVE  /\ Agree(check'.shown, check'.reading.figure)
                    /\ check'.uiFilter = check'.sourceFilter
                    /\ assertion'.timed => check'.at - check'.reading.stamp <= Window
  BY DEF PassedAgrees
<1>0. IsCheck(check) /\ GoesBy(check, assertion, scenario) /\ Referenced(assertion, scenario)
  BY DEF ChecksInv
<1>1. CASE Capture
  <2>1. PICK answer \in DashboardAnswers : check'.outcome = CaptureOf(answer)
    BY <1>0, <1>1, CaptureMoves DEF Ended
  <2> QED
    BY <2>1, CapturesNeverPass
<1>2. CASE Read
  BY <1>0, <1>2, ReadMoves DEF Ended
<1>3. CASE Compare
  <2>1. UNCHANGED <<assertion, scenario>> /\ check.pc = "compare"
    BY <1>3 DEF Compare, CheckIsAt, registry
  <2>2. /\ check'.via = check.via /\ check'.shown = check.shown /\ check'.at = check.at
        /\ check'.uiFilter = check.uiFilter /\ check'.sourceFilter = check.sourceFilter
        /\ check'.reading = check.reading
        /\ check'.outcome = CompareDashboardData(assertion, check)
    BY <1>0, <1>3, CompareMoves
  <2>3. assertion.style \in SourceStyles
    BY <1>0, <2>1, <2>2 DEF GoesBy, Referenced
  <2>4. CompareDashboardData(assertion, check).result = "pass"
    BY <2>2
  <2> QED
    BY <2>1, <2>2, <2>3, <2>4, ComparisonPasses
<1>4. CASE RunValidation
  <2>1. check.pc = "validate" /\ scenario' = scenario /\ check'.via = check.via
    BY <1>0, <1>4, RunValidationMoves DEF RunValidation, CheckIsAt, registry
  <2>2. ~OnData(check', scenario')
    BY <1>0, <2>1 DEF GoesBy, OnData
  <2> QED
    BY <2>2
<1>5. CASE RecordDataObservation \/ RecordApiObservation
  <2>1. check.pc = "record" /\ UNCHANGED <<assertion, scenario>>
    BY <1>0, <1>5, RecordMoves DEF registry
  <2>2. /\ check'.via = check.via /\ check'.shown = check.shown /\ check'.at = check.at
        /\ check'.uiFilter = check.uiFilter /\ check'.sourceFilter = check.sourceFilter
        /\ check'.reading = check.reading /\ check'.outcome = check.outcome
    BY <1>0, <1>5, RecordMoves
  <2> QED
    BY <2>1, <2>2 DEF PassedAgrees, Ended, OnData
<1>6. CASE OrchestrateCheck \/ Evaluate \/ Validate
  BY <1>6, Starts DEF Ended
<1>7. CASE Others
  <2>1. check' = check
    BY <1>7, OthersMove
  <2>2. CASE UNCHANGED <<assertion, scenario>>
    BY <2>1, <2>2 DEF PassedAgrees
  <2>3. CASE scenario = Absent /\ assertion' = assertion
    BY <1>0, <2>1, <2>3 DEF PassedAgrees, OnData, GoesBy
  <2>4. CASE assertion = Absent /\ scenario = Absent
    BY <1>0, <2>1, <2>4 DEF OnData, GoesBy
  <2> QED
    BY <1>7, <2>2, <2>3, <2>4, OthersMove
<1> QED
  BY <1>1, <1>2, <1>3, <1>4, <1>5, <1>6, <1>7, NextCases

\* A defect is made by the capture of a page that shows nothing, or by the comparison.
LEMMA DefectSeenStep ==
    /\ UnambiguousPoints /\ ChecksInv
    /\ DefectSeen(check, assertion, scenario) /\ [ChecksNext]_checksVars
    => DefectSeen(check, assertion, scenario)'
<1> SUFFICES ASSUME UnambiguousPoints, ChecksInv,
                    DefectSeen(check, assertion, scenario), [ChecksNext]_checksVars
             PROVE  DefectSeen(check', assertion', scenario')
  BY DEF DefectSeen, Ended, Seen
<1>0. IsCheck(check) /\ GoesBy(check, assertion, scenario) /\ Referenced(assertion, scenario)
  BY DEF ChecksInv
<1>1. CASE Capture
  <2>1. check.pc = "capture" /\ UNCHANGED <<assertion, scenario>> /\ check'.via = check.via
    BY <1>0, <1>1, CaptureMoves DEF Capture, CheckIsAt, registry
  <2>2. CASE check.via = "evaluate"
    BY <1>0, <1>1, <2>1, <2>2, CaptureMoves DEF DefectSeen
  <2>3. CASE check.via # "evaluate"
    <3>1. check.shown = <<>>
      BY <1>0, <2>1, <2>3 DEF DefectSeen, GoesBy
    <3>2. PICK answer \in DashboardAnswers :
            \/ /\ CaptureOf(answer).result = "ok" /\ check'.pc = "read"
               /\ check'.shown = screen /\ check'.verdict = check.verdict
               /\ check'.uiFilter = IF assertion.filtered THEN "expected" ELSE "none"
            \/ /\ CaptureOf(answer).result # "ok" /\ check'.pc = "done"
               /\ check'.shown = check.shown
               /\ check'.outcome = CaptureOf(answer)
               /\ check'.verdict = CaptureVerdict(CaptureOf(answer).category)
      BY <1>0, <1>1, <2>3, CaptureMoves
    <3>3. CASE check'.pc = "read"
      BY <2>1, <2>3, <3>2, <3>3 DEF DefectSeen, Ended
    <3>4. CASE check'.pc = "done"
      <4>1. /\ CaptureOf(answer).result # "ok" /\ check'.shown = <<>>
            /\ check'.outcome = CaptureOf(answer)
            /\ check'.verdict = CaptureVerdict(CaptureOf(answer).category)
        BY <3>1, <3>2, <3>4
      <4>2. check'.verdict = "reproduced" => check'.outcome.result = "fail"
        BY <4>1, CapturesNeverPass
      <4>3. check'.verdict = "reproduced" => Seen(check', assertion')
        BY <4>1, <4>2 DEF Seen
      <4> QED
        BY <2>1, <2>3, <3>4, <4>3 DEF DefectSeen
    <3> QED
      BY <3>2, <3>3, <3>4
  <2> QED
    BY <2>2, <2>3
<1>2. CASE Read
  <2>1. check.pc = "read" /\ UNCHANGED <<assertion, scenario>>
    BY <1>2 DEF Read, CheckIsAt, registry
  <2>2. /\ check'.via = check.via /\ check'.verdict = check.verdict
        /\ check'.uiFilter = check.uiFilter
        /\ check'.pc = IF check.via = "evaluate" /\ check.shown = <<>> THEN "capture" ELSE "compare"
    BY <1>0, <1>2, ReadMoves
  <2> QED
    BY <2>1, <2>2 DEF DefectSeen, Ended
<1>3. CASE Compare
  <2>1. check.pc = "compare" /\ UNCHANGED <<assertion, scenario>>
    BY <1>3 DEF Compare, CheckIsAt, registry
  <2>2. /\ check'.via = check.via /\ check'.pc = "record" /\ check'.shown = check.shown
        /\ check'.at = check.at /\ check'.reading = check.reading
        /\ check'.uiFilter = check.uiFilter /\ check'.sourceFilter = check.sourceFilter
        /\ check'.outcome = CompareDashboardData(assertion, check)
        /\ check'.verdict = IF check.via = "evaluate" THEN "none"
                            ELSE ComparisonVerdict(check'.outcome)
    BY <1>0, <1>3, CompareMoves
  <2>3. ASSUME check.via = "orchestrate", scenario.kind # "api_contract",
               check'.verdict = "reproduced"
        PROVE  Seen(check', assertion')
    <3>1. check.uiFilter = IF assertion.filtered THEN "expected" ELSE "none"
      BY <2>1, <2>3 DEF DefectSeen
    <3>2. assertion.style \in SourceStyles
      BY <1>0, <2>3 DEF GoesBy, Referenced
    <3>3. ComparisonVerdict(CompareDashboardData(assertion, check)) = "reproduced"
      BY <2>2, <2>3
    <3> QED
      BY <2>1, <2>2, <3>1, <3>2, <3>3, ComparisonFails DEF Seen
  <2> QED
    BY <2>1, <2>2, <2>3 DEF DefectSeen
<1>4. CASE RunValidation
  <2>1. check.pc = "validate" /\ scenario' = scenario /\ check'.via = check.via
    BY <1>0, <1>4, RunValidationMoves DEF RunValidation, CheckIsAt, registry
  <2> QED
    BY <1>0, <2>1 DEF GoesBy, DefectSeen
<1>5. CASE RecordDataObservation \/ RecordApiObservation
  <2>1. check.pc = "record" /\ UNCHANGED <<assertion, scenario>>
    BY <1>0, <1>5, RecordMoves DEF registry
  <2>2. /\ check'.via = check.via /\ check'.pc = "done" /\ check'.shown = check.shown
        /\ check'.at = check.at /\ check'.reading = check.reading
        /\ check'.uiFilter = check.uiFilter /\ check'.sourceFilter = check.sourceFilter
        /\ check'.outcome = check.outcome /\ check'.verdict = check.verdict
    BY <1>0, <1>5, RecordMoves
  <2> QED
    BY <2>1, <2>2 DEF DefectSeen, Ended, Seen
<1>6. CASE OrchestrateCheck \/ Evaluate \/ Validate
  <2>1. UNCHANGED <<assertion, scenario>>
    BY <1>6, Starts DEF registry
  <2> QED
    BY <1>6, <2>1, Starts DEF Started, DefectSeen, Ended
<1>7. CASE Others
  <2>1. check' = check
    BY <1>7, OthersMove
  <2>2. CASE UNCHANGED <<assertion, scenario>>
    BY <2>1, <2>2
  <2>3. CASE scenario = Absent
    BY <1>0, <2>1, <2>3 DEF DefectSeen, GoesBy
  <2> QED
    BY <1>7, <2>2, <2>3, OthersMove
<1> QED
  BY <1>1, <1>2, <1>3, <1>4, <1>5, <1>6, <1>7, NextCases

(* The invariant of a check: at every step it goes by a registration that  *)
(* is there and holds figures of the dashboard and of the source, whatever *)
(* became of the operation, the application and the session meanwhile      *)
(* (v3_orchestration_service.py, v3_data_assertion_service.py).            *)
THEOREM ChecksInvariance == ChecksSpec => []ChecksInv
<1> QED
  BY ChecksInvInit, ChecksInvStep, PTL DEF ChecksSpec

(* A data check that passes has read a dashboard and a source that agree   *)
(* up to the tolerance, under the same filters and within the window of    *)
(* freshness: for series of every length, through both notations of a      *)
(* percentage (compare_dashboard_data).  A source that writes points must  *)
(* not have a share above 0 and at most 1 percent: normalize_scalar takes  *)
(* such points for a fraction.                                             *)
THEOREM PassedChecksAgree ==
    ASSUME UnambiguousPoints PROVE ChecksSpec => []PassMeansAgreement
<1> DEFINE Inv == ChecksInv /\ PassedAgrees(check, assertion, scenario)
<1>1. ChecksInit => Inv
  <2>1. ChecksInit => PassedAgrees(check, assertion, scenario)
    BY DEF ChecksInit, NoCheck, PassedAgrees, Ended
  <2> QED
    BY <2>1, ChecksInvInit
<1>2. Inv /\ [ChecksNext]_checksVars => Inv'
  BY ChecksInvStep, PassedAgreesStep
<1>3. Inv => PassMeansAgreement
  BY DEF PassedAgrees, PassMeansAgreement, OnData, OfData, Ended, CheckIsAt
<1> HIDE DEF Inv
<1> QED
  BY <1>1, <1>2, <1>3, PTL DEF ChecksSpec

(* A data check of a job that ends as reproduced has seen a defect: nothing *)
(* shown on the page it reached, or a figure of the source that the        *)
(* dashboard's does not agree with, other filters, or a figure computed    *)
(* outside the window; for series of every length and through both         *)
(* notations (execute_approved_scenario, compare_dashboard_data).  The     *)
(* page it reached may be one of a failing server: see DataFaultIsNoDefect. *)
THEOREM DefectsWereSeen ==
    ASSUME UnambiguousPoints PROVE ChecksSpec => []DefectWasSeen
<1> DEFINE Inv == ChecksInv /\ DefectSeen(check, assertion, scenario)
<1>1. ChecksInit => Inv
  <2>1. ChecksInit => DefectSeen(check, assertion, scenario)
    BY DEF ChecksInit, NoCheck, DefectSeen, Ended
  <2> QED
    BY <2>1, ChecksInvInit
<1>2. Inv /\ [ChecksNext]_checksVars => Inv'
  BY ChecksInvStep, DefectSeenStep
<1>3. Inv => DefectWasSeen
  BY DEF DefectSeen, Seen, DefectWasSeen, OfData, Ended, CheckIsAt
<1> HIDE DEF Inv
<1> QED
  BY <1>1, <1>2, <1>3, PTL DEF ChecksSpec
=============================================================================
