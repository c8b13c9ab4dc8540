-------------------------- MODULE ScanEventBusProofs --------------------------
(***************************************************************************)
(* Proofs about ScanEventBus for any number of clients, any size of the    *)
(* queue, any number of events, scans and sockets, and for one id of the   *)
(* run or two: the types, with the queue that never exceeds its capacity,  *)
(* and that no client goes back to an older event.                         *)
(***************************************************************************)
EXTENDS ScanEventBus, FiniteSetTheorems, TLAPS

---------------------------------------------------------------------------
(* The inductive invariant.                                                *)

Pcs == {"idle", "sequence", "put", "evict", "reput"}
Numbered == {"put", "evict", "reput"}

Bus ==
    /\ alias \in [Ids -> Ids \cup {None}]
    /\ created \in Nat /\ channel \in [Ids -> 0..created]
    /\ queues \in [Queues -> Seq(Events)] /\ \A q \in Queues : Len(queues[q]) <= Capacity
    /\ telemetry \in [Ids -> Events \cup {None}]
    /\ sequence \in [Ids -> 0..published]

Clock ==
    /\ timers \in [Ids -> Nat] /\ discards \in Nat
    /\ scan \in {"new", "live", "over"} /\ finished \in BOOLEAN /\ scans \in 0..MaxScans
    /\ scan = "live" => scans > 0
    /\ begun \in 0..MaxEvents /\ published \in Nat

\* What a call of publish may rely on at its place.
Call(x, made) ==
    /\ x.pc = "idle" => x = Quiet
    /\ x.pc # "idle" => x.queue \in 1..made
    /\ x.pc \in Numbered => x.event \in Events
Calls == [pc : Pcs, canon : Ids, queue : {0} \cup Queues, terminal : BOOLEAN,
          event : Events \cup {None}]
Publishing == pub \in [Publishers -> Calls] /\ \A p \in Publishers : Call(pub[p], created)

Sockets == [pc : {"closed", "snapshot", "reading"}, queue : {0} \cup Queues]
Watching ==
    /\ socket \in [Clients -> Sockets]
    /\ \A c \in Clients : socket[c].pc # "closed" => socket[c].queue \in 1..created
    /\ orphans \in [Queues -> Nat] /\ connects \in 0..MaxConnects
    /\ attached \in [Clients -> BOOLEAN]
    /\ last \in [Clients -> 0..MaxEvents] /\ shown \in [Clients -> 0..MaxEvents]

\* A queue is created for an id that has none, and only a discard takes one from an id.
Free(chan) == {i \in Ids : chan[i] = 0}
QueuesCounted == created + Cardinality(Free(channel)) <= discards + Cardinality(Ids)

\* Every event gets at most one number and starts at most one timer; a timer discards once.
One(b) == IF b THEN 1 ELSE 0
Sum(f) == IF RunId = ScanId THEN f[RunId] ELSE f[RunId] + f[ScanId]
EventsCounted ==
    /\ published + One(pub["crawler"].pc = "sequence") + One(pub["api"].pc = "sequence") <= begun
    /\ discards + Sum(timers) + One(pub["crawler"].terminal) + One(pub["api"].terminal) <= begun

\* Every reader, at work or left behind, has its connect.
Open(sock) == {c \in Clients : sock[c].pc # "closed"}
ReadersCounted ==
    /\ IsFiniteSet(Open(socket))
    /\ \A q \in Queues : orphans[q] + Cardinality(Open(socket)) <= connects

\* Until a channel is discarded, all events of the run are numbered in one place, in the order in
\* which they are published.
InOrder(e) == e.seq = e.number
Ordered ==
    discards = 0 =>
        /\ scans > 0 => alias[RunId] = ScanId
        /\ \A p \in Publishers : pub[p].pc # "idle" => pub[p].canon = ScanId
        /\ sequence[ScanId] = published
        /\ \A i \in Ids : telemetry[i] # None => InOrder(telemetry[i])
        /\ \A q \in Queues : \A n \in DOMAIN queues[q] : InOrder(queues[q][n])
        /\ \A p \in Publishers : pub[p].pc \in Numbered => InOrder(pub[p].event)
        /\ \A c \in Clients : last[c] = shown[c]

IInv ==
    /\ Bus /\ Clock /\ Publishing /\ Watching
    /\ QueuesCounted /\ EventsCounted /\ ReadersCounted /\ Ordered

---------------------------------------------------------------------------
(* Counting.                                                               *)

LEMMA TwoIds == IsFiniteSet(Ids) /\ Cardinality(Ids) \in Nat /\ RunId \in Ids /\ ScanId \in Ids
<1>1. Ids = {RunId} \cup {ScanId}
  BY DEF Ids
<1>2. IsFiniteSet({RunId} \cup {ScanId})
  BY FS_Singleton, FS_AddElement
<1> QED
  BY <1>1, <1>2, FS_CardinalityType

LEMMA Ones == \A b \in BOOLEAN : One(b) \in 0..1 /\ (b => One(b) = 1) /\ (~b => One(b) = 0)
BY DEF One

\* The sum goes with its terms.
LEMMA SumOf ==
    ASSUME NEW f \in [Ids -> Nat]
    PROVE  /\ Sum(f) \in Nat /\ \A i \in Ids : f[i] <= Sum(f)
           /\ \A i \in Ids : Sum([f EXCEPT ![i] = @ + 1]) = Sum(f) + 1
           /\ \A i \in Ids : f[i] > 0 => Sum([f EXCEPT ![i] = @ - 1]) = Sum(f) - 1
<1>1. f[RunId] \in Nat /\ f[ScanId] \in Nat /\ \A i \in Ids : i = RunId \/ i = ScanId
  BY DEF Ids
<1>2. Sum(f) \in Nat /\ \A i \in Ids : f[i] <= Sum(f)
  BY <1>1 DEF Sum
<1>3. ASSUME NEW i \in Ids, NEW n \in Int, NEW g,
             g[i] = f[i] + n, \A k \in Ids \ {i} : g[k] = f[k]
      PROVE  Sum(g) = Sum(f) + n
  <2>1. CASE RunId = ScanId
    BY <1>1, <1>3, <2>1 DEF Sum
  <2>2. CASE RunId # ScanId
    BY <1>1, <1>3, <2>2, TwoIds DEF Sum
  <2> QED
    BY <2>1, <2>2
<1>4. ASSUME NEW i \in Ids
      PROVE  Sum([f EXCEPT ![i] = @ + 1]) = Sum(f) + 1
  <2> DEFINE g == [f EXCEPT ![i] = @ + 1]
  <2>1. g[i] = f[i] + 1 /\ \A k \in Ids \ {i} : g[k] = f[k]
    OBVIOUS
  <2> HIDE DEF g
  <2>2. Sum(g) = Sum(f) + 1
    BY <1>3, <2>1
  <2> QED
    BY <2>2 DEF g
<1>5. ASSUME NEW i \in Ids, f[i] > 0
      PROVE  Sum([f EXCEPT ![i] = @ - 1]) = Sum(f) - 1
  <2> DEFINE g == [f EXCEPT ![i] = @ - 1]
  <2>1. g[i] = f[i] + (-1) /\ \A k \in Ids \ {i} : g[k] = f[k]
    BY <1>1
  <2> HIDE DEF g
  <2>2. Sum(g) = Sum(f) + (-1)
    BY <1>3, <2>1
  <2>3. Sum(g) = Sum(f) - 1
    BY <1>2, <2>2
  <2> QED
    BY <2>3 DEF g
<1> QED
  BY <1>2, <1>4, <1>5

LEMMA Bounded ==
    ASSUME IInv
    PROVE  /\ discards \in Nat /\ discards <= begun /\ published <= begun /\ begun <= MaxEvents
           /\ \A i \in Ids : timers[i] <= MaxEvents
           /\ Cardinality(Free(channel)) \in Nat /\ created <= MaxEvents + Cardinality(Ids)
           /\ \A i \in Ids : channel[i] = 0 => created + 1 <= MaxEvents + Cardinality(Ids)
<1> USE SizeAssumption
<1>1. /\ timers \in [Ids -> Nat] /\ discards \in Nat /\ begun \in 0..MaxEvents /\ published \in Nat
      /\ created \in Nat
  BY DEF IInv, Clock, Bus
<1>2. Sum(timers) \in Nat /\ \A i \in Ids : timers[i] <= Sum(timers)
  BY <1>1, SumOf
<1>3. /\ One(pub["crawler"].pc = "sequence") \in 0..1 /\ One(pub["api"].pc = "sequence") \in 0..1
      /\ One(pub["crawler"].terminal) \in 0..1 /\ One(pub["api"].terminal) \in 0..1
  BY DEF One
<1>4. discards <= begun /\ published <= begun /\ Sum(timers) <= begun
  BY <1>1, <1>2, <1>3 DEF IInv, EventsCounted
<1>5. IsFiniteSet(Free(channel)) /\ Cardinality(Free(channel)) \in Nat
  BY TwoIds, FS_Subset, FS_CardinalityType DEF Free
<1>6. \A i \in Ids : channel[i] = 0 => Cardinality(Free(channel)) >= 1
  <2>1. ASSUME NEW i \in Ids, channel[i] = 0 PROVE Cardinality(Free(channel)) # 0
    BY <1>5, <2>1, FS_EmptySet DEF Free
  <2> QED
    BY <1>5, <2>1
<1>7. created + Cardinality(Free(channel)) <= discards + Cardinality(Ids) /\ Cardinality(Ids) \in Nat
  BY TwoIds DEF IInv, QueuesCounted
<1>8. \A i \in Ids : timers[i] <= MaxEvents
  BY <1>1, <1>2, <1>4
<1> QED
  BY <1>1, <1>4, <1>5, <1>6, <1>7, <1>8

LEMMA CanonIsId == ASSUME IInv, NEW id \in Ids PROVE Canon(id) \in Ids
BY DEF IInv, Bus, Canon

\* A queue that is created is the one of an id that had none.
LEMMA QueueIsThere ==
    ASSUME IInv, NEW id \in Ids, GetChannel(id)
    PROVE  /\ created' \in Nat /\ created <= created' /\ created' <= MaxEvents + Cardinality(Ids)
           /\ channel' \in [Ids -> 0..created']
           /\ QueueOf(id) \in 1..created' /\ QueueOf(id) \in Queues
           /\ created' + Cardinality(Free(channel')) <= discards + Cardinality(Ids)
<1> USE SizeAssumption
<1> DEFINE k == Canon(id)
<1>1. k \in Ids
  BY CanonIsId
<1>2. /\ channel' = [channel EXCEPT ![k] = QueueOf(id)]
      /\ created' = IF channel[k] = 0 THEN created + 1 ELSE created
      /\ QueueOf(id) = IF channel[k] = 0 THEN created + 1 ELSE channel[k]
  BY DEF GetChannel, QueueOf
<1> HIDE DEF k
<1>3. created \in Nat /\ channel \in [Ids -> 0..created] /\ Cardinality(Ids) \in Nat /\ discards \in Nat
  BY TwoIds DEF IInv, Bus, Clock
<1>4. created' \in Nat /\ created <= created' /\ created' <= MaxEvents + Cardinality(Ids)
  BY <1>1, <1>2, <1>3, Bounded
<1>5. QueueOf(id) \in 1..created'
  BY <1>1, <1>2, <1>3
<1>6. QueueOf(id) \in Queues
  BY <1>3, <1>4, <1>5 DEF Queues
<1>7. channel' \in [Ids -> 0..created']
  BY <1>1, <1>2, <1>3, <1>4, <1>5
<1>8. created' + Cardinality(Free(channel')) <= discards + Cardinality(Ids)
  <2>1. IsFiniteSet(Free(channel))
    BY TwoIds, FS_Subset DEF Free
  <2>2. Cardinality(Free(channel)) \in Nat /\ created + Cardinality(Free(channel)) <= discards + Cardinality(Ids)
    BY Bounded DEF IInv, QueuesCounted
  <2>3. CASE channel[k] = 0
    <3>1. k \in Free(channel) /\ Free(channel') = Free(channel) \ {k}
      BY <1>1, <1>2, <1>3, <2>3 DEF Free
    <3>2. Cardinality(Free(channel')) = Cardinality(Free(channel)) - 1
      BY <2>1, <3>1, FS_RemoveElement
    <3> QED
      BY <1>2, <1>3, <2>2, <2>3, <3>2
  <2>4. CASE channel[k] # 0
    <3>1. channel' = channel /\ created' = created
      BY <1>1, <1>2, <1>3, <2>4
    <3> QED
      BY <2>2, <3>1
  <2> QED
    BY <2>3, <2>4
<1> QED
  BY <1>4, <1>5, <1>6, <1>7, <1>8

\* An event that is shown is newer than what was shown.
LEMMA RenderedOK ==
    ASSUME IInv, NEW c \in Clients, NEW e \in Events, Render(c, e)
    PROVE  /\ attached' \in [Clients -> BOOLEAN]
           /\ last' \in [Clients -> 0..MaxEvents] /\ shown' \in [Clients -> 0..MaxEvents]
           /\ InOrder(e) /\ (\A d \in Clients : last[d] = shown[d]) =>
                \A d \in Clients : last'[d] = shown'[d] /\ shown'[d] >= shown[d]
<1> USE SizeAssumption
<1>1. /\ attached \in [Clients -> BOOLEAN]
      /\ last \in [Clients -> 0..MaxEvents] /\ shown \in [Clients -> 0..MaxEvents]
  BY DEF IInv, Watching
<1>2. e.seq \in 1..MaxEvents /\ e.number \in 1..MaxEvents /\ e.terminal \in BOOLEAN
  BY DEF Events
<1>3. CASE attached[c] /\ e.seq > last[c]
  <2>1. /\ last' = [last EXCEPT ![c] = e.seq] /\ shown' = [shown EXCEPT ![c] = e.number]
        /\ attached' = [attached EXCEPT ![c] = ~e.terminal]
    BY <1>3 DEF Render
  <2>2. /\ attached' \in [Clients -> BOOLEAN]
        /\ last' \in [Clients -> 0..MaxEvents] /\ shown' \in [Clients -> 0..MaxEvents]
    BY <1>1, <1>2, <2>1
  <2>3. ASSUME InOrder(e), \A d \in Clients : last[d] = shown[d], NEW d \in Clients
        PROVE  last'[d] = shown'[d] /\ shown'[d] >= shown[d]
    BY <1>1, <1>2, <1>3, <2>1, <2>3 DEF InOrder
  <2> QED
    BY <2>2, <2>3
<1>4. CASE ~(attached[c] /\ e.seq > last[c])
  <2>1. last' = last /\ shown' = shown /\ attached' = attached
    BY <1>4 DEF Render
  <2> QED
    BY <1>1, <2>1
<1> QED
  BY <1>3, <1>4

---------------------------------------------------------------------------
(* publish.                                                                *)

LEMMA InitialOK == Init => IInv
<1> SUFFICES ASSUME Init PROVE IInv
  OBVIOUS
<1> USE SizeAssumption
<1>1. Bus /\ Clock
  <2>1. <<>> \in Seq(Events) /\ Len(<<>>) <= Capacity
    OBVIOUS
  <2>2. queues = [q \in Queues |-> <<>>]
    BY DEF Init
  <2>3. queues \in [Queues -> Seq(Events)]
    BY <2>1, <2>2
  <2>4. \A q \in Queues : Len(queues[q]) <= Capacity
    BY <2>1, <2>2
  <2>5. timers \in [Ids -> Nat] /\ sequence \in [Ids -> 0..published] /\ channel \in [Ids -> 0..created]
    BY DEF Init
  <2>6. alias \in [Ids -> Ids \cup {None}] /\ telemetry \in [Ids -> Events \cup {None}]
    BY DEF Init
  <2>7. Bus
    BY <2>3, <2>4, <2>5, <2>6 DEF Init, Bus
  <2>8. Clock
    <3>1. 0 \in 0..MaxScans /\ 0 \in 0..MaxEvents /\ timers \in [Ids -> Nat]
      BY <2>5
    <3>2. scan = "new" /\ scans = 0 /\ begun = 0 /\ published = 0 /\ discards = 0 /\ finished = FALSE
      BY DEF Init
    <3> QED
      BY <3>1, <3>2 DEF Clock
  <2> QED
    BY <2>7, <2>8
<1>2. Publishing
  <2>1. Quiet \in Calls /\ Call(Quiet, created)
    BY TwoIds DEF Quiet, Calls, Call, Pcs, Numbered
  <2> QED
    BY <2>1 DEF Init, Publishing
<1>3. Watching
  BY DEF Init, Watching, Closed, Sockets
<1>4. QueuesCounted
  <2>1. Free(channel) = Ids
    BY DEF Init, Free
  <2> QED
    BY <2>1, TwoIds DEF Init, QueuesCounted
<1>5. EventsCounted
  BY TwoIds DEF Init, EventsCounted, One, Sum, Publishers, Quiet
<1>6. ReadersCounted
  <2>1. Open(socket) = {}
    BY DEF Init, Open, Closed
  <2>2. IsFiniteSet(Open(socket)) /\ Cardinality(Open(socket)) = 0
    BY <2>1, FS_EmptySet, Zenon
  <2>3. connects = 0 /\ \A q \in Queues : orphans[q] = 0
    BY DEF Init
  <2> QED
    BY <2>2, <2>3 DEF ReadersCounted
<1>7. Ordered
  BY TwoIds DEF Init, Ordered, Quiet, Numbered
<1> QED
  BY <1>1, <1>2, <1>3, <1>4, <1>5, <1>6, <1>7 DEF IInv

\* A call of publish makes a step; the others keep what they rely on.
LEMMA CallStep ==
    ASSUME IInv, NEW p \in Publishers, NEW x \in Calls, created' \in Nat, created <= created',
           pub' = [pub EXCEPT ![p] = x], Call(x, created')
    PROVE  Publishing'
<1>1. pub' \in [Publishers -> Calls] /\ pub'[p] = x /\ \A q \in Publishers \ {p} : pub'[q] = pub[q]
  BY DEF IInv, Publishing
<1>2. \A q \in Publishers : Call(pub[q], created')
  BY DEF IInv, Publishing, Bus, Call
<1> QED
  BY <1>1, <1>2 DEF Publishing

LEMMA BeginOK ==
    ASSUME IInv, NEW p \in Publishers, NEW ends \in BOOLEAN, PublishBegin(p, RunId, ends),
           scans > 0, scans' = scans, scan' \in {"live", "over", scan}, finished' \in BOOLEAN
    PROVE  IInv'
<1> USE SizeAssumption
<1> DEFINE id == Canon(RunId)
           x == [pc |-> "sequence", canon |-> id, queue |-> QueueOf(id), terminal |-> ends,
                 event |-> None]
<1>0. id \in Ids
  BY CanonIsId, TwoIds
<1>1. /\ pub[p].pc = "idle" /\ begun < MaxEvents /\ begun' = begun + 1 /\ GetChannel(id)
      /\ pub' = [pub EXCEPT ![p] = x]
      /\ UNCHANGED <<alias, queues, telemetry, sequence, timers, client, published, discards>>
  BY DEF PublishBegin
<1>2. /\ x.pc = "sequence" /\ x.canon = id /\ x.queue = QueueOf(id) /\ x.terminal = ends
      /\ x = [pc |-> "sequence", canon |-> id, queue |-> QueueOf(id), terminal |-> ends, event |-> None]
  OBVIOUS
<1>3. discards = 0 => id = ScanId
  BY TwoIds, IdAssumption DEF IInv, Ordered, Canon, Ids
<1> HIDE DEF id, x
<1>4. /\ created' \in Nat /\ created <= created' /\ created' <= MaxEvents + Cardinality(Ids)
      /\ channel' \in [Ids -> 0..created']
      /\ QueueOf(id) \in 1..created' /\ QueueOf(id) \in Queues
      /\ created' + Cardinality(Free(channel')) <= discards + Cardinality(Ids)
  BY <1>0, <1>1, QueueIsThere
<1>5. pub' \in [Publishers -> Calls] /\ pub'[p] = x /\ \A q \in Publishers \ {p} : pub'[q] = pub[q]
      /\ pub[p] = Quiet
  <2>1. x \in Calls
    BY <1>0, <1>2, <1>4 DEF Calls, Pcs
  <2> QED
    BY <1>1, <2>1 DEF IInv, Publishing, Call
<1>6. Bus'
  BY <1>1, <1>4 DEF IInv, Bus, client
<1>7. Clock'
  BY <1>1 DEF IInv, Clock, client
<1>8. Publishing'
  <2>1. Call(x, created')
    BY <1>2, <1>4 DEF Call, Numbered
  <2> QED
    BY <1>1, <1>4, <1>5, <2>1, CallStep
<1>9. Watching'
  BY <1>1, <1>4, SMTT(30) DEF IInv, Watching, client, Bus
<1>10. QueuesCounted'
  BY <1>1, <1>4 DEF QueuesCounted, client
<1>11. EventsCounted'
  <2>1. /\ Quiet.pc = "idle" /\ Quiet.terminal = FALSE
    BY DEF Quiet
  <2>2. pub'["crawler"] = pub["crawler"] \/ pub'["api"] = pub["api"]
    BY <1>5 DEF Publishers
  <2>3. /\ Sum(timers) \in Nat /\ published \in Nat /\ discards \in Nat /\ begun \in Nat
    BY SumOf DEF IInv, Clock
  <2> QED
    BY <1>1, <1>2, <1>5, <2>1, <2>2, <2>3 DEF IInv, EventsCounted, client, One, Publishers
<1>12. ReadersCounted'
  BY <1>1 DEF IInv, ReadersCounted, client
<1>13. Ordered'
  BY <1>1, <1>2, <1>3, <1>5 DEF IInv, Ordered, client, Numbered
<1> QED
  BY <1>6, <1>7, <1>8, <1>9, <1>10, <1>11, <1>12, <1>13 DEF IInv

\* The number is the next one of its key; until a discard, the next one of all.
LEMMA SequenceOK ==
    ASSUME IInv, NEW p \in Publishers, PublishSequence(p)
    PROVE  IInv'
<1> USE SizeAssumption
<1> DEFINE k == pub[p].canon
           e == [seq |-> sequence[k] + 1, number |-> published + 1, terminal |-> pub[p].terminal]
           x == [pub[p] EXCEPT !.pc = "put", !.event = e]
<1>1. /\ pub[p].pc = "sequence"
      /\ sequence' = [sequence EXCEPT ![k] = e.seq] /\ telemetry' = [telemetry EXCEPT ![k] = e]
      /\ published' = published + 1 /\ pub' = [pub EXCEPT ![p] = x]
      /\ UNCHANGED <<alias, channel, queues, created, timers, scan, finished, client, begun, scans,
                     discards>>
  BY DEF PublishSequence
<1>2. pub[p] \in Calls /\ Call(pub[p], created) /\ k \in Ids
  BY DEF IInv, Publishing, Calls
<1>3. published + 1 <= begun /\ published \in Nat /\ begun \in 0..MaxEvents
  <2>1. \A q \in Publishers : One(pub[q].pc = "sequence") \in 0..1
    BY DEF One
  <2>2. One(pub[p].pc = "sequence") = 1
    BY <1>1 DEF One
  <2>3. published \in Nat /\ begun \in 0..MaxEvents
    BY DEF IInv, Clock
  <2> QED
    BY <2>1, <2>2, <2>3 DEF IInv, EventsCounted, Publishers
<1>4. sequence[k] \in 0..published
  BY <1>2 DEF IInv, Bus
<1>5. e \in Events /\ e.seq = sequence[k] + 1 /\ e.number = published + 1
  BY <1>2, <1>3, <1>4 DEF Events, Calls
<1> HIDE DEF e
<1>6. /\ x \in Calls /\ x.pc = "put" /\ x.event = e /\ x.queue = pub[p].queue
      /\ x.terminal = pub[p].terminal /\ x.canon = k
  BY <1>2, <1>5 DEF Calls, Pcs
<1>7. discards = 0 => InOrder(e)
  <2> SUFFICES ASSUME discards = 0 PROVE InOrder(e)
    OBVIOUS
  <2>1. k = ScanId /\ sequence[ScanId] = published
    BY <1>1 DEF IInv, Ordered
  <2> QED
    BY <1>5, <2>1 DEF InOrder
<1> HIDE DEF x
<1>8. pub'[p] = x /\ \A q \in Publishers \ {p} : pub'[q] = pub[q]
  BY <1>1 DEF IInv, Publishing
<1>9. Bus'
  <2>1. sequence' \in [Ids -> 0..published']
    BY <1>1, <1>2, <1>3, <1>4, <1>5 DEF IInv, Bus
  <2>2. telemetry' \in [Ids -> Events \cup {None}]
    BY <1>1, <1>2, <1>5 DEF IInv, Bus
  <2> QED
    BY <1>1, <2>1, <2>2 DEF IInv, Bus
<1>10. Clock'
  BY <1>1 DEF IInv, Clock
<1>11. Publishing'
  <2>1. Call(x, created')
    BY <1>1, <1>2, <1>5, <1>6 DEF Call, Numbered
  <2>2. created' \in Nat /\ created <= created'
    BY <1>1 DEF IInv, Bus
  <2> QED
    BY <1>1, <1>6, <2>1, <2>2, CallStep
<1>12. Watching'
  BY <1>1 DEF IInv, Watching, client
<1>13. QueuesCounted'
  BY <1>1 DEF IInv, QueuesCounted
<1>14. EventsCounted'
  <2>1. pub'["crawler"] = pub["crawler"] \/ pub'["api"] = pub["api"]
    BY <1>8 DEF Publishers
  <2> QED
    BY <1>1, <1>3, <1>6, <1>8, <2>1 DEF IInv, EventsCounted, One, Publishers
<1>15. ReadersCounted'
  BY <1>1 DEF IInv, ReadersCounted, client
<1>16. Ordered'
  <2> SUFFICES ASSUME discards = 0 PROVE Ordered'
    BY <1>1 DEF Ordered
  <2>1. k = ScanId /\ sequence[ScanId] = published
    BY <1>1 DEF IInv, Ordered
  <2>2. sequence'[ScanId] = published'
    BY <1>1, <1>5, <2>1, TwoIds DEF IInv, Bus
  <2>3. \A i \in Ids : telemetry'[i] # None => InOrder(telemetry'[i])
    BY <1>1, <1>7 DEF IInv, Ordered, Bus
  <2>4. \A q \in Publishers : /\ pub'[q].pc # "idle" => pub'[q].canon = ScanId
                              /\ pub'[q].pc \in Numbered => InOrder(pub'[q].event)
    BY <1>6, <1>7, <1>8, <2>1 DEF IInv, Ordered
  <2> QED
    BY <1>1, <2>2, <2>3, <2>4 DEF IInv, Ordered, client
<1> QED
  BY <1>9, <1>10, <1>11, <1>12, <1>13, <1>14, <1>15, <1>16 DEF IInv

\* What holds of the queues, with the events in their order until a discard.
QueuesKept(qs) ==
    /\ qs \in [Queues -> Seq(Events)] /\ \A q \in Queues : Len(qs[q]) <= Capacity
    /\ discards = 0 => \A q \in Queues : \A n \in DOMAIN qs[q] : InOrder(qs[q][n])

LEMMA QueueGrows ==
    ASSUME IInv, NEW q \in Queues, NEW e \in Events, discards = 0 => InOrder(e),
           Len(queues[q]) < Capacity
    PROVE  QueuesKept([queues EXCEPT ![q] = Append(@, e)])
<1> USE SizeAssumption
<1> DEFINE s == Append(queues[q], e)
           qs == [queues EXCEPT ![q] = s]
<1>1. queues[q] \in Seq(Events) /\ queues \in [Queues -> Seq(Events)]
  BY DEF IInv, Bus
<1>2. s \in Seq(Events) /\ Len(s) = Len(queues[q]) + 1 /\ Len(queues[q]) \in Nat
  BY <1>1
<1>3. \A n \in DOMAIN s : s[n] = e \/ (n \in DOMAIN queues[q] /\ s[n] = queues[q][n])
  BY <1>1
<1>4. Len(s) <= Capacity
  BY <1>2
<1> HIDE DEF s
<1>5. qs \in [Queues -> Seq(Events)] /\ qs[q] = s /\ \A k \in Queues \ {q} : qs[k] = queues[k]
  BY <1>1, <1>2
<1> HIDE DEF qs
<1>6. \A k \in Queues : Len(qs[k]) <= Capacity
  BY <1>4, <1>5 DEF IInv, Bus
<1>7. discards = 0 => \A k \in Queues : \A n \in DOMAIN qs[k] : InOrder(qs[k][n])
  BY <1>3, <1>5 DEF IInv, Ordered
<1>8. QueuesKept(qs)
  BY <1>5, <1>6, <1>7 DEF QueuesKept
<1> QED
  BY <1>8 DEF qs, s

LEMMA QueueShrinks ==
    ASSUME IInv, NEW q \in Queues, queues[q] # <<>>
    PROVE  /\ QueuesKept([queues EXCEPT ![q] = Tail(@)])
           /\ Head(queues[q]) \in Events /\ (discards = 0 => InOrder(Head(queues[q])))
<1> USE SizeAssumption
<1> DEFINE s == Tail(queues[q])
           qs == [queues EXCEPT ![q] = s]
<1>1. queues[q] \in Seq(Events) /\ queues \in [Queues -> Seq(Events)] /\ Len(queues[q]) <= Capacity
  BY DEF IInv, Bus
<1>2. s \in Seq(Events) /\ Len(s) = Len(queues[q]) - 1 /\ Len(queues[q]) \in Nat
  BY <1>1
<1>3. \A n \in DOMAIN s : n + 1 \in DOMAIN queues[q] /\ s[n] = queues[q][n + 1]
  BY <1>1
<1>4. Len(s) <= Capacity
  BY <1>1, <1>2
<1>5. 1 \in DOMAIN queues[q] /\ Head(queues[q]) = queues[q][1] /\ Head(queues[q]) \in Events
  BY <1>1
<1> HIDE DEF s
<1>6. qs \in [Queues -> Seq(Events)] /\ qs[q] = s /\ \A k \in Queues \ {q} : qs[k] = queues[k]
  BY <1>1, <1>2
<1> HIDE DEF qs
<1>7. \A k \in Queues : Len(qs[k]) <= Capacity
  BY <1>4, <1>6 DEF IInv, Bus
<1>8. discards = 0 => \A k \in Queues : \A n \in DOMAIN qs[k] : InOrder(qs[k][n])
  BY <1>3, <1>6 DEF IInv, Ordered
<1>9. QueuesKept(qs)
  BY <1>6, <1>7, <1>8 DEF QueuesKept
<1>10. discards = 0 => InOrder(Head(queues[q]))
  BY <1>5 DEF IInv, Ordered
<1> QED
  BY <1>5, <1>9, <1>10 DEF qs, s

\* A numbered event is queued, waits for room, or is given up.
LEMMA Delivers ==
    ASSUME IInv, NEW p \in Publishers, NEW x \in Calls, pub' = [pub EXCEPT ![p] = x],
           pub[p].pc \in Numbered,
           x = Quiet \/ (/\ x.pc \in Numbered /\ x.event = pub[p].event /\ x.canon = pub[p].canon
                         /\ x.queue = pub[p].queue /\ x.terminal = pub[p].terminal),
           QueuesKept(queues'),
           \/ timers' = timers
           \/ /\ x = Quiet /\ pub[p].terminal
              /\ timers' = [timers EXCEPT ![pub[p].canon] = @ + 1],
           UNCHANGED <<alias, channel, created, telemetry, sequence, scan, finished, client, begun,
                       published, scans, discards>>
    PROVE  IInv'
<1> USE SizeAssumption
<1>1. pub[p] \in Calls /\ Call(pub[p], created) /\ pub[p].canon \in Ids
  BY DEF IInv, Publishing, Calls
<1>2. Quiet.pc = "idle" /\ Quiet.terminal = FALSE
  BY DEF Quiet
<1>3. pub'[p] = x /\ \A q \in Publishers \ {p} : pub'[q] = pub[q]
  BY DEF IInv, Publishing
<1>4. Bus'
  BY DEF IInv, Bus, QueuesKept
<1>5. timers \in [Ids -> Nat] /\ timers' \in [Ids -> Nat]
  BY <1>1 DEF IInv, Clock
<1>6. Clock'
  BY <1>5 DEF IInv, Clock
<1>7. Publishing'
  <2>1. Call(x, created')
    BY <1>1, <1>2 DEF Call, Numbered
  <2>2. created' \in Nat /\ created <= created'
    BY DEF IInv, Bus
  <2> QED
    BY <2>1, <2>2, CallStep
<1>8. Watching'
  BY DEF IInv, Watching, client
<1>9. QueuesCounted'
  BY DEF IInv, QueuesCounted
<1>10. EventsCounted'
  <2>1. Sum(timers') + One(x.terminal) <= Sum(timers) + One(pub[p].terminal)
    <3>1. Sum(timers) \in Nat /\ One(pub[p].terminal) \in 0..1 /\ One(Quiet.terminal) = 0
      BY <1>2, <1>5, SumOf DEF One
    <3>2. CASE timers' = timers
      <4>1. One(x.terminal) <= One(pub[p].terminal)
        BY <3>1
      <4> QED
        BY <3>1, <3>2, <4>1 DEF One
    <3>3. CASE x = Quiet /\ pub[p].terminal /\ timers' = [timers EXCEPT ![pub[p].canon] = @ + 1]
      <4>1. Sum(timers') = Sum(timers) + 1
        BY <1>1, <1>5, <3>3, SumOf
      <4>2. One(pub[p].terminal) = 1 /\ One(x.terminal) = 0
        BY <3>1, <3>3 DEF One
      <4> QED
        BY <3>1, <4>1, <4>2
    <3> QED
      BY <3>2, <3>3
  <2>2. One(x.pc = "sequence") = 0 /\ One(pub[p].pc = "sequence") = 0
    BY <1>2 DEF One, Numbered
  <2>3. /\ Sum(timers) \in Nat /\ Sum(timers') \in Nat /\ published \in Nat /\ discards \in Nat
        /\ begun \in Nat
    BY <1>5, SumOf DEF IInv, Clock
  <2>4. \A q \in Publishers : One(pub[q].terminal) \in 0..1 /\ One(pub[q].pc = "sequence") \in 0..1
    BY DEF One
  <2>5. One(x.terminal) \in 0..1
    BY DEF One
  <2>6. CASE p = "crawler"
    BY <1>3, <2>1, <2>2, <2>3, <2>4, <2>5, <2>6 DEF IInv, EventsCounted, Publishers
  <2>7. CASE p = "api"
    BY <1>3, <2>1, <2>2, <2>3, <2>4, <2>5, <2>7 DEF IInv, EventsCounted, Publishers
  <2> QED
    BY <2>6, <2>7 DEF Publishers
<1>11. ReadersCounted'
  BY DEF IInv, ReadersCounted, client
<1>12. Ordered'
  <2> SUFFICES ASSUME discards = 0 PROVE Ordered'
    BY DEF Ordered
  <2>1. \A q \in Publishers : /\ pub'[q].pc # "idle" => pub'[q].canon = ScanId
                              /\ pub'[q].pc \in Numbered => InOrder(pub'[q].event)
    BY <1>2, <1>3 DEF IInv, Ordered, Numbered
  <2> QED
    BY <2>1 DEF IInv, Ordered, client, QueuesKept
<1> QED
  BY <1>4, <1>6, <1>7, <1>8, <1>9, <1>10, <1>11, <1>12 DEF IInv

LEMMA QuietIsCall == Quiet \in Calls
BY TwoIds DEF Quiet, Calls, Pcs

\* The call goes on at another place with its event.
LEMMA AtPlace ==
    ASSUME IInv, NEW p \in Publishers, pub[p].pc \in Numbered, NEW pc \in Numbered,
           NEW x, x = [pub[p] EXCEPT !.pc = pc]
    PROVE  /\ x \in Calls /\ x.pc \in Numbered /\ x.event = pub[p].event /\ x.canon = pub[p].canon
           /\ x.queue = pub[p].queue /\ x.terminal = pub[p].terminal
BY DEF IInv, Publishing, Calls, Pcs, Numbered

\* What Queued does, as Delivers wants it.
LEMMA QueuedKeeps ==
    ASSUME IInv, NEW p \in Publishers, pub[p].pc \in Numbered, Room(p), Queued(p)
    PROVE  /\ QueuesKept(queues') /\ pub' = [pub EXCEPT ![p] = Quiet]
           /\ \/ timers' = timers
              \/ pub[p].terminal /\ timers' = [timers EXCEPT ![pub[p].canon] = @ + 1]
<1>1. pub[p].queue \in Queues /\ pub[p].event \in Events /\ (discards = 0 => InOrder(pub[p].event))
  <2>1. pub[p].queue \in 1..created /\ pub[p].event \in Events
    BY DEF IInv, Publishing, Call, Numbered
  <2>2. 1..created \subseteq Queues
    BY Bounded, TwoIds, SizeAssumption DEF IInv, Bus, Queues
  <2>3. discards = 0 => InOrder(pub[p].event)
    BY DEF IInv, Ordered
  <2> QED
    BY <2>1, <2>2, <2>3
<1>2. Len(queues[pub[p].queue]) < Capacity
  BY DEF Room
<1>3. QueuesKept([queues EXCEPT ![pub[p].queue] = Append(@, pub[p].event)])
  BY <1>1, <1>2, QueueGrows
<1> QED
  BY <1>3 DEF Queued

LEMMA PutOK ==
    ASSUME IInv, NEW p \in Publishers, PublishPut(p)
    PROVE  IInv'
<1>1. /\ pub[p].pc = "put" /\ pub[p].pc \in Numbered
      /\ UNCHANGED <<alias, channel, created, telemetry, sequence, scan, finished, client, begun,
                     published, scans, discards>>
  BY DEF PublishPut, Numbered
<1>2. CASE Room(p) /\ Queued(p)
  BY <1>1, <1>2, QueuedKeeps, QuietIsCall, Delivers
<1>3. CASE pub' = [pub EXCEPT ![p].pc = "evict"] /\ UNCHANGED <<queues, timers>>
  <2> DEFINE x == [pub[p] EXCEPT !.pc = "evict"]
  <2>1. pub' = [pub EXCEPT ![p] = x]
    BY <1>3 DEF IInv, Publishing
  <2>2. /\ x \in Calls /\ x.pc \in Numbered /\ x.event = pub[p].event /\ x.canon = pub[p].canon
        /\ x.queue = pub[p].queue /\ x.terminal = pub[p].terminal
    BY <1>1, AtPlace DEF Numbered
  <2>3. QueuesKept(queues')
    BY <1>3 DEF IInv, Bus, Ordered, QueuesKept
  <2> HIDE DEF x
  <2> QED
    BY <1>1, <1>3, <2>1, <2>2, <2>3, Delivers
<1> QED
  BY <1>2, <1>3 DEF PublishPut

LEMMA EvictOK ==
    ASSUME IInv, NEW p \in Publishers, PublishEvict(p)
    PROVE  IInv'
<1>1. /\ pub[p].pc = "evict" /\ pub[p].pc \in Numbered /\ timers' = timers
      /\ UNCHANGED <<alias, channel, created, telemetry, sequence, scan, finished, client, begun,
                     published, scans, discards>>
  BY DEF PublishEvict, Numbered
<1>2. pub[p].queue \in Queues
  <2>1. pub[p].queue \in 1..created
    BY <1>1 DEF IInv, Publishing, Call
  <2> QED
    BY <2>1, Bounded, TwoIds, SizeAssumption, SMTT(30) DEF IInv, Bus, Queues
<1>3. CASE /\ queues[pub[p].queue] # <<>>
           /\ queues' = [queues EXCEPT ![pub[p].queue] = Tail(@)]
           /\ pub' = [pub EXCEPT ![p].pc = "reput"]
  <2> DEFINE x == [pub[p] EXCEPT !.pc = "reput"]
  <2>1. pub' = [pub EXCEPT ![p] = x]
    BY <1>3 DEF IInv, Publishing
  <2>2. /\ x \in Calls /\ x.pc \in Numbered /\ x.event = pub[p].event /\ x.canon = pub[p].canon
        /\ x.queue = pub[p].queue /\ x.terminal = pub[p].terminal
    BY <1>1, AtPlace DEF Numbered
  <2>3. QueuesKept(queues')
    BY <1>2, <1>3, QueueShrinks
  <2> HIDE DEF x
  <2> QED
    BY <1>1, <2>1, <2>2, <2>3, Delivers
<1>4. CASE pub' = [pub EXCEPT ![p] = Quiet] /\ UNCHANGED queues
  <2>1. QueuesKept(queues')
    BY <1>4 DEF IInv, Bus, Ordered, QueuesKept
  <2> QED
    BY <1>1, <1>4, <2>1, QuietIsCall, Delivers
<1> QED
  BY <1>3, <1>4 DEF PublishEvict

LEMMA ReputOK ==
    ASSUME IInv, NEW p \in Publishers, PublishReput(p)
    PROVE  IInv'
<1>1. /\ pub[p].pc = "reput" /\ pub[p].pc \in Numbered
      /\ UNCHANGED <<alias, channel, created, telemetry, sequence, scan, finished, client, begun,
                     published, scans, discards>>
  BY DEF PublishReput, Numbered
<1>2. CASE Room(p) /\ Queued(p)
  BY <1>1, <1>2, QueuedKeeps, QuietIsCall, Delivers
<1>3. CASE pub' = [pub EXCEPT ![p] = Quiet] /\ UNCHANGED <<queues, timers>>
  <2>1. QueuesKept(queues')
    BY <1>3 DEF IInv, Bus, Ordered, QueuesKept
  <2> QED
    BY <1>1, <1>3, <2>1, QuietIsCall, Delivers
<1> QED
  BY <1>2, <1>3 DEF PublishReput

---------------------------------------------------------------------------
(* Scans and the discard.                                                  *)

LEMMA ScanBeginsOK ==
    ASSUME IInv, ScanBegins
    PROVE  IInv'
<1> USE SizeAssumption
<1>1. /\ scans < MaxScans /\ scans' = scans + 1 /\ scan' = "live" /\ finished' = FALSE
      /\ alias' = [alias EXCEPT ![RunId] = ScanId, ![ScanId] = RunId]
      /\ UNCHANGED <<channel, queues, created, telemetry, sequence, pub, timers, client, begun,
                     published, discards>>
  BY DEF ScanBegins
<1>2. alias' \in [Ids -> Ids \cup {None}] /\ alias'[RunId] = ScanId
  BY <1>1, TwoIds DEF IInv, Bus
<1>3. Bus'
  BY <1>1, <1>2 DEF IInv, Bus
<1>4. Clock'
  <2>1. scans' \in 0..MaxScans /\ scans' > 0
    BY <1>1 DEF IInv, Clock
  <2> QED
    BY <1>1, <2>1 DEF IInv, Clock
<1>5. Publishing' /\ QueuesCounted'
  BY <1>1 DEF IInv, Publishing, QueuesCounted
<1>6. Watching' /\ ReadersCounted'
  BY <1>1 DEF IInv, Watching, ReadersCounted, client
<1>7. EventsCounted'
  BY <1>1 DEF IInv, EventsCounted
<1>8. Ordered'
  BY <1>1, <1>2 DEF IInv, Ordered, client
<1> QED
  BY <1>3, <1>4, <1>5, <1>6, <1>7, <1>8 DEF IInv

\* A discard uses up its timer, and leaves room for a new queue.
LEMMA DiscardOK ==
    ASSUME IInv, NEW id \in Ids, Discard(id)
    PROVE  IInv'
<1> USE SizeAssumption
<1> DEFINE k == Canon(id)
<1>1. k \in Ids
  BY CanonIsId
<1>2. /\ timers[id] > 0 /\ timers' = [timers EXCEPT ![id] = @ - 1]
      /\ channel' = [channel EXCEPT ![k] = 0] /\ telemetry' = [telemetry EXCEPT ![k] = None]
      /\ sequence' = [sequence EXCEPT ![k] = 0]
      /\ alias' = [i \in Ids |-> IF i = k \/ alias[i] = k THEN None ELSE alias[i]]
      /\ discards' = discards + 1
      /\ UNCHANGED <<queues, created, pub, scan, finished, client, begun, published, scans>>
  BY DEF Discard
<1> HIDE DEF k
<1>3. timers \in [Ids -> Nat] /\ discards \in Nat /\ published \in Nat /\ begun \in Nat
  BY DEF IInv, Clock
<1>4. Bus'
  <2>1. sequence' \in [Ids -> 0..published']
    BY <1>1, <1>2, <1>3 DEF IInv, Bus
  <2>2. channel' \in [Ids -> 0..created']
    BY <1>1, <1>2 DEF IInv, Bus
  <2>3. telemetry' \in [Ids -> Events \cup {None}] /\ alias' \in [Ids -> Ids \cup {None}]
    BY <1>1, <1>2 DEF IInv, Bus
  <2> QED
    BY <1>2, <2>1, <2>2, <2>3 DEF IInv, Bus
<1>5. timers' \in [Ids -> Nat]
  BY <1>2, <1>3
<1>6. Clock'
  BY <1>2, <1>5 DEF IInv, Clock
<1>7. Publishing'
  BY <1>2 DEF IInv, Publishing
<1>8. Watching' /\ ReadersCounted'
  BY <1>2 DEF IInv, Watching, ReadersCounted, client
<1>9. QueuesCounted'
  <2>1. Free(channel') = Free(channel) \cup {k} /\ Free(channel) \subseteq Ids
    BY <1>1, <1>2 DEF IInv, Bus, Free
  <2>2. IsFiniteSet(Free(channel))
    BY <2>1, TwoIds, FS_Subset
  <2>3. Cardinality(Free(channel)) \in Nat /\ created \in Nat /\ Cardinality(Ids) \in Nat
    BY <2>2, TwoIds, FS_CardinalityType DEF IInv, Bus
  <2>4. /\ IsFiniteSet(Free(channel) \cup {k})
        /\ Cardinality(Free(channel) \cup {k}) =
             IF k \in Free(channel) THEN Cardinality(Free(channel)) ELSE Cardinality(Free(channel)) + 1
    BY <2>2, FS_AddElement
  <2>5. Cardinality(Free(channel')) <= Cardinality(Free(channel)) + 1 /\ Cardinality(Free(channel')) \in Nat
    BY <2>1, <2>3, <2>4
  <2>6. created + Cardinality(Free(channel)) <= discards + Cardinality(Ids)
    BY DEF IInv, QueuesCounted
  <2>7. created + Cardinality(Free(channel')) <= (discards + 1) + Cardinality(Ids)
    BY <1>3, <2>3, <2>5, <2>6
  <2> QED
    BY <1>2, <2>7 DEF QueuesCounted
<1>10. EventsCounted'
  <2>1. Sum(timers') = Sum(timers) - 1 /\ Sum(timers) \in Nat
    BY <1>2, <1>3, SumOf
  <2>2. \A q \in Publishers : One(pub[q].terminal) \in 0..1
    BY DEF One
  <2> QED
    BY <1>2, <1>3, <2>1, <2>2 DEF IInv, EventsCounted, Publishers
<1>11. Ordered'
  BY <1>2, <1>3 DEF Ordered
<1> QED
  BY <1>4, <1>6, <1>7, <1>8, <1>9, <1>10, <1>11 DEF IInv

---------------------------------------------------------------------------
(* The clients and their sockets.                                          *)

\* What is there to show is in its order, and what a client shows is the last one it has seen.
Shows == /\ attached' \in [Clients -> BOOLEAN]
         /\ last' \in [Clients -> 0..MaxEvents] /\ shown' \in [Clients -> 0..MaxEvents]
         /\ discards = 0 => \A d \in Clients : last'[d] = shown'[d] /\ shown'[d] >= shown[d]

LEMMA RenderShows ==
    ASSUME IInv, NEW c \in Clients, NEW e \in Events, discards = 0 => InOrder(e), Render(c, e)
    PROVE  Shows
<1>1. discards = 0 => \A d \in Clients : last[d] = shown[d]
  BY DEF IInv, Ordered
<1> QED
  BY <1>1, RenderedOK DEF Shows

LEMMA SameShows ==
    ASSUME IInv, UNCHANGED <<last, shown>>, attached' \in [Clients -> BOOLEAN]
    PROVE  Shows
<1>1. \A d \in Clients : shown[d] \in 0..MaxEvents
  BY DEF IInv, Watching
<1> QED
  BY <1>1, SizeAssumption DEF IInv, Watching, Ordered, Shows

\* A step of a client or of a reader; queues may be read and sockets may change.
LEMMA ClientStep ==
    ASSUME IInv, Untouched, Shows, QueuesKept(queues'),
           created' \in Nat, created <= created', channel' \in [Ids -> 0..created'],
           created' + Cardinality(Free(channel')) <= discards + Cardinality(Ids),
           UNCHANGED <<alias, telemetry, sequence>>,
           socket' \in [Clients -> Sockets],
           \A c \in Clients : socket'[c].pc # "closed" => socket'[c].queue \in 1..created',
           orphans' \in [Queues -> Nat], connects' \in 0..MaxConnects, ReadersCounted'
    PROVE  IInv'
<1>1. UNCHANGED <<pub, timers, scan, finished, begun, published, scans, discards>>
  BY DEF Untouched
<1>2. Bus'
  BY <1>1 DEF IInv, Bus, QueuesKept
<1>3. Clock' /\ EventsCounted'
  BY <1>1 DEF IInv, Clock, EventsCounted
<1>4. Publishing'
  <2>1. \A p \in Publishers : Call(pub[p], created')
    BY DEF IInv, Publishing, Bus, Call
  <2> QED
    BY <1>1, <2>1 DEF IInv, Publishing
<1>5. Watching'
  BY DEF Watching, Shows
<1>6. QueuesCounted'
  BY <1>1 DEF QueuesCounted
<1>7. Ordered'
  BY <1>1 DEF IInv, Ordered, Shows, QueuesKept
<1> QED
  BY <1>2, <1>3, <1>4, <1>5, <1>6, <1>7 DEF IInv

\* Where no queue is created.
LEMMA NoQueueMade ==
    ASSUME IInv, UNCHANGED <<channel, created>>
    PROVE  /\ created' \in Nat /\ created <= created' /\ channel' \in [Ids -> 0..created']
           /\ created' + Cardinality(Free(channel')) <= discards + Cardinality(Ids)
           /\ QueuesKept(queues)
BY DEF IInv, Bus, QueuesCounted, Ordered, QueuesKept

\* The readers, when the sockets that are open stay the same or one less.
LEMMA ReadersStay ==
    ASSUME IInv, Open(socket') = Open(socket), UNCHANGED connects,
           orphans' \in [Queues -> Nat], \A q \in Queues : orphans'[q] <= orphans[q]
    PROVE  ReadersCounted'
<1>1. orphans \in [Queues -> Nat] /\ connects \in Nat
  BY DEF IInv, Watching
<1>2. IsFiniteSet(Open(socket)) /\ Cardinality(Open(socket)) \in Nat
  BY FS_CardinalityType DEF IInv, ReadersCounted
<1>3. \A q \in Queues : orphans'[q] + Cardinality(Open(socket')) <= connects'
  <2> SUFFICES ASSUME NEW q \in Queues
               PROVE  orphans'[q] + Cardinality(Open(socket')) <= connects'
    OBVIOUS
  <2>1. orphans'[q] \in Nat /\ orphans[q] \in Nat /\ orphans'[q] <= orphans[q]
    BY <1>1
  <2>2. orphans[q] + Cardinality(Open(socket)) <= connects
    BY DEF IInv, ReadersCounted
  <2> QED
    BY <1>1, <1>2, <2>1, <2>2
<1> QED
  BY <1>2, <1>3 DEF ReadersCounted

LEMMA ReaderGoes ==
    ASSUME IInv, NEW c \in Open(socket), Open(socket') = Open(socket) \ {c}, UNCHANGED connects,
           orphans' \in [Queues -> Nat], \A q \in Queues : orphans'[q] <= orphans[q] + 1
    PROVE  ReadersCounted'
<1>1. orphans \in [Queues -> Nat] /\ connects \in Nat
  BY DEF IInv, Watching
<1>2. IsFiniteSet(Open(socket)) /\ Cardinality(Open(socket)) \in Nat
  BY FS_CardinalityType DEF IInv, ReadersCounted
<1>3. IsFiniteSet(Open(socket')) /\ Cardinality(Open(socket')) = Cardinality(Open(socket)) - 1
  BY <1>2, FS_RemoveElement
<1>4. \A q \in Queues : orphans'[q] + Cardinality(Open(socket')) <= connects'
  <2> SUFFICES ASSUME NEW q \in Queues
               PROVE  orphans'[q] + Cardinality(Open(socket')) <= connects'
    OBVIOUS
  <2>1. orphans'[q] \in Nat /\ orphans[q] \in Nat /\ orphans'[q] <= orphans[q] + 1
    BY <1>1
  <2>2. orphans[q] + Cardinality(Open(socket)) <= connects
    BY DEF IInv, ReadersCounted
  <2> QED
    BY <1>1, <1>2, <1>3, <2>1, <2>2
<1> QED
  BY <1>3, <1>4 DEF ReadersCounted

LEMMA ConnectOK ==
    ASSUME IInv, NEW c \in Clients, Connect(c)
    PROVE  IInv'
<1> USE SizeAssumption
<1> DEFINE x == [pc |-> "snapshot", queue |-> QueueOf(RunId)]
<1>1. /\ socket[c].pc = "closed" /\ connects < MaxConnects /\ connects' = connects + 1
      /\ GetChannel(RunId) /\ socket' = [socket EXCEPT ![c] = x]
      /\ UNCHANGED <<alias, queues, telemetry, sequence, orphans, attached, last, shown>>
      /\ Untouched
  BY DEF Connect
<1>2. /\ created' \in Nat /\ created <= created' /\ channel' \in [Ids -> 0..created']
      /\ QueueOf(RunId) \in 1..created' /\ QueueOf(RunId) \in Queues
      /\ created' + Cardinality(Free(channel')) <= discards + Cardinality(Ids)
  BY <1>1, TwoIds, QueueIsThere
<1>3. x \in Sockets /\ x.pc = "snapshot" /\ x.queue = QueueOf(RunId)
  BY <1>2 DEF Sockets
<1> HIDE DEF x
<1>4. /\ socket' \in [Clients -> Sockets] /\ socket'[c] = x
      /\ \A d \in Clients \ {c} : socket'[d] = socket[d]
  BY <1>1, <1>3 DEF IInv, Watching
<1>5. \A d \in Clients : socket'[d].pc # "closed" => socket'[d].queue \in 1..created'
  <2>1. 1..created \subseteq 1..created'
    BY <1>2 DEF IInv, Bus
  <2> QED
    BY <1>2, <1>3, <1>4, <2>1 DEF IInv, Watching
<1>6. connects \in Nat /\ connects' \in 0..MaxConnects /\ orphans \in [Queues -> Nat]
  BY <1>1 DEF IInv, Watching
<1>7. ReadersCounted'
  <2>1. Open(socket') = Open(socket) \cup {c} /\ c \notin Open(socket)
    BY <1>1, <1>3, <1>4 DEF Open
  <2>2. IsFiniteSet(Open(socket)) /\ Cardinality(Open(socket)) \in Nat
    BY FS_CardinalityType DEF IInv, ReadersCounted
  <2>3. IsFiniteSet(Open(socket')) /\ Cardinality(Open(socket')) = Cardinality(Open(socket)) + 1
    BY <2>1, <2>2, FS_AddElement
  <2>4. \A q \in Queues : orphans[q] + Cardinality(Open(socket)) <= connects /\ orphans[q] \in Nat
    BY <1>6 DEF IInv, ReadersCounted
  <2>5. \A q \in Queues : orphans[q] + Cardinality(Open(socket')) <= connects + 1
    BY <1>6, <2>2, <2>3, <2>4
  <2> QED
    BY <1>1, <2>3, <2>5 DEF ReadersCounted
<1>8. QueuesKept(queues')
  BY <1>1 DEF IInv, Bus, Ordered, QueuesKept
<1>9. Shows
  BY <1>1, SameShows DEF IInv, Watching
<1>10. orphans' \in [Queues -> Nat] /\ UNCHANGED <<alias, telemetry, sequence>>
  BY <1>1, <1>6
<1> QED
  BY <1>1, <1>2, <1>4, <1>5, <1>6, <1>7, <1>8, <1>9, <1>10, ClientStep

\* A socket that stays open or closed keeps its queue.
LEMMA SocketMoves ==
    ASSUME IInv, NEW c \in Clients, NEW pc \in {"closed", "snapshot", "reading"},
           NEW x, x = [socket[c] EXCEPT !.pc = pc]
    PROVE  x \in Sockets /\ x.pc = pc /\ x.queue = socket[c].queue
BY DEF IInv, Watching, Sockets

LEMMA SendSnapshotOK ==
    ASSUME IInv, NEW c \in Clients, SendSnapshot(c)
    PROVE  IInv' /\ Shows
<1> DEFINE e == telemetry[Canon(RunId)]
           x == [socket[c] EXCEPT !.pc = "reading"]
<1>1. /\ socket[c].pc = "snapshot" /\ socket' = [socket EXCEPT ![c].pc = "reading"]
      /\ IF e = None THEN UNCHANGED <<last, shown, attached>> ELSE Render(c, e)
      /\ UNCHANGED <<bus, orphans, connects>> /\ Untouched
  BY DEF SendSnapshot
<1>2. e \in Events \cup {None} /\ (discards = 0 /\ e # None => InOrder(e))
  <2>1. Canon(RunId) \in Ids
    BY TwoIds, CanonIsId
  <2> QED
    BY <2>1 DEF IInv, Bus, Ordered
<1> HIDE DEF e
<1>3. Shows
  <2>1. CASE e = None
    BY <1>1, <2>1, SameShows DEF IInv, Watching
  <2>2. CASE e # None
    BY <1>1, <1>2, <2>2, RenderShows
  <2> QED
    BY <2>1, <2>2
<1>4. x \in Sockets /\ x.pc = "reading" /\ x.queue = socket[c].queue
  BY SocketMoves
<1>5. socket' = [socket EXCEPT ![c] = x]
  BY <1>1 DEF IInv, Watching
<1> HIDE DEF x
<1>6. /\ socket' \in [Clients -> Sockets] /\ socket'[c] = x
      /\ \A d \in Clients \ {c} : socket'[d] = socket[d]
  BY <1>4, <1>5 DEF IInv, Watching
<1>7. UNCHANGED <<alias, telemetry, sequence, queues, channel, created, orphans, connects>>
  BY <1>1 DEF bus
<1>8. \A d \in Clients : socket'[d].pc # "closed" => socket'[d].queue \in 1..created'
  BY <1>1, <1>4, <1>6, <1>7 DEF IInv, Watching
<1>9. orphans' \in [Queues -> Nat] /\ connects' \in 0..MaxConnects
      /\ \A q \in Queues : orphans'[q] <= orphans[q]
  BY <1>7 DEF IInv, Watching
<1>10. ReadersCounted'
  <2>1. Open(socket') = Open(socket)
    BY <1>1, <1>4, <1>6 DEF Open
  <2> QED
    BY <1>7, <1>9, <2>1, ReadersStay
<1>11. QueuesKept(queues')
  BY <1>7, NoQueueMade
<1> QED
  BY <1>1, <1>3, <1>6, <1>7, <1>8, <1>9, <1>10, <1>11, NoQueueMade, ClientStep

LEMMA ReadEventOK ==
    ASSUME IInv, NEW c \in Clients, ReadEvent(c)
    PROVE  IInv' /\ Shows
<1> DEFINE q == socket[c].queue
           e == Head(queues[q])
           x == IF e.terminal THEN Closed ELSE socket[c]
<1>1. /\ socket[c].pc = "reading" /\ queues[q] # <<>>
      /\ queues' = [queues EXCEPT ![q] = Tail(@)] /\ Render(c, e)
      /\ socket' = IF e.terminal THEN [socket EXCEPT ![c] = Closed] ELSE socket
      /\ UNCHANGED <<alias, telemetry, sequence, channel, created, orphans, connects>> /\ Untouched
  BY DEF ReadEvent
<1>2. q \in Queues
  <2>1. q \in 1..created
    BY <1>1 DEF IInv, Watching
  <2> QED
    BY <2>1, Bounded, TwoIds, SizeAssumption, SMTT(30) DEF IInv, Bus, Queues
<1>3. QueuesKept(queues') /\ e \in Events /\ (discards = 0 => InOrder(e))
  BY <1>1, <1>2, QueueShrinks
<1> HIDE DEF q, e
<1>4. Shows
  BY <1>1, <1>3, RenderShows
<1>5. x \in Sockets /\ (x.pc = "closed" <=> e.terminal)
      /\ (x.pc # "closed" => x.queue \in 1..created)
  BY <1>1, SocketMoves DEF Closed, Sockets, IInv, Watching
<1>6. /\ socket' \in [Clients -> Sockets] /\ socket'[c] = x
      /\ \A d \in Clients \ {c} : socket'[d] = socket[d]
  BY <1>1, <1>5 DEF IInv, Watching
<1> HIDE DEF x
<1>7. \A d \in Clients : socket'[d].pc # "closed" => socket'[d].queue \in 1..created'
  BY <1>1, <1>5, <1>6 DEF IInv, Watching
<1>8. orphans' \in [Queues -> Nat] /\ connects' \in 0..MaxConnects
      /\ \A k \in Queues : orphans[k] \in Nat /\ orphans'[k] = orphans[k]
  BY <1>1 DEF IInv, Watching
<1>9. ReadersCounted'
  <2>1. CASE e.terminal
    <3>1. c \in Open(socket) /\ Open(socket') = Open(socket) \ {c}
      BY <1>1, <1>5, <1>6, <2>1 DEF Open
    <3>2. \A k \in Queues : orphans'[k] <= orphans[k] + 1
      BY <1>8
    <3> QED
      BY <1>1, <1>8, <3>1, <3>2, ReaderGoes
  <2>2. CASE ~e.terminal
    <3>1. Open(socket') = Open(socket)
      BY <1>1, <2>2
    <3>2. \A k \in Queues : orphans'[k] <= orphans[k]
      BY <1>8
    <3> QED
      BY <1>1, <1>8, <3>1, <3>2, ReadersStay
  <2> QED
    BY <2>1, <2>2
<1>10. UNCHANGED <<alias, telemetry, sequence, channel, created>>
  BY <1>1
<1> QED
  BY <1>1, <1>3, <1>4, <1>6, <1>7, <1>8, <1>9, <1>10, NoQueueMade, ClientStep

\* The reader that a closed socket leaves behind takes the place of its socket.
LEMMA DisconnectOK ==
    ASSUME IInv, NEW c \in Clients, Disconnect(c)
    PROVE  IInv'
<1>1. /\ socket[c].pc # "closed" /\ socket' = [socket EXCEPT ![c] = Closed]
      /\ orphans' = IF socket[c].pc = "reading"
                    THEN [orphans EXCEPT ![socket[c].queue] = @ + 1] ELSE orphans
      /\ UNCHANGED <<bus, attached, last, shown, connects>> /\ Untouched
  BY DEF Disconnect
<1>2. Closed \in Sockets /\ Closed.pc = "closed"
  BY DEF Closed, Sockets
<1>3. /\ socket' \in [Clients -> Sockets] /\ socket'[c] = Closed
      /\ \A d \in Clients \ {c} : socket'[d] = socket[d]
  BY <1>1, <1>2 DEF IInv, Watching
<1>4. UNCHANGED <<alias, telemetry, sequence, queues, channel, created, connects>>
  BY <1>1 DEF bus
<1>5. \A d \in Clients : socket'[d].pc # "closed" => socket'[d].queue \in 1..created'
  BY <1>2, <1>3, <1>4 DEF IInv, Watching
<1>6. /\ orphans \in [Queues -> Nat] /\ orphans' \in [Queues -> Nat]
      /\ \A q \in Queues : orphans'[q] <= orphans[q] + 1
  <2>1. orphans \in [Queues -> Nat]
    BY DEF IInv, Watching
  <2>2. CASE socket[c].pc = "reading"
    <3> DEFINE k == socket[c].queue
    <3>1. orphans' = [orphans EXCEPT ![k] = @ + 1]
      BY <1>1, <2>2
    <3>2. k \in {0} \cup Queues
      BY DEF IInv, Watching, Sockets
    <3>3. k \in 1..created /\ created \in Nat
      BY <1>1 DEF IInv, Watching, Bus
    <3> HIDE DEF k
    <3>4. k \in Queues
      BY <3>2, <3>3
    <3> QED
      BY <2>1, <3>1, <3>4
  <2>3. CASE socket[c].pc # "reading"
    BY <1>1, <2>1, <2>3
  <2> QED
    BY <2>2, <2>3
<1>7. ReadersCounted'
  <2>1. c \in Open(socket) /\ Open(socket') = Open(socket) \ {c}
    BY <1>1, <1>2, <1>3 DEF Open
  <2> QED
    BY <1>4, <1>6, <2>1, ReaderGoes
<1>8. Shows
  BY <1>1, SameShows DEF IInv, Watching
<1>9. QueuesKept(queues') /\ connects' \in 0..MaxConnects
  BY <1>4, NoQueueMade DEF IInv, Watching
<1> QED
  BY <1>1, <1>3, <1>4, <1>5, <1>6, <1>7, <1>8, <1>9, NoQueueMade, ClientStep

LEMMA OrphanLeavesOK ==
    ASSUME IInv, NEW q \in Queues, OrphanLeaves(q)
    PROVE  IInv'
<1>1. /\ orphans[q] > 0 /\ orphans' = [orphans EXCEPT ![q] = @ - 1]
      /\ (queues[q] # <<>> /\ queues' = [queues EXCEPT ![q] = Tail(@)]) \/ queues' = queues
      /\ UNCHANGED <<alias, telemetry, sequence, channel, created, connects, socket>>
      /\ UNCHANGED <<attached, last, shown>> /\ Untouched
  BY DEF OrphanLeaves
<1>2. /\ orphans \in [Queues -> Nat] /\ orphans' \in [Queues -> Nat]
      /\ \A k \in Queues : orphans'[k] <= orphans[k]
  BY <1>1 DEF IInv, Watching
<1>3. Shows
  BY <1>1, SameShows DEF IInv, Watching
<1>4. QueuesKept(queues')
  BY <1>1, QueueShrinks, NoQueueMade
<1>5. ReadersCounted'
  BY <1>1, <1>2, ReadersStay
<1>6. /\ socket' \in [Clients -> Sockets] /\ connects' \in 0..MaxConnects
      /\ \A d \in Clients : socket'[d].pc # "closed" => socket'[d].queue \in 1..created'
  BY <1>1 DEF IInv, Watching
<1>7. UNCHANGED <<alias, telemetry, sequence, channel, created>>
  BY <1>1
<1> QED
  BY <1>1, <1>2, <1>3, <1>4, <1>5, <1>6, <1>7, NoQueueMade, ClientStep

\* A step of the client alone.
LEMMA OnlyClient ==
    ASSUME IInv, UNCHANGED <<bus, socket, orphans, connects>>, Untouched, Shows
    PROVE  IInv'
<1>1. UNCHANGED <<alias, telemetry, sequence, queues, channel, created, socket, orphans, connects>>
  BY DEF bus
<1>2. /\ socket' \in [Clients -> Sockets] /\ connects' \in 0..MaxConnects
      /\ orphans' \in [Queues -> Nat] /\ \A q \in Queues : orphans'[q] <= orphans[q]
      /\ \A d \in Clients : socket'[d].pc # "closed" => socket'[d].queue \in 1..created'
  BY <1>1 DEF IInv, Watching
<1>3. ReadersCounted' /\ QueuesKept(queues')
  BY <1>1, <1>2, ReadersStay, NoQueueMade
<1> QED
  BY <1>1, <1>2, <1>3, NoQueueMade, ClientStep

LEMMA PollOK ==
    ASSUME IInv, NEW c \in Clients, Poll(c)
    PROVE  IInv' /\ Shows
<1> DEFINE e == telemetry[Canon(RunId)]
<1>1. e # None /\ Render(c, e) /\ UNCHANGED <<bus, socket, orphans, connects>> /\ Untouched
  BY DEF Poll
<1>2. e \in Events /\ (discards = 0 => InOrder(e))
  <2>1. Canon(RunId) \in Ids
    BY TwoIds, CanonIsId
  <2> QED
    BY <1>1, <2>1 DEF IInv, Bus, Ordered
<1> HIDE DEF e
<1>3. Shows
  BY <1>1, <1>2, RenderShows
<1> QED
  BY <1>1, <1>3, OnlyClient

LEMMA WatchOK ==
    ASSUME IInv, NEW c \in Clients, StopWatching(c) \/ WatchAgain(c)
    PROVE  IInv'
<1>1. /\ \E b \in BOOLEAN : attached' = [attached EXCEPT ![c] = b]
      /\ UNCHANGED <<bus, socket, orphans, last, shown, connects>> /\ Untouched
  BY DEF StopWatching, WatchAgain
<1>2. attached' \in [Clients -> BOOLEAN]
  BY <1>1 DEF IInv, Watching
<1> QED
  BY <1>1, <1>2, SameShows, OnlyClient

---------------------------------------------------------------------------
(* The theorems.                                                           *)

\* A step either shows something, or leaves alone what is shown.
LEMMA Step ==
    ASSUME IInv, [Next]_vars
    PROVE  IInv' /\ (Shows \/ UNCHANGED <<last, shown>>)
<1>1. CASE ScanBegins
  BY <1>1, ScanBeginsOK DEF ScanBegins, client
<1>2. ASSUME NEW p \in Publishers, NEW ends \in BOOLEAN, PublishBegin(p, RunId, ends),
             scans > 0, scans' = scans, scan' \in {"live", "over", scan}, finished' \in BOOLEAN
      PROVE  IInv' /\ (Shows \/ UNCHANGED <<last, shown>>)
  <2>1. UNCHANGED <<last, shown>>
    BY <1>2 DEF PublishBegin, client
  <2> QED
    BY <1>2, <2>1, BeginOK
<1>3. scan = "live" => scans > 0
  BY DEF IInv, Clock
<1>4. finished \in BOOLEAN /\ "crawler" \in Publishers /\ "api" \in Publishers
      /\ TRUE \in BOOLEAN /\ FALSE \in BOOLEAN
  BY DEF IInv, Clock, Publishers
<1>5. CASE CrawlerProgress
  BY <1>2, <1>3, <1>4, <1>5 DEF CrawlerProgress
<1>6. CASE CrawlerEnds
  BY <1>2, <1>3, <1>4, <1>6 DEF CrawlerEnds
<1>7. CASE \E ends \in BOOLEAN : ApiPublishes(ends)
  <2>1. PICK ends \in BOOLEAN : ApiPublishes(ends)
    BY <1>7
  <2>2. finished' \in BOOLEAN
    BY <1>4, <2>1 DEF ApiPublishes
  <2> QED
    BY <1>2, <1>4, <2>1, <2>2 DEF ApiPublishes
<1>8. ASSUME NEW p \in Publishers, PublishStep(p)
      PROVE  IInv' /\ (Shows \/ UNCHANGED <<last, shown>>)
  <2>1. UNCHANGED <<last, shown>>
    BY <1>8 DEF PublishStep, PublishSequence, PublishPut, PublishEvict, PublishReput, client
  <2> QED
    BY <1>8, <2>1, SequenceOK, PutOK, EvictOK, ReputOK DEF PublishStep
<1>9. ASSUME NEW id \in Ids, Discard(id)
      PROVE  IInv' /\ (Shows \/ UNCHANGED <<last, shown>>)
  BY <1>9, DiscardOK DEF Discard, client
<1>10. ASSUME NEW c \in Clients, Connect(c) \/ Disconnect(c) \/ StopWatching(c) \/ WatchAgain(c)
       PROVE  IInv' /\ (Shows \/ UNCHANGED <<last, shown>>)
  <2>1. UNCHANGED <<last, shown>>
    BY <1>10 DEF Connect, Disconnect, StopWatching, WatchAgain
  <2> QED
    BY <1>10, <2>1, ConnectOK, DisconnectOK, WatchOK
<1>11. ASSUME NEW c \in Clients, SendSnapshot(c) \/ ReadEvent(c) \/ Poll(c)
       PROVE  IInv' /\ (Shows \/ UNCHANGED <<last, shown>>)
  BY <1>11, SendSnapshotOK, ReadEventOK, PollOK
<1>12. ASSUME NEW q \in Queues, OrphanLeaves(q)
       PROVE  IInv' /\ (Shows \/ UNCHANGED <<last, shown>>)
  BY <1>12, OrphanLeavesOK DEF OrphanLeaves
<1>13. CASE UNCHANGED vars
  <2>1. UNCHANGED <<bus, socket, orphans, connects, last, shown>> /\ Untouched
    BY <1>13 DEF vars, client, Untouched
  <2>2. attached' \in [Clients -> BOOLEAN]
    BY <1>13 DEF vars, client, IInv, Watching
  <2> QED
    BY <2>1, <2>2, SameShows, OnlyClient
<1> QED
  BY <1>1, <1>5, <1>6, <1>7, <1>8, <1>9, <1>10, <1>11, <1>12, <1>13 DEF Next

\* The inductive invariant holds of every behaviour: scan_event_bus.py under two publishing
\* threads, timers, sockets and polls in any order.
THEOREM Invariance == Spec => []IInv
<1>1. IInv /\ [Next]_vars => IInv'
  BY Step
<1> QED
  BY InitialOK, <1>1, PTL DEF Spec

\* The types: no queue holds more than _MAX_EVENTS_PER_SCAN events, however many threads publish
\* into it; there are no more queue objects than ids and discards, and no more readers than connects.
THEOREM TypesAreOK == Spec => []TypeOK
<1>1. IInv => TypeOK
  <2> SUFFICES ASSUME IInv PROVE TypeOK
    OBVIOUS
  <2> USE SizeAssumption
  <2>1. /\ created \in 0..(MaxEvents + Cardinality(Ids)) /\ channel \in [Ids -> {0} \cup Queues]
    <3>1. created \in Nat /\ created <= MaxEvents + Cardinality(Ids) /\ Cardinality(Ids) \in Nat
      BY Bounded, TwoIds DEF IInv, Bus
    <3>2. 0..created \subseteq {0} \cup Queues
      BY <3>1 DEF Queues
    <3> QED
      BY <3>1, <3>2 DEF IInv, Bus
  <2>2. sequence \in [Ids -> 0..MaxEvents] /\ timers \in [Ids -> 0..MaxEvents]
        /\ published \in 0..begun /\ discards \in 0..MaxEvents /\ begun \in 0..MaxEvents
    <3>1. published \in Nat /\ begun \in 0..MaxEvents /\ published <= begun
          /\ discards \in Nat /\ discards <= begun
      BY Bounded DEF IInv, Clock
    <3>2. 0..published \subseteq 0..MaxEvents
      BY <3>1
    <3>3. sequence \in [Ids -> 0..MaxEvents]
      BY <3>2 DEF IInv, Bus
    <3>4. timers \in [Ids -> 0..MaxEvents]
      BY Bounded DEF IInv, Clock
    <3> QED
      BY <3>1, <3>3, <3>4
  <2>3. orphans \in [Queues -> 0..MaxConnects]
    <3>1. Cardinality(Open(socket)) \in Nat
      BY FS_CardinalityType DEF IInv, ReadersCounted
    <3>2. connects \in 0..MaxConnects /\ orphans \in [Queues -> Nat]
      BY DEF IInv, Watching
    <3>3. \A q \in Queues : orphans[q] <= MaxConnects
      BY <3>1, <3>2 DEF IInv, ReadersCounted
    <3> QED
      BY <3>2, <3>3
  <2>4. pub \in [Publishers -> [pc : {"idle", "sequence", "put", "evict", "reput"},
                                canon : Ids, queue : {0} \cup Queues, terminal : BOOLEAN,
                                event : Events \cup {None}]]
    BY DEF IInv, Publishing, Calls, Pcs
  <2>5. socket \in [Clients -> [pc : {"closed", "snapshot", "reading"}, queue : {0} \cup Queues]]
    BY DEF IInv, Watching, Sockets
  <2> QED
    BY <2>1, <2>2, <2>3, <2>4, <2>5 DEF IInv, Bus, Clock, Watching, TypeOK
<1> QED
  BY <1>1, Invariance, PTL

\* A client never goes back to an older event while no channel was discarded: not when two threads
\* queue theirs in the wrong order, nor when a snapshot overtakes the queue, nor when it reconnects.
THEOREM ClientsGoForward == Spec => ClientNeverGoesBack
<1>1. ASSUME IInv, [Next]_vars
      PROVE  [\A c \in Clients : discards = 0 => shown'[c] >= shown[c]]_vars
  <2> SUFFICES ASSUME NEW c \in Clients, discards = 0
               PROVE  shown'[c] >= shown[c]
    OBVIOUS
  <2>1. Shows \/ shown' = shown
    BY <1>1, Step
  <2>2. shown[c] \in 0..MaxEvents
    BY <1>1 DEF IInv, Watching
  <2> QED
    BY <2>1, <2>2, SizeAssumption DEF Shows
<1> QED
  BY <1>1, Invariance, PTL DEF Spec, ClientNeverGoesBack
=============================================================================
