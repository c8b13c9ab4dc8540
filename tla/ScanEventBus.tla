---------------------------- MODULE ScanEventBus ----------------------------
(***************************************************************************)
(* The telemetry of one run: api/services/scan_event_bus.py, the WebSocket *)
(* endpoint of api/routers/scan_events.py and the part of the frontend     *)
(* that shows events (frontend/index.html).                                *)
(*                                                                         *)
(* Publishers are threads: the crawler and the event loop.  `publish` takes *)
(* the lock twice and queues the event without it, so it is several steps. *)
(* A finished scan starts a timer that discards the channel.  A reader     *)
(* takes events off the queue, and a closed socket leaves its reader behind *)
(* for one more event.  A client also polls the latest event.              *)
(***************************************************************************)
EXTENDS Naturals, Sequences, FiniteSets

CONSTANTS
    RunId, ScanId,  \* the ids of the run; the frontend uses one for both
    Clients,        \* browsers that watch the run
    None,           \* no alias, no event
    Capacity,       \* _MAX_EVENTS_PER_SCAN
    MaxEvents,      \* bound: events published
    MaxScans,       \* bound: scans of the run, the first and its resumes
    MaxConnects     \* bound: sockets opened

Ids == {RunId, ScanId}
Publishers == {"crawler", "api"}

ASSUME IdAssumption == None \notin Ids
ASSUME SizeAssumption ==
    /\ {Capacity, MaxEvents, MaxScans, MaxConnects} \subseteq Nat
    /\ Capacity > 0

\* An event: its sequence number, its place among all events, whether it ends a scan.
Events == [seq : 1..MaxEvents, number : 1..MaxEvents, terminal : BOOLEAN]

\* Queue objects, numbered as they are created; a discarded one may still be in use.
Queues == 1..(MaxEvents + Cardinality(Ids))

VARIABLES
    alias,      \* _aliases
    channel,    \* _channels: the queue object of an id, 0 for none
    queues,     \* what the queue objects hold
    created,    \* queue objects created so far
    telemetry,  \* _latest_telemetry
    sequence,   \* _event_sequences
    pub,        \* the call of publish of every thread
    timers,     \* pending Timer(60, discard_channel) by id
    scan,       \* the crawler's thread: "new", "live" or "over"
    finished,   \* the stored status of the run is a terminal one
    socket,     \* the socket of every client: its pc and its queue
    orphans,    \* readers of closed sockets, by queue
    attached,   \* the client still watches (terminalStateProcessed is false)
    last,       \* lastEventSequence of a client
    shown,      \* history: the number of the event that a client shows
    begun, published, scans, connects,
    discards    \* history: channels discarded

bus == <<alias, channel, queues, created, telemetry, sequence>>
client == <<socket, orphans, attached, last, shown, connects>>
vars == <<bus, pub, timers, scan, finished, client, begun, published, scans, discards>>

Quiet == [pc |-> "idle", canon |-> RunId, queue |-> 0, terminal |-> FALSE, event |-> None]
Closed == [pc |-> "closed", queue |-> 0]

Init ==
    /\ alias = [i \in Ids |-> None]
    /\ channel = [i \in Ids |-> 0]
    /\ queues = [q \in Queues |-> <<>>] /\ created = 0
    /\ telemetry = [i \in Ids |-> None]
    /\ sequence = [i \in Ids |-> 0]
    /\ pub = [p \in Publishers |-> Quiet]
    /\ timers = [i \in Ids |-> 0]
    /\ scan = "new" /\ finished = FALSE
    /\ socket = [c \in Clients |-> Closed]
    /\ orphans = [q \in Queues |-> 0]
    /\ attached = [c \in Clients |-> TRUE]
    /\ last = [c \in Clients |-> 0] /\ shown = [c \in Clients |-> 0]
    /\ begun = 0 /\ published = 0 /\ scans = 0 /\ connects = 0 /\ discards = 0

Canon(id) == IF alias[id] = None THEN id ELSE alias[id]

\* get_channel: the queue of an id, created when there is none.
QueueOf(id) == IF channel[Canon(id)] = 0 THEN created + 1 ELSE channel[Canon(id)]

GetChannel(id) ==
    /\ channel' = [channel EXCEPT ![Canon(id)] = QueueOf(id)]
    /\ created' = IF channel[Canon(id)] = 0 THEN created + 1 ELSE created

-----------------------------------------------------------------------------
(* publish.                                                                *)

\* The id is resolved here, and again by get_channel.
PublishBegin(p, id, ends) ==
    /\ pub[p].pc = "idle"
    /\ begun < MaxEvents /\ begun' = begun + 1
    /\ GetChannel(Canon(id))
    /\ pub' = [pub EXCEPT ![p] = [pc |-> "sequence", canon |-> Canon(id),
                                  queue |-> QueueOf(Canon(id)), terminal |-> ends,
                                  event |-> None]]
    /\ UNCHANGED <<alias, queues, telemetry, sequence, timers, client, published, discards>>

\* Mutant of PublishSequence: the snapshot is set once, as by setdefault.
MutantSnapshotOnce(p) ==
    LET k == pub[p].canon
        e == [seq |-> sequence[k] + 1, number |-> published + 1, terminal |-> pub[p].terminal]
    IN /\ pub[p].pc = "sequence"
       /\ sequence' = [sequence EXCEPT ![k] = e.seq]
       /\ telemetry' = [telemetry EXCEPT ![k] = IF @ = None THEN e ELSE @]
       /\ published' = published + 1
       /\ pub' = [pub EXCEPT ![p].pc = "put", ![p].event = e]
       /\ UNCHANGED <<alias, channel, queues, created, timers, scan, finished, client, begun, scans,
                      discards>>

\* The number and the snapshot for clients that reconnect, under the lock.
PublishSequence(p) ==
    LET k == pub[p].canon
        e == [seq |-> sequence[k] + 1, number |-> published + 1, terminal |-> pub[p].terminal]
    IN /\ pub[p].pc = "sequence"
       /\ sequence' = [sequence EXCEPT ![k] = e.seq]
       /\ telemetry' = [telemetry EXCEPT ![k] = e]
       /\ published' = published + 1
       /\ pub' = [pub EXCEPT ![p].pc = "put", ![p].event = e]
       /\ UNCHANGED <<alias, channel, queues, created, timers, scan, finished, client, begun, scans,
                      discards>>

\* The event is queued; a terminal one starts the timer of its channel.
Queued(p) ==
    /\ queues' = [queues EXCEPT ![pub[p].queue] = Append(@, pub[p].event)]
    /\ timers' = IF pub[p].terminal THEN [timers EXCEPT ![pub[p].canon] = @ + 1] ELSE timers
    /\ pub' = [pub EXCEPT ![p] = Quiet]

Room(p) == Len(queues[pub[p].queue]) < Capacity

\* Mutant of PublishPut: the queue has no bound.
MutantPutUnbounded(p) ==
    /\ pub[p].pc = "put"
    /\ Queued(p)
    /\ UNCHANGED <<alias, channel, created, telemetry, sequence, scan, finished, client, begun,
                   published, scans, discards>>

PublishPut(p) ==
    /\ pub[p].pc = "put"
    /\ \/ Room(p) /\ Queued(p)
       \/ ~Room(p) /\ pub' = [pub EXCEPT ![p].pc = "evict"] /\ UNCHANGED <<queues, timers>>
    /\ UNCHANGED <<alias, channel, created, telemetry, sequence, scan, finished, client, begun,
                   published, scans, discards>>

\* The oldest event goes; when a reader has emptied the queue meanwhile, the
\* publisher gives up.
PublishEvict(p) ==
    LET q == pub[p].queue IN
    /\ pub[p].pc = "evict"
    /\ \/ /\ queues[q] # <<>>
          /\ queues' = [queues EXCEPT ![q] = Tail(@)]
          /\ pub' = [pub EXCEPT ![p].pc = "reput"]
       \/ /\ queues[q] = <<>>
          /\ pub' = [pub EXCEPT ![p] = Quiet]
          /\ UNCHANGED queues
    /\ UNCHANGED <<alias, channel, created, telemetry, sequence, timers, scan, finished, client, begun,
                   published, scans, discards>>

\* It also gives up when another thread has taken the room.
PublishReput(p) ==
    /\ pub[p].pc = "reput"
    /\ \/ Room(p) /\ Queued(p)
       \/ ~Room(p) /\ pub' = [pub EXCEPT ![p] = Quiet] /\ UNCHANGED <<queues, timers>>
    /\ UNCHANGED <<alias, channel, created, telemetry, sequence, scan, finished, client, begun,
                   published, scans, discards>>

PublishStep(p) ==
    PublishSequence(p) \/ PublishPut(p) \/ PublishEvict(p) \/ PublishReput(p)

-----------------------------------------------------------------------------
(* Who publishes.                                                          *)

\* run_scan registers the ids as aliases of each other.
ScanBegins ==
    /\ scan # "live" /\ pub["crawler"].pc = "idle"
    /\ scans < MaxScans /\ scans' = scans + 1
    /\ alias' = [alias EXCEPT ![RunId] = ScanId, ![ScanId] = RunId]
    /\ scan' = "live" /\ finished' = FALSE
    /\ UNCHANGED <<channel, queues, created, telemetry, sequence, pub, timers, client, begun,
                   published, discards>>

CrawlerProgress ==
    /\ scan = "live"
    /\ PublishBegin("crawler", RunId, FALSE)
    /\ UNCHANGED <<scan, finished, scans>>

CrawlerEnds ==
    /\ scan = "live"
    /\ PublishBegin("crawler", RunId, TRUE)
    /\ scan' = "over" /\ finished' = TRUE
    /\ UNCHANGED scans

\* A control request, or one that ends the run: it publishes scan_stopped itself.
ApiPublishes(ends) ==
    /\ scans > 0
    /\ PublishBegin("api", RunId, ends)
    /\ finished' = (finished \/ ends)
    /\ UNCHANGED <<scan, scans>>

\* discard_channel, 60 s after a terminal event, whatever happened since.
Discard(id) ==
    LET k == Canon(id) IN
    /\ timers[id] > 0
    /\ timers' = [timers EXCEPT ![id] = @ - 1]
    /\ channel' = [channel EXCEPT ![k] = 0]
    /\ telemetry' = [telemetry EXCEPT ![k] = None]
    /\ sequence' = [sequence EXCEPT ![k] = 0]
    /\ alias' = [i \in Ids |-> IF i = k \/ alias[i] = k THEN None ELSE alias[i]]
    /\ discards' = discards + 1
    /\ UNCHANGED <<queues, created, pub, scan, finished, client, begun, published, scans>>

-----------------------------------------------------------------------------
(* The clients and their sockets.                                          *)

LoopFree == pub["api"].pc = "idle"

\* Mutant of Render: the client shows whatever arrives.
MutantRenderEverything(c, e) ==
    /\ last' = [last EXCEPT ![c] = e.seq]
    /\ shown' = [shown EXCEPT ![c] = e.number]
    /\ attached' = [attached EXCEPT ![c] = @ /\ ~e.terminal]

\* handleTelemetryEvent: an event that is not newer than the last one is dropped,
\* and a terminal one ends the watch.
Render(c, e) ==
    IF attached[c] /\ e.seq > last[c]
    THEN /\ last' = [last EXCEPT ![c] = e.seq]
         /\ shown' = [shown EXCEPT ![c] = e.number]
         /\ attached' = [attached EXCEPT ![c] = ~e.terminal]
    ELSE UNCHANGED <<last, shown, attached>>

Untouched == UNCHANGED <<pub, timers, scan, finished, begun, published, scans, discards>>

Connect(c) ==
    /\ LoopFree
    /\ attached[c] /\ socket[c].pc = "closed"
    /\ connects < MaxConnects /\ connects' = connects + 1
    /\ GetChannel(RunId)
    /\ socket' = [socket EXCEPT ![c] = [pc |-> "snapshot", queue |-> QueueOf(RunId)]]
    /\ UNCHANGED <<alias, queues, telemetry, sequence, orphans, attached, last, shown>>
    /\ Untouched

SendSnapshot(c) ==
    LET e == telemetry[Canon(RunId)] IN
    /\ LoopFree
    /\ socket[c].pc = "snapshot"
    /\ socket' = [socket EXCEPT ![c].pc = "reading"]
    /\ IF e = None THEN UNCHANGED <<last, shown, attached>> ELSE Render(c, e)
    /\ UNCHANGED <<bus, orphans, connects>>
    /\ Untouched

\* The reader takes the next event and sends it; a terminal event ends it.
ReadEvent(c) ==
    LET q == socket[c].queue
        e == Head(queues[q])
    IN /\ socket[c].pc = "reading"
       /\ queues[q] # <<>>
       /\ queues' = [queues EXCEPT ![q] = Tail(@)]
       /\ Render(c, e)
       /\ socket' = IF e.terminal THEN [socket EXCEPT ![c] = Closed] ELSE socket
       /\ UNCHANGED <<alias, channel, created, telemetry, sequence, orphans, connects>>
       /\ Untouched

\* The connection is lost, or the server hears that the client has closed it; the
\* reader's thread is still in channel.get.
Disconnect(c) ==
    /\ socket[c].pc # "closed"
    /\ socket' = [socket EXCEPT ![c] = Closed]
    /\ orphans' = IF socket[c].pc = "reading"
                  THEN [orphans EXCEPT ![socket[c].queue] = @ + 1] ELSE orphans
    /\ UNCHANGED <<bus, attached, last, shown, connects>>
    /\ Untouched

\* It takes an event that no one sees, or its wait of 20 s ends.
OrphanLeaves(q) ==
    /\ orphans[q] > 0
    /\ orphans' = [orphans EXCEPT ![q] = @ - 1]
    /\ \/ queues[q] # <<>> /\ queues' = [queues EXCEPT ![q] = Tail(@)]
       \/ UNCHANGED queues
    /\ UNCHANGED <<alias, channel, created, telemetry, sequence, socket, attached, last, shown,
                   connects>>
    /\ Untouched

\* GET /run/{id}/state carries the latest event.
Poll(c) ==
    LET e == telemetry[Canon(RunId)] IN
    /\ LoopFree
    /\ attached[c] /\ e # None /\ e.seq > last[c]
    /\ Render(c, e)
    /\ UNCHANGED <<bus, socket, orphans, connects>>
    /\ Untouched

\* A polled terminal status ends the watch: the stream is closed.
StopWatching(c) ==
    /\ finished /\ attached[c]
    /\ attached' = [attached EXCEPT ![c] = FALSE]
    /\ UNCHANGED <<bus, socket, orphans, last, shown, connects>>
    /\ Untouched

\* handleStartScan resumes the run and watches it again; the last sequence number
\* that the client has seen stays.
WatchAgain(c) ==
    /\ finished /\ scans < MaxScans
    /\ ~attached[c] /\ socket[c].pc = "closed"
    /\ attached' = [attached EXCEPT ![c] = TRUE]
    /\ UNCHANGED <<bus, socket, orphans, last, shown, connects>>
    /\ Untouched

Next ==
    \/ ScanBegins \/ CrawlerProgress \/ CrawlerEnds
    \/ \E ends \in BOOLEAN : ApiPublishes(ends)
    \/ \E p \in Publishers : PublishStep(p)
    \/ \E id \in Ids : Discard(id)
    \/ \E c \in Clients : \/ Connect(c) \/ SendSnapshot(c) \/ ReadEvent(c) \/ Disconnect(c)
                          \/ Poll(c) \/ StopWatching(c) \/ WatchAgain(c)
    \/ \E q \in Queues : OrphanLeaves(q)

Spec == Init /\ [][Next]_vars

\* Threads run, and a client that watches polls every second.  Nothing makes a
\* scan publish, a socket open or stay open, or a client leave.
LiveSpec ==
    /\ Spec
    /\ \A p \in Publishers : WF_vars(PublishStep(p))
    /\ \A c \in Clients : WF_vars(Poll(c))

-----------------------------------------------------------------------------
(* Properties.                                                             *)

TypeOK ==
    /\ alias \in [Ids -> Ids \cup {None}]
    /\ channel \in [Ids -> {0} \cup Queues]
    /\ created \in 0..(MaxEvents + Cardinality(Ids))
    /\ queues \in [Queues -> Seq(Events)]
    /\ \A q \in Queues : Len(queues[q]) <= Capacity
    /\ telemetry \in [Ids -> Events \cup {None}]
    /\ sequence \in [Ids -> 0..MaxEvents]
    /\ pub \in [Publishers -> [pc : {"idle", "sequence", "put", "evict", "reput"},
                               canon : Ids, queue : {0} \cup Queues, terminal : BOOLEAN,
                               event : Events \cup {None}]]
    /\ timers \in [Ids -> 0..MaxEvents]
    /\ scan \in {"new", "live", "over"} /\ finished \in BOOLEAN
    /\ socket \in [Clients -> [pc : {"closed", "snapshot", "reading"}, queue : {0} \cup Queues]]
    /\ orphans \in [Queues -> 0..MaxConnects]
    /\ attached \in [Clients -> BOOLEAN]
    /\ last \in [Clients -> 0..MaxEvents] /\ shown \in [Clients -> 0..MaxEvents]
    /\ begun \in 0..MaxEvents /\ published \in 0..begun
    /\ scans \in 0..MaxScans /\ connects \in 0..MaxConnects /\ discards \in 0..MaxEvents

\* A client never goes back to an older event, although two threads may queue
\* their events in the wrong order, a snapshot overtakes the queue and clients
\* reconnect; until the channel is discarded.
ClientNeverGoesBack ==
    [][\A c \in Clients : discards = 0 => shown'[c] >= shown[c]]_vars

\* Whatever was evicted, swallowed by the reader of a closed socket, taken by
\* another client or dropped as out of order, a client that watches comes to show
\* the latest event or a newer one.
ClientCatchesUp ==
    \A c \in Clients, n \in 1..MaxEvents :
        (published = n /\ attached[c]) ~> (shown[c] >= n \/ ~attached[c] \/ discards > 0)
=============================================================================
