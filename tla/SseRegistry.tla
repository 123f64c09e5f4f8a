----------------------------- MODULE SseRegistry -----------------------------
(***************************************************************************)
(* The registry of event-stream clients (src/workers/sse_worker.rs) and    *)
(* its two users: the HTTP handlers of /api/stream, which register a       *)
(* client with the sending end of its bounded channel, and SseWorker,      *)
(* which routes every update of its hub mailbox to the subscribed clients, *)
(* sends heartbeats, and removes the clients whose receiving end is gone.  *)
(* The registry is a concurrent map: its size is read, entries are         *)
(* inserted and the worker iterates without a common lock.  At shutdown    *)
(* SseWorker clears the registry and HttpWorker stops the server, each     *)
(* when it notices.                                                        *)
(***************************************************************************)
EXTENDS Naturals, Sequences, FiniteSets

CONSTANTS
    Clients,           \* requests for /api/stream
    Topics,            \* the pairs of device and signal group that are polled
    Subscribed,        \* the pairs each client asks for, polled or not; {}: none
    HandlerThreads,    \* threads of the HTTP server
    MaxConnections,    \* MAX_SSE_CONNECTIONS (100 in the code)
    ChannelCapacity,   \* SSE_CHANNEL_CAPACITY (100 in the code)
    MailboxCapacity,   \* of the worker's hub mailbox
    LastNumber         \* bound of the model: updates are numbered up to here,
                       \* all later ones carry this number

ASSUME SseAssumption ==
    /\ IsFiniteSet(Clients)
    /\ \A c \in Clients : IsFiniteSet(Subscribed[c])
    /\ HandlerThreads \in Nat \ {0}
    /\ MaxConnections \in Nat
    /\ ChannelCapacity \in Nat \ {0}
    /\ MailboxCapacity \in Nat \ {0}
    /\ LastNumber \in Nat \ {0}

VARIABLES
    request,       \* a client's request: how far its handler is
    closed,        \* clients that went away: their channel has no receiver
    registry,      \* the clients in the connection map
    channel,       \* the bounded channel of each client
    lastRead,      \* the number of the last update a client has read
    published,     \* the number of the last update published
    updates,       \* SseWorker's hub mailbox
    worker,        \* what SseWorker does
    event,         \* what its iteration sends
    atStart,       \* the entries of the map when its iteration began
    visited,       \* the entries its iteration has seen
    dead,          \* dead_connections
    heartbeatDue,  \* SSE_HEARTBEAT_INTERVAL_SECS have elapsed
    online,        \* context.is_online()
    server         \* the HTTP server of HttpWorker; "absent": it could not bind

clientVars == <<request, closed, lastRead>>
passVars   == <<worker, event, atStart, visited, dead>>
stopVars   == <<online, server>>
sseVars    == <<clientVars, registry, channel, published, updates, passVars,
                heartbeatDue, stopVars>>

Update == [topic : Topics, number : 1..LastNumber]
Heartbeat == [topic |-> "heartbeat", number |-> 0]

SseTypeOK ==
    /\ request \in [Clients -> {"new", "admitted", "streaming", "refused"}]
    /\ closed \subseteq Clients
    /\ registry \subseteq Clients
    /\ channel \in [Clients -> Seq(Update \cup {Heartbeat})]
    /\ \A c \in Clients : Len(channel[c]) <= ChannelCapacity
    /\ lastRead \in [Clients -> 0..LastNumber]
    /\ published \in 0..LastNumber
    /\ updates \in Seq(Update) /\ Len(updates) <= MailboxCapacity
    /\ worker \in {"waiting", "routing", "beating", "stopped"}
    /\ event \in Update \cup {Heartbeat}
    /\ atStart \subseteq Clients /\ visited \subseteq Clients /\ dead \subseteq Clients
    /\ heartbeatDue \in BOOLEAN
    /\ online \in BOOLEAN
    /\ server \in {"absent", "serving", "stopping", "ended"}

SseInit ==
    /\ request = [c \in Clients |-> "new"]
    /\ closed = {}
    /\ registry = {}
    /\ channel = [c \in Clients |-> <<>>]
    /\ lastRead = [c \in Clients |-> 0]
    /\ published = 0
    /\ updates = <<>>
    /\ worker = "waiting" /\ event = Heartbeat
    /\ atStart = {} /\ visited = {} /\ dead = {}
    /\ heartbeatDue = FALSE
    /\ online = TRUE
    /\ server \in {"absent", "serving"}

(* Definitions named ...Deviation are errors the code could plausibly have  *)
(* had.  They occur in no specification; substituted for the definition     *)
(* that follows them they show which property notices the error.            *)

-----------------------------------------------------------------------------
\* The handlers of /api/stream.  There is no await between the check of the
\* limit and the insertion, so a thread that passed the check inserts before
\* it runs another handler.

Admitted == {c \in Clients : request[c] = "admitted"}

\* A request is served while there is a server, on one of its threads.
Handled(c) ==
    /\ request[c] = "new"
    /\ server \in {"serving", "stopping"}
    /\ Cardinality(Admitted) < HandlerThreads

\* The limit admits one client too many.
CheckLimitOffByOneDeviation(c) ==
    /\ Handled(c)
    /\ request' = [request EXCEPT ![c] =
            IF Subscribed[c] = {} \/ Cardinality(registry) > MaxConnections
            THEN "refused" ELSE "admitted"]
    /\ UNCHANGED <<closed, lastRead, registry, channel, published, updates,
                   passVars, heartbeatDue, stopVars>>

\* "No signal groups specified"; or register reads the size of the map:
\* "Maximum SSE connections limit reached"; or the client is admitted.
CheckLimit(c) ==
    /\ Handled(c)
    /\ request' = [request EXCEPT ![c] =
            IF Subscribed[c] = {} \/ Cardinality(registry) >= MaxConnections
            THEN "refused" ELSE "admitted"]
    /\ UNCHANGED <<closed, lastRead, registry, channel, published, updates,
                   passVars, heartbeatDue, stopVars>>

\* register inserts the client under a fresh id; the stream is returned.
Insert(c) ==
    /\ request[c] = "admitted"
    /\ request' = [request EXCEPT ![c] = "streaming"]
    /\ registry' = registry \cup {c}
    /\ UNCHANGED <<closed, lastRead, channel, published, updates, passVars,
                   heartbeatDue, stopVars>>

-----------------------------------------------------------------------------
\* The clients.

Open == {c \in Clients : request[c] = "streaming" /\ c \notin closed}

\* The stream takes the next event of the channel.
Read(c) ==
    /\ c \in Open
    /\ channel[c] # <<>>
    /\ lastRead' = [lastRead EXCEPT ![c] =
                      IF Head(channel[c]) = Heartbeat THEN @ ELSE Head(channel[c]).number]
    /\ channel' = [channel EXCEPT ![c] = Tail(@)]
    /\ UNCHANGED <<request, closed, registry, published, updates, passVars,
                   heartbeatDue, stopVars>>

\* The client goes away: the stream and with it the receiver are dropped.
\* Nobody tells the registry.
Leave(c) ==
    /\ c \in Open
    /\ closed' = closed \cup {c}
    /\ channel' = [channel EXCEPT ![c] = <<>>]
    /\ UNCHANGED <<request, lastRead, registry, published, updates, passVars,
                   heartbeatDue, stopVars>>

\* The registry was cleared, and with it went the sender: the stream is over
\* when what is left in the channel has been read.
StreamEnds(c) ==
    /\ c \in Open \ registry
    /\ channel[c] = <<>>
    /\ closed' = closed \cup {c}
    /\ UNCHANGED <<request, lastRead, registry, channel, published, updates,
                   passVars, heartbeatDue, stopVars>>

-----------------------------------------------------------------------------
\* The hub and the clock.

Publish(topic) ==
    /\ Len(updates) < MailboxCapacity
    /\ published' = IF published < LastNumber THEN published + 1 ELSE published
    /\ updates' = Append(updates, [topic |-> topic, number |-> published'])
    /\ UNCHANGED <<clientVars, registry, channel, passVars, heartbeatDue, stopVars>>

HeartbeatElapses ==
    /\ ~heartbeatDue
    /\ heartbeatDue' = TRUE
    /\ UNCHANGED <<clientVars, registry, channel, published, updates, passVars, stopVars>>

GoOffline ==
    /\ online
    /\ online' = FALSE
    /\ UNCHANGED <<clientVars, registry, channel, published, updates, passVars,
                   heartbeatDue, server>>

-----------------------------------------------------------------------------
\* SseWorker.

\* It wakes up with an update only: is_online is looked at then.
TakeUpdate ==
    /\ worker = "waiting" /\ updates # <<>> /\ online
    /\ worker' = "routing"
    /\ event' = Head(updates)
    /\ updates' = Tail(updates)
    /\ atStart' = registry
    /\ UNCHANGED <<clientVars, registry, channel, published, visited, dead, heartbeatDue, stopVars>>

\* registry.clear() at the end of run.
Stop ==
    /\ worker = "waiting" /\ updates # <<>> /\ ~online
    /\ worker' = "stopped"
    /\ registry' = {}
    /\ updates' = Tail(updates)
    /\ UNCHANGED <<clientVars, channel, published, event, atStart, visited, dead,
                   heartbeatDue, stopVars>>

\* A heartbeat is for everyone.
Addressed(c) == worker = "beating" \/ event.topic \in Subscribed[c]

\* A full channel is taken for a dead one.
SlowIsDeadDeviation(c) ==
    /\ worker \in {"routing", "beating"}
    /\ c \in registry \ visited
    /\ visited' = visited \cup {c}
    /\ IF Addressed(c) /\ c \notin closed /\ Len(channel[c]) < ChannelCapacity
       THEN channel' = [channel EXCEPT ![c] = Append(@, event)]
       ELSE UNCHANGED channel
    /\ dead' = IF Addressed(c) /\ (c \in closed \/ Len(channel[c]) = ChannelCapacity)
               THEN dead \cup {c} ELSE dead
    /\ UNCHANGED <<clientVars, registry, published, updates, worker, event,
                   atStart, heartbeatDue, stopVars>>

\* send instead of try_send: the worker waits for room.
BlockingSendDeviation(c) ==
    /\ worker \in {"routing", "beating"}
    /\ c \in registry \ visited
    /\ visited' = visited \cup {c}
    /\ Addressed(c) /\ c \notin closed => Len(channel[c]) < ChannelCapacity
    /\ IF Addressed(c) /\ c \notin closed
       THEN channel' = [channel EXCEPT ![c] = Append(@, event)]
       ELSE UNCHANGED channel
    /\ dead' = IF Addressed(c) /\ c \in closed THEN dead \cup {c} ELSE dead
    /\ UNCHANGED <<clientVars, registry, published, updates, worker, event,
                   atStart, heartbeatDue, stopVars>>

\* An entry can be visited twice in one iteration.
VisitAgainDeviation(c) ==
    /\ worker \in {"routing", "beating"}
    /\ c \in registry
    /\ visited' = visited \cup {c}
    /\ IF Addressed(c) /\ c \notin closed /\ Len(channel[c]) < ChannelCapacity
       THEN channel' = [channel EXCEPT ![c] = Append(@, event)]
       ELSE UNCHANGED channel
    /\ dead' = IF Addressed(c) /\ c \in closed THEN dead \cup {c} ELSE dead
    /\ UNCHANGED <<clientVars, registry, published, updates, worker, event,
                   atStart, heartbeatDue, stopVars>>

\* try_send to one entry: delivered, skipped because the channel is full, or
\* found dead.  Entries inserted meanwhile may or may not be visited.
Visit(c) ==
    /\ worker \in {"routing", "beating"}
    /\ c \in registry \ visited
    /\ visited' = visited \cup {c}
    /\ IF Addressed(c) /\ c \notin closed /\ Len(channel[c]) < ChannelCapacity
       THEN channel' = [channel EXCEPT ![c] = Append(@, event)]
       ELSE UNCHANGED channel
    /\ dead' = IF Addressed(c) /\ c \in closed THEN dead \cup {c} ELSE dead
    /\ UNCHANGED <<clientVars, registry, published, updates, worker, event,
                   atStart, heartbeatDue, stopVars>>

Iterated == worker \in {"routing", "beating"} /\ atStart \subseteq visited

\* unregister of a dead entry, after the iteration.
Unregister(c) ==
    /\ Iterated
    /\ c \in dead
    /\ registry' = registry \ {c}
    /\ dead' = dead \ {c}
    /\ UNCHANGED <<clientVars, channel, published, updates, worker, event,
                   atStart, visited, heartbeatDue, stopVars>>

\* The interval starts anew without a heartbeat.
NoHeartbeatDeviation ==
    /\ worker = "routing" /\ Iterated /\ dead = {}
    /\ heartbeatDue
    /\ heartbeatDue' = FALSE
    /\ worker' = "waiting"
    /\ event' = Heartbeat
    /\ atStart' = {} /\ visited' = {}
    /\ UNCHANGED <<clientVars, registry, channel, published, updates, dead, stopVars>>

\* Nothing is left to do for the update, and send_heartbeat_if_needed finds
\* that the interval has elapsed.
BeginHeartbeat ==
    /\ worker = "routing" /\ Iterated /\ dead = {}
    /\ heartbeatDue
    /\ heartbeatDue' = FALSE
    /\ worker' = "beating"
    /\ event' = Heartbeat
    /\ atStart' = registry
    /\ visited' = {}
    /\ UNCHANGED <<clientVars, registry, channel, published, updates, dead, stopVars>>

\* Back to the mailbox.
EndPass ==
    /\ Iterated /\ dead = {}
    /\ worker = "routing" => ~heartbeatDue
    /\ worker' = "waiting"
    /\ event' = Heartbeat
    /\ atStart' = {} /\ visited' = {}
    /\ UNCHANGED <<clientVars, registry, channel, published, updates, dead,
                   heartbeatDue, stopVars>>

-----------------------------------------------------------------------------
\* HttpWorker.

\* It looks at is_online every second and asks the server to stop; a thread
\* that panicked because the port was taken is all it finds otherwise.
StopServer ==
    /\ ~online
    /\ server \in {"absent", "serving"}
    /\ server' = IF server = "absent" THEN "ended" ELSE "stopping"
    /\ UNCHANGED <<clientVars, registry, channel, published, updates, passVars,
                   heartbeatDue, online>>

\* The server waits for its streams however long they last.
WaitForStreamsDeviation ==
    /\ server = "stopping" /\ Admitted = {} /\ Open = {}
    /\ server' = "ended"
    /\ UNCHANGED <<clientVars, registry, channel, published, updates, passVars,
                   heartbeatDue, online>>

\* stop(true) waits for the open streams, but not for ever: those that are
\* still open then are cut off; the runtime ends and HttpWorker returns.
ServerEnds ==
    /\ server = "stopping" /\ Admitted = {}
    /\ server' = "ended"
    /\ closed' = closed \cup Open
    /\ channel' = [c \in Clients |-> IF c \in Open THEN <<>> ELSE channel[c]]
    /\ UNCHANGED <<request, lastRead, registry, published, updates, passVars,
                   heartbeatDue, online>>

HandlerStep(c) == CheckLimit(c) \/ Insert(c)

ServerStep == StopServer \/ ServerEnds \/ \E c \in Clients : Insert(c)

WorkerStep ==
    \/ TakeUpdate \/ Stop
    \/ \E c \in Clients : Visit(c) \/ Unregister(c)
    \/ BeginHeartbeat \/ EndPass

SseNext ==
    \/ \E c \in Clients : HandlerStep(c) \/ Read(c) \/ Leave(c) \/ StreamEnds(c)
    \/ StopServer \/ ServerEnds
    \/ \E topic \in Topics : Publish(topic)
    \/ HeartbeatElapses \/ GoOffline
    \/ WorkerStep

SseSpec == SseInit /\ [][SseNext]_sseVars

-----------------------------------------------------------------------------
\* The limit can be overshot, because it is checked before the insertion and
\* not with it, but only by the handlers that run at the same time
\* (sse_worker.rs:108-115).
LimitOvershoot ==
    Cardinality(registry \cup Admitted) <= MaxConnections + HandlerThreads - 1

\* Only clients that are gone are taken out of the registry while the worker
\* runs: a slow reader or one that has just registered is never cut off
\* (sse_worker.rs:146-156).
LiveNeverDropped ==
    [][\A c \in registry \ registry' : c \in closed \/ worker' = "stopped"]_sseVars

\* A client sees the updates in the order of the hub and none twice, however
\* many it misses and although the map is iterated while it changes.
Numbers(c) == {i \in 1..Len(channel[c]) : channel[c][i] # Heartbeat}
ClientOrder ==
    \A c \in Clients : \A i \in Numbers(c) :
        /\ \/ lastRead[c] < channel[c][i].number
           \/ channel[c][i].number = LastNumber
        /\ \A j \in Numbers(c) : i < j =>
            \/ channel[c][i].number < channel[c][j].number
            \/ channel[c][i].number = LastNumber

\* SSE: "Rejecting new connection" at the maximum (sse_worker.rs:107-113).
RegistryWithinLimit == Cardinality(registry) <= MaxConnections

-----------------------------------------------------------------------------
\* The threads of the workers run, a handler that has begun goes on, and the
\* heartbeat interval elapses; nothing is assumed of the clients.
SseFairness ==
    WF_sseVars(WorkerStep) /\ WF_sseVars(HeartbeatElapses) /\ WF_sseVars(ServerStep)

\* Every device keeps being polled.
UpdatesArrive == WF_sseVars(\E topic \in Topics : Publish(topic))

\* The worker returns to its mailbox although clients do not read, leave and
\* keep registering.
WorkerReturns == []<>(worker \in {"waiting", "stopped"})

\* At shutdown every stream ends, those too that nobody reads and those of
\* clients that register when SseWorker has cleared the registry already, and
\* HttpWorker returns (http_worker.rs:318-352 against sse_worker.rs:331).  Who is
\* offline stays so.
StreamsEnd == []<>(online \/ (Open = {} /\ server = "ended"))

\* What SseWorker clears stays empty (sse_worker.rs:331).  It does not: a client
\* may register afterwards, whose stream is ended by nobody but the server.
ClearedForGood == worker = "stopped" => registry = {}

\* While the worker runs and updates of any topic arrive, a client that is gone
\* is found and removed, also one that nothing is ever sent to: again and again
\* there is none left in the registry (sse_worker.rs:146-156, 315-331).
DeadRemoved ==
    UpdatesArrive => []<>(closed \cap registry = {} \/ worker = "stopped")
=============================================================================
