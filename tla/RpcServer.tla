------------------------------ MODULE RpcServer ------------------------------
(***************************************************************************)
(* The JSON-RPC server (src/workers/rpc/{connection,server,worker}.rs).    *)
(* A connection carries one request: its task reads chunks of bytes until  *)
(* the brackets balance, hands the bytes to a blocking thread, writes the  *)
(* response and closes.  The accept loop spawns for every connection a     *)
(* task and an observer of that task; when RpcWorker goes offline the loop *)
(* drains the observers and the runtime is shut down.                      *)
(***************************************************************************)
EXTENDS Integers, Sequences, FiniteSets

CONSTANTS
    Connections,         \* clients that may connect
    Text,                \* [Connections -> Seq(Byte)]: what each one sends
    ChunkSize,           \* of the read buffer (4096 in the code)
    MaxRequestSize,      \* MAX_REQUEST_SIZE (1 MiB in the code)
    MaxBlockingThreads,  \* rpc_max_blocking_threads
    Nobody               \* not a connection

\* What the reader tells apart.
Byte == {"open", "close", "quote", "backslash", "other"}

ASSUME RpcAssumption ==
    /\ IsFiniteSet(Connections) /\ Nobody \notin Connections
    /\ Text \in [Connections -> Seq(Byte)]
    /\ ChunkSize \in Nat \ {0}
    /\ MaxRequestSize \in Nat
    /\ MaxBlockingThreads \in Nat \ {0}

VARIABLES
    conn,        \* where each connection is
    received,    \* how many bytes of its text request_payload holds
    track,       \* brace_depth, in_string, escape, json_started
    running,     \* connections whose handler occupies a blocking thread
    server,      \* where the thread of the runtime is
    accepted,    \* the connection the accept loop is setting up
    active,      \* ActiveConnections
    taskSet,     \* observers in the JoinSet
    finished,    \* observers that have ended
    forced,      \* the drain timed out
    online,      \* context.is_online()
    worker       \* where RpcWorker::run is

readVars == <<received, track>>
setVars == <<active, taskSet, finished>>
workerVars == <<online, worker>>
rpcVars == <<conn, readVars, running, server, accepted, setVars, forced, workerVars>>

Ended == {"closed", "aborted"}
InTask == {"reading", "queued", "handling", "writing"}

RpcTypeOK ==
    /\ conn \in [Connections -> {"new", "backlog", "refused"} \cup InTask \cup Ended]
    /\ received \in [Connections -> Nat]
    /\ running \subseteq Connections
    /\ Cardinality(running) <= MaxBlockingThreads
    /\ server \in {"binding", "accepting", "spawned", "added", "draining",
                   "stopped", "closing", "down"}
    /\ accepted \in Connections \cup {Nobody}
    /\ active \subseteq Connections
    /\ taskSet \subseteq Connections
    /\ finished \subseteq taskSet
    /\ forced \in BOOLEAN
    /\ online \in BOOLEAN
    /\ worker \in {"running", "joining", "done"}

Untracked == [depth |-> 0, inString |-> FALSE, escape |-> FALSE, started |-> FALSE]

RpcInit ==
    /\ conn = [c \in Connections |-> "new"]
    /\ received = [c \in Connections |-> 0]
    /\ track = [c \in Connections |-> Untracked]
    /\ running = {}
    /\ server = "binding" /\ accepted = Nobody
    /\ active = {} /\ taskSet = {} /\ finished = {}
    /\ forced = FALSE
    /\ online = TRUE /\ worker = "running"

(* Definitions named ...Deviation are errors the code could plausibly have  *)
(* had.  They occur in no specification; substituted for the definition     *)
(* that follows them they show which property notices the error.            *)

-----------------------------------------------------------------------------
\* Following the nesting, byte by byte.

\* A backslash is taken for an ordinary character.
ScanNoEscapeDeviation(s, b) ==
    CASE b = "quote" -> [s EXCEPT !.inString = ~@]
      [] b = "open" /\ ~s.inString -> [s EXCEPT !.depth = @ + 1, !.started = TRUE]
      [] b = "close" /\ ~s.inString -> [s EXCEPT !.depth = @ - 1]
      [] OTHER -> s

ScanByte(s, b) ==
    CASE s.escape -> [s EXCEPT !.escape = FALSE]
      [] b = "backslash" /\ s.inString /\ ~s.escape -> [s EXCEPT !.escape = TRUE]
      [] b = "quote" /\ ~s.escape -> [s EXCEPT !.inString = ~@]
      [] b = "open" /\ ~s.inString /\ ~s.escape ->
            [s EXCEPT !.depth = @ + 1, !.started = TRUE]
      [] b = "close" /\ ~s.inString /\ ~s.escape -> [s EXCEPT !.depth = @ - 1]
      [] OTHER -> s

Scan(s, chunk) ==
    LET after[n \in 0..Len(chunk)] ==
            IF n = 0 THEN s ELSE ScanByte(after[n - 1], chunk[n])
    IN  after[Len(chunk)]

\* "Complete JSON detected".
Complete(s) == s.started /\ s.depth = 0

-----------------------------------------------------------------------------
\* The task of a connection: handle_connection.

Remaining(c) == Len(Text[c]) - received[c]

\* stream.read returns n bytes, however many the network has delivered.
Read(c) ==
    /\ conn[c] = "reading"
    /\ \E n \in 1..ChunkSize :
        LET next == Scan(track[c], SubSeq(Text[c], received[c] + 1, received[c] + n)) IN
        /\ n <= Remaining(c)
        /\ received' = [received EXCEPT ![c] = @ + n]
        /\ IF received[c] + n > MaxRequestSize
           THEN /\ conn' = [conn EXCEPT ![c] = "closed"]
                /\ UNCHANGED track
           ELSE /\ conn' = [conn EXCEPT ![c] = IF Complete(next) THEN "queued" ELSE @]
                /\ track' = [track EXCEPT ![c] = next]
    /\ UNCHANGED <<running, server, accepted, setVars, forced, workerVars>>

\* The first read waits for ever.
SilentClientDeviation(c) ==
    /\ conn[c] = "reading" /\ received[c] > 0
    /\ conn' = [conn EXCEPT ![c] = "queued"]
    /\ UNCHANGED <<readVars, running, server, accepted, setVars, forced, workerVars>>

\* The client has closed its side, or nothing came for 3 s (50 ms after the
\* first chunk): what has been read is taken for the request.
StopReading(c) ==
    /\ conn[c] = "reading"
    /\ conn' = [conn EXCEPT ![c] = IF received[c] = 0 THEN "closed" ELSE "queued"]
    /\ UNCHANGED <<readVars, running, server, accepted, setVars, forced, workerVars>>

\* A read or a write fails, or the write takes longer than 5 s.
ConnectionFails(c) ==
    /\ conn[c] \in {"reading", "writing"}
    /\ conn' = [conn EXCEPT ![c] = "closed"]
    /\ UNCHANGED <<readVars, running, server, accepted, setVars, forced, workerVars>>

\* spawn_blocking finds a free thread.
StartHandler(c) ==
    /\ conn[c] = "queued"
    /\ Cardinality(running) < MaxBlockingThreads
    /\ running' = running \cup {c}
    /\ conn' = [conn EXCEPT ![c] = "handling"]
    /\ UNCHANGED <<readVars, server, accepted, setVars, forced, workerVars>>

\* The handler returns with a response, without one, or panics.  If the
\* runtime has dropped the task meanwhile nobody takes the result.
HandlerReturns(c) ==
    /\ c \in running
    /\ running' = running \ {c}
    /\ \/ conn[c] = "handling" /\ conn' = [conn EXCEPT ![c] = "writing"]
       \/ conn[c] = "handling" /\ conn' = [conn EXCEPT ![c] = "closed"]
       \/ conn[c] # "handling" /\ UNCHANGED conn
    /\ UNCHANGED <<readVars, server, accepted, setVars, forced, workerVars>>

\* The response is written and the stream dropped.
WriteResponse(c) ==
    /\ conn[c] = "writing"
    /\ conn' = [conn EXCEPT ![c] = "closed"]
    /\ UNCHANGED <<readVars, running, server, accepted, setVars, forced, workerVars>>

-----------------------------------------------------------------------------
\* The accept loop of run_async_server.

\* A client connects while the listener exists.
Connect(c) ==
    /\ conn[c] = "new"
    /\ server \in {"accepting", "spawned", "added", "draining"}
    /\ conn' = [conn EXCEPT ![c] = "backlog"]
    /\ UNCHANGED <<readVars, running, server, accepted, setVars, forced, workerVars>>

\* The runtime is built and the address bound; or the bind fails and the
\* function returns; or there is no runtime (or no worker thread for it) and
\* the thread ends.
Start ==
    /\ server = "binding"
    /\ server' \in {"accepting", "stopped", "down"}
    /\ UNCHANGED <<conn, readVars, running, accepted, setVars, forced, workerVars>>

\* accept returns and the task of the connection is spawned; it runs from now on.
Accept(c) ==
    /\ server = "accepting"
    /\ conn[c] = "backlog"
    /\ conn' = [conn EXCEPT ![c] = "reading"]
    /\ accepted' = c
    /\ server' = "spawned"
    /\ UNCHANGED <<readVars, running, setVars, forced, workerVars>>

AddActive ==
    /\ server = "spawned"
    /\ active' = active \cup {accepted}
    /\ server' = "added"
    /\ UNCHANGED <<conn, readVars, running, accepted, taskSet, finished, forced, workerVars>>

\* The task is watched by nobody.
NoObserverDeviation ==
    /\ server = "added"
    /\ accepted' = Nobody
    /\ server' = "accepting"
    /\ UNCHANGED <<conn, readVars, running, setVars, forced, workerVars>>

SpawnObserver ==
    /\ server = "added"
    /\ taskSet' = taskSet \cup {accepted}
    /\ accepted' = Nobody
    /\ server' = "accepting"
    /\ UNCHANGED <<conn, readVars, running, active, finished, forced, workerVars>>

\* The observer of a task that has ended removes the connection and ends.
ObserverEnds(c) ==
    /\ c \in taskSet \ finished
    /\ conn[c] \in Ended
    /\ active' = active \ {c}
    /\ finished' = finished \cup {c}
    /\ UNCHANGED <<conn, readVars, running, server, accepted, taskSet, forced, workerVars>>

\* The signal of RpcWorker: accept no more.
BeginDrain ==
    /\ server = "accepting" /\ worker # "running"
    /\ server' = "draining"
    /\ UNCHANGED <<conn, readVars, running, accepted, setVars, forced, workerVars>>

\* join_next during the drain; the accept loop itself never joins.
JoinNext(c) ==
    /\ server = "draining"
    /\ c \in finished
    /\ taskSet' = taskSet \ {c}
    /\ finished' = finished \ {c}
    /\ UNCHANGED <<conn, readVars, running, server, accepted, active, forced, workerVars>>

\* run_async_server returns and with it the listener goes: connections in
\* its backlog are reset.
WithoutListener == [c \in Connections |-> IF conn[c] = "backlog" THEN "refused" ELSE conn[c]]

DrainCompletes ==
    /\ server = "draining"
    /\ taskSet = {}
    /\ server' = "stopped"
    /\ conn' = WithoutListener
    /\ UNCHANGED <<readVars, running, accepted, setVars, forced, workerVars>>

\* After 5 s the observers are aborted; the tasks they watch are not.
DrainTimesOut ==
    /\ server = "draining"
    /\ taskSet # {}
    /\ taskSet' = {} /\ finished' = {}
    /\ forced' = TRUE
    /\ server' = "stopped"
    /\ conn' = WithoutListener
    /\ UNCHANGED <<readVars, running, accepted, active, workerVars>>

\* rt.shutdown_timeout: every task is dropped where it waits; handlers that
\* are running cannot be interrupted, those that wait for a thread never start.
DropTasks ==
    /\ server = "stopped"
    /\ server' = "closing"
    /\ conn' = [c \in Connections |-> IF conn[c] \in InTask THEN "aborted" ELSE conn[c]]
    /\ UNCHANGED <<readVars, running, accepted, setVars, forced, workerVars>>

\* The runtime waits for its blocking threads without a limit.
AwaitHandlersDeviation ==
    /\ server = "closing"
    /\ running = {}
    /\ server' = "down"
    /\ UNCHANGED <<conn, readVars, running, accepted, setVars, forced, workerVars>>

\* ... and the thread ends when they have returned, or after 5 s without them.
RuntimeEnds ==
    /\ server = "closing"
    /\ server' = "down"
    /\ UNCHANGED <<conn, readVars, running, accepted, setVars, forced, workerVars>>

-----------------------------------------------------------------------------
\* RpcWorker::run.

GoOffline ==
    /\ online
    /\ online' = FALSE
    /\ UNCHANGED <<conn, readVars, running, server, accepted, setVars, forced, worker>>

\* It looks at is_online every second, then sends the signal.
SignalShutdown ==
    /\ worker = "running" /\ ~online
    /\ worker' = "joining"
    /\ UNCHANGED <<conn, readVars, running, server, accepted, setVars, forced, online>>

JoinRuntime ==
    /\ worker = "joining" /\ server = "down"
    /\ worker' = "done"
    /\ UNCHANGED <<conn, readVars, running, server, accepted, setVars, forced, online>>

ConnectionStep(c) ==
    \/ Read(c) \/ StopReading(c) \/ ConnectionFails(c)
    \/ StartHandler(c) \/ WriteResponse(c)

ServerStep ==
    \/ Start \/ AddActive \/ SpawnObserver \/ BeginDrain
    \/ DrainCompletes \/ DrainTimesOut \/ DropTasks \/ RuntimeEnds
    \/ \E c \in Connections : Accept(c) \/ JoinNext(c)

WorkerStep == SignalShutdown \/ JoinRuntime

RpcNext ==
    \/ \E c \in Connections :
        \/ Connect(c) \/ ConnectionStep(c) \/ HandlerReturns(c) \/ ObserverEnds(c)
    \/ ServerStep
    \/ GoOffline \/ WorkerStep

RpcSpec == RpcInit /\ [][RpcNext]_rpcVars

\* Threads run and timeouts expire (one on each read, one on the write);
\* nothing is assumed of the clients, not that a connection ever fails, and
\* nothing of the time a handler takes.
RpcFairness ==
    /\ WF_rpcVars(ServerStep)
    /\ WF_rpcVars(WorkerStep)
    /\ \A c \in Connections : WF_rpcVars(ObserverEnds(c))
    /\ \A c \in Connections :
        /\ WF_rpcVars(Read(c) \/ StopReading(c) \/ WriteResponse(c))
        /\ WF_rpcVars(StartHandler(c))

RpcFairSpec == RpcSpec /\ RpcFairness

-----------------------------------------------------------------------------
\* The nesting of a text taken as a whole: a quote counts unless an odd number
\* of backslashes stands before it, a bracket unless it is inside quotes.
Escaped(t, i) ==
    Cardinality({j \in 1..(i - 1) : \A k \in j..(i - 1) : t[k] = "backslash"}) % 2 = 1

Quoted(t, i) ==
    Cardinality({q \in 1..i : t[q] = "quote" /\ ~Escaped(t, q)}) % 2 = 1

Brackets(t, n, b) == {i \in 1..n : t[i] = b /\ ~Quoted(t, i)}

Balanced(t, n) ==
    /\ Brackets(t, n, "open") # {}
    /\ Cardinality(Brackets(t, n, "open")) = Cardinality(Brackets(t, n, "close"))

\* Backslashes occur, as in every JSON text, only inside quotes.
WellQuoted(t, n) == \A i \in 1..n : t[i] = "backslash" => Quoted(t, i)

\* However the bytes are cut into chunks, the reader stops after a chunk
\* exactly if the brackets of all it has read are balanced: it neither takes a
\* part of a request for the whole nor waits for more after the end
\* (connection.rs:51-77).
RequestsReadWhole ==
    [][\A c \in Connections :
        /\ received'[c] # received[c]
        /\ conn'[c] # "closed"
        /\ WellQuoted(Text[c], received'[c])
        => (conn'[c] = "queued" <=> Balanced(Text[c], received'[c]))]_rpcVars

\* A connection that was accepted is dropped by the shutdown only if the drain
\* ran into its timeout: the observers stand for the tasks they watch
\* (server.rs:69-75, 97-114).
DrainWaits ==
    server \in {"stopped", "closing", "down"} /\ ~forced =>
        \A c \in Connections : conn[c] \notin InTask \cup {"aborted"}

\* RpcWorker returns after the controller went offline, although clients say
\* nothing and handlers hang (worker.rs:63-84).  Who is offline stays so.
WorkerStops == []<>(online \/ worker = "done")

\* If handlers return, the task of every connection ends, also that of a
\* client that never sends a byte: a client connects once, so this says that no
\* task is left in the end (connection.rs:31-84).
HandlersReturn == \A c \in Connections : WF_rpcVars(HandlerReturns(c))
ConnectionsEnd ==
    HandlersReturn => []<>(\A c \in Connections : conn[c] \notin InTask)
=============================================================================
