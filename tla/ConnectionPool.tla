--------------------------- MODULE ConnectionPool ---------------------------
(***************************************************************************)
(* ModbusConnectionPool (src/workers/modbus/client.rs): the connections of *)
(* one device, shared by the threads of its worker's tokio runtime.  Every *)
(* operation is a blocking execute_operation: take the connection at the   *)
(* front of the deque, or open one when there is none, use it, and put it  *)
(* back unless the operation failed.  The deque is behind a lock, opening  *)
(* a connection and counting it are not.                                   *)
(***************************************************************************)
EXTENDS Naturals, Sequences, FiniteSets

CONSTANTS
    RuntimeThreads,      \* threads of the worker's runtime (2 in the code)
    Connections,         \* identities of TCP connections
    PoolSize,            \* min(max_concurrent_ops, max_pool_size)
    HealthCheckInterval, \* in clock ticks; ages saturate there
    NoConnection

ASSUME PoolAssumption ==
    /\ IsFiniteSet(RuntimeThreads)
    /\ PoolSize \in Nat
    /\ HealthCheckInterval \in Nat \ {0}
    /\ NoConnection \notin Connections

VARIABLES
    available,    \* the deque of idle connections, with their ages
    totalCreated, \* the AtomicUsize total_created
    step,         \* where a thread is inside execute_operation
    client,       \* the connection a thread holds
    up,           \* environment: the device accepts connections
    broken        \* environment: connections the device has dropped

poolVars == <<available, totalCreated, step, client, up, broken>>

Steps == {"idle", "creating", "opened", "holding", "succeeded", "failed"}

Pooled == [conn : Connections, age : 0..HealthCheckInterval]

PoolTypeOK ==
    /\ available \in Seq(Pooled)
    /\ totalCreated \in Nat
    /\ step \in [RuntimeThreads -> Steps]
    /\ client \in [RuntimeThreads -> Connections \cup {NoConnection}]
    /\ up \in BOOLEAN
    /\ broken \subseteq Connections

PoolInit ==
    /\ available = <<>>
    /\ totalCreated = 0
    /\ step = [t \in RuntimeThreads |-> "idle"]
    /\ client = [t \in RuntimeThreads |-> NoConnection]
    /\ up = TRUE
    /\ broken = {}

(* Definitions named ...Deviation are errors the code could plausibly have  *)
(* had.  They occur in no specification; substituted for the definition     *)
(* that follows them they show which property notices the error.            *)

-----------------------------------------------------------------------------
Fresh(c) == c.age < HealthCheckInterval

Idle == {available[i].conn : i \in 1..Len(available)}
Held == {client[t] : t \in RuntimeThreads} \ {NoConnection}

\* The connection handed out stays in the deque.
ReuseWithoutRemovingDeviation(t) ==
    /\ step[t] = "idle"
    /\ available # <<>> /\ Fresh(available[1])
    /\ client' = [client EXCEPT ![t] = available[1].conn]
    /\ step' = [step EXCEPT ![t] = "holding"]
    /\ UNCHANGED <<available, totalCreated, up, broken>>

\* acquire_connection drops the n expired connections at the front of the
\* deque and takes the first one that is fresh.
AcquireReuse(t) ==
    /\ step[t] = "idle"
    /\ \E n \in 0..Len(available) - 1 :
        /\ \A i \in 1..n : ~Fresh(available[i])
        /\ Fresh(available[n + 1])
        /\ client' = [client EXCEPT ![t] = available[n + 1].conn]
        /\ available' = SubSeq(available, n + 2, Len(available))
        /\ totalCreated' = totalCreated - n
    /\ step' = [step EXCEPT ![t] = "holding"]
    /\ UNCHANGED <<up, broken>>

\* A connection is opened although one is idle.
AcquireAlwaysOpensDeviation(t) ==
    /\ step[t] = "idle"
    /\ step' = [step EXCEPT ![t] = "creating"]
    /\ UNCHANGED <<available, totalCreated, client, up, broken>>

\* acquire_connection finds none (and drops what there was): it unlocks the
\* deque and goes on to open a connection.
AcquireEmpty(t) ==
    /\ step[t] = "idle"
    /\ \A i \in 1..Len(available) : ~Fresh(available[i])
    /\ available' = <<>>
    /\ totalCreated' = totalCreated - Len(available)
    /\ step' = [step EXCEPT ![t] = "creating"]
    /\ UNCHANGED <<client, up, broken>>

\* tcp::connect and client.connect() succeeded.
Open(t) ==
    /\ step[t] = "creating" /\ up
    /\ \E c \in Connections \ (Idle \cup Held) :
        /\ client' = [client EXCEPT ![t] = c]
        /\ broken' = broken \ {c}
    /\ step' = [step EXCEPT ![t] = "opened"]
    /\ UNCHANGED <<available, totalCreated, up>>

OpenFails(t) ==
    /\ step[t] = "creating" /\ ~up
    /\ step' = [step EXCEPT ![t] = "idle"]
    /\ UNCHANGED <<available, totalCreated, client, up, broken>>

\* total_created.fetch_add, after the connection exists.
CountCreated(t) ==
    /\ step[t] = "opened"
    /\ totalCreated' = totalCreated + 1
    /\ step' = [step EXCEPT ![t] = "holding"]
    /\ UNCHANGED <<available, client, up, broken>>

\* dispatch_op_static over the connection.  It may always fail (the device
\* may answer with an exception); over a broken connection it does.
Operate(t) ==
    /\ step[t] = "holding"
    /\ \/ /\ up /\ client[t] \notin broken
          /\ step' = [step EXCEPT ![t] = "succeeded"]
       \/ step' = [step EXCEPT ![t] = "failed"]
    /\ UNCHANGED <<available, totalCreated, client, up, broken>>

\* The connection is put back at the front of the deque.
ReleaseInFrontDeviation(t) ==
    /\ step[t] = "succeeded"
    /\ Len(available) < PoolSize
    /\ available' = <<[conn |-> client[t], age |-> 0]>> \o available
    /\ client' = [client EXCEPT ![t] = NoConnection]
    /\ step' = [step EXCEPT ![t] = "idle"]
    /\ UNCHANGED <<totalCreated, up, broken>>

\* release_connection(client, true), with room in the deque.
ReleaseHealthy(t) ==
    /\ step[t] = "succeeded"
    /\ Len(available) < PoolSize
    /\ available' = Append(available, [conn |-> client[t], age |-> 0])
    /\ client' = [client EXCEPT ![t] = NoConnection]
    /\ step' = [step EXCEPT ![t] = "idle"]
    /\ UNCHANGED <<totalCreated, up, broken>>

\* A discarded connection is still counted.
DiscardStillCountedDeviation(t) ==
    /\ \/ step[t] = "failed"
       \/ step[t] = "succeeded" /\ Len(available) >= PoolSize
    /\ client' = [client EXCEPT ![t] = NoConnection]
    /\ step' = [step EXCEPT ![t] = "idle"]
    /\ UNCHANGED <<available, totalCreated, up, broken>>

\* release_connection of a failed operation, or with the deque full.
ReleaseDiscards(t) ==
    /\ \/ step[t] = "failed"
       \/ step[t] = "succeeded" /\ Len(available) >= PoolSize
    /\ totalCreated' = totalCreated - 1
    /\ client' = [client EXCEPT ![t] = NoConnection]
    /\ step' = [step EXCEPT ![t] = "idle"]
    /\ UNCHANGED <<available, up, broken>>

-----------------------------------------------------------------------------
\* Time passes: idle connections grow older.
Older(c) == [c EXCEPT !.age = IF Fresh(c) THEN @ + 1 ELSE @]

Tick ==
    /\ available' = [i \in DOMAIN available |-> Older(available[i])]
    /\ UNCHANGED <<totalCreated, step, client, up, broken>>

\* The device goes down, dropping its connections, or comes back.
DeviceDown ==
    /\ up
    /\ up' = FALSE
    /\ broken' = broken \cup Idle \cup Held
    /\ UNCHANGED <<available, totalCreated, step, client>>

DeviceUp ==
    /\ ~up
    /\ up' = TRUE
    /\ UNCHANGED <<available, totalCreated, step, client, broken>>

Acquire(t) == AcquireReuse(t) \/ AcquireEmpty(t)

ThreadStep(t) ==
    \/ Acquire(t)
    \/ Open(t) \/ OpenFails(t) \/ CountCreated(t)
    \/ Operate(t)
    \/ ReleaseHealthy(t) \/ ReleaseDiscards(t)

PoolNext ==
    \/ \E t \in RuntimeThreads : ThreadStep(t)
    \/ Tick
    \/ DeviceDown \/ DeviceUp

PoolSpec == PoolInit /\ [][PoolNext]_poolVars

-----------------------------------------------------------------------------
Counted == {t \in RuntimeThreads : step[t] \in {"holding", "succeeded", "failed"}}
Busy == {t \in RuntimeThreads : step[t] # "idle"}

\* total_created is the number of connections idle or in the hands of a
\* thread: the unlocked additions and subtractions of acquire, create and
\* release never lose one and never wrap the counter below zero
\* (client.rs:463, 503, 544, 562).
AccountingExact == totalCreated = Len(available) + Cardinality(Counted)

\* A device never has more connections open than the runtime has threads,
\* whatever the pool size: a thread opens one only after seeing the deque
\* empty, and puts it back before it looks again (client.rs:520-532).
OpenBounded == Len(available) + Cardinality(Busy) <= Cardinality(RuntimeThreads)

\* No connection is used by two operations at a time or used while idle: the
\* Modbus frames of two operations never share a connection.
ConnectionsExclusive ==
    /\ Idle \cap Held = {}
    /\ \A i, j \in 1..Len(available) :
        available[i].conn = available[j].conn => i = j
    /\ \A t, u \in RuntimeThreads :
        client[t] = client[u] /\ client[t] # NoConnection => t = u

\* The deque is ordered by age, oldest first, so that looking at the front is
\* enough to find every expired connection.
OldestFirst ==
    \A i, j \in 1..Len(available) : i < j => available[i].age >= available[j].age

\* Whenever a thread has taken a connection, no expired one is left behind
\* (client.rs:488-505 only ever looks at the front).
NoExpiredLeft ==
    [][\A t \in RuntimeThreads :
        AcquireReuse(t) => \A i \in 1..Len(available') : Fresh(available'[i])]_poolVars

\* Threads run, operations keep coming; nothing is assumed of the device.
PoolThreadFairness == \A t \in RuntimeThreads : WF_poolVars(ThreadStep(t))

\* After a device that restarted stays up, every connection of its earlier
\* life is used (and discarded) or expires: none keeps failing operations
\* for ever.
StaleDrained ==
    <>[]up => <>[](broken \cap (Idle \cup Held) = {})

\* config.rs:340, 368: max_pool_size is the upper limit of the pool.
PoolWithinSize == totalCreated <= PoolSize
=============================================================================
