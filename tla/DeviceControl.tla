--------------------------- MODULE DeviceControl ---------------------------
(***************************************************************************)
(* The life of a device request: RpcHandler::send_device_control publishes *)
(* a DeviceControl on the hub through the send pool (HubSend), every       *)
(* ModbusWorker receives it, the one it names connects to its device if it *)
(* has no connection pool yet, admits the operation under its concurrency  *)
(* limit and runs it as a task of its own runtime, and the answer comes    *)
(* back on the request's private channel, on which the caller waits with a *)
(* timeout.  HeartbeatWorker and DataStreamWorker issue requests the same  *)
(* way.  ConfigUpdate messages share the pool and the mailboxes and change *)
(* the signal groups a worker knows.                                       *)
(***************************************************************************)
EXTENDS HubSend

CONSTANTS
    Requests,        \* the DeviceControl messages
    Devices,         \* the configured devices: one ModbusWorker each
    Target,          \* [Requests -> device id], configured or not
    Operation,       \* [Requests -> {"GetStatus", "Read", "Write"}]
    Group,           \* [Requests -> signal group]
    Incomplete,      \* the writes that leave a field of their group out
    Unencodable,     \* operations a known group does not turn into a Modbus
                     \* operation (read-only register, bad values)
    Groups,          \* the signal groups
    InitialGroups,   \* [Devices -> SUBSET Groups]: the startup configuration
    NewGroups,       \* [ConfigUpdates -> the groups of each device it lists]
    MaxConcurrentOps,\* [Devices -> Nat]: max_concurrent_ops
    TaskThreads,     \* threads of a worker's tokio runtime (2 in the code)
    Flaky,           \* environment: the devices that may go away and return
    BaseTimeout,     \* connect timeout: first value ...
    MaxTimeout       \* ... and the limit of its doubling

ConfigUpdates == Messages \ Requests

ASSUME DeviceAssumption ==
    /\ Requests = Single
    /\ Devices = Subscribers
    /\ \A m \in Messages : Recipients[m] = Devices
    /\ Operation \in [Requests -> {"GetStatus", "Read", "Write"}]
    /\ Group \in [Requests -> Groups]
    /\ Incomplete \subseteq {r \in Requests : Operation[r] = "Write"}
    /\ Unencodable \subseteq Requests
    /\ InitialGroups \in [Devices -> SUBSET Groups]
    /\ NewGroups \in [ConfigUpdates -> UNION {[D -> SUBSET Groups] : D \in SUBSET Devices}]
    /\ MaxConcurrentOps \in [Devices -> Nat]
    /\ TaskThreads \in Nat \ {0}
    /\ Flaky \subseteq Devices
    /\ BaseTimeout \in Nat \ {0}
    /\ MaxTimeout \in Nat /\ BaseTimeout <= MaxTimeout

VARIABLES
    reachable,       \* environment: does the device accept connections
    handling,        \* the request a ModbusWorker's thread is handling
    connected,       \* handling it: is ensure_connected behind us
    hasPool,         \* connection_pool.is_some()
    connectionState, \* what GetStatus reports
    connectTimeout,  \* TimeoutHandler.current
    groups,          \* the signal groups of the worker's device record
    inFlight,        \* OperationQueue.in_flight
    stage,           \* the async task of a request
    resolved,        \* the task's captured modbus_op is Some
    outcome,         \* what the operation of a task returned
    applied,         \* how often the device performed a request's operation
    response,        \* the content of the request's response channel
    reply            \* what the caller was told

workerVars == <<handling, connected, hasPool, connectionState, connectTimeout, groups>>
taskVars   == <<inFlight, stage, resolved, outcome, applied>>
answerVars == <<response, reply>>
vars == <<hubVars, reachable, workerVars, taskVars, answerVars>>

Stage == {"none", "spawned", "running", "returned", "responded", "ended"}
Verdict == {"none", "ok", "refused", "failed"}
Reply == {"none", "data", "refused", "failed", "queuefull", "sendtimeout", "timedout", "disconnected"}

TypeOK ==
    /\ HubTypeOK
    /\ reachable \in [Devices -> BOOLEAN]
    /\ handling \in [Devices -> Requests \cup {NoMessage}]
    /\ connected \in [Devices -> BOOLEAN]
    /\ hasPool \in [Devices -> BOOLEAN]
    /\ connectionState \in [Devices -> {"Disconnected", "Connecting", "Connected"}]
    /\ connectTimeout \in [Devices -> BaseTimeout..MaxTimeout]
    /\ groups \in [Devices -> SUBSET Groups]
    /\ inFlight \in [Devices -> Nat]
    /\ stage \in [Requests -> Stage]
    /\ resolved \in [Requests -> BOOLEAN]
    /\ outcome \in [Requests -> Verdict]
    /\ applied \in [Requests -> Nat]
    /\ response \in [Requests -> Verdict]
    /\ reply \in [Requests -> Reply]

Init ==
    /\ HubInit
    /\ reachable = [d \in Devices |-> d \notin Flaky]
    /\ handling = [d \in Devices |-> NoMessage]
    /\ connected = [d \in Devices |-> FALSE]
    /\ hasPool = [d \in Devices |-> FALSE]
    /\ connectionState = [d \in Devices |-> "Disconnected"]
    /\ connectTimeout = [d \in Devices |-> BaseTimeout]
    /\ groups = InitialGroups
    /\ inFlight = [d \in Devices |-> 0]
    /\ stage = [r \in Requests |-> "none"]
    /\ resolved = [r \in Requests |-> FALSE]
    /\ outcome = [r \in Requests |-> "none"]
    /\ applied = [r \in Requests |-> 0]
    /\ response = [r \in Requests |-> "none"]
    /\ reply = [r \in Requests |-> "none"]

(* Definitions named ...Deviation are errors the code could plausibly have  *)
(* had.  They occur in no specification; substituted for the definition     *)
(* that follows them they show which property notices the error.            *)

-----------------------------------------------------------------------------
\* The caller: send_device_control.

\* The caller of r still holds the receiving end of its response channel.
Listening(r) == reply[r] = "none"

\* A clone of r's response sender is alive somewhere: in the pool, in a
\* mailbox, with a worker or with its task.
SenderAlive(r) ==
    \/ Positions(r) # {} \/ Carriers(r) # {}
    \/ \E d \in Devices :
        \/ handling[d] = r
        \/ \E i \in 1..Len(mailbox[d]) : mailbox[d][i] = r
    \/ stage[r] \in {"spawned", "running", "returned"}

Send(m) ==
    /\ SubmitAccepted(m)
    /\ UNCHANGED <<reachable, workerVars, taskVars, answerVars>>

\* The protected send failed at once: "System overloaded" (or, for a
\* ConfigUpdate, a log line).
SendRefused(m) ==
    /\ SubmitRefused(m)
    /\ reply' = [r \in Requests |-> IF r = m THEN "queuefull" ELSE reply[r]]
    /\ UNCHANGED <<reachable, workerVars, taskVars, response>>

\* The protected send timed out: "System overloaded"; the task stays queued.
SendTimesOut(m) ==
    /\ CallerTimesOut(m)
    /\ reply' = [r \in Requests |-> IF r = m THEN "sendtimeout" ELSE reply[r]]
    /\ UNCHANGED <<reachable, workerVars, taskVars, response>>

\* The success flag of the response is not looked at.
ReceiveAsDataDeviation(r) ==
    /\ call[r] = "ok" /\ Listening(r)
    /\ response[r] # "none"
    /\ reply' = [reply EXCEPT ![r] = "data"]
    /\ UNCHANGED <<hubVars, reachable, workerVars, taskVars, response>>

\* response_rx.recv_timeout: an answer, the end of the timeout, or the end of
\* the last sender.
ReceiveResponse(r) ==
    /\ call[r] = "ok" /\ Listening(r)
    /\ response[r] # "none"
    /\ reply' = [reply EXCEPT ![r] =
                    IF response[r] = "ok" THEN "data" ELSE response[r]]
    /\ UNCHANGED <<hubVars, reachable, workerVars, taskVars, response>>

ResponseTimesOut(r) ==
    /\ call[r] = "ok" /\ Listening(r)
    /\ response[r] = "none"
    /\ reply' = [reply EXCEPT ![r] = "timedout"]
    /\ UNCHANGED <<hubVars, reachable, workerVars, taskVars, response>>

ResponseDisconnected(r) ==
    /\ call[r] = "ok" /\ Listening(r)
    /\ response[r] = "none" /\ ~SenderAlive(r)
    /\ reply' = [reply EXCEPT ![r] = "disconnected"]
    /\ UNCHANGED <<hubVars, reachable, workerVars, taskVars, response>>

-----------------------------------------------------------------------------
\* The pool threads.
PoolStep ==
    /\ \E t \in Threads :
        \/ TakeTask(t)
        \/ \E s \in Subscribers : Deliver(t, s)
        \/ CompleteTask(t)
    /\ UNCHANGED <<reachable, workerVars, taskVars, answerVars>>

-----------------------------------------------------------------------------
\* The thread of ModbusWorker d.

\* sender.send on the response channel: lost if the caller gave up, and
\* blocked while the one place of the channel is taken.
Respond(r, verdict) ==
    /\ Listening(r) => response[r] = "none"
    /\ response' = [response EXCEPT ![r] = IF Listening(r) THEN verdict ELSE @]

Idle(d) == handling[d] = NoMessage

\* A ConfigUpdate: only the signal groups of the device record change, and
\* nothing if the new configuration does not list the device.
UpdateConfig(d) ==
    /\ Idle(d)
    /\ mailbox[d] # <<>> /\ Head(mailbox[d]) \in ConfigUpdates
    /\ Consume(d)
    /\ LET config == NewGroups[Head(mailbox[d])] IN
        groups' = [groups EXCEPT ![d] = IF d \in DOMAIN config THEN config[d] ELSE @]
    /\ UNCHANGED <<reachable, handling, connected, hasPool, connectionState,
                   connectTimeout, taskVars, answerVars>>

\* A DeviceControl for another device: every worker gets every request.
IgnoreRequest(d) ==
    /\ Idle(d)
    /\ mailbox[d] # <<>> /\ Head(mailbox[d]) \in Requests
    /\ Target[Head(mailbox[d])] # d
    /\ Consume(d)
    /\ UNCHANGED <<reachable, workerVars, taskVars, answerVars>>

\* A worker does not compare the device id of the request with its own.
BeginAnyRequestDeviation(d) ==
    /\ Idle(d)
    /\ mailbox[d] # <<>> /\ Head(mailbox[d]) \in Requests
    /\ Consume(d)
    /\ handling' = [handling EXCEPT ![d] = Head(mailbox[d])]
    /\ connected' = [connected EXCEPT ![d] = FALSE]
    /\ connectionState' =
        [connectionState EXCEPT ![d] = IF hasPool[d] THEN @ ELSE "Connecting"]
    /\ UNCHANGED <<reachable, hasPool, connectTimeout, groups, taskVars, answerVars>>

\* handle_device_control starts with ensure_connected.
BeginRequest(d) ==
    /\ Idle(d)
    /\ mailbox[d] # <<>> /\ Head(mailbox[d]) \in Requests
    /\ Target[Head(mailbox[d])] = d
    /\ Consume(d)
    /\ handling' = [handling EXCEPT ![d] = Head(mailbox[d])]
    /\ connected' = [connected EXCEPT ![d] = FALSE]
    /\ connectionState' =
        [connectionState EXCEPT ![d] = IF hasPool[d] THEN @ ELSE "Connecting"]
    /\ UNCHANGED <<reachable, hasPool, connectTimeout, groups, taskVars, answerVars>>

\* ensure_connected succeeds: there is a pool already, or the test connection
\* of connect_pool was accepted.  A pool is never torn down again.
Connect(d) ==
    /\ ~Idle(d) /\ ~connected[d]
    /\ hasPool[d] \/ reachable[d]
    /\ hasPool' = [hasPool EXCEPT ![d] = TRUE]
    /\ connected' = [connected EXCEPT ![d] = TRUE]
    /\ connectionState' = [connectionState EXCEPT ![d] = "Connected"]
    /\ connectTimeout' = [connectTimeout EXCEPT ![d] = BaseTimeout]
    /\ UNCHANGED <<hubVars, reachable, handling, groups, taskVars, answerVars>>

Doubled(t) == IF 2 * t < MaxTimeout THEN 2 * t ELSE MaxTimeout

\* After "Device not connected" the request is tried again.
ConnectFailsRetriesDeviation(d) ==
    /\ ~Idle(d) /\ ~connected[d]
    /\ ~hasPool[d] /\ ~reachable[d]
    /\ connectTimeout' = [connectTimeout EXCEPT ![d] = Doubled(@)]
    /\ connectionState' = [connectionState EXCEPT ![d] = "Disconnected"]
    /\ Respond(handling[d], "refused")
    /\ UNCHANGED <<hubVars, reachable, handling, connected, hasPool, groups, taskVars, reply>>

\* ensure_connected fails: "Device not connected".
ConnectFails(d) ==
    /\ ~Idle(d) /\ ~connected[d]
    /\ ~hasPool[d] /\ ~reachable[d]
    /\ connectTimeout' = [connectTimeout EXCEPT ![d] = Doubled(@)]
    /\ connectionState' = [connectionState EXCEPT ![d] = "Disconnected"]
    /\ Respond(handling[d], "refused")
    /\ handling' = [handling EXCEPT ![d] = NoMessage]
    /\ UNCHANGED <<hubVars, reachable, connected, hasPool, groups, taskVars, reply>>

Finish(d) ==
    /\ handling' = [handling EXCEPT ![d] = NoMessage]
    /\ UNCHANGED <<hubVars, reachable, connected, hasPool, connectionState,
                   connectTimeout, groups>>

\* GetStatus answers from the worker's own state, without device I/O.
AnswerStatus(d) ==
    /\ ~Idle(d) /\ connected[d]
    /\ Operation[handling[d]] = "GetStatus"
    /\ Respond(handling[d], "ok")
    /\ Finish(d)
    /\ UNCHANGED <<taskVars, reply>>

\* try_acquire under the lock of the operation queue.
HasCapacity(d) == inFlight[d] < MaxConcurrentOps[d]

\* OperationQueue::complete never goes below zero.
Released(n) == IF n = 0 THEN 0 ELSE n - 1

Known(d, r) == Group[r] \in groups[d]

\* A write whose "data" leaves out a field of its group is refused.
MissesFields(d, r) == r \in Incomplete /\ Known(d, r)

\* operation_to_modbus_op is Some: the group is known, writable if it is
\* written, and the values fit it.
Resolves(d, r) == Known(d, r) /\ r \notin Unencodable

\* "Too many concurrent operations", or a write that leaves fields out (its
\* capacity is taken and given back within the step).
RefuseOperation(d) ==
    LET r == handling[d] IN
    /\ ~Idle(d) /\ connected[d]
    /\ Operation[r] # "GetStatus"
    /\ ~HasCapacity(d) \/ MissesFields(d, r)
    /\ Respond(r, "refused")
    /\ Finish(d)
    /\ UNCHANGED <<taskVars, reply>>

\* The limit is not checked.
SpawnUnlimitedDeviation(d) ==
    LET r == handling[d] IN
    /\ ~Idle(d) /\ connected[d]
    /\ Operation[r] # "GetStatus"
    /\ ~MissesFields(d, r)
    /\ inFlight' = [inFlight EXCEPT ![d] = @ + 1]
    /\ stage' = [stage EXCEPT ![r] = "spawned"]
    /\ resolved' = [resolved EXCEPT ![r] = Resolves(d, r)]
    /\ Finish(d)
    /\ UNCHANGED <<outcome, applied, answerVars>>

\* The operation is admitted and spawned; modbus_op is resolved here, against
\* the signal groups of this moment.
SpawnOperation(d) ==
    LET r == handling[d] IN
    /\ ~Idle(d) /\ connected[d]
    /\ Operation[r] # "GetStatus"
    /\ HasCapacity(d)
    /\ ~MissesFields(d, r)
    /\ inFlight' = [inFlight EXCEPT ![d] = @ + 1]
    /\ stage' = [stage EXCEPT ![r] = "spawned"]
    /\ resolved' = [resolved EXCEPT ![r] = Resolves(d, r)]
    /\ Finish(d)
    /\ UNCHANGED <<outcome, applied, answerVars>>

-----------------------------------------------------------------------------
\* The async task of r, on the runtime of its device's worker.

OnThread(d) == {r \in Requests : Target[r] = d /\ stage[r] \in {"running", "returned", "responded"}}

StartTask(r) ==
    /\ stage[r] = "spawned"
    /\ Cardinality(OnThread(Target[r])) < TaskThreads
    /\ stage' = [stage EXCEPT ![r] = "running"]
    /\ UNCHANGED <<hubVars, reachable, workerVars, inFlight, resolved, outcome,
                   applied, answerVars>>

\* The result of the operation is not looked at.
ExecuteAlwaysOkDeviation(r) ==
    /\ stage[r] = "running"
    /\ stage' = [stage EXCEPT ![r] = "returned"]
    /\ outcome' = [outcome EXCEPT ![r] = "ok"]
    /\ applied' = [applied EXCEPT ![r] = IF resolved[r] /\ reachable[Target[r]]
                                         THEN @ + 1 ELSE @]
    /\ UNCHANGED <<hubVars, reachable, workerVars, inFlight, resolved, answerVars>>

\* pool.execute_operation, or the error for an operation without a known
\* group.  A failed operation may or may not have taken effect on the device:
\* its answer can be lost.
Execute(r) ==
    /\ stage[r] = "running"
    /\ stage' = [stage EXCEPT ![r] = "returned"]
    /\ \/ /\ ~resolved[r]
          /\ outcome' = [outcome EXCEPT ![r] = "refused"]
          /\ UNCHANGED applied
       \/ /\ resolved[r] /\ reachable[Target[r]]
          /\ outcome' = [outcome EXCEPT ![r] = "ok"]
          /\ applied' = [applied EXCEPT ![r] = @ + 1]
       \/ /\ resolved[r]
          /\ outcome' = [outcome EXCEPT ![r] = "failed"]
          /\ \/ UNCHANGED applied
             \/ applied' = [applied EXCEPT ![r] = @ + 1]
    /\ UNCHANGED <<hubVars, reachable, workerVars, inFlight, resolved, answerVars>>

SendResponse(r) ==
    /\ stage[r] = "returned"
    /\ Respond(r, outcome[r])
    /\ stage' = [stage EXCEPT ![r] = "responded"]
    /\ UNCHANGED <<hubVars, reachable, workerVars, inFlight, resolved, outcome,
                   applied, reply>>

\* Capacity is given back only to a caller that still listens.
DropGuardIfHeardDeviation(r) ==
    LET d == Target[r] IN
    /\ stage[r] = "responded" /\ Listening(r)
    /\ inFlight' = [inFlight EXCEPT ![d] = Released(@)]
    /\ stage' = [stage EXCEPT ![r] = "ended"]
    /\ UNCHANGED <<hubVars, reachable, workerVars, resolved, outcome, applied, answerVars>>

\* The OperationGuard is dropped when the task ends, after the response.
DropGuard(r) ==
    LET d == Target[r] IN
    /\ stage[r] = "responded"
    /\ inFlight' = [inFlight EXCEPT ![d] = Released(@)]
    /\ stage' = [stage EXCEPT ![r] = "ended"]
    /\ UNCHANGED <<hubVars, reachable, workerVars, resolved, outcome, applied, answerVars>>

-----------------------------------------------------------------------------
\* The device goes away or comes back.
DeviceToggles(d) ==
    /\ d \in Flaky
    /\ reachable' = [reachable EXCEPT ![d] = ~@]
    /\ UNCHANGED <<hubVars, workerVars, taskVars, answerVars>>

CallerStep ==
    \/ \E m \in Messages : Send(m) \/ SendRefused(m) \/ SendTimesOut(m)
    \/ \E r \in Requests :
        ReceiveResponse(r) \/ ResponseTimesOut(r) \/ ResponseDisconnected(r)

WorkerStep(d) ==
    \/ UpdateConfig(d) \/ IgnoreRequest(d) \/ BeginRequest(d)
    \/ Connect(d) \/ ConnectFails(d)
    \/ AnswerStatus(d) \/ RefuseOperation(d) \/ SpawnOperation(d)

TaskStep(r) == StartTask(r) \/ Execute(r) \/ SendResponse(r) \/ DropGuard(r)

Next ==
    \/ CallerStep
    \/ PoolStep
    \/ \E d \in Devices : WorkerStep(d) \/ DeviceToggles(d)
    \/ \E r \in Requests : TaskStep(r)

Spec == Init /\ [][Next]_vars

-----------------------------------------------------------------------------
\* Safety.

Admitted(d) ==
    {r \in Requests : Target[r] = d /\ stage[r] \in {"spawned", "running", "returned", "responded"}}

\* The capacity counter equals the operations admitted and not yet ended, and
\* respects max_concurrent_ops: no early return, failed operation or caller
\* that gave up leaks or double-frees a slot (handler.rs:230-289).
CapacityExact ==
    \A d \in Devices :
        /\ inFlight[d] = Cardinality(Admitted(d))
        /\ inFlight[d] <= MaxConcurrentOps[d]

\* The device performs the operation of a request at most once, although the
\* request is cloned into every worker's mailbox and outlives its caller.
AppliedAtMostOnce == \A r \in Requests : applied[r] <= 1

\* r can still act on its device: on its way to its worker, with it, or in a
\* task that has not run.  (Clones in other workers' mailboxes are inert.)
CanStillAct(r) ==
    /\ Target[r] \in Devices
    /\ \/ Positions(r) # {}
       \/ Carriers(r) # {} /\ Target[r] \notin delivered[r]
       \/ \E i \in 1..Len(mailbox[Target[r]]) : mailbox[Target[r]][i] = r
       \/ handling[Target[r]] = r
       \/ stage[r] \in {"spawned", "running"}

\* "Refused", "queue full" and a dropped response channel are final: the
\* operation did not and will not reach the device, so a retry is safe.
RefusedIsFinal ==
    \A r \in Requests :
        reply[r] \in {"refused", "queuefull", "disconnected"} =>
            applied[r] = 0 /\ ~CanStillAct(r)

\* A caller that is told "data" for a read or write: the operation was
\* performed by the worker of the device the request names.
DataIsBacked ==
    \A r \in Requests :
        reply[r] = "data" /\ Operation[r] # "GetStatus"
            => applied[r] = 1 /\ outcome[r] = "ok" /\ Target[r] \in Devices

\* r can still be answered: by its worker, now or once a clone gets there, or
\* by its task.
CanStillAnswer(r) == CanStillAct(r) \/ (Target[r] \in Devices /\ stage[r] = "returned")

\* No send finds the response channel full: once an answer is in it, nobody is
\* left who would send another one, be it the same (handler.rs:192-194).  The
\* channel holds one message (rpc/handler.rs:120); a second send would block the
\* worker or a thread of its runtime until the caller is gone.
ResponseSentOnce ==
    \A r \in Requests : response[r] # "none" => ~CanStillAnswer(r)

-----------------------------------------------------------------------------
\* The abstract specification: what the answers mean.

AnswerOf(r) ==
    IF reply[r] \in {"none", "data"} THEN reply[r]
    ELSE IF reply[r] \in {"refused", "queuefull", "disconnected"} THEN "refused"
    ELSE "unknown"

PhaseOf(r) ==
    IF reply[r] # "none" THEN "answered"
    ELSE IF call[r] = "idle" THEN "idle" ELSE "pending"

Promise == INSTANCE RequestReply WITH
    Operations <- {r \in Requests : Operation[r] # "GetStatus"},
    phase <- [r \in Requests |-> PhaseOf(r)],
    answer <- [r \in Requests |-> AnswerOf(r)],
    effect <- [r \in Requests |-> applied[r] > 0]

\* Every behaviour of the request path is one of the abstract specification,
\* its liveness included.
ImplementsPromise == Promise!RRSpec

-----------------------------------------------------------------------------
\* Liveness.  The threads of the pool, of the workers and of their runtimes
\* are scheduled and the timeouts of the callers expire; nothing is assumed
\* of the devices.
Fairness ==
    /\ \A m \in Messages : WF_vars(SendTimesOut(m))
    /\ \A r \in Requests :
        /\ WF_vars(ReceiveResponse(r) \/ ResponseTimesOut(r))
        /\ WF_vars(TaskStep(r))
    /\ WF_vars(PoolStep)
    /\ \A d \in Devices : WF_vars(WorkerStep(d))

FairSpec == Spec /\ Fairness

\* Capacity taken for an operation is given back although its caller may have
\* gone and the device may be unreachable (handler.rs:286-289): as there are
\* only so many requests, nothing is taken in the end.
CapacityReturned == []<>(\A d \in Devices : inFlight[d] = 0)

\* docs/messaging (229): a DeviceControl is delivered to one subscriber only.
UnicastDelivery == \A r \in Requests : Cardinality(delivered[r]) <= 1

\* docs/messaging (246-250): the worker that a DeviceControl names executes it
\* and answers on respond_to; the channel does not just close.
EveryRequestIsServed ==
    \A r \in Requests : Target[r] \in Devices => reply[r] # "disconnected"
=============================================================================
