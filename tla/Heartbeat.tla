----------------------------- MODULE Heartbeat -----------------------------
(***************************************************************************)
(* HeartbeatWorker (src/workers/heartbeat_worker.rs) pings the devices in  *)
(* turn with a GetStatus request and writes what it learns into the shared *)
(* table device_states, whose entries DeviceManager creates at startup.    *)
(* The request travels like every DeviceControl (DeviceControl.tla): into  *)
(* the mailbox of every ModbusWorker, where it displaces another one, and  *)
(* the answer comes back on a channel made for this ping.  Requests of     *)
(* others, and pings that were given up but still arrive, are one action:  *)
(* for the mailboxes they are the same.                                    *)
(***************************************************************************)
EXTENDS Naturals, Sequences

CONSTANTS
    Devices,
    Order,      \* the devices as the configuration lists them
    None        \* no request

ASSUME HeartbeatAssumption ==
    /\ Order \in Seq(Devices) /\ Order # <<>>
    /\ \A d \in Devices : \E i \in 1..Len(Order) : Order[i] = d
    /\ None \notin [to : Devices, live : BOOLEAN]

VARIABLES
    index,      \* current_device_index
    phase,      \* what the thread of HeartbeatWorker does
    toReach,    \* the workers the hub.send of the ping has yet to reach
    answer,     \* the content of the ping's response channel
    result,     \* what ping_device returned: "none" is (false, 0), no latency
    inbox,      \* the DeviceControl in the mailbox of each ModbusWorker
    handling,   \* the request each ModbusWorker is working on
    hasPool,    \* connection_pool.is_some()
    reachable,  \* environment: does the device accept connections
    registered, \* how many devices DeviceManager has registered
    status      \* device_states

requestVars == <<toReach, answer, inbox, handling>>
workerVars == <<hasPool, reachable>>
tableVars == <<registered, status>>
heartbeatVars == <<index, phase, result, requestVars, workerVars, tableVars>>

\* A request for device to; live: its caller still listens.
Request == [to : Devices, live : BOOLEAN]
Current == Order[index]

HeartbeatTypeOK ==
    /\ index \in 1..Len(Order)
    /\ phase \in {"pause", "sending", "waiting", "answered"}
    /\ toReach \subseteq Devices
    /\ answer \in {"none", "yes", "no"}
    /\ result \in {"none", "yes", "no"}
    /\ inbox \in [Devices -> Request \cup {None}]
    /\ handling \in [Devices -> Request \cup {None}]
    /\ hasPool \in [Devices -> BOOLEAN]
    /\ reachable \in [Devices -> BOOLEAN]
    /\ registered \in 0..Len(Order)
    /\ status \in [Devices -> {"absent", "offline", "online"}]
    \* at most one ping is listened to, and it is for the current device
    /\ \A d \in Devices : \A r \in {inbox[d], handling[d]} \ {None} :
        r.live => r.to = Current /\ phase \in {"sending", "waiting"}

HeartbeatInit ==
    /\ index = 1 /\ phase = "pause" /\ result = "none"
    /\ toReach = {} /\ answer = "none"
    /\ inbox = [d \in Devices |-> None]
    /\ handling = [d \in Devices |-> None]
    /\ hasPool = [d \in Devices |-> FALSE]
    /\ reachable \in [Devices -> BOOLEAN]
    /\ registered = 0
    /\ status = [d \in Devices |-> "absent"]

(* Definitions named ...Deviation are errors the code could plausibly have  *)
(* had.  They occur in no specification; substituted for the definition     *)
(* that follows them they show which property notices the error.            *)

-----------------------------------------------------------------------------
\* DeviceManager::register_devices, one insert per device.
Register ==
    /\ registered < Len(Order)
    /\ registered' = registered + 1
    /\ status' = [status EXCEPT ![Order[registered + 1]] = "offline"]
    /\ UNCHANGED <<index, phase, result, requestVars, workerVars>>

-----------------------------------------------------------------------------
\* HeartbeatWorker.

\* ping_device returns: the receiver of its channel is dropped, and what is
\* still on its way is answered to nobody.
Return(outcome) ==
    LET Unheard(r) == IF r = None THEN r ELSE [r EXCEPT !.live = FALSE] IN
    /\ phase' = "answered" /\ result' = outcome
    /\ toReach' = {} /\ answer' = "none"
    /\ inbox' = [d \in Devices |-> Unheard(inbox[d])]
    /\ handling' = [d \in Devices |-> Unheard(handling[d])]
    /\ UNCHANGED <<index, workerVars, tableVars>>

BeginPing ==
    /\ phase = "pause"
    /\ phase' = "sending"
    /\ toReach' = Devices /\ answer' = "none"
    /\ UNCHANGED <<index, result, inbox, handling, workerVars, tableVars>>

\* hub.send reaches one more worker; the ping displaces what waits there.
DeliverPing(d) ==
    /\ phase = "sending" /\ d \in toReach
    /\ toReach' = toReach \ {d}
    /\ inbox' = [inbox EXCEPT ![d] = [to |-> Current, live |-> TRUE]]
    /\ UNCHANGED <<index, phase, answer, result, handling, workerVars, tableVars>>

SendReturns ==
    /\ phase = "sending" /\ toReach = {}
    /\ phase' = "waiting"
    /\ UNCHANGED <<index, result, requestVars, workerVars, tableVars>>

\* The protected send is refused or times out.
SendFails == phase = "sending" /\ Return("none")

\* The channel outlives the ping: a later ping may get its answer.
KeepChannelDeviation ==
    /\ phase = "waiting" /\ answer = "none"
    /\ phase' = "answered" /\ result' = "none"
    /\ UNCHANGED <<index, requestVars, workerVars, tableVars>>

\* recv_timeout: no answer within heartbeat_timeout_sec, or no sender left.
PingTimesOut == phase = "waiting" /\ answer = "none" /\ Return("none")

ReceiveAnswer == phase = "waiting" /\ answer # "none" /\ Return(answer)

Updated(online) ==
    IF status[Current] = "absent" THEN status
    ELSE [status EXCEPT ![Current] = IF online THEN "online" ELSE "offline"]

\* The failing device is tried again before the next one has its turn.
RetrySameDeviation ==
    /\ phase = "answered"
    /\ status' = Updated(result = "yes")
    /\ index' = IF result = "yes" THEN (index % Len(Order)) + 1 ELSE index
    /\ phase' = "pause" /\ result' = "none"
    /\ UNCHANGED <<requestVars, workerVars, registered>>

\* update_device_status (nothing for a device that is not registered), then
\* broadcast_heartbeat, then the next device.  What the broadcast makes of the
\* latency is the subject of StatusReports.tla.
RecordResult ==
    /\ phase = "answered"
    /\ status' = Updated(result = "yes")
    /\ index' = (index % Len(Order)) + 1
    /\ phase' = "pause" /\ result' = "none"
    /\ UNCHANGED <<requestVars, workerVars, registered>>

-----------------------------------------------------------------------------
\* The thread of ModbusWorker d.

TakeRequest(d) ==
    /\ handling[d] = None /\ inbox[d] # None
    /\ handling' = [handling EXCEPT ![d] = IF inbox[d].to = d THEN inbox[d] ELSE None]
    /\ inbox' = [inbox EXCEPT ![d] = None]
    /\ UNCHANGED <<index, phase, toReach, answer, result, workerVars, tableVars>>

\* ensure_connected, then the answer: "yes" as soon as there is a pool, which
\* is made by the first request that finds the device reachable.
AnswerRequest(d) ==
    /\ handling[d] # None
    /\ hasPool' = [hasPool EXCEPT ![d] = @ \/ reachable[d]]
    /\ answer' = IF ~handling[d].live THEN answer
                 ELSE IF hasPool'[d] THEN "yes" ELSE "no"
    /\ handling' = [handling EXCEPT ![d] = None]
    /\ UNCHANGED <<index, phase, toReach, result, inbox, reachable, tableVars>>

-----------------------------------------------------------------------------
\* The request of another worker, or a ping given up, reaches a mailbox.
OtherRequest(d, to) ==
    /\ inbox' = [inbox EXCEPT ![d] = [to |-> to, live |-> FALSE]]
    /\ UNCHANGED <<index, phase, toReach, answer, result, handling, workerVars, tableVars>>

DeviceToggles(d) ==
    /\ reachable' = [reachable EXCEPT ![d] = ~@]
    /\ UNCHANGED <<index, phase, result, requestVars, hasPool, tableVars>>

HeartbeatStep ==
    \/ BeginPing \/ SendReturns \/ SendFails
    \/ PingTimesOut \/ ReceiveAnswer \/ RecordResult

HeartbeatNext ==
    \/ Register \/ HeartbeatStep
    \/ \E d \in Devices :
        \/ DeliverPing(d)
        \/ TakeRequest(d) \/ AnswerRequest(d)
        \/ \E to \in Devices : OtherRequest(d, to)
        \/ DeviceToggles(d)

HeartbeatSpec == HeartbeatInit /\ [][HeartbeatNext]_heartbeatVars

-----------------------------------------------------------------------------
\* The heartbeat thread and its timers run; nothing is assumed of the workers,
\* the hub and the devices.
ThreadFairness == WF_heartbeatVars(HeartbeatStep)

\* The workers run as well.
WorkerFairness ==
    /\ WF_heartbeatVars(Register)
    /\ \A d \in Devices :
        /\ WF_heartbeatVars(TakeRequest(d)) /\ WF_heartbeatVars(AnswerRequest(d))
        /\ WF_heartbeatVars(DeliverPing(d))

HeartbeatFairSpec == HeartbeatSpec /\ ThreadFairness
HeartbeatWorkingSpec == HeartbeatFairSpec /\ WorkerFairness

\* A device shown as online has really been reached: no late answer of one
\* device is taken for the answer of another (heartbeat_worker.rs:60, 77-92).
OnlineWasReached == \A d \in Devices : status[d] = "online" => hasPool[d]

\* Every device has its turn again and again, however long the workers, the
\* hub or other devices take (heartbeat_worker.rs:76, 210).
EveryDeviceChecked ==
    \A d \in Devices : []<>(phase = "answered" /\ Current = d)

\* "Detects whether a device is online" (heartbeat_worker.rs:21): a device
\* that stays away is shown as offline in the end.
DownIsNoticed ==
    \A d \in Devices : <>[](~reachable[d]) => <>[](status[d] # "online")
=============================================================================
