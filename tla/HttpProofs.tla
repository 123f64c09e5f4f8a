------------------------------ MODULE HttpProofs ------------------------------
(***************************************************************************)
(* Proofs about what the clients of HttpWorker see.                        *)
(*                                                                         *)
(* Heartbeat and StatusReports, for any list of devices: a device is shown *)
(* as online only after a request found it reachable, and /api/health says *)
(* no more than the table did while it was read.                           *)
(*                                                                         *)
(* SseRegistry, for any clients, limits and capacities: the limit is       *)
(* overshot by the handler threads at most, only dead clients are taken    *)
(* out, and no client sees an update twice or out of order.                *)
(*                                                                         *)
(* LatencyStats, for any history and any window: the mean and the sum of   *)
(* squared deviations that are carried along are those of the window, and  *)
(* an alarm is raised for its outliers.                                    *)
(***************************************************************************)
EXTENDS MCStatusReports, SseRegistry, SequenceTheorems, FiniteSetTheorems,
        WellFoundedInduction, TLAPS

-----------------------------------------------------------------------------
(* Heartbeat and StatusReports.                                            *)

\* What an answer stands for, from the worker to the table: a request is
\* worked on by the worker of its device, the listened one is the current
\* device's, and "yes" means that this device has a pool.
ReachedInv ==
    /\ \A d \in Devices : handling[d] # None => handling[d].to = d
    /\ phase \in {"sending", "waiting"} /\ answer = "yes" => hasPool[Current]
    /\ phase = "answered" /\ result = "yes" => hasPool[Current]
    /\ OnlineWasReached

HeartbeatInv == HeartbeatTypeOK /\ ReachedInv

LEMMA CurrentDevice == \A i \in 1..Len(Order) : Order[i] \in Devices
BY HeartbeatAssumption, ElementOfSeq

LEMMA NextIndex == \A i \in 1..Len(Order) : (i % Len(Order)) + 1 \in 1..Len(Order)
<1>1. Len(Order) \in Nat /\ Len(Order) > 0
  BY HeartbeatAssumption, LenProperties, EmptySeq
<1>2. ASSUME NEW n \in Nat, n > 0, NEW i \in 1..n PROVE (i % n) + 1 \in 1..n
  BY <1>2
<1>3. QED BY <1>1, <1>2

LEMMA HeartbeatInvInit == HeartbeatInit => HeartbeatInv
<1> SUFFICES ASSUME HeartbeatInit PROVE HeartbeatInv
  OBVIOUS
<1>1. 1 \in 1..Len(Order) /\ 0 \in 0..Len(Order)
  BY HeartbeatAssumption, LenProperties, EmptySeq
<1>2. HeartbeatTypeOK
  BY <1>1 DEF HeartbeatInit, HeartbeatTypeOK
<1>3. ReachedInv
  BY DEF HeartbeatInit, ReachedInv, OnlineWasReached
<1>4. QED BY <1>2, <1>3 DEF HeartbeatInv

LEMMA ReturnStep ==
    ASSUME HeartbeatInv, NEW outcome \in {"none", "yes", "no"}, Return(outcome),
           outcome = "yes" => hasPool[Current]
    PROVE  HeartbeatInv'
<1> DEFINE Unheard(r) == IF r = None THEN r ELSE [r EXCEPT !.live = FALSE]
<1>1. /\ inbox' = [d \in Devices |-> Unheard(inbox[d])]
      /\ handling' = [d \in Devices |-> Unheard(handling[d])]
      /\ phase' = "answered" /\ result' = outcome /\ toReach' = {}
      /\ answer' = "none"
      /\ UNCHANGED <<index, hasPool, reachable, registered, status>>
  BY DEF Return, workerVars, tableVars
<1>2. ASSUME NEW r \in Request \cup {None}
      PROVE  /\ Unheard(r) \in Request \cup {None}
             /\ r # None => Unheard(r) # None /\ Unheard(r).to = r.to /\ ~Unheard(r).live
             /\ r = None => Unheard(r) = None
  BY HeartbeatAssumption DEF Request
<1> HIDE DEF Unheard
<1>3. QED
  BY <1>1, <1>2 DEF HeartbeatInv, HeartbeatTypeOK, ReachedInv, OnlineWasReached, Current

LEMMA HeartbeatInvStep == HeartbeatInv /\ [HeartbeatNext]_heartbeatVars => HeartbeatInv'
<1> SUFFICES ASSUME HeartbeatInv, [HeartbeatNext]_heartbeatVars
             PROVE  HeartbeatInv'
  OBVIOUS
<1> USE DEF HeartbeatInv, HeartbeatTypeOK, ReachedInv, OnlineWasReached, Current
<1>0. Current \in Devices
  BY CurrentDevice
<1>1. CASE Register
  BY <1>1, CurrentDevice DEF Register, requestVars, workerVars
<1>2. CASE BeginPing
  BY <1>2 DEF BeginPing, workerVars, tableVars
<1>3. CASE SendReturns
  BY <1>3 DEF SendReturns, requestVars, workerVars, tableVars
<1>4. CASE SendFails \/ PingTimesOut
  BY <1>4, ReturnStep DEF SendFails, PingTimesOut
<1>5. CASE ReceiveAnswer
  BY <1>5, ReturnStep DEF ReceiveAnswer
<1>6. CASE RecordResult
  BY <1>0, <1>6, NextIndex DEF RecordResult, Updated, requestVars, workerVars
<1>7. ASSUME NEW d \in Devices, DeliverPing(d)
      PROVE  HeartbeatInv'
  BY <1>0, <1>7 DEF DeliverPing, Request, workerVars, tableVars
<1>8. ASSUME NEW d \in Devices, TakeRequest(d)
      PROVE  HeartbeatInv'
  BY <1>8 DEF TakeRequest, Request, workerVars, tableVars
<1>9. ASSUME NEW d \in Devices, AnswerRequest(d)
      PROVE  HeartbeatInv'
  BY <1>9 DEF AnswerRequest, Request, tableVars
<1>10. ASSUME NEW d \in Devices, NEW to \in Devices, OtherRequest(d, to)
       PROVE  HeartbeatInv'
  BY <1>10 DEF OtherRequest, Request, workerVars, tableVars
<1>11. ASSUME NEW d \in Devices, DeviceToggles(d)
       PROVE  HeartbeatInv'
  BY <1>11 DEF DeviceToggles, requestVars, tableVars
<1>12. CASE UNCHANGED heartbeatVars
  BY <1>12 DEF heartbeatVars, requestVars, workerVars, tableVars
<1>13. QED
  BY <1>1, <1>2, <1>3, <1>4, <1>5, <1>6, <1>7, <1>8, <1>9, <1>10, <1>11, <1>12
     DEF HeartbeatNext, HeartbeatStep

\* Every variable keeps its type, and only the current device's ping is
\* listened to.
THEOREM HeartbeatTypeCorrect == HeartbeatSpec => []HeartbeatTypeOK
<1>1. HeartbeatInv => HeartbeatTypeOK
  BY DEF HeartbeatInv
<1>2. QED BY <1>1, HeartbeatInvInit, HeartbeatInvStep, PTL DEF HeartbeatSpec

\* A device shown as online has been reached by a request.
THEOREM OnlineMeansReached == HeartbeatSpec => []OnlineWasReached
<1>1. HeartbeatInv => OnlineWasReached
  BY DEF HeartbeatInv, ReachedInv
<1>2. QED BY <1>1, HeartbeatInvInit, HeartbeatInvStep, PTL DEF HeartbeatSpec

-----------------------------------------------------------------------------
\* The answer to /api/health.

\* A device shown all the time is counted once it has been read, and only a
\* device shown at some time is.
ReadingInv ==
    health # NoRequest =>
        /\ health \in [total : Nat, left : SUBSET Devices, counted : SUBSET Devices,
                       sometime : SUBSET Devices, always : SUBSET Devices]
        /\ health.always \subseteq Shown /\ Shown \subseteq health.sometime
        /\ health.always \ health.left \subseteq health.counted
        /\ health.counted \subseteq health.sometime

LEMMA DevicesFinite ==
    /\ IsFiniteSet(Devices) /\ Devices # {}
    /\ \A S \in SUBSET Devices :
        /\ Cardinality(S) \in Nat
        /\ Cardinality(S) = 0 <=> S = {}
        /\ Cardinality(S) = Cardinality(Devices) <=> S = Devices
<1>1. Len(Order) \in Nat /\ Len(Order) >= 1 /\ Order \in [1..Len(Order) -> Devices]
  BY HeartbeatAssumption, LenProperties, EmptySeq
<1>2. IsFiniteSet(1..Len(Order))
  BY <1>1, FS_Interval
<1>3. Order \in Surjection(1..Len(Order), Devices)
  BY <1>1, HeartbeatAssumption DEF Surjection
<1>4. IsFiniteSet(Devices)
  BY <1>2, <1>3, FS_Surjection
<1>5. Devices # {}
  <2>1. 1 \in 1..Len(Order)
    BY <1>1
  <2>2. QED BY <2>1, CurrentDevice
<1>6. ASSUME NEW S \in SUBSET Devices
      PROVE  /\ Cardinality(S) \in Nat
             /\ Cardinality(S) = 0 <=> S = {}
             /\ Cardinality(S) = Cardinality(Devices) <=> S = Devices
  <2>1. IsFiniteSet(S) /\ (Cardinality(S) = Cardinality(Devices) => S = Devices)
    BY <1>4, FS_Subset
  <2>2. QED BY <2>1, FS_CardinalityType, FS_EmptySet
<1>7. QED BY <1>4, <1>5, <1>6

LEMMA ReadingStep == ReadingInv /\ [ReportNext]_reportVars => ReadingInv'
<1> SUFFICES ASSUME ReadingInv, [ReportNext]_reportVars PROVE ReadingInv'
  OBVIOUS
<1>1. Shown' \subseteq Devices /\ Shown \subseteq Devices
  BY DEF Shown
<1>2. UNCHANGED heartbeatVars => Shown' = Shown
  BY DEF heartbeatVars, tableVars, Shown
<1>3. CASE BeginRequest
  <2>1. Cardinality(Listed) \in Nat
    BY DevicesFinite DEF Listed
  <2>2. QED BY <1>1, <1>2, <1>3, <2>1 DEF BeginRequest, ReadingInv
<1>4. ASSUME NEW d \in Devices, CountEntry(d) PROVE ReadingInv'
  <2>1. /\ health # NoRequest /\ Shown' = Shown
        /\ health' = [health EXCEPT !.left = @ \ {d}, !.counted = @ \cup ({d} \cap Shown)]
    BY <1>2, <1>4 DEF CountEntry
  <2>2. QED BY <1>1, <2>1 DEF ReadingInv
<1>5. CASE AnswerRequestedHealth
  BY <1>5 DEF AnswerRequestedHealth, ReadingInv
<1>6. CASE HeartbeatGoesOn
  <2>1. CASE health = NoRequest
    BY <1>6, <2>1 DEF HeartbeatGoesOn, ReadingInv
  <2>2. CASE health # NoRequest
    <3>1. health' = [health EXCEPT !.sometime = @ \cup Shown', !.always = @ \cap Shown']
      BY <1>6, <2>2 DEF HeartbeatGoesOn
    <3> DEFINE shown == Shown'
    <3>2. /\ shown \subseteq Devices
          /\ health' = [health EXCEPT !.sometime = @ \cup shown, !.always = @ \cap shown]
      BY <1>1, <3>1
    <3> HIDE DEF shown
    <3>3. /\ health' \in [total : Nat, left : SUBSET Devices, counted : SUBSET Devices,
                          sometime : SUBSET Devices, always : SUBSET Devices]
          /\ health'.always \subseteq shown /\ shown \subseteq health'.sometime
          /\ health'.always \ health'.left \subseteq health'.counted
          /\ health'.counted \subseteq health'.sometime
      BY <2>2, <3>2 DEF ReadingInv
    <3>4. QED BY <3>3 DEF ReadingInv, shown
  <2>3. QED BY <2>1, <2>2
<1>7. CASE UNCHANGED reportVars
  BY <1>2, <1>7 DEF reportVars, ReadingInv
<1>8. QED BY <1>3, <1>4, <1>5, <1>6, <1>7 DEF ReportNext

\* /api/health never says more than the table did while it was read: "healthy"
\* only if each device was online at some time, "unhealthy" only if none was
\* online all the time (http_worker.rs:82-108).
THEOREM HealthNeverOverstated == ReportSpec => []HealthTruthful
<1>1. ReportInit => ReadingInv
  BY DEF ReportInit, ReadingInv
<1>2. ASSUME ReadingInv PROVE HealthTruthful
  <2> SUFFICES ASSUME Complete, health.total = Cardinality(Devices)
               PROVE  LET verdict == Verdict(health.total, Cardinality(health.counted)) IN
                      /\ health.always \subseteq health.counted
                      /\ health.counted \subseteq health.sometime
                      /\ verdict = "healthy" => health.sometime = Devices
                      /\ verdict = "unhealthy" => health.always = {}
                      /\ health.always = Devices => verdict = "healthy"
                      /\ health.sometime = {} => verdict = "unhealthy"
    BY DEF HealthTruthful
  <2>1. /\ health.always \subseteq health.counted /\ health.counted \subseteq health.sometime
        /\ health.counted \subseteq Devices /\ health.sometime \subseteq Devices
    BY <1>2 DEF Complete, ReadingInv
  <2>2. /\ health.total # 0
        /\ Cardinality(health.counted) = 0 <=> health.counted = {}
        /\ Cardinality(health.counted) = health.total <=> health.counted = Devices
    BY <2>1, DevicesFinite
  <2>3. QED BY <2>1, <2>2, DevicesFinite DEF Verdict
<1>3. QED BY <1>1, <1>2, ReadingStep, PTL DEF ReportSpec

\* Reading the table for /api/health disturbs no heartbeat: with it the worker
\* and the devices do what they do without, so a device is shown as online only
\* after it was reached here, too (http_worker.rs:82-108).
THEOREM ReportsKeepHeartbeat == ReportSpec => HeartbeatSpec /\ []OnlineWasReached
<1>1. ReportInit => HeartbeatInit
  BY DEF ReportInit
<1>2. [ReportNext]_reportVars => [HeartbeatNext]_heartbeatVars
  BY DEF ReportNext, HeartbeatGoesOn, BeginRequest, CountEntry, AnswerRequestedHealth,
         reportVars
<1>3. QED
  BY <1>1, <1>2, OnlineMeansReached, PTL DEF ReportSpec, HeartbeatSpec

-----------------------------------------------------------------------------
(* SseRegistry.                                                            *)

\* The part of the type invariant that the proofs rest on.
RegistryTypeOK ==
    /\ request \in [Clients -> {"new", "admitted", "streaming", "refused"}]
    /\ registry \subseteq Clients
    /\ dead \subseteq closed

LEMMA RegistryTypeStep == RegistryTypeOK /\ [SseNext]_sseVars => RegistryTypeOK'
<1> SUFFICES ASSUME RegistryTypeOK, [SseNext]_sseVars PROVE RegistryTypeOK'
  OBVIOUS
<1> USE DEF RegistryTypeOK
<1>1. ASSUME NEW c \in Clients, HandlerStep(c) PROVE RegistryTypeOK'
  BY <1>1 DEF HandlerStep, CheckLimit, Insert, passVars
<1>2. ASSUME NEW c \in Clients, Read(c) \/ Leave(c) \/ StreamEnds(c) PROVE RegistryTypeOK'
  BY <1>2 DEF Read, Leave, StreamEnds, passVars
<1>3. CASE StopServer \/ ServerEnds
  BY <1>3 DEF StopServer, ServerEnds, clientVars, passVars
<1>4. CASE HeartbeatElapses \/ GoOffline \/ \E topic \in Topics : Publish(topic)
  BY <1>4 DEF HeartbeatElapses, GoOffline, Publish, clientVars, passVars
<1>5. CASE TakeUpdate \/ Stop \/ BeginHeartbeat \/ EndPass
  BY <1>5 DEF TakeUpdate, Stop, BeginHeartbeat, EndPass, clientVars
<1>6. ASSUME NEW c \in Clients, Visit(c) \/ Unregister(c) PROVE RegistryTypeOK'
  BY <1>6 DEF Visit, Unregister, clientVars
<1>7. CASE UNCHANGED sseVars
  BY <1>7 DEF sseVars, clientVars, passVars
<1>8. QED BY <1>1, <1>2, <1>3, <1>4, <1>5, <1>6, <1>7 DEF SseNext, WorkerStep

LEMMA RegistryTypeCorrect == SseSpec => []RegistryTypeOK
<1>1. SseInit => RegistryTypeOK
  BY DEF SseInit, RegistryTypeOK
<1>2. QED BY <1>1, RegistryTypeStep, PTL DEF SseSpec

-----------------------------------------------------------------------------
\* Only clients that are gone leave the registry while the worker runs: slow
\* readers and clients that have just registered are never cut off.
THEOREM NobodyAliveDropped == SseSpec => LiveNeverDropped
<1>1. RegistryTypeOK /\ [SseNext]_sseVars =>
        [\A c \in registry \ registry' : c \in closed \/ worker' = "stopped"]_sseVars
  <2> SUFFICES ASSUME RegistryTypeOK, [SseNext]_sseVars, NEW c \in registry \ registry'
               PROVE  c \in closed \/ worker' = "stopped"
    OBVIOUS
  <2>1. ASSUME NEW d \in Clients, Unregister(d) PROVE c \in closed
    BY <2>1 DEF Unregister, RegistryTypeOK
  <2>2. CASE Stop
    BY <2>2 DEF Stop
  <2>3. ASSUME NEW d \in Clients, HandlerStep(d) PROVE FALSE
    BY <2>3 DEF HandlerStep, CheckLimit, Insert
  <2>4. ASSUME NEW d \in Clients, Read(d) \/ Leave(d) \/ StreamEnds(d) \/ Visit(d) PROVE FALSE
    BY <2>4 DEF Read, Leave, StreamEnds, Visit
  <2>5. CASE TakeUpdate \/ BeginHeartbeat \/ EndPass \/ StopServer \/ ServerEnds
    BY <2>5 DEF TakeUpdate, BeginHeartbeat, EndPass, StopServer, ServerEnds
  <2>6. CASE HeartbeatElapses \/ GoOffline \/ \E topic \in Topics : Publish(topic)
    BY <2>6 DEF HeartbeatElapses, GoOffline, Publish
  <2>7. CASE UNCHANGED sseVars
    BY <2>7 DEF sseVars
  <2>8. QED BY <2>1, <2>2, <2>3, <2>4, <2>5, <2>6, <2>7 DEF SseNext, WorkerStep
<1>2. QED BY <1>1, RegistryTypeCorrect, PTL DEF SseSpec, LiveNeverDropped

-----------------------------------------------------------------------------
LEMMA LimitStep ==
    RegistryTypeOK /\ LimitOvershoot /\ [SseNext]_sseVars => LimitOvershoot'
<1> SUFFICES ASSUME RegistryTypeOK, LimitOvershoot, [SseNext]_sseVars
             PROVE  LimitOvershoot'
  OBVIOUS
<1> DEFINE holders == registry \cup Admitted
           limit == MaxConnections + HandlerThreads - 1
<1>0. /\ MaxConnections \in Nat /\ HandlerThreads \in Nat
      /\ IsFiniteSet(registry) /\ IsFiniteSet(Admitted) /\ IsFiniteSet(holders)
      /\ Cardinality(registry) \in Nat /\ Cardinality(Admitted) \in Nat
      /\ Cardinality(holders) \in Nat /\ Cardinality(holders) <= limit
  <2>1. IsFiniteSet(registry) /\ IsFiniteSet(Admitted)
    BY SseAssumption, FS_Subset DEF RegistryTypeOK, Admitted
  <2>2. IsFiniteSet(holders)
    BY <2>1, FS_Union
  <2>3. QED BY <2>1, <2>2, SseAssumption, FS_CardinalityType DEF LimitOvershoot
<1>1. ASSUME holders' \subseteq holders PROVE LimitOvershoot'
  <2>1. Cardinality(holders') <= Cardinality(holders) /\ Cardinality(holders') \in Nat
    BY <1>0, <1>1, FS_Subset, FS_CardinalityType
  <2>2. Cardinality(holders') <= limit
    BY ONLY <1>0, <2>1
  <2>3. QED BY <2>2 DEF LimitOvershoot
<1>2. ASSUME NEW c \in Clients, CheckLimit(c) PROVE LimitOvershoot'
  <2>1. /\ registry' = registry
        /\ Admitted' = Admitted \/ (Admitted' = Admitted \cup {c} /\ Cardinality(registry) < MaxConnections)
        /\ Cardinality(Admitted) < HandlerThreads
    <3>1. registry' = registry /\ Cardinality(Admitted) < HandlerThreads /\ request[c] = "new"
      BY <1>2 DEF CheckLimit, Handled
    <3>2. CASE request' = [request EXCEPT ![c] = "refused"]
      <4>1. Admitted' = Admitted
        BY <3>1, <3>2 DEF Admitted, RegistryTypeOK
      <4>2. QED BY <3>1, <4>1
    <3>3. CASE request' = [request EXCEPT ![c] = "admitted"] /\ ~(Cardinality(registry) >= MaxConnections)
      <4>1. Admitted' = Admitted \cup {c}
        BY <3>1, <3>3 DEF Admitted, RegistryTypeOK
      <4>2. Cardinality(registry) < MaxConnections
        BY ONLY <1>0, <3>3
      <4>3. QED BY <3>1, <4>1, <4>2
    <3>4. QED BY <1>2, <3>2, <3>3 DEF CheckLimit
  <2>2. CASE Admitted' = Admitted
    BY <1>1, <2>1, <2>2
  <2>3. CASE Admitted' = Admitted \cup {c} /\ Cardinality(registry) < MaxConnections
    <3>1. /\ IsFiniteSet(Admitted \cup {c})
          /\ Cardinality(Admitted \cup {c}) \in Nat
          /\ Cardinality(Admitted \cup {c}) <= Cardinality(Admitted) + 1
      <4>1. CASE c \in Admitted
        <5>1. Admitted \cup {c} = Admitted
          BY <4>1
        <5>2. Cardinality(Admitted) <= Cardinality(Admitted) + 1
          BY ONLY <1>0
        <5>3. QED BY <1>0, <5>1, <5>2
      <4>2. CASE c \notin Admitted
        <5>1. /\ IsFiniteSet(Admitted \cup {c})
              /\ Cardinality(Admitted \cup {c}) = Cardinality(Admitted) + 1
          BY <1>0, <4>2, FS_AddElement
        <5>2. Cardinality(Admitted) + 1 \in Nat /\ Cardinality(Admitted) + 1 <= Cardinality(Admitted) + 1
          BY ONLY <1>0
        <5>3. QED BY <5>1, <5>2
      <4>3. QED BY <4>1, <4>2
    <3>2. /\ Cardinality(registry \cup (Admitted \cup {c})) \in Nat
          /\ Cardinality(registry \cup (Admitted \cup {c}))
                <= Cardinality(registry) + Cardinality(Admitted \cup {c})
      <4>1. /\ IsFiniteSet(registry \cup (Admitted \cup {c}))
            /\ Cardinality(registry \cup (Admitted \cup {c}))
                = Cardinality(registry) + Cardinality(Admitted \cup {c})
                    - Cardinality(registry \cap (Admitted \cup {c}))
        BY <1>0, <3>1, FS_Union
      <4>2. /\ Cardinality(registry \cap (Admitted \cup {c})) \in Nat
            /\ Cardinality(registry \cup (Admitted \cup {c})) \in Nat
        BY <1>0, <4>1, FS_Intersection, FS_CardinalityType
      <4>3. QED BY ONLY <1>0, <3>1, <4>1, <4>2
    <3>3. Cardinality(registry \cup (Admitted \cup {c})) <= limit
      BY ONLY <1>0, <2>1, <2>3, <3>1, <3>2
    <3>4. QED BY <2>1, <2>3, <3>3 DEF LimitOvershoot
  <2>4. QED BY <2>1, <2>2, <2>3
<1>3. ASSUME NEW c \in Clients, Insert(c) PROVE LimitOvershoot'
  BY <1>1, <1>3 DEF Insert, Admitted, RegistryTypeOK
<1>4. ASSUME request' = request, registry' \subseteq registry PROVE LimitOvershoot'
  BY <1>1, <1>4 DEF Admitted
<1>5. ASSUME NEW c \in Clients,
             Read(c) \/ Leave(c) \/ StreamEnds(c) \/ Visit(c) \/ Unregister(c)
      PROVE  LimitOvershoot'
  BY <1>4, <1>5 DEF Read, Leave, StreamEnds, Visit, Unregister, clientVars
<1>6. CASE TakeUpdate \/ Stop \/ BeginHeartbeat \/ EndPass \/ StopServer \/ ServerEnds
  BY <1>4, <1>6 DEF TakeUpdate, Stop, BeginHeartbeat, EndPass, StopServer, ServerEnds, clientVars
<1>7. CASE HeartbeatElapses \/ GoOffline \/ \E topic \in Topics : Publish(topic)
  BY <1>4, <1>7 DEF HeartbeatElapses, GoOffline, Publish, clientVars
<1>8. CASE UNCHANGED sseVars
  BY <1>4, <1>8 DEF sseVars, clientVars
<1>9. QED
  BY <1>2, <1>3, <1>5, <1>6, <1>7, <1>8 DEF SseNext, HandlerStep, WorkerStep

\* However many clients ask at once, the registry holds at most one client less
\* than the limit and the handler threads together.
THEOREM OvershootBounded == SseSpec => []LimitOvershoot
<1>1. SseInit => LimitOvershoot
  <2> SUFFICES ASSUME SseInit PROVE LimitOvershoot
    OBVIOUS
  <2>1. registry \cup Admitted = {}
    BY DEF SseInit, Admitted
  <2>2. Cardinality(registry \cup Admitted) = 0
    BY <2>1, FS_EmptySet
  <2>3. QED BY <2>2, SseAssumption DEF LimitOvershoot
<1>2. QED BY <1>1, LimitStep, RegistryTypeCorrect, PTL DEF SseSpec

-----------------------------------------------------------------------------
\* The type invariant.
LEMMA SseTypeStep == SseTypeOK /\ [SseNext]_sseVars => SseTypeOK'
<1> SUFFICES ASSUME SseTypeOK, [SseNext]_sseVars PROVE SseTypeOK'
  OBVIOUS
<1> USE SseAssumption DEF SseTypeOK
<1>1. ASSUME NEW c \in Clients, CheckLimit(c) \/ Insert(c) PROVE SseTypeOK'
  BY <1>1 DEF CheckLimit, Insert, passVars, stopVars
<1>2. ASSUME NEW c \in Clients, Read(c) PROVE SseTypeOK'
  <2>1. /\ channel[c] \in Seq(Update \cup {Heartbeat}) /\ channel[c] # <<>>
        /\ channel' = [channel EXCEPT ![c] = Tail(@)]
        /\ lastRead' = [lastRead EXCEPT ![c] =
                          IF Head(channel[c]) = Heartbeat THEN @ ELSE Head(channel[c]).number]
    BY <1>2 DEF Read
  <2>2. /\ Head(channel[c]) \in Update \cup {Heartbeat}
        /\ Tail(channel[c]) \in Seq(Update \cup {Heartbeat})
        /\ Len(Tail(channel[c])) = Len(channel[c]) - 1 /\ Len(channel[c]) \in Nat
    BY <2>1, HeadTailProperties, LenProperties
  <2>3. Len(Tail(channel[c])) <= ChannelCapacity
    BY <2>2
  <2>4. Head(channel[c]) # Heartbeat => Head(channel[c]).number \in 0..LastNumber
    BY <2>2 DEF Update
  <2>5. lastRead' \in [Clients -> 0..LastNumber]
    BY <2>1, <2>4
  <2>6. /\ channel' \in [Clients -> Seq(Update \cup {Heartbeat})]
        /\ \A e \in Clients : Len(channel'[e]) <= ChannelCapacity
    BY <2>1, <2>2, <2>3
  <2>7. QED BY <1>2, <2>5, <2>6 DEF Read, passVars, stopVars
<1>3. ASSUME NEW c \in Clients, Leave(c) \/ StreamEnds(c) PROVE SseTypeOK'
  <2>1. <<>> \in Seq(Update \cup {Heartbeat}) /\ Len(<<>>) = 0
    BY EmptySeq
  <2>2. 0 <= ChannelCapacity
    OBVIOUS
  <2>3. /\ channel' \in [Clients -> Seq(Update \cup {Heartbeat})]
        /\ \A e \in Clients : Len(channel'[e]) <= ChannelCapacity
    BY <1>3, <2>1, <2>2 DEF Leave, StreamEnds
  <2>4. closed' \subseteq Clients
    BY <1>3 DEF Leave, StreamEnds
  <2>5. QED BY <1>3, <2>3, <2>4 DEF Leave, StreamEnds, passVars, stopVars
<1>4. CASE ServerEnds
  <2>1. <<>> \in Seq(Update \cup {Heartbeat}) /\ Len(<<>>) = 0 /\ 0 <= ChannelCapacity
    BY EmptySeq
  <2>2. channel' = [c \in Clients |-> IF c \in Open THEN <<>> ELSE channel[c]]
    BY <1>4 DEF ServerEnds
  <2>3. /\ channel' \in [Clients -> Seq(Update \cup {Heartbeat})]
        /\ \A e \in Clients : Len(channel'[e]) <= ChannelCapacity
    BY <2>1, <2>2
  <2>4. closed' \subseteq Clients
    BY <1>4 DEF ServerEnds, Open
  <2>5. QED BY <1>4, <2>3, <2>4 DEF ServerEnds, passVars
<1>5. CASE StopServer \/ HeartbeatElapses \/ GoOffline
  BY <1>5 DEF StopServer, HeartbeatElapses, GoOffline, clientVars, passVars, stopVars
<1>6. ASSUME NEW topic \in Topics, Publish(topic) PROVE SseTypeOK'
  <2>1. published' \in 1..LastNumber
    BY <1>6 DEF Publish
  <2>2. [topic |-> topic, number |-> published'] \in Update
    BY <2>1 DEF Update
  <2>3. updates' \in Seq(Update) /\ Len(updates') = Len(updates) + 1 /\ Len(updates) \in Nat
    BY <1>6, <2>2, AppendProperties, LenProperties DEF Publish
  <2>4. Len(updates') <= MailboxCapacity
    BY <1>6, <2>3 DEF Publish
  <2>5. QED BY <1>6, <2>1, <2>3, <2>4 DEF Publish, clientVars, passVars, stopVars
<1>7. CASE TakeUpdate \/ Stop
  <2>1. /\ Head(updates) \in Update /\ Tail(updates) \in Seq(Update)
        /\ Len(Tail(updates)) = Len(updates) - 1 /\ Len(updates) \in Nat
    BY <1>7, HeadTailProperties, LenProperties DEF TakeUpdate, Stop
  <2>2. Len(Tail(updates)) <= MailboxCapacity
    BY <2>1
  <2>3. QED BY <1>7, <2>1, <2>2 DEF TakeUpdate, Stop, clientVars, stopVars
<1>8. ASSUME NEW c \in Clients, Visit(c) PROVE SseTypeOK'
  <2>1. CASE channel' = channel
    BY <1>8, <2>1 DEF Visit, clientVars, stopVars
  <2>2. CASE channel' = [channel EXCEPT ![c] = Append(@, event)] /\ Len(channel[c]) < ChannelCapacity
    <3>1. /\ Append(channel[c], event) \in Seq(Update \cup {Heartbeat})
          /\ Len(Append(channel[c], event)) = Len(channel[c]) + 1 /\ Len(channel[c]) \in Nat
      BY AppendProperties, LenProperties
    <3>2. Len(Append(channel[c], event)) <= ChannelCapacity
      BY <2>2, <3>1
    <3>3. /\ channel' \in [Clients -> Seq(Update \cup {Heartbeat})]
          /\ \A e \in Clients : Len(channel'[e]) <= ChannelCapacity
      BY <2>2, <3>1, <3>2
    <3>4. QED BY <1>8, <3>3 DEF Visit, clientVars, stopVars
  <2>3. QED BY <1>8, <2>1, <2>2 DEF Visit
<1>9. ASSUME NEW c \in Clients, Unregister(c) PROVE SseTypeOK'
  BY <1>9 DEF Unregister, clientVars, stopVars
<1>10. CASE BeginHeartbeat \/ EndPass
  <2>1. /\ heartbeatDue' \in BOOLEAN
        /\ worker' \in {"waiting", "beating"} /\ event' = Heartbeat
        /\ atStart' \subseteq Clients /\ visited' \subseteq Clients /\ dead' = dead
    BY <1>10 DEF BeginHeartbeat, EndPass
  <2>2. UNCHANGED <<request, closed, lastRead, registry, channel, published, updates, online, server>>
    BY <1>10 DEF BeginHeartbeat, EndPass, clientVars, stopVars
  <2>3. QED BY <2>1, <2>2
<1>11. CASE UNCHANGED sseVars
  BY <1>11 DEF sseVars, clientVars, passVars, stopVars
<1>12. QED
  BY <1>1, <1>2, <1>3, <1>4, <1>5, <1>6, <1>7, <1>8, <1>9, <1>10, <1>11
     DEF SseNext, HandlerStep, WorkerStep

\* Every variable keeps its type: no channel and no mailbox holds more than its
\* capacity.
THEOREM SseTypeCorrect == SseSpec => []SseTypeOK
<1>1. ASSUME SseInit PROVE SseTypeOK
  <2>1. /\ <<>> \in Seq(Update \cup {Heartbeat}) /\ <<>> \in Seq(Update) /\ Len(<<>>) = 0
        /\ 0 <= ChannelCapacity /\ 0 <= MailboxCapacity /\ 0 \in 0..LastNumber
    BY SseAssumption, EmptySeq
  <2>2. /\ channel \in [Clients -> Seq(Update \cup {Heartbeat})]
        /\ \A c \in Clients : Len(channel[c]) <= ChannelCapacity
    BY <1>1, <2>1 DEF SseInit
  <2>3. updates \in Seq(Update) /\ Len(updates) <= MailboxCapacity
    BY <1>1, <2>1 DEF SseInit
  <2>4. heartbeatDue \in BOOLEAN /\ online \in BOOLEAN
    BY <1>1 DEF SseInit
  <2>5. QED BY <1>1, <2>1, <2>2, <2>3, <2>4 DEF SseInit, SseTypeOK
<1>2. QED BY <1>1, SseTypeStep, PTL DEF SseSpec

-----------------------------------------------------------------------------
\* The order of the updates, from the mailbox to the client.

\* m may come before n: the model stops counting at LastNumber.
Before(m, n) == m < n \/ n = LastNumber

\* Of the updates of a channel or mailbox q: they are in order, all after or all
\* before number n, and numbered up to n.
Sorted(q) ==
    \A i, j \in 1..Len(q) : i < j /\ q[i] # Heartbeat /\ q[j] # Heartbeat =>
        Before(q[i].number, q[j].number)
AllAfter(n, q)  == \A i \in 1..Len(q) : q[i] # Heartbeat => Before(n, q[i].number)
AllBefore(q, n) == \A i \in 1..Len(q) : q[i] # Heartbeat => Before(q[i].number, n)
AllUpTo(q, n)   == \A i \in 1..Len(q) : q[i] # Heartbeat => q[i].number <= n

LEMMA Appended ==
    ASSUME NEW S, NEW q \in Seq(S), NEW e \in S
    PROVE  /\ Sorted(q) /\ (e # Heartbeat => AllBefore(q, e.number)) => Sorted(Append(q, e))
           /\ \A n : AllAfter(n, q) /\ (e # Heartbeat => Before(n, e.number))
                        => AllAfter(n, Append(q, e))
           /\ \A n : AllBefore(q, n) /\ (e # Heartbeat => Before(e.number, n))
                        => AllBefore(Append(q, e), n)
           /\ \A n : AllUpTo(q, n) /\ (e # Heartbeat => e.number <= n)
                        => AllUpTo(Append(q, e), n)
<1> DEFINE a == Append(q, e)
<1>1. /\ Len(a) = Len(q) + 1 /\ Len(q) \in Nat /\ a[Len(q) + 1] = e
      /\ \A i \in 1..Len(q) : a[i] = q[i]
  BY AppendProperties, LenProperties
<1> HIDE DEF a
<1>2. \A i \in 1..Len(a) : i \in 1..Len(q) \/ i = Len(q) + 1
  BY ONLY <1>1
<1>3. \A i \in 1..Len(a) : (i \in 1..Len(q) /\ a[i] = q[i]) \/ a[i] = e
  BY <1>1, <1>2
<1>4. \A i, j \in 1..Len(a) : i < j => i \in 1..Len(q) /\ a[i] = q[i]
  <2>1. \A i, j \in 1..Len(a) : i < j => i \in 1..Len(q)
    BY ONLY <1>1
  <2>2. QED BY <1>1, <2>1
<1>5. ASSUME Sorted(q), e # Heartbeat => AllBefore(q, e.number) PROVE Sorted(a)
  <2>1. SUFFICES ASSUME NEW i \in 1..Len(a), NEW j \in 1..Len(a), i < j,
                        a[i] # Heartbeat, a[j] # Heartbeat
                 PROVE  Before(a[i].number, a[j].number)
    BY DEF Sorted
  <2>2. i \in 1..Len(q) /\ a[i] = q[i]
    BY <1>4, <2>1
  <2>3. CASE j \in 1..Len(q) /\ a[j] = q[j]
    BY <1>5, <2>1, <2>2, <2>3 DEF Sorted
  <2>4. CASE a[j] = e
    BY <1>5, <2>1, <2>2, <2>4 DEF AllBefore
  <2>5. QED BY <1>3, <2>3, <2>4
<1>6. \A n : AllAfter(n, q) /\ (e # Heartbeat => Before(n, e.number)) => AllAfter(n, a)
  BY <1>3 DEF AllAfter
<1>7. \A n : AllBefore(q, n) /\ (e # Heartbeat => Before(e.number, n)) => AllBefore(a, n)
  BY <1>3 DEF AllBefore
<1>8. \A n : AllUpTo(q, n) /\ (e # Heartbeat => e.number <= n) => AllUpTo(a, n)
  BY <1>3 DEF AllUpTo
<1>9. QED BY <1>5, <1>6, <1>7, <1>8 DEF a

LEMMA Taken ==
    ASSUME NEW S, NEW q \in Seq(S), q # <<>>
    PROVE  /\ Sorted(q) => Sorted(Tail(q))
           /\ Sorted(q) /\ Head(q) # Heartbeat => AllAfter(Head(q).number, Tail(q))
           /\ \A n : AllAfter(n, q) => AllAfter(n, Tail(q))
           /\ \A n : AllBefore(q, n) => AllBefore(Tail(q), n)
           /\ \A n : AllBefore(q, n) /\ Head(q) # Heartbeat => Before(Head(q).number, n)
           /\ \A n : AllUpTo(q, n) => AllUpTo(Tail(q), n)
           /\ \A n : AllUpTo(q, n) /\ Head(q) # Heartbeat => Head(q).number <= n
<1> DEFINE u == Tail(q)
           h == Head(q)
<1>1. /\ Len(u) = Len(q) - 1 /\ Len(q) \in Nat /\ Len(q) >= 1 /\ h = q[1]
      /\ \A i \in 1..Len(u) : u[i] = q[i + 1]
  BY HeadTailProperties, LenProperties, EmptySeq
<1> HIDE DEF u, h
<1>2. 1 \in 1..Len(q) /\ \A i \in 1..Len(u) : i + 1 \in 1..Len(q) /\ 1 < i + 1
  BY ONLY <1>1
<1>3. \A i, j \in 1..Len(u) : i < j => i + 1 < j + 1
  BY ONLY <1>1
<1>4. Sorted(q) => Sorted(u)
  BY <1>1, <1>2, <1>3 DEF Sorted
<1>5. Sorted(q) /\ h # Heartbeat => AllAfter(h.number, u)
  BY <1>1, <1>2 DEF Sorted, AllAfter
<1>6. \A n : /\ AllAfter(n, q) => AllAfter(n, u)
             /\ AllBefore(q, n) => AllBefore(u, n)
             /\ AllUpTo(q, n) => AllUpTo(u, n)
  BY <1>1, <1>2 DEF AllAfter, AllBefore, AllUpTo
<1>7. \A n : /\ AllBefore(q, n) /\ h # Heartbeat => Before(h.number, n)
             /\ AllUpTo(q, n) /\ h # Heartbeat => h.number <= n
  BY <1>1, <1>2 DEF AllBefore, AllUpTo
<1>8. QED BY <1>4, <1>5, <1>6, <1>7 DEF u, h

LEMMA NothingThere ==
    Sorted(<<>>) /\ \A n : AllAfter(n, <<>>) /\ AllBefore(<<>>, n) /\ AllUpTo(<<>>, n)
<1>1. Len(<<>>) = 0
  BY EmptySeq
<1>2. 1..Len(<<>>) = {}
  BY <1>1
<1>3. QED BY <1>2 DEF Sorted, AllAfter, AllBefore, AllUpTo

\* An update with number n is news to client c.
Ahead(c, n) == Before(lastRead[c], n) /\ AllBefore(channel[c], n)

MailboxInv ==
    /\ Sorted(updates) /\ AllUpTo(updates, published)
    /\ worker = "routing" =>
          /\ event # Heartbeat /\ event.number <= published
          /\ AllAfter(event.number, updates)
    /\ worker # "routing" => event = Heartbeat

ClientInv(c) ==
    /\ Sorted(channel[c]) /\ AllAfter(lastRead[c], channel[c])
    /\ AllUpTo(channel[c], published) /\ lastRead[c] <= published
    /\ \A j \in 1..Len(updates) : Ahead(c, updates[j].number)
    /\ worker = "routing" /\ c \notin visited => Ahead(c, event.number)

OrderInv == MailboxInv /\ \A c \in Clients : ClientInv(c)

LEMMA NotHeartbeat == \A e \in Update : e # Heartbeat /\ e.number \in 1..LastNumber
<1>1. \A e \in Update : e.number \in 1..LastNumber
  BY DEF Update
<1>2. Heartbeat.number = 0
  BY DEF Heartbeat
<1>3. \A k \in 1..LastNumber : k # 0
  OBVIOUS
<1>4. QED BY <1>1, <1>2, <1>3

\* A step that only shortens the channels of clients that are gone.
LEMMA OrderKept ==
    ASSUME OrderInv, UNCHANGED <<lastRead, published, updates>>,
           \A c \in Clients : channel'[c] = channel[c] \/ channel'[c] = <<>>,
           \/ UNCHANGED <<worker, event, visited>>
           \/ worker' # "routing" /\ event' = Heartbeat
    PROVE  OrderInv'
<1>1. MailboxInv'
  BY DEF OrderInv, MailboxInv
<1>2. ASSUME NEW c \in Clients PROVE ClientInv(c)'
  <2>1. CASE channel'[c] = channel[c]
    BY <2>1 DEF OrderInv, ClientInv, Ahead
  <2>2. CASE channel'[c] = <<>>
    BY <2>2, NothingThere DEF OrderInv, ClientInv, Ahead
  <2>3. QED BY <2>1, <2>2
<1>3. QED BY <1>1, <1>2 DEF OrderInv

LEMMA PublishOrder ==
    ASSUME SseTypeOK, OrderInv, NEW topic \in Topics, Publish(topic)
    PROVE  OrderInv'
<1> DEFINE new == [topic |-> topic, number |-> published']
<1>1. /\ published' = IF published < LastNumber THEN published + 1 ELSE published
      /\ updates' = Append(updates, new)
      /\ UNCHANGED <<lastRead, channel, worker, event, visited>>
      /\ published \in 0..LastNumber /\ updates \in Seq(Update) /\ LastNumber \in Nat \ {0}
      /\ event \in Update \cup {Heartbeat}
      /\ channel \in [Clients -> Seq(Update \cup {Heartbeat})]
      /\ lastRead \in [Clients -> 0..LastNumber]
  BY SseAssumption DEF Publish, SseTypeOK, clientVars, passVars
<1>2. /\ published' \in 1..LastNumber /\ published <= published'
      /\ \A m \in Nat : m <= published => m <= published' /\ Before(m, published')
  BY ONLY <1>1 DEF Before
<1>3. new \in Update /\ new # Heartbeat /\ new.number = published'
  BY <1>2, NotHeartbeat DEF Update
<1> HIDE DEF new
<1>4. ASSUME NEW q, q \in Seq(Update \cup {Heartbeat}), AllUpTo(q, published)
      PROVE  AllUpTo(q, published') /\ AllBefore(q, published')
  <2>1. \A i \in 1..Len(q) : q[i] # Heartbeat => q[i].number \in Nat
    BY <1>4, ElementOfSeq, NotHeartbeat
  <2>2. QED BY <1>2, <1>4, <2>1 DEF AllUpTo, AllBefore
<1>5. updates \in Seq(Update \cup {Heartbeat})
  <2>1. \A i \in 1..Len(updates) : updates[i] \in Update \cup {Heartbeat}
    BY <1>1, ElementOfSeq
  <2>2. QED BY <1>1, <2>1, LenProperties, IsASeq
<1>6. AllUpTo(updates, published') /\ AllBefore(updates, published')
  BY <1>4, <1>5 DEF OrderInv, MailboxInv
<1>7. MailboxInv'
  <2>1. Sorted(updates') /\ AllUpTo(updates', published')
    <3>1. Sorted(updates) /\ published' <= published'
      BY <1>2 DEF OrderInv, MailboxInv
    <3>2. QED BY <1>1, <1>3, <1>6, <3>1, Appended
  <2>2. CASE worker = "routing"
    <3>1. event \in Update /\ event.number <= published
      BY <1>1, <2>2 DEF OrderInv, MailboxInv
    <3>2. event.number \in Nat
      BY <3>1, NotHeartbeat
    <3>3. event.number <= published' /\ Before(event.number, published')
      BY <1>2, <3>1, <3>2
    <3>4. AllAfter(event.number, updates')
      BY <1>1, <1>3, <2>2, <3>3, Appended DEF OrderInv, MailboxInv
    <3>5. QED BY <1>1, <2>1, <2>2, <3>1, <3>3, <3>4, NotHeartbeat DEF MailboxInv
  <2>3. CASE worker # "routing"
    BY <1>1, <2>1, <2>3 DEF OrderInv, MailboxInv
  <2>4. QED BY <2>2, <2>3
<1>8. ASSUME NEW c \in Clients PROVE ClientInv(c)'
  <2>1. ClientInv(c) /\ channel[c] \in Seq(Update \cup {Heartbeat}) /\ lastRead[c] \in Nat
    BY <1>1 DEF OrderInv
  <2>2. lastRead[c] <= published' /\ Before(lastRead[c], published')
    BY <1>2, <2>1 DEF ClientInv
  <2>3. AllUpTo(channel[c], published') /\ AllBefore(channel[c], published')
    BY <1>4, <2>1 DEF ClientInv
  <2>4. \A j \in 1..Len(updates') :
        \/ j \in 1..Len(updates) /\ updates'[j] = updates[j]
        \/ updates'[j] = new
    <3>1. /\ Len(updates') = Len(updates) + 1 /\ Len(updates) \in Nat
          /\ updates'[Len(updates) + 1] = new
          /\ \A i \in 1..Len(updates) : updates'[i] = updates[i]
      BY <1>1, <1>3, AppendProperties, LenProperties
    <3>2. \A j \in 1..Len(updates') : j \in 1..Len(updates) \/ j = Len(updates) + 1
      BY ONLY <3>1
    <3>3. QED BY <3>1, <3>2
  <2>5. Ahead(c, published')
    BY <2>2, <2>3 DEF Ahead
  <2>6. \A j \in 1..Len(updates') : Ahead(c, updates'[j].number)
    BY <1>3, <2>1, <2>4, <2>5 DEF ClientInv
  <2>7. QED BY <1>1, <2>1, <2>2, <2>3, <2>6 DEF ClientInv, Ahead
<1>9. QED BY <1>7, <1>8 DEF OrderInv

LEMMA TakeOrder ==
    ASSUME SseTypeOK, OrderInv, TakeUpdate
    PROVE  OrderInv'
<1>1. /\ updates \in Seq(Update) /\ updates # <<>>
      /\ event' = Head(updates) /\ updates' = Tail(updates) /\ worker' = "routing"
      /\ UNCHANGED <<lastRead, channel, published>>
  BY DEF TakeUpdate, SseTypeOK, clientVars
<1>2. /\ Head(updates) \in Update /\ Head(updates) = updates[1] /\ 1 \in 1..Len(updates)
      /\ Len(updates') = Len(updates) - 1 /\ Len(updates) \in Nat
      /\ \A j \in 1..Len(updates') : updates'[j] = updates[j + 1]
  BY <1>1, HeadTailProperties, LenProperties, EmptySeq
<1>3. \A j \in 1..Len(updates') : j + 1 \in 1..Len(updates)
  BY ONLY <1>2
<1>4. MailboxInv'
  BY <1>1, <1>2, Taken, NotHeartbeat DEF OrderInv, MailboxInv
<1>5. ASSUME NEW c \in Clients PROVE ClientInv(c)'
  <2>1. Ahead(c, updates[1].number) /\ \A j \in 1..Len(updates') : Ahead(c, updates'[j].number)
    BY <1>2, <1>3 DEF OrderInv, ClientInv
  <2>2. QED BY <1>1, <1>2, <2>1 DEF OrderInv, ClientInv, Ahead
<1>6. QED BY <1>4, <1>5 DEF OrderInv

LEMMA VisitOrder ==
    ASSUME SseTypeOK, OrderInv, NEW d \in Clients, Visit(d)
    PROVE  OrderInv'
<1>1. /\ d \notin visited /\ visited' = visited \cup {d}
      /\ channel' = channel \/ channel' = [channel EXCEPT ![d] = Append(@, event)]
      /\ UNCHANGED <<lastRead, published, updates, worker, event>>
      /\ event \in Update \cup {Heartbeat}
      /\ channel \in [Clients -> Seq(Update \cup {Heartbeat})]
  BY DEF Visit, SseTypeOK, clientVars
<1>2. MailboxInv'
  BY <1>1 DEF OrderInv, MailboxInv
<1>3. ASSUME NEW c \in Clients PROVE ClientInv(c)'
  <2>1. CASE channel'[c] = channel[c]
    BY <1>1, <2>1 DEF OrderInv, ClientInv, Ahead
  <2>2. CASE c = d /\ channel'[c] = Append(channel[c], event)
    <3>1. ClientInv(c) /\ channel[c] \in Seq(Update \cup {Heartbeat})
      BY <1>1 DEF OrderInv
    <3>2. event # Heartbeat =>
            /\ worker = "routing" /\ Ahead(c, event.number) /\ event.number <= published
            /\ AllAfter(event.number, updates)
      BY <1>1, <2>2, <3>1 DEF OrderInv, MailboxInv, ClientInv
    <3>3. Sorted(channel'[c]) /\ AllAfter(lastRead[c], channel'[c]) /\ AllUpTo(channel'[c], published)
      BY <1>1, <2>2, <3>1, <3>2, Appended DEF ClientInv, Ahead
    <3>4. ASSUME NEW j \in 1..Len(updates) PROVE Ahead(c, updates[j].number)'
      <4>1. Before(lastRead[c], updates[j].number) /\ AllBefore(channel[c], updates[j].number)
        BY <3>1 DEF ClientInv, Ahead
      <4>2. updates[j] # Heartbeat
        BY ElementOfSeq, NotHeartbeat DEF SseTypeOK
      <4>3. event # Heartbeat => Before(event.number, updates[j].number)
        BY <3>2, <4>2 DEF AllAfter
      <4>4. AllBefore(channel'[c], updates[j].number)
        BY <1>1, <2>2, <3>1, <4>1, <4>3, Appended
      <4>5. QED BY <1>1, <4>1, <4>4 DEF Ahead
    <3>5. QED BY <1>1, <2>2, <3>1, <3>3, <3>4 DEF ClientInv
  <2>3. QED BY <1>1, <2>1, <2>2
<1>4. QED BY <1>2, <1>3 DEF OrderInv

LEMMA ReadOrder ==
    ASSUME SseTypeOK, OrderInv, NEW d \in Clients, Read(d)
    PROVE  OrderInv'
<1>1. /\ channel[d] # <<>> /\ channel' = [channel EXCEPT ![d] = Tail(@)]
      /\ lastRead' = [lastRead EXCEPT ![d] =
                        IF Head(channel[d]) = Heartbeat THEN @ ELSE Head(channel[d]).number]
      /\ UNCHANGED <<published, updates, worker, event, visited>>
      /\ channel \in [Clients -> Seq(Update \cup {Heartbeat})]
      /\ lastRead \in [Clients -> 0..LastNumber]
  BY DEF Read, SseTypeOK, passVars
<1>2. MailboxInv'
  BY <1>1 DEF OrderInv, MailboxInv
<1>3. ASSUME NEW c \in Clients PROVE ClientInv(c)'
  <2>1. CASE c # d
    <3>1. channel'[c] = channel[c] /\ lastRead'[c] = lastRead[c]
      BY <1>1, <2>1
    <3>2. QED BY <1>1, <3>1 DEF OrderInv, ClientInv, Ahead
  <2>2. CASE c = d
    <3>1. /\ channel[c] \in Seq(Update \cup {Heartbeat}) /\ channel[c] # <<>>
          /\ channel'[c] = Tail(channel[c]) /\ ClientInv(c)
          /\ lastRead'[c] = IF Head(channel[c]) = Heartbeat THEN lastRead[c]
                            ELSE Head(channel[c]).number
      BY <1>1, <2>2 DEF OrderInv
    <3>2. /\ Sorted(channel'[c]) /\ AllUpTo(channel'[c], published)
          /\ lastRead'[c] <= published
          /\ AllAfter(lastRead'[c], channel'[c])
      BY <3>1, Taken DEF ClientInv
    <3>3. \A n : Ahead(c, n) => Ahead(c, n)'
      BY <3>1, Taken DEF Ahead
    <3>4. QED BY <1>1, <3>1, <3>2, <3>3 DEF ClientInv
  <2>3. QED BY <2>1, <2>2
<1>4. QED BY <1>2, <1>3 DEF OrderInv

LEMMA OrderStep == SseTypeOK /\ OrderInv /\ [SseNext]_sseVars => OrderInv'
<1> SUFFICES ASSUME SseTypeOK, OrderInv, [SseNext]_sseVars PROVE OrderInv'
  OBVIOUS
<1>1. CASE \E c \in Clients : HandlerStep(c) \/ StreamEnds(c) \/ Unregister(c)
  BY <1>1, OrderKept DEF HandlerStep, CheckLimit, Insert, StreamEnds, Unregister, clientVars, passVars
<1>2. ASSUME NEW c \in Clients, Leave(c) PROVE OrderInv'
  <2>1. \A d \in Clients : channel'[d] = channel[d] \/ channel'[d] = <<>>
    BY <1>2 DEF Leave, SseTypeOK
  <2>2. QED BY <1>2, <2>1, OrderKept DEF Leave, passVars
<1>3. CASE ServerEnds
  BY <1>3, OrderKept DEF ServerEnds, passVars
<1>4. CASE StopServer \/ HeartbeatElapses \/ GoOffline
  BY <1>4, OrderKept DEF StopServer, HeartbeatElapses, GoOffline, clientVars, passVars
<1>5. CASE BeginHeartbeat \/ EndPass
  BY <1>5, OrderKept DEF BeginHeartbeat, EndPass, clientVars
<1>6. CASE Stop
  <2>1. /\ updates \in Seq(Update) /\ updates # <<>> /\ updates' = Tail(updates)
        /\ worker = "waiting" /\ worker' = "stopped"
        /\ UNCHANGED <<lastRead, channel, published, event, visited>>
    BY <1>6 DEF Stop, SseTypeOK, clientVars
  <2>2. /\ Len(updates') = Len(updates) - 1 /\ Len(updates) \in Nat
        /\ \A j \in 1..Len(updates') : updates'[j] = updates[j + 1]
    BY <2>1, HeadTailProperties, LenProperties
  <2>3. \A j \in 1..Len(updates') : j + 1 \in 1..Len(updates)
    BY ONLY <2>2
  <2>4. MailboxInv'
    BY <2>1, Taken DEF OrderInv, MailboxInv
  <2>5. \A c \in Clients : ClientInv(c)'
    BY <2>1, <2>2, <2>3 DEF OrderInv, ClientInv, Ahead
  <2>6. QED BY <2>4, <2>5 DEF OrderInv
<1>7. CASE UNCHANGED sseVars
  BY <1>7, OrderKept DEF sseVars, clientVars, passVars
<1>8. QED
  BY <1>1, <1>2, <1>3, <1>4, <1>5, <1>6, <1>7, PublishOrder, TakeOrder, VisitOrder, ReadOrder
     DEF SseNext, WorkerStep

\* A client sees the updates in the order of the hub and none twice, whatever it
\* misses, and although handlers insert while the map is iterated.
THEOREM ClientsSeeOrder == SseSpec => []ClientOrder
<1>1. ASSUME SseInit PROVE OrderInv
  <2>1. /\ updates = <<>> /\ worker # "routing" /\ event = Heartbeat /\ published = 0
        /\ \A c \in Clients : channel[c] = <<>> /\ lastRead[c] = 0
    BY <1>1 DEF SseInit
  <2>2. 1..Len(updates) = {}
    BY <2>1, EmptySeq
  <2>3. MailboxInv
    BY <2>1, NothingThere DEF MailboxInv
  <2>4. \A c \in Clients : ClientInv(c)
    BY <2>1, <2>2, NothingThere DEF ClientInv
  <2>5. QED BY <2>3, <2>4 DEF OrderInv
<1>2. ASSUME SseTypeOK, OrderInv PROVE ClientOrder
  <2>1. ASSUME NEW c \in Clients, NEW i \in Numbers(c)
        PROVE  /\ channel[c][i].number \in 1..LastNumber
               /\ Before(lastRead[c], channel[c][i].number)
               /\ \A j \in Numbers(c) :
                     i < j => Before(channel[c][i].number, channel[c][j].number)
    <3>1. \A j \in Numbers(c) : j \in 1..Len(channel[c]) /\ channel[c][j] # Heartbeat
      BY DEF Numbers
    <3>2. channel[c][i] \in Update
      BY <1>2, <3>1, ElementOfSeq DEF SseTypeOK
    <3>3. QED BY <1>2, <3>1, <3>2, NotHeartbeat DEF OrderInv, ClientInv, Sorted, AllAfter
  <2>2. \A c \in Clients : \A i \in Numbers(c) : channel[c][i].number \in 1..LastNumber
    BY <2>1
  <2>3. LastNumber \in Nat
    BY SseAssumption
  <2>4. \A m, n \in 1..LastNumber : Before(m, n) => m < n \/ m = LastNumber
    BY <2>3 DEF Before
  <2>5. QED BY <2>1, <2>2, <2>4 DEF ClientOrder, Before
<1>3. QED BY <1>1, <1>2, OrderStep, SseTypeCorrect, PTL DEF SseSpec

-----------------------------------------------------------------------------
(* Induction: a run of steps, and what holds after each of them.           *)

\* Every set of natural numbers has a smallest one, so a set that holds zero, and
\* with a number the next, holds them all.
LEMMA SmallestNumber ==
    ASSUME NEW T, T \subseteq Nat, T # {}
    PROVE  \E x \in T : \A y \in T : x <= y
<1> DEFINE R == {p \in Nat \X Nat : p[1] < p[2]}
<1>1. IsWellFoundedOn(R, Nat)
  BY NatLessThanWellFounded DEF OpToRel
<1> HIDE DEF R
<1>2. PICK x \in T : \A y \in T : ~(<<y, x>> \in R)
  BY <1>1, WFMin
<1>3. ASSUME NEW y \in T
      PROVE  x <= y
  <2>1. <<y, x>> \in Nat \X Nat /\ ~(<<y, x>> \in R)
    BY <1>2
  <2>2. ~(y < x)
    BY <2>1 DEF R
  <2>3. QED BY <2>2
<1>4. QED BY <1>3

LEMMA Upwards ==
    ASSUME NEW N \in Nat, NEW S, 0 \in S, \A n \in 1..N : n - 1 \in S => n \in S
    PROVE  \A n \in 0..N : n \in S
<1> SUFFICES ASSUME (0..N) \ S # {}
             PROVE  FALSE
  OBVIOUS
<1>1. PICK x \in (0..N) \ S : \A y \in (0..N) \ S : x <= y
  <2>1. (0..N) \ S \subseteq Nat
    OBVIOUS
  <2>2. QED BY ONLY <2>1, (0..N) \ S # {}, SmallestNumber
<1>2. x \in 1..N
  BY <1>1
<1>3. x - 1 \in S
  BY <1>1, <1>2
<1>4. QED BY <1>1, <1>2, <1>3

\* A step for each of the numbers up to N, and a run that takes one after the other.
StepsTo(N, T, step) == step \in [1..N -> [T -> T]]

RunOf(f, N, T, base, step) ==
    /\ f \in [0..N -> T] /\ f[0] = base
    /\ \A n \in 1..N : f[n] = step[n][f[n - 1]]

LEMMA RunExists ==
    ASSUME NEW N \in Nat, NEW T, NEW base \in T, NEW step, StepsTo(N, T, step)
    PROVE  \E f : RunOf(f, N, T, base, step)
<1> USE DEF StepsTo
<1> DEFINE Steps(f, n) == /\ f \in [0..n -> T] /\ f[0] = base
                          /\ \A i \in 1..n : f[i] = step[i][f[i - 1]]
           S == {n \in Nat : \E f : Steps(f, n)}
<1>1. 0 \in S
  <2>1. Steps([i \in 0..0 |-> base], 0)
    OBVIOUS
  <2>2. QED BY <2>1
<1>2. ASSUME NEW n \in 1..N, n - 1 \in S
      PROVE  n \in S
  <2>1. PICK f : Steps(f, n - 1)
    BY <1>2
  <2>2. PICK next : next = step[n][f[n - 1]]
    OBVIOUS
  <2>3. f[n - 1] \in T /\ next \in T
    BY <2>1, <2>2
  <2>4. PICK g \in [0..n -> T] :
          g[n] = next /\ \A i \in 0..(n - 1) : g[i] = f[i]
    <3> DEFINE h == [i \in 0..n |-> IF i = n THEN next ELSE f[i]]
    <3>1. h \in [0..n -> T]
      BY <2>1, <2>3
    <3>2. h[n] = next /\ \A i \in 0..(n - 1) : h[i] = f[i]
      OBVIOUS
    <3> HIDE DEF h
    <3>3. QED BY <3>1, <3>2
  <2>5. g[0] = base
    BY <2>1, <2>4
  <2>6. ASSUME NEW i \in 1..n
        PROVE  g[i] = step[i][g[i - 1]]
    <3>1. g[i - 1] = f[i - 1]
      BY <2>4
    <3>2. CASE i = n
      BY ONLY <2>2, <2>4, <3>1, <3>2
    <3>3. CASE i # n
      <4>1. i \in 1..(n - 1) /\ g[i] = f[i]
        BY <2>4, <3>3
      <4>2. f[i] = step[i][f[i - 1]]
        BY <2>1, <4>1
      <4>3. QED BY <3>1, <4>1, <4>2
    <3>4. QED BY <3>2, <3>3
  <2>7. Steps(g, n)
    BY <2>4, <2>5, <2>6
  <2>8. QED BY <2>7
<1> HIDE DEF S
<1>3. N \in S
  <2>1. \A n \in 0..N : n \in S
    <3>1. \A n \in 1..N : n - 1 \in S => n \in S
      BY <1>2
    <3>2. QED BY ONLY <1>1, <3>1, N \in Nat, Upwards
  <2>2. QED BY <2>1
<1>4. PICK f : Steps(f, N)
  BY <1>3 DEF S
<1>5. QED BY <1>4 DEF RunOf

-----------------------------------------------------------------------------
(* LatencyStats.                                                           *)

\* What adds up term(x) for the samples x of a window: these three equations are
\* all that one step of the statistics needs to know of a sum.
AddsUp(total, term) ==
    /\ total \in [Seq(Int) -> Int]
    /\ total[<<>>] = 0
    /\ \A s \in Seq(Int) : \A x \in Int : total[Append(s, x)] = total[s] + term[x]
    /\ \A s \in Seq(Int) \ {<<>>} : total[s] = term[Head(s)] + total[Tail(s)]

Itself == [x \in Int |-> x]
Square == [x \in Int |-> x * x]

\* Mean and sum of squared deviations of n samples, by their sum and the sum of
\* their squares, in the units of LatencyStats.
Moments(n, mean, m2, s1, s2) ==
    /\ n * mean = Scale * s1
    /\ n * m2 = (Scale * Scale) * (n * s2 - s1 * s1)

\* The numbers carried along are those of the samples in the window.
ExactFor(stats, sum, squares) ==
    /\ stats.samples \in Seq(Int)
    /\ stats.count = Len(stats.samples) /\ stats.count <= LatencyWindow
    /\ stats.mean \in Int /\ stats.m2 \in Int
    /\ stats.count = 0 => stats.mean = 0 /\ stats.m2 = 0
    /\ Moments(stats.count, stats.mean, stats.m2, sum[stats.samples], squares[stats.samples])

LEMMA DivideExactly ==
    ASSUME NEW n \in Nat \ {0}, NEW q \in Int
    PROVE  (n * q) \div n = q
OBVIOUS

LEMMA CancelFactor ==
    ASSUME NEW n \in Int, n # 0, NEW a \in Int, NEW b \in Int, n * a = n * b
    PROVE  a = b
OBVIOUS

\* The identity behind Welford's update.
LEMMA WelfordIdentity ==
    ASSUME NEW n \in Int, NEW x \in Int, NEW s1 \in Int, NEW s2 \in Int
    PROVE  (n + 1) * (n * s2 - s1 * s1) + (n * x - s1) * (n * x - s1)
            = n * ((n + 1) * (s2 + x * x) - (s1 + x) * (s1 + x))
OBVIOUS

\* The mean of n samples is a whole number of units.
LEMMA MeanExists ==
    ASSUME NEW n \in 1..LatencyWindow, NEW s \in Int
    PROVE  \E mean \in Int : n * mean = Scale * s
<1>1. n \in Nat \ {0} /\ Scale \in Nat /\ Scale % n = 0
  BY LatencyAssumption
<1>2. PICK k \in Int : Scale = n * k
  BY <1>1
<1>3. n * (k * s) = Scale * s /\ k * s \in Int
  BY <1>1, <1>2
<1>4. QED BY <1>3

\* n samples with sums s1, s2 and mean u, and the same with x, mean v: where the
\* means are right, the squared deviations differ by Welford's term.
LEMMA WelfordStep ==
    ASSUME NEW n \in Nat \ {0}, NEW x \in Int, NEW s1 \in Int, NEW s2 \in Int,
           NEW u \in Int, NEW v \in Int, NEW m \in Int, NEW w \in Int,
           n * u = Scale * s1, (n + 1) * v = Scale * (s1 + x),
           w = m + (Scale * x - u) * (Scale * x - v)
    PROVE  n * m = (Scale * Scale) * (n * s2 - s1 * s1)
            <=> (n + 1) * w = (Scale * Scale)
                    * ((n + 1) * (s2 + x * x) - (s1 + x) * (s1 + x))
<1> DEFINE L == Scale
           d == n * x - s1
           P == (L * x - u) * (L * x - v)
           A == n * s2 - s1 * s1
           B == (n + 1) * (s2 + x * x) - (s1 + x) * (s1 + x)
<1>1. L \in Int
  BY LatencyAssumption
<1>2. n * (L * x - u) = L * d
  <2>1. n * (L * x - u) = L * (n * x) - n * u
    BY <1>1
  <2>2. L * (n * x) - L * s1 = L * d
    BY <1>1
  <2>3. QED BY <2>1, <2>2
<1>3. (n + 1) * (L * x - v) = L * d
  <2>1. (n + 1) * (L * x - v) = L * ((n + 1) * x) - (n + 1) * v
    BY <1>1
  <2>2. L * ((n + 1) * x) - L * (s1 + x) = L * d
    BY <1>1
  <2>3. QED BY <2>1, <2>2
<1>4. n * ((n + 1) * P) = (L * L) * (d * d)
  <2>1. n * ((n + 1) * P) = (n * (L * x - u)) * ((n + 1) * (L * x - v))
    BY <1>1
  <2>2. (L * d) * (L * d) = (L * L) * (d * d)
    BY <1>1
  <2>3. QED BY <1>2, <1>3, <2>1, <2>2
<1>5. (n + 1) * A + d * d = n * B
  BY WelfordIdentity
<1>6. A \in Int /\ B \in Int /\ P \in Int /\ d * d \in Int /\ L * L \in Int
  BY <1>1
<1>7. w = m + P
  OBVIOUS
<1> HIDE DEF L, d, P, A, B
<1>8. n * ((n + 1) * w) = (n + 1) * (n * m) + (L * L) * (d * d)
  <2>1. n * ((n + 1) * (m + P)) = (n + 1) * (n * m) + n * ((n + 1) * P)
    BY <1>6
  <2>2. QED BY <1>4, <1>7, <2>1
<1>9. PICK K \in Int : K = L * L
  BY <1>6
<1>10. n * (K * B) = (n + 1) * (K * A) + K * (d * d)
  <2>1. n * (K * B) = K * (n * B)
    BY <1>6
  <2>2. K * ((n + 1) * A + d * d) = (n + 1) * (K * A) + K * (d * d)
    BY <1>6
  <2>3. QED BY <1>5, <2>1, <2>2
<1>11. ASSUME n * m = K * A
       PROVE  (n + 1) * w = K * B
  <2>1. n * ((n + 1) * w) = n * (K * B)
    BY <1>8, <1>9, <1>10, <1>11
  <2>2. (n + 1) * w \in Int /\ K * B \in Int
    BY <1>6
  <2>3. QED BY ONLY <2>1, <2>2, CancelFactor, n \in Nat \ {0}
<1>12. ASSUME (n + 1) * w = K * B
       PROVE  n * m = K * A
  <2>1. (n + 1) * (n * m) = (n + 1) * (K * A)
    <3>1. /\ (n + 1) * (n * m) \in Int /\ (n + 1) * (K * A) \in Int
          /\ K * (d * d) \in Int
      BY <1>6
    <3>2. (n + 1) * (n * m) + K * (d * d) = (n + 1) * (K * A) + K * (d * d)
      BY <1>8, <1>9, <1>10, <1>12
    <3>3. QED BY ONLY <3>1, <3>2
  <2>2. n * m \in Int /\ K * A \in Int
    BY <1>6
  <2>3. n + 1 \in Int /\ n + 1 # 0
    OBVIOUS
  <2>4. QED BY ONLY <2>1, <2>2, <2>3, CancelFactor
<1>13. n * m = (L * L) * A <=> (n + 1) * w = (L * L) * B
  BY <1>9, <1>11, <1>12
<1>14. QED BY <1>13 DEF L, A, B

\* The arithmetic of remove_sample_welford and of add_sample.
LEMMA Leaving ==
    ASSUME NEW n \in 1..LatencyWindow, NEW x \in Int, NEW s1 \in Int, NEW s2 \in Int,
           NEW v \in Int, NEW w \in Int, Moments(n + 1, v, w, s1 + x, s2 + x * x),
           NEW delta \in Int, delta = Scale * x - v,
           NEW u \in Int, u = v - delta \div n,
           NEW m \in Int, m = w - delta * (Scale * x - u)
    PROVE  Moments(n, u, m, s1, s2)
<1>1. n \in Nat \ {0} /\ LatencyWindow \in Nat /\ Scale \in Int
  BY LatencyAssumption
<1>2. /\ (n + 1) * v = Scale * (s1 + x)
      /\ (n + 1) * w = (Scale * Scale) * ((n + 1) * (s2 + x * x) - (s1 + x) * (s1 + x))
  BY DEF Moments
<1>3. PICK mean \in Int : n * mean = Scale * s1
  BY MeanExists
<1>4. PICK X \in Int : X = Scale * x
  BY <1>1
<1>5. Scale * (s1 + x) = n * mean + X
  BY ONLY <1>1, <1>3, <1>4, s1 \in Int, x \in Int
<1>6. delta = n * (v - mean)
  BY ONLY <1>1, <1>2, <1>4, <1>5, mean \in Int, v \in Int, delta = Scale * x - v
<1>7. delta \div n = v - mean
  BY ONLY <1>1, <1>6, DivideExactly, mean \in Int, v \in Int, v - mean \in Int
<1>8. u = mean /\ u \in Int
  BY ONLY <1>7, mean \in Int, v \in Int, u = v - delta \div n
<1>9. m \in Int /\ w = m + (Scale * x - u) * (Scale * x - v)
  <2>1. delta \in Int /\ Scale * x - u \in Int /\ w \in Int
    BY <1>1, <1>8
  <2>2. PICK product \in Int : product = delta * (Scale * x - u)
    BY <2>1
  <2>3. product = (Scale * x - u) * (Scale * x - v)
    <3>1. PICK a \in Int : a = Scale * x - u
      BY <2>1
    <3>2. PICK b \in Int : b = Scale * x - v
      BY <2>1
    <3>3. a * b = b * a
      BY ONLY <3>1, <3>2
    <3>4. product = b * a
      BY <2>2, <3>1, <3>2
    <3>5. QED BY <3>1, <3>2, <3>3, <3>4
  <2>4. m = w - product
    BY <2>2
  <2>5. m \in Int /\ w = m + product
    BY ONLY <2>1, <2>2, <2>4
  <2>6. QED BY <2>3, <2>5
<1>10. n * u = Scale * s1
  BY <1>3, <1>8
<1>11. n * m = (Scale * Scale) * (n * s2 - s1 * s1)
  BY ONLY <1>1, <1>2, <1>8, <1>9, <1>10, WelfordStep,
     x \in Int, s1 \in Int, s2 \in Int, v \in Int, w \in Int
<1>12. QED BY <1>8, <1>9, <1>10, <1>11 DEF Moments

LEMMA Entering ==
    ASSUME NEW n \in Nat, n < LatencyWindow, NEW x \in Int, NEW s1 \in Int, NEW s2 \in Int,
           NEW u \in Int, NEW m \in Int, Moments(n, u, m, s1, s2),
           n = 0 => u = 0 /\ m = 0 /\ s1 = 0 /\ s2 = 0,
           NEW delta \in Int, delta = Scale * x - u,
           NEW v \in Int, v = u + delta \div (n + 1),
           NEW w \in Int, w = m + delta * (Scale * x - v)
    PROVE  Moments(n + 1, v, w, s1 + x, s2 + x * x)
<1>1. n + 1 \in 1..LatencyWindow /\ LatencyWindow \in Nat /\ Scale \in Int
  BY LatencyAssumption
<1>2. /\ n * u = Scale * s1
      /\ n * m = (Scale * Scale) * (n * s2 - s1 * s1)
  BY DEF Moments
<1>3. PICK mean \in Int : (n + 1) * mean = Scale * (s1 + x)
  <2>1. s1 + x \in Int
    OBVIOUS
  <2>2. QED BY ONLY <1>1, <2>1, MeanExists
<1>4. PICK X \in Int : X = Scale * x
  BY <1>1
<1>5. Scale * (s1 + x) = n * u + X
  BY ONLY <1>1, <1>2, <1>4, s1 \in Int, x \in Int
<1>6. delta = (n + 1) * (mean - u)
  BY ONLY <1>3, <1>4, <1>5, mean \in Int, u \in Int, n \in Nat, delta = Scale * x - u
<1>7. delta \div (n + 1) = mean - u
  <2>1. n + 1 \in Nat \ {0} /\ mean - u \in Int
    OBVIOUS
  <2>2. QED BY ONLY <1>6, <2>1, DivideExactly
<1>8. v = mean /\ v \in Int
  BY ONLY <1>7, mean \in Int, u \in Int, v = u + delta \div (n + 1)
<1>9. w \in Int /\ w = m + (Scale * x - u) * (Scale * x - v)
  <2>1. delta \in Int /\ Scale * x - v \in Int /\ m \in Int
    BY <1>1, <1>8
  <2>2. PICK product \in Int : product = delta * (Scale * x - v)
    BY <2>1
  <2>3. product = (Scale * x - u) * (Scale * x - v)
    BY <1>1, <1>8, <2>2
  <2>4. w = m + product
    BY <2>2
  <2>5. w \in Int
    BY ONLY <2>1, <2>2, <2>4
  <2>6. QED BY <2>3, <2>4, <2>5
<1>10. (n + 1) * v = Scale * (s1 + x)
  BY <1>3, <1>8
<1>11. (n + 1) * w = (Scale * Scale) * ((n + 1) * (s2 + x * x) - (s1 + x) * (s1 + x))
  <2>1. CASE n = 0
    <3>1. u = 0 /\ m = 0 /\ s1 = 0 /\ s2 = 0
      BY <2>1
    <3>2. v = X
      BY <1>4, <1>10, <2>1, <3>1, <1>1, <1>8
    <3>3. w = 0
      BY <1>1, <1>4, <1>9, <3>1, <3>2
    <3>4. PICK left : left = (n + 1) * w
      OBVIOUS
    <3>5. PICK right : right = (Scale * Scale) * ((n + 1) * (s2 + x * x) - (s1 + x) * (s1 + x))
      OBVIOUS
    <3>6. left = 0
      BY <2>1, <3>3, <3>4
    <3>7. (n + 1) * (s2 + x * x) - (s1 + x) * (s1 + x) = 0
      BY ONLY <2>1, <3>1, x \in Int
    <3>8. right = 0
      BY <1>1, <3>5, <3>7
    <3>9. left = right
      BY ONLY <3>6, <3>8
    <3>10. QED BY ONLY <3>4, <3>5, <3>9
  <2>2. CASE n # 0
    <3>1. n \in Nat \ {0}
      BY <2>2
    <3>2. w = m + (Scale * x - u) * (Scale * x - v)
      BY <1>9
    <3>3. n * m = (Scale * Scale) * (n * s2 - s1 * s1)
            <=> (n + 1) * w = (Scale * Scale)
                    * ((n + 1) * (s2 + x * x) - (s1 + x) * (s1 + x))
      BY ONLY <1>1, <1>2, <1>10, <3>1, <3>2, WelfordStep, x \in Int, s1 \in Int, s2 \in Int,
         u \in Int, v \in Int, m \in Int, w \in Int
    <3>4. QED BY ONLY <1>2, <3>3
  <2>3. QED BY <2>1, <2>2
<1>12. QED BY <1>8, <1>9, <1>10, <1>11 DEF Moments

\* A device that no sample was taken of.
LEMMA NoStatsExact ==
    ASSUME NEW sum, AddsUp(sum, Itself), NEW squares, AddsUp(squares, Square)
    PROVE  ExactFor(NoStats, sum, squares)
<1>1. sum[<<>>] = 0 /\ squares[<<>>] = 0
  BY DEF AddsUp
<1>2. LatencyWindow \in Nat /\ Scale \in Nat
  BY LatencyAssumption
<1>3. QED BY <1>1, <1>2, EmptySeq DEF ExactFor, Moments, NoStats

\* One sample leaves the window.
LEMMA RemovedIsExact ==
    ASSUME NEW sum, AddsUp(sum, Itself), NEW squares, AddsUp(squares, Square),
           NEW stats, ExactFor(stats, sum, squares), stats.count > 0
    PROVE  /\ ExactFor(Removed(stats), sum, squares)
           /\ Removed(stats).samples = Tail(stats.samples)
           /\ Removed(stats).count = stats.count - 1
<1>1. PICK s, x, r, n, v, w :
        /\ s = stats.samples /\ x = Head(s) /\ r = Tail(s) /\ n = stats.count - 1
        /\ v = stats.mean /\ w = stats.m2
  OBVIOUS
<1>2. /\ s \in Seq(Int) /\ stats.count = Len(s) /\ stats.count <= LatencyWindow
      /\ v \in Int /\ w \in Int /\ Moments(stats.count, v, w, sum[s], squares[s])
  BY <1>1 DEF ExactFor
<1>3. Len(s) \in Nat /\ LatencyWindow \in Nat /\ s # <<>>
  BY <1>2, LenProperties, EmptySeq, LatencyAssumption
<1>4. n \in Nat /\ stats.count = n + 1 /\ n + 1 <= LatencyWindow /\ Len(s) = n + 1
  BY <1>1, <1>2, <1>3
<1>5. x \in Int /\ r \in Seq(Int) /\ Len(r) = n
  BY ONLY <1>1, <1>2, <1>3, <1>4, HeadTailProperties
<1>6. PICK s1, s2 : s1 = sum[r] /\ s2 = squares[r]
  OBVIOUS
<1>7. s1 \in Int /\ s2 \in Int
  BY <1>5, <1>6 DEF AddsUp
<1>8. sum[s] = s1 + x /\ squares[s] = s2 + x * x
  <2>1. s \in Seq(Int) \ {<<>>}
    BY <1>2, <1>3
  <2>2. sum[s] = Itself[x] + sum[r] /\ squares[s] = Square[x] + squares[r]
    BY <1>1, <2>1 DEF AddsUp
  <2>3. Itself[x] = x /\ Square[x] = x * x
    BY <1>5 DEF Itself, Square
  <2>4. x * x \in Int
    BY <1>5
  <2>5. QED BY <1>5, <1>6, <1>7, <2>2, <2>3, <2>4
<1>9. Moments(n + 1, v, w, s1 + x, s2 + x * x)
  BY <1>2, <1>4, <1>8
<1>10. CASE n = 0
  <2>1. Removed(stats) = NoStats
    BY <1>4, <1>10 DEF Removed
  <2>2. r = <<>>
    BY <1>5, <1>10, EmptySeq
  <2>3. ExactFor(NoStats, sum, squares) /\ NoStats.samples = <<>> /\ NoStats.count = 0
    BY NoStatsExact DEF NoStats
  <2>4. Tail(stats.samples) = <<>> /\ stats.count - 1 = 0
    BY <1>1, <1>10, <2>2
  <2>5. QED BY <2>1, <2>3, <2>4
<1>11. CASE n # 0
  <2>1. PICK delta, u, m :
          /\ delta = Scale * x - v /\ u = v - delta \div n /\ m = w - delta * (Scale * x - u)
    OBVIOUS
  <2>2. Removed(stats) = [samples |-> r, count |-> n, mean |-> u, m2 |-> m]
    <3>1. ~(stats.count <= 1)
      BY <1>4, <1>11
    <3>2. QED BY <1>1, <2>1, <3>1 DEF Removed
  <2>3. n \in 1..LatencyWindow
    BY <1>3, <1>4, <1>11
  <2>4. u \in Int /\ m \in Int /\ Moments(n, u, m, s1, s2)
    <3>1. Scale \in Int /\ n \in Nat \ {0}
      BY <1>4, <1>11, LatencyAssumption
    <3>2. delta \in Int
      BY <1>2, <1>5, <2>1, <3>1
    <3>3. u \in Int
      BY <1>2, <2>1, <3>1, <3>2
    <3>4. m \in Int
      BY <1>2, <1>5, <2>1, <3>1, <3>2, <3>3
    <3>5. QED
      BY ONLY <1>2, <1>5, <1>7, <1>9, <2>1, <2>3, <3>2, <3>3, <3>4, Leaving
  <2>5. n <= LatencyWindow
    BY <1>3, <1>4
  <2>6. ExactFor(Removed(stats), sum, squares)
    BY <1>5, <1>6, <1>11, <2>2, <2>4, <2>5 DEF ExactFor
  <2>7. QED BY <1>1, <2>2, <2>6
<1>12. QED BY <1>10, <1>11

\* Whatever came before, a new latency leaves the numbers those of the samples
\* then in the window, which are the last ones, for every size of the window
\* (latency_monitor.rs:42-92).
THEOREM WindowStaysExact ==
    ASSUME NEW sum, AddsUp(sum, Itself), NEW squares, AddsUp(squares, Square),
           NEW stats, ExactFor(stats, sum, squares), NEW x \in Int
    PROVE  /\ ExactFor(Added(stats, x), sum, squares)
           /\ Added(stats, x).samples
                = Append(IF Len(stats.samples) = LatencyWindow THEN Tail(stats.samples)
                         ELSE stats.samples, x)
<1>1. PICK old : old = IF Len(stats.samples) >= LatencyWindow THEN Removed(stats) ELSE stats
  OBVIOUS
<1>2. /\ ExactFor(old, sum, squares) /\ old.count < LatencyWindow
      /\ old.samples = IF Len(stats.samples) = LatencyWindow THEN Tail(stats.samples)
                       ELSE stats.samples
  <2>1. /\ stats.count = Len(stats.samples) /\ stats.count <= LatencyWindow
        /\ stats.count \in Nat /\ LatencyWindow \in Nat \ {0}
    BY LenProperties, LatencyAssumption DEF ExactFor
  <2>2. CASE Len(stats.samples) = LatencyWindow
    <3>1. old = Removed(stats) /\ stats.count > 0
      BY <1>1, <2>1, <2>2
    <3>2. /\ ExactFor(old, sum, squares) /\ old.count = stats.count - 1
          /\ old.samples = Tail(stats.samples)
      BY <3>1, RemovedIsExact
    <3>3. QED BY <2>1, <2>2, <3>2
  <2>3. CASE Len(stats.samples) # LatencyWindow
    BY <1>1, <2>1, <2>3
  <2>4. QED BY <2>2, <2>3
<1>3. PICK s, n, u, m, s1, s2 :
        /\ s = old.samples /\ n = old.count /\ u = old.mean /\ m = old.m2
        /\ s1 = sum[s] /\ s2 = squares[s]
  OBVIOUS
<1>4. PICK delta, v, w :
        /\ delta = Scale * x - u /\ v = u + delta \div (n + 1)
        /\ w = m + delta * (Scale * x - v)
  OBVIOUS
<1>5. Added(stats, x) = [samples |-> Append(s, x), count |-> n + 1, mean |-> v, m2 |-> w]
  BY <1>1, <1>3, <1>4 DEF Added
<1>6. /\ s \in Seq(Int) /\ n = Len(s) /\ u \in Int /\ m \in Int
      /\ Moments(n, u, m, s1, s2)
      /\ n = 0 => u = 0 /\ m = 0
  BY <1>2, <1>3 DEF ExactFor
<1>7. n \in Nat /\ LatencyWindow \in Nat /\ n < LatencyWindow
  BY <1>2, <1>3, <1>6, LenProperties, LatencyAssumption
<1>8. s1 \in Int /\ s2 \in Int
  BY <1>3, <1>6 DEF AddsUp
<1>9. n = 0 => s1 = 0 /\ s2 = 0
  <2>1. n = 0 => s = <<>>
    BY <1>6, EmptySeq
  <2>2. QED BY <1>3, <2>1 DEF AddsUp
<1>10. v \in Int /\ w \in Int /\ Moments(n + 1, v, w, s1 + x, s2 + x * x)
  <2>1. Scale \in Int /\ n + 1 \in Nat \ {0}
    BY <1>7, LatencyAssumption
  <2>2. delta \in Int
    BY <1>4, <1>6, <2>1
  <2>3. v \in Int
    BY <1>4, <1>6, <2>1, <2>2
  <2>4. w \in Int
    BY <1>4, <1>6, <2>1, <2>2, <2>3
  <2>5. ASSUME n = 0 PROVE u = 0 /\ m = 0 /\ s1 = 0 /\ s2 = 0
    <3>1. u = 0 /\ m = 0
      BY <1>6, <2>5
    <3>2. s1 = 0 /\ s2 = 0
      BY <1>9, <2>5
    <3>3. QED BY <3>1, <3>2
  <2>6. Moments(n, u, m, s1, s2) /\ u \in Int /\ m \in Int
    BY <1>6
  <2>7. n \in Nat /\ n < LatencyWindow
    BY <1>7
  <2>8. Moments(n + 1, v, w, s1 + x, s2 + x * x)
    BY ONLY <1>4, <1>8, <2>2, <2>3, <2>4, <2>5, <2>6, <2>7, x \in Int, Entering
  <2>9. QED BY <2>3, <2>4, <2>8
<1>11. Append(s, x) \in Seq(Int) /\ Len(Append(s, x)) = n + 1
  BY <1>6, AppendProperties
<1>12. sum[Append(s, x)] = s1 + x /\ squares[Append(s, x)] = s2 + x * x
  <2>1. Itself[x] = x /\ Square[x] = x * x
    BY DEF Itself, Square
  <2>2. /\ sum[Append(s, x)] = sum[s] + Itself[x]
        /\ squares[Append(s, x)] = squares[s] + Square[x]
    BY <1>6 DEF AddsUp
  <2>3. QED BY <1>3, <2>1, <2>2
<1>13. n + 1 <= LatencyWindow /\ n + 1 # 0
  BY <1>7
<1>14. ExactFor(Added(stats, x), sum, squares)
  BY <1>5, <1>10, <1>11, <1>12, <1>13 DEF ExactFor
<1>15. QED BY <1>2, <1>3, <1>5, <1>14

-----------------------------------------------------------------------------
\* What adds up a sequence of numbers, from the first to the last.
SumsOf(f, s, N) ==
    /\ f \in [0..N -> Int] /\ f[0] = 0
    /\ \A n \in 1..N : f[n] = f[n - 1] + s[n]

LEMMA TotalRun ==
    ASSUME NEW s \in Seq(Int)
    PROVE  \E f : SumsOf(f, s, Len(s)) /\ Total(s) = f[Len(s)]
<1> DEFINE Body(f) == [n \in 0..Len(s) |-> IF n = 0 THEN 0 ELSE f[n - 1] + s[n]]
           g == CHOOSE f : f = Body(f)
<1>1. PICK N \in Nat : N = Len(s)
  BY LenProperties
<1>2. \A n \in 1..N : s[n] \in Int
  BY <1>1, ElementOfSeq
<1>3. PICK f \in [0..N -> Int] : f[0] = 0 /\ \A n \in 1..N : f[n] = f[n - 1] + s[n]
  <2> DEFINE step == [n \in 1..N |-> [x \in Int |-> x + s[n]]]
  <2>1. step \in [1..N -> [Int -> Int]]
    BY <1>2
  <2>2. \A n \in 1..N, x \in Int : step[n][x] = x + s[n]
    OBVIOUS
  <2> HIDE DEF step
  <2>3. PICK f : RunOf(f, N, Int, 0, step)
    <3>1. StepsTo(N, Int, step)
      BY <2>1 DEF StepsTo
    <3>2. QED BY ONLY <3>1, N \in Nat, 0 \in Int, RunExists
  <2>4. ASSUME NEW n \in 1..N
        PROVE  f[n] = f[n - 1] + s[n]
    <3>1. f[n - 1] \in Int
      BY <2>3 DEF RunOf
    <3>2. QED BY <2>2, <2>3, <3>1 DEF RunOf
  <2>5. QED BY <2>3, <2>4 DEF RunOf
<1>4. f = Body(f)
  <2>1. \A n \in 0..N : f[n] = IF n = 0 THEN 0 ELSE f[n - 1] + s[n]
    BY <1>3
  <2>2. QED BY <1>1, <2>1
<1>5. Total(s) = g[N]
  BY <1>1 DEF Total
<1>6. g = Body(g)
  BY <1>4
<1> HIDE DEF g
<1>7. DOMAIN g = 0..N /\ g[0] = 0 /\ \A n \in 1..N : g[n] = g[n - 1] + s[n]
  BY <1>1, <1>6
<1>8. \A n \in 0..N : g[n] \in Int
  <2> DEFINE S == {n \in 0..N : g[n] \in Int}
  <2>1. ASSUME NEW n \in 1..N, g[n - 1] \in Int
        PROVE  g[n] \in Int
    <3>1. g[n] = g[n - 1] + s[n] /\ s[n] \in Int
      BY <1>2, <1>7
    <3>2. QED BY <2>1, <3>1
  <2>2. 0 \in S /\ \A n \in 1..N : n - 1 \in S => n \in S
    BY <1>7, <2>1
  <2> HIDE DEF S
  <2>3. \A n \in 0..N : n \in S
    BY ONLY N \in Nat, <2>2, Upwards
  <2>4. QED BY <2>3 DEF S
<1>9. g \in [0..N -> Int]
  BY <1>1, <1>6, <1>8
<1>10. QED BY <1>1, <1>5, <1>7, <1>9 DEF SumsOf

LEMMA TotalIsNumber ==
    ASSUME NEW s \in Seq(Int)
    PROVE  Total(s) \in Int
BY TotalRun, LenProperties DEF SumsOf

LEMMA TotalOfNothing == Total(<<>>) = 0
<1>1. <<>> \in Seq(Int) /\ Len(<<>>) = 0
  BY EmptySeq
<1>2. QED BY <1>1, TotalRun DEF SumsOf

LEMMA TotalAppend ==
    ASSUME NEW s \in Seq(Int), NEW x \in Int
    PROVE  Total(Append(s, x)) = Total(s) + x
<1>1. PICK N \in Nat : N = Len(s)
  BY LenProperties
<1>2. PICK t : t = Append(s, x)
  OBVIOUS
<1>3. /\ t \in Seq(Int) /\ Len(t) = N + 1 /\ t[N + 1] = x
      /\ \A n \in 1..N : t[n] = s[n]
  BY <1>1, <1>2, AppendProperties
<1>4. PICK f : SumsOf(f, s, N) /\ Total(s) = f[N]
  BY <1>1, TotalRun
<1>5. PICK g : SumsOf(g, t, N + 1) /\ Total(t) = g[N + 1]
  BY <1>3, TotalRun
<1>6. \A n \in 0..N : g[n] = f[n]
  <2> DEFINE S == {n \in 0..N : g[n] = f[n]}
  <2>1. 0 \in S
    BY <1>4, <1>5 DEF SumsOf
  <2>2. ASSUME NEW n \in 1..N, n - 1 \in S
        PROVE  n \in S
    <3>1. f[n] = f[n - 1] + s[n]
      BY <1>4 DEF SumsOf
    <3>2. n \in 1..(N + 1)
      OBVIOUS
    <3>3. g[n] = g[n - 1] + t[n]
      BY <1>5, <3>2 DEF SumsOf
    <3>4. t[n] = s[n] /\ g[n - 1] = f[n - 1]
      BY <1>3, <2>2
    <3>5. g[n] = f[n]
      BY <3>1, <3>3, <3>4
    <3>6. QED BY <3>5
  <2> HIDE DEF S
  <2>3. \A n \in 1..N : n - 1 \in S => n \in S
    BY <2>2
  <2>4. \A n \in 0..N : n \in S
    BY ONLY N \in Nat, <2>1, <2>3, Upwards
  <2>5. QED BY <2>4 DEF S
<1>7. g[N + 1] = g[N] + t[N + 1]
  <2>1. N + 1 \in 1..(N + 1) /\ (N + 1) - 1 = N
    OBVIOUS
  <2>2. QED BY ONLY <1>5, <2>1 DEF SumsOf
<1>8. g[N] = f[N]
  BY <1>6
<1>9. QED BY ONLY <1>2, <1>3, <1>4, <1>5, <1>7, <1>8

LEMMA TotalHeadTail ==
    ASSUME NEW s \in Seq(Int), s # <<>>
    PROVE  Total(s) = Head(s) + Total(Tail(s))
<1>1. PICK N \in Nat : Len(s) = N + 1
  <2>1. Len(s) \in Nat \ {0}
    BY EmptySeq
  <2>2. Len(s) - 1 \in Nat /\ Len(s) = (Len(s) - 1) + 1
    BY <2>1
  <2>3. QED BY <2>2
<1>2. PICK t : t = Tail(s)
  OBVIOUS
<1>3. /\ t \in Seq(Int) /\ Len(t) = N
      /\ \A n \in 1..N : t[n] = s[n + 1]
  BY <1>1, <1>2, HeadTailProperties
<1>4. PICK f : SumsOf(f, s, N + 1) /\ Total(s) = f[N + 1]
  BY <1>1, TotalRun
<1>5. PICK g : SumsOf(g, t, N) /\ Total(t) = g[N]
  BY <1>3, TotalRun
<1>6. PICK x : x = Head(s)
  OBVIOUS
<1>7. x \in Int /\ s[1] = x
  BY <1>6, HeadTailProperties
<1>8. \A n \in 0..N : f[n + 1] = x + g[n]
  <2> DEFINE S == {n \in 0..N : f[n + 1] = x + g[n]}
  <2>1. 0 \in S
    <3>1. f[1] = f[0] + s[1] /\ f[0] = 0 /\ g[0] = 0
      <4>1. 1 \in 1..(N + 1) /\ 1 - 1 = 0
        OBVIOUS
      <4>2. QED BY <1>4, <1>5, <4>1 DEF SumsOf
    <3>2. f[0 + 1] = x + g[0]
      BY <1>7, <3>1
    <3>3. QED BY <3>2
  <2>2. ASSUME NEW n \in 1..N, n - 1 \in S
        PROVE  n \in S
    <3>1. f[n + 1] = f[n] + s[n + 1]
      <4>1. n + 1 \in 1..(N + 1) /\ (n + 1) - 1 = n
        OBVIOUS
      <4>2. QED BY ONLY <1>4, <4>1 DEF SumsOf
    <3>2. g[n] = g[n - 1] + t[n] /\ t[n] = s[n + 1]
      BY <1>3, <1>5 DEF SumsOf
    <3>3. f[n] = x + g[n - 1]
      BY <2>2
    <3>4. g[n - 1] \in Int
      <4>1. n - 1 \in 0..N
        OBVIOUS
      <4>2. QED BY ONLY <1>5, <4>1 DEF SumsOf
    <3>5. t[n] \in Int
      BY <1>3, ElementOfSeq
    <3>6. f[n + 1] = x + g[n]
      BY ONLY <1>7, <3>1, <3>2, <3>3, <3>4, <3>5
    <3>7. QED BY <3>6
  <2> HIDE DEF S
  <2>3. \A n \in 1..N : n - 1 \in S => n \in S
    BY <2>2
  <2>4. \A n \in 0..N : n \in S
    BY ONLY N \in Nat, <2>1, <2>3, Upwards
  <2>5. QED BY <2>4 DEF S
<1>9. f[N + 1] = x + g[N]
  BY <1>8
<1>10. QED BY ONLY <1>2, <1>4, <1>5, <1>6, <1>9

LEMMA SquaredIsSeq ==
    ASSUME NEW s \in Seq(Int)
    PROVE  /\ Squared(s) \in Seq(Int) /\ Len(Squared(s)) = Len(s)
           /\ \A i \in 1..Len(s) : Squared(s)[i] = s[i] * s[i]
<1>1. \A i \in 1..Len(s) : s[i] \in Int
  BY ElementOfSeq
<1>2. Len(s) \in Nat
  BY LenProperties
<1>3. Squared(s) \in [1..Len(s) -> Int]
  BY <1>1 DEF Squared
<1>4. Squared(s) \in Seq(Int)
  BY <1>2, <1>3, SeqDef
<1>5. QED BY <1>2, <1>3, <1>4, LenProperties DEF Squared

\* The sums of the reference are such as the step of the statistics needs.
Totals == [s \in Seq(Int) |-> Total(s)]
TotalsOfSquares == [s \in Seq(Int) |-> Total(Squared(s))]

LEMMA TotalsAddUp == AddsUp(Totals, Itself)
<1>1. Totals \in [Seq(Int) -> Int]
  BY TotalIsNumber DEF Totals
<1>2. Totals[<<>>] = 0
  BY TotalOfNothing, EmptySeq DEF Totals
<1>3. ASSUME NEW s \in Seq(Int), NEW x \in Int
      PROVE  Totals[Append(s, x)] = Totals[s] + Itself[x]
  <2>1. Append(s, x) \in Seq(Int)
    BY AppendProperties
  <2>2. QED BY <2>1, TotalAppend DEF Totals, Itself
<1>4. ASSUME NEW s \in Seq(Int) \ {<<>>}
      PROVE  Totals[s] = Itself[Head(s)] + Totals[Tail(s)]
  <2>1. Head(s) \in Int /\ Tail(s) \in Seq(Int)
    BY HeadTailProperties
  <2>2. QED BY <2>1, TotalHeadTail DEF Totals, Itself
<1>5. QED BY <1>1, <1>2, <1>3, <1>4 DEF AddsUp

LEMMA SquaresAddUp == AddsUp(TotalsOfSquares, Square)
<1>1. TotalsOfSquares \in [Seq(Int) -> Int]
  BY TotalIsNumber, SquaredIsSeq DEF TotalsOfSquares
<1>2. TotalsOfSquares[<<>>] = 0
  <2>1. <<>> \in Seq(Int) /\ Len(<<>>) = 0
    BY EmptySeq
  <2>2. Squared(<<>>) \in Seq(Int) /\ Len(Squared(<<>>)) = 0
    BY <2>1, SquaredIsSeq
  <2>3. Squared(<<>>) = <<>>
    BY <2>2, EmptySeq
  <2>4. QED BY <2>1, <2>3, TotalOfNothing DEF TotalsOfSquares
<1>3. ASSUME NEW s \in Seq(Int), NEW x \in Int
      PROVE  TotalsOfSquares[Append(s, x)] = TotalsOfSquares[s] + Square[x]
  <2>1. PICK t, q, r, y : t = Append(s, x) /\ q = Squared(s) /\ r = Squared(t) /\ y = x * x
    OBVIOUS
  <2>2. /\ t \in Seq(Int) /\ Len(t) = Len(s) + 1 /\ t[Len(s) + 1] = x
        /\ \A i \in 1..Len(s) : t[i] = s[i]
    BY <2>1, AppendProperties
  <2>3. /\ q \in Seq(Int) /\ Len(q) = Len(s) /\ y \in Int
        /\ \A i \in 1..Len(s) : q[i] = s[i] * s[i]
    BY <2>1, SquaredIsSeq
  <2>4. /\ r \in Seq(Int) /\ Len(r) = Len(s) + 1
        /\ \A i \in 1..(Len(s) + 1) : r[i] = t[i] * t[i]
    BY <2>1, <2>2, SquaredIsSeq
  <2>5. PICK u : u = Append(q, y)
    OBVIOUS
  <2>6. /\ u \in Seq(Int) /\ Len(u) = Len(s) + 1 /\ u[Len(s) + 1] = y
        /\ \A i \in 1..Len(s) : u[i] = q[i]
    BY <2>3, <2>5, AppendProperties
  <2>7. \A i \in 1..Len(r) : r[i] = u[i]
    <3> SUFFICES ASSUME NEW i \in 1..(Len(s) + 1)
                 PROVE  r[i] = u[i]
      BY <2>4
    <3>1. Len(s) \in Nat /\ r[i] = t[i] * t[i]
      BY <2>4, LenProperties
    <3>2. CASE i = Len(s) + 1
      BY <2>1, <2>2, <2>6, <3>1, <3>2
    <3>3. CASE i # Len(s) + 1
      <4>1. i \in 1..Len(s)
        BY <3>1, <3>3
      <4>2. QED BY <2>2, <2>3, <2>6, <3>1, <4>1
    <3>4. QED BY <3>2, <3>3
  <2>8. r = u
    BY ONLY <2>4, <2>6, <2>7, SeqEqual
  <2>9. Total(u) = Total(q) + y
    BY <2>3, <2>5, TotalAppend
  <2>10. QED BY <2>1, <2>2, <2>8, <2>9 DEF TotalsOfSquares, Square
<1>4. ASSUME NEW s \in Seq(Int) \ {<<>>}
      PROVE  TotalsOfSquares[s] = Square[Head(s)] + TotalsOfSquares[Tail(s)]
  <2>1. PICK x, t, q, r : x = Head(s) /\ t = Tail(s) /\ q = Squared(s) /\ r = Squared(t)
    OBVIOUS
  <2>2. /\ x \in Int /\ t \in Seq(Int) /\ Len(t) = Len(s) - 1 /\ s[1] = x
        /\ \A i \in 1..Len(t) : t[i] = s[i + 1]
    BY <2>1, HeadTailProperties
  <2>3. /\ q \in Seq(Int) /\ Len(q) = Len(s) /\ Len(s) \in Nat \ {0}
        /\ \A i \in 1..Len(s) : q[i] = s[i] * s[i]
    BY <2>1, SquaredIsSeq, EmptySeq
  <2>4. /\ r \in Seq(Int) /\ Len(r) = Len(s) - 1
        /\ \A i \in 1..(Len(s) - 1) : r[i] = t[i] * t[i]
    BY <2>1, <2>2, SquaredIsSeq
  <2>5. q # <<>>
    BY <2>3, EmptySeq
  <2>6. PICK u : u = Tail(q)
    OBVIOUS
  <2>7. /\ u \in Seq(Int) /\ Len(u) = Len(s) - 1
        /\ \A i \in 1..(Len(s) - 1) : u[i] = q[i + 1]
        /\ Head(q) = q[1]
    BY <2>3, <2>5, <2>6, HeadTailProperties
  <2>8. \A i \in 1..Len(r) : r[i] = u[i]
    <3> SUFFICES ASSUME NEW i \in 1..(Len(s) - 1)
                 PROVE  r[i] = u[i]
      BY <2>4
    <3>1. i + 1 \in 1..Len(s)
      BY <2>3
    <3>2. QED BY <2>2, <2>3, <2>4, <2>7, <3>1
  <2>9. r = u
    BY ONLY <2>4, <2>7, <2>8, SeqEqual
  <2>10. q[1] = x * x
    <3>1. 1 \in 1..Len(s)
      BY <2>3
    <3>2. q[1] = s[1] * s[1]
      BY <2>3, <3>1
    <3>3. QED BY <2>2, <3>2
  <2>11. Total(q) = Head(q) + Total(u)
    BY <2>3, <2>5, <2>6, TotalHeadTail
  <2>12. QED BY <2>1, <2>2, <2>7, <2>9, <2>10, <2>11 DEF TotalsOfSquares, Square
<1>5. QED BY <1>1, <1>2, <1>3, <1>4 DEF AddsUp

-----------------------------------------------------------------------------
\* Signs of products.
LEMMA SquareNotNegative ==
    ASSUME NEW d \in Int
    PROVE  d * d \in Int /\ d * d >= 0
OBVIOUS

LEMMA FactorNotNegative ==
    ASSUME NEW n \in Nat \ {0}, NEW b \in Int, n * b >= 0
    PROVE  b >= 0
OBVIOUS

LEMMA FactorKeepsOrder ==
    ASSUME NEW n \in Nat \ {0}, NEW a \in Int, NEW b \in Int
    PROVE  n * a > n * b <=> a > b
OBVIOUS

LEMMA SpreadBySums ==
    ASSUME NEW s \in Seq(Int)
    PROVE  /\ Spread(s) = Len(s) * TotalsOfSquares[s] - Totals[s] * Totals[s]
           /\ Len(s) \in Nat /\ TotalsOfSquares[s] \in Int /\ Totals[s] \in Int
BY LenProperties, TotalsAddUp, SquaresAddUp DEF Spread, TotalsOfSquares, Totals, AddsUp

\* No samples deviate less than not at all: by the identity of the update, one
\* more sample adds a square.
LEMMA SpreadNotNegative ==
    ASSUME NEW s \in Seq(Int)
    PROVE  Spread(s) \in Int /\ Spread(s) >= 0
<1> DEFINE S == {n \in Nat : \A t \in Seq(Int) : Len(t) = n => Spread(t) >= 0}
<1>1. PICK N \in Nat : N = Len(s)
  BY LenProperties
<1>2. 0 \in S
  <2>1. ASSUME NEW t \in Seq(Int), Len(t) = 0
        PROVE  Spread(t) >= 0
    <3>1. t = <<>>
      BY <2>1, EmptySeq
    <3>2. Totals[t] = 0
      BY <3>1, TotalsAddUp DEF AddsUp
    <3>3. Spread(t) = 0
      <4>1. PICK q \in Int : q = TotalsOfSquares[t]
        BY SpreadBySums
      <4>2. Spread(t) = 0 * q - 0 * 0
        BY <2>1, <3>2, <4>1, SpreadBySums
      <4>3. QED BY <4>2
    <3>4. QED BY <3>3
  <2>2. QED BY <2>1
<1>3. ASSUME NEW n \in 1..N, n - 1 \in S
      PROVE  n \in S
  <2> SUFFICES ASSUME NEW t \in Seq(Int), Len(t) = n
               PROVE  Spread(t) >= 0
    OBVIOUS
  <2>1. t # <<>>
    BY EmptySeq
  <2>2. PICK x, r, k : x = Head(t) /\ r = Tail(t) /\ k = n - 1
    OBVIOUS
  <2>3. x \in Int /\ r \in Seq(Int) /\ Len(r) = k /\ k \in Nat /\ n = k + 1
    BY <2>1, <2>2, HeadTailProperties
  <2>4. PICK s1 \in Int, s2 \in Int : s1 = Totals[r] /\ s2 = TotalsOfSquares[r]
    BY <2>3, SpreadBySums
  <2>5. Totals[t] = s1 + x /\ TotalsOfSquares[t] = s2 + x * x
    <3>1. t \in Seq(Int) \ {<<>>}
      BY <2>1
    <3>2. Totals[t] = Itself[x] + s1 /\ TotalsOfSquares[t] = Square[x] + s2
      BY <2>2, <2>4, <3>1, TotalsAddUp, SquaresAddUp DEF AddsUp
    <3>3. Itself[x] = x /\ Square[x] = x * x
      BY <2>3 DEF Itself, Square
    <3>4. x * x \in Int
      BY <2>3
    <3>5. QED BY <2>3, <3>2, <3>3, <3>4
  <2>6. PICK A \in Int, B \in Int, d \in Int :
          /\ A = k * s2 - s1 * s1 /\ d = k * x - s1
          /\ B = (k + 1) * (s2 + x * x) - (s1 + x) * (s1 + x)
    BY <2>3
  <2>7. Spread(r) = A
    BY <2>3, <2>4, <2>6, SpreadBySums
  <2>8. Spread(t) = B
    <3>1. Spread(t) = n * TotalsOfSquares[t] - Totals[t] * Totals[t]
      BY SpreadBySums
    <3>2. QED BY <2>3, <2>5, <2>6, <3>1
  <2>9. A >= 0
    BY <1>3, <2>2, <2>3, <2>7
  <2>10. (k + 1) * A + d * d = k * B
    BY ONLY <2>3, <2>6, WelfordIdentity
  <2>11. CASE k = 0
    <3>1. r = <<>>
      BY <2>3, <2>11, EmptySeq
    <3>2. s1 = 0 /\ s2 = 0
      BY <2>4, <3>1, TotalsAddUp, SquaresAddUp DEF AddsUp
    <3>3. B = 0
      BY ONLY <2>3, <2>6, <2>11, <3>2
    <3>4. QED BY <2>8, <3>3
  <2>12. CASE k # 0
    <3>1. d * d \in Int /\ d * d >= 0
      BY SquareNotNegative
    <3>2. (k + 1) * A \in Int /\ (k + 1) * A >= 0
      BY ONLY <2>3, <2>9, A \in Int
    <3>3. k * B >= 0
      <4>1. PICK y \in Int, z \in Int : y = (k + 1) * A /\ z = d * d
        BY <3>1, <3>2
      <4>2. k * B = y + z /\ y >= 0 /\ z >= 0
        BY <2>10, <3>1, <3>2, <4>1
      <4>3. QED BY ONLY <4>2, y \in Int, z \in Int
    <3>4. B >= 0
      BY ONLY <2>3, <2>12, <3>3, B \in Int, FactorNotNegative
    <3>5. QED BY <2>8, <3>4
  <2>13. QED BY <2>11, <2>12
<1> HIDE DEF S
<1>4. \A n \in 1..N : n - 1 \in S => n \in S
  BY <1>3
<1>5. \A n \in 0..N : n \in S
  BY ONLY N \in Nat, <1>2, <1>4, Upwards
<1>6. Spread(s) >= 0
  BY <1>1, <1>5 DEF S
<1>7. Spread(s) \in Int
  BY SpreadBySums
<1>8. QED BY <1>6, <1>7

\* The statistics with the sums of the reference.
Exact(stats) == ExactFor(stats, Totals, TotalsOfSquares)

LEMMA ExactByWindow ==
    ASSUME NEW stats, Exact(stats)
    PROVE  /\ stats.samples \in Seq(Int) /\ stats.count = Len(stats.samples)
           /\ stats.count \in Nat /\ stats.mean \in Int /\ stats.m2 \in Int
           /\ stats.count = 0 => stats.mean = 0 /\ stats.m2 = 0
           /\ stats.count * stats.mean = Scale * Total(stats.samples)
           /\ stats.count * stats.m2 = (Scale * Scale) * Spread(stats.samples)
<1>1. /\ stats.samples \in Seq(Int) /\ stats.count = Len(stats.samples)
      /\ stats.mean \in Int /\ stats.m2 \in Int
      /\ stats.count = 0 => stats.mean = 0 /\ stats.m2 = 0
      /\ stats.count * stats.mean = Scale * Totals[stats.samples]
      /\ stats.count * stats.m2 = (Scale * Scale)
            * (stats.count * TotalsOfSquares[stats.samples]
                - Totals[stats.samples] * Totals[stats.samples])
  BY DEF Exact, ExactFor, Moments
<1>2. Totals[stats.samples] = Total(stats.samples)
  BY <1>1 DEF Totals
<1>3. Spread(stats.samples) = Len(stats.samples) * TotalsOfSquares[stats.samples]
                                - Totals[stats.samples] * Totals[stats.samples]
  BY <1>1, SpreadBySums
<1>4. stats.count \in Nat
  BY <1>1, LenProperties
<1>5. QED BY <1>1, <1>2, <1>3, <1>4

LEMMA DeviationsNotNegative ==
    ASSUME NEW stats, Exact(stats)
    PROVE  stats.m2 >= 0
<1>1. PICK n \in Nat, m \in Int, a \in Int, q \in Int :
        /\ n = stats.count /\ m = stats.m2 /\ a = Spread(stats.samples) /\ q = Scale * Scale
        /\ n * m = q * a
        /\ n = 0 => m = 0
        /\ a >= 0 /\ q >= 0
  <2>1. Scale \in Int
    BY LatencyAssumption
  <2>2. Scale * Scale \in Int /\ Scale * Scale >= 0
    BY <2>1, SquareNotNegative
  <2>3. Spread(stats.samples) \in Int /\ Spread(stats.samples) >= 0
    BY ExactByWindow, SpreadNotNegative
  <2>4. QED BY <2>2, <2>3, ExactByWindow
<1>2. q * a >= 0
  BY <1>1
<1>3. n * m >= 0
  BY <1>1, <1>2
<1>4. CASE n = 0
  BY <1>1, <1>4
<1>5. CASE n # 0
  <2>1. m >= 0
    BY ONLY <1>3, <1>5, n \in Nat, m \in Int, FactorNotNegative
  <2>2. QED BY <1>1, <2>1
<1>6. QED BY <1>4, <1>5

\* The test of the code, without divisions, is the one on the window itself.
LEMMA AlarmIsOutlier ==
    ASSUME NEW stats, Exact(stats), NEW x \in Int
    PROVE  IsAnomaly(stats, x) <=> Outlier(stats.samples, x)
<1> DEFINE s == stats.samples
<1>1. PICK n \in Nat : n = stats.count /\ n = Len(s)
  BY ExactByWindow
<1>2. PICK u \in Int : u = stats.mean
  BY ExactByWindow
<1>3. PICK m \in Int : m = stats.m2
  BY ExactByWindow
<1>4. PICK t \in Int : t = Total(s)
  BY ExactByWindow, TotalIsNumber
<1>5. PICK a \in Int : a = Spread(s)
  BY ExactByWindow, SpreadNotNegative
<1>6. PICK L \in Nat \ {0} : L = Scale
  BY LatencyAssumption
<1> HIDE DEF s
<1>7. /\ n * u = L * t /\ n * m = (L * L) * a
      /\ n = 0 => m = 0 /\ t = 0
      /\ m >= 0
  <2>1. n * u = L * t /\ n * m = (L * L) * a /\ (n = 0 => m = 0)
    BY <1>1, <1>2, <1>3, <1>4, <1>5, <1>6, ExactByWindow DEF s
  <2>2. ASSUME n = 0
        PROVE  t = 0
    <3>1. s = <<>>
      BY <1>1, <2>2, ExactByWindow, EmptySeq DEF s
    <3>2. QED BY <1>4, <3>1, TotalOfNothing
  <2>3. m >= 0
    BY <1>3, DeviationsNotNegative
  <2>4. QED BY <2>1, <2>2, <2>3
<1>8. PICK e \in Int, E \in Int : e = L * x - u /\ E = n * x - t
  <2>1. L * x - u \in Int /\ n * x - t \in Int
    BY ONLY n \in Nat, L \in Nat \ {0}, x \in Int, u \in Int, t \in Int
  <2>2. QED BY ONLY <2>1
<1>9. IsAnomaly(stats, x) <=> n >= MinAnomalySamples /\ e > 0 /\ (e * e) * n > 9 * m
  BY <1>1, <1>2, <1>3, <1>6, <1>7, <1>8 DEF IsAnomaly, s
<1>10. Outlier(stats.samples, x) <=> n >= MinAnomalySamples /\ E > 0 /\ E * E > 9 * a
  BY <1>1, <1>4, <1>5, <1>8 DEF Outlier, s
<1>11. CASE n = 0
  <2>1. E = 0
    BY <1>7, <1>8, <1>11
  <2>2. ~((e * e) * n > 9 * m)
    BY <1>7, <1>11
  <2>3. QED BY <1>9, <1>10, <2>1, <2>2
<1>12. CASE n # 0
  <2>1. n \in Nat \ {0} /\ L * L \in Nat \ {0}
    BY <1>12
  <2>2. n * e = L * E
    <3>1. n * e = L * (n * x) - n * u
      BY ONLY <1>8, n \in Nat, L \in Nat \ {0}, u \in Int, x \in Int
    <3>2. L * E = L * (n * x) - L * t
      BY ONLY <1>8, n \in Nat, L \in Nat \ {0}, t \in Int, x \in Int
    <3>3. QED BY <1>7, <3>1, <3>2
  <2>3. e > 0 <=> E > 0
    <3>1. n * e > n * 0 <=> e > 0
      BY ONLY <2>1, e \in Int, 0 \in Int, FactorKeepsOrder
    <3>2. L * E > L * 0 <=> E > 0
      BY ONLY L \in Nat \ {0}, E \in Int, 0 \in Int, FactorKeepsOrder
    <3>3. n * 0 = 0 /\ L * 0 = 0
      OBVIOUS
    <3>4. QED BY <2>2, <3>1, <3>2, <3>3
  <2>4. (e * e) * n > 9 * m <=> E * E > 9 * a
    <3>1. PICK p \in Int, q \in Int, P \in Int, Q \in Int, K \in Nat \ {0} :
            p = (e * e) * n /\ q = 9 * m /\ P = E * E /\ Q = 9 * a /\ K = L * L
      BY <2>1
    <3>2. n * p = K * P
      <4>1. n * p = (n * e) * (n * e)
        BY ONLY <3>1, n \in Nat, e \in Int
      <4>2. (L * E) * (L * E) = K * P
        BY ONLY <3>1, L \in Nat \ {0}, E \in Int
      <4>3. QED BY ONLY <2>2, <4>1, <4>2
    <3>3. n * q = K * Q
      <4>1. n * q = 9 * (n * m)
        BY ONLY <3>1, n \in Nat, m \in Int
      <4>2. 9 * (K * a) = K * Q
        BY ONLY <3>1, K \in Nat \ {0}, a \in Int
      <4>3. n * m = K * a
        BY <1>7, <3>1
      <4>4. QED BY ONLY <4>1, <4>2, <4>3
    <3>4. n * p > n * q <=> p > q
      BY ONLY <2>1, p \in Int, q \in Int, FactorKeepsOrder
    <3>5. K * P > K * Q <=> P > Q
      BY ONLY K \in Nat \ {0}, P \in Int, Q \in Int, FactorKeepsOrder
    <3>6. p > q <=> P > Q
      BY ONLY <3>2, <3>3, <3>4, <3>5
    <3>7. QED BY ONLY <3>1, <3>6
  <2>5. QED BY <1>9, <1>10, <2>3, <2>4
<1>13. QED BY <1>11, <1>12

LEMMA AddedStaysExact ==
    ASSUME NEW stats, Exact(stats), NEW x \in Int
    PROVE  /\ Exact(Added(stats, x))
           /\ Added(stats, x).samples
                = Append(IF Len(stats.samples) = LatencyWindow THEN Tail(stats.samples)
                         ELSE stats.samples, x)
<1>1. ExactFor(stats, Totals, TotalsOfSquares)
  BY DEF Exact
<1>2. AddsUp(Totals, Itself) /\ AddsUp(TotalsOfSquares, Square)
  BY TotalsAddUp, SquaresAddUp
<1>3. /\ ExactFor(Added(stats, x), Totals, TotalsOfSquares)
      /\ Added(stats, x).samples
           = Append(IF Len(stats.samples) = LatencyWindow THEN Tail(stats.samples)
                    ELSE stats.samples, x)
  BY ONLY <1>1, <1>2, x \in Int, WindowStaysExact, Zenon
<1>4. QED BY <1>3 DEF Exact

-----------------------------------------------------------------------------
\* Any history of latencies: the states of the monitor after each of them.
MonitorState ==
    {state \in [stats : [samples : Seq(Int), mean : Int, count : Int, m2 : Int],
                alarm : BOOLEAN] : Exact(state.stats)}

NoLatency == [stats |-> NoStats, alarm |-> FALSE]

ProcessesOf(f, history, N) ==
    /\ f \in [0..N -> MonitorState] /\ f[0] = NoLatency
    /\ \A n \in 1..N : f[n] = Process(f[n - 1], history[n])

LEMMA NoLatencyIsState == NoLatency \in MonitorState
<1>1. Exact(NoStats)
  BY NoStatsExact, TotalsAddUp, SquaresAddUp DEF Exact
<1>2. NoStats \in [samples : Seq(Int), mean : Int, count : Int, m2 : Int]
  BY EmptySeq DEF NoStats
<1>3. QED BY <1>1, <1>2 DEF MonitorState, NoLatency

LEMMA ProcessKeepsState ==
    ASSUME NEW state \in MonitorState, NEW x \in Int
    PROVE  Process(state, x) \in MonitorState
<1>1. PICK stats : stats = state.stats /\ Exact(stats)
  BY DEF MonitorState
<1>2. PICK new : new = Added(stats, x)
  OBVIOUS
<1>3. Exact(new)
  BY <1>1, <1>2, AddedStaysExact
<1>4. /\ new.samples \in Seq(Int) /\ new.mean \in Int /\ new.count \in Int
      /\ new.m2 \in Int
  BY <1>3, ExactByWindow
<1>5. new = [samples |-> new.samples, count |-> new.count, mean |-> new.mean, m2 |-> new.m2]
  BY <1>2 DEF Added
<1>6. new \in [samples : Seq(Int), mean : Int, count : Int, m2 : Int]
  BY <1>4, <1>5
<1>7. IsAnomaly(stats, x) \in BOOLEAN
  BY DEF IsAnomaly
<1>8. Process(state, x) = [stats |-> new, alarm |-> IsAnomaly(stats, x)]
  BY <1>1, <1>2 DEF Process
<1>9. QED BY <1>3, <1>6, <1>7, <1>8 DEF MonitorState

LEMMA ProcessedRun ==
    ASSUME NEW history \in Seq(Int)
    PROVE  \E f : /\ ProcessesOf(f, history, Len(history))
                  /\ Processed(history) = f[Len(history)]
<1> DEFINE Body(f) == [n \in 0..Len(history) |->
                         IF n = 0 THEN [stats |-> NoStats, alarm |-> FALSE]
                         ELSE Process(f[n - 1], history[n])]
           g == CHOOSE f : f = Body(f)
<1>1. PICK N \in Nat : N = Len(history)
  BY LenProperties
<1>2. \A n \in 1..N : history[n] \in Int
  BY <1>1, ElementOfSeq
<1>3. PICK f : ProcessesOf(f, history, N)
  <2> DEFINE step == [n \in 1..N |-> [state \in MonitorState |-> Process(state, history[n])]]
  <2>1. step \in [1..N -> [MonitorState -> MonitorState]]
    BY <1>2, ProcessKeepsState
  <2>2. \A n \in 1..N, state \in MonitorState : step[n][state] = Process(state, history[n])
    OBVIOUS
  <2> HIDE DEF step
  <2>3. PICK f : RunOf(f, N, MonitorState, NoLatency, step)
    <3>1. StepsTo(N, MonitorState, step)
      BY <2>1 DEF StepsTo
    <3>2. QED BY ONLY <3>1, N \in Nat, NoLatencyIsState, RunExists
  <2>4. ASSUME NEW n \in 1..N
        PROVE  f[n] = Process(f[n - 1], history[n])
    <3>1. f[n - 1] \in MonitorState
      BY <2>3 DEF RunOf
    <3>2. QED BY <2>2, <2>3, <3>1 DEF RunOf
  <2>5. QED BY <2>3, <2>4 DEF RunOf, ProcessesOf
<1>4. f = Body(f)
  <2>1. \A n \in 0..N : f[n] = IF n = 0 THEN [stats |-> NoStats, alarm |-> FALSE]
                               ELSE Process(f[n - 1], history[n])
    BY <1>3 DEF ProcessesOf, NoLatency
  <2>2. DOMAIN f = 0..N /\ f = [n \in 0..N |-> f[n]]
    BY <1>3 DEF ProcessesOf
  <2>3. QED BY <1>1, <2>1, <2>2
<1>5. Processed(history) = g[N]
  BY <1>1 DEF Processed
<1>6. g = Body(g)
  BY <1>4
<1> HIDE DEF g
<1>7. /\ DOMAIN g = 0..N /\ g[0] = NoLatency
      /\ \A n \in 1..N : g[n] = Process(g[n - 1], history[n])
  <2>1. DOMAIN g = 0..N
    BY <1>1, <1>6
  <2>2. ASSUME NEW n \in 0..N
        PROVE  g[n] = IF n = 0 THEN NoLatency ELSE Process(g[n - 1], history[n])
    <3>1. g[n] = Body(g)[n]
      BY <1>6
    <3>2. QED BY <1>1, <3>1 DEF NoLatency
  <2>3. QED BY <2>1, <2>2
<1>8. \A n \in 0..N : g[n] \in MonitorState
  <2> DEFINE S == {n \in 0..N : g[n] \in MonitorState}
  <2>1. ASSUME NEW n \in 1..N, g[n - 1] \in MonitorState
        PROVE  g[n] \in MonitorState
    <3>1. g[n] = Process(g[n - 1], history[n]) /\ history[n] \in Int
      BY <1>2, <1>7
    <3>2. QED BY <2>1, <3>1, ProcessKeepsState
  <2>2. 0 \in S /\ \A n \in 1..N : n - 1 \in S => n \in S
    BY <1>7, <2>1, NoLatencyIsState
  <2> HIDE DEF S
  <2>3. \A n \in 0..N : n \in S
    BY ONLY N \in Nat, <2>2, Upwards
  <2>4. QED BY <2>3 DEF S
<1>9. g = [n \in 0..N |-> g[n]]
  BY <1>1, <1>6
<1>10. g \in [0..N -> MonitorState]
  BY <1>8, <1>9
<1>11. QED BY <1>1, <1>5, <1>7, <1>10 DEF ProcessesOf

\* The last ones of the first n latencies, as many as fit into the window.
LastOf(w, history, n) ==
    /\ w \in Seq(Int)
    /\ Len(w) = IF n > LatencyWindow THEN LatencyWindow ELSE n
    /\ \A i \in 1..Len(w) : w[i] = history[n - Len(w) + i]

LEMMA LastIsWindow ==
    ASSUME NEW history \in Seq(Int), NEW w, LastOf(w, history, Len(history))
    PROVE  w = WindowOf(history)
<1>1. PICK N \in Nat, W \in Nat \ {0} : N = Len(history) /\ W = LatencyWindow
  BY LenProperties, LatencyAssumption
<1>2. PICK first, v :
        /\ first = IF N > W THEN N - W + 1 ELSE 1
        /\ v = SubSeq(history, first, N)
  OBVIOUS
<1>3. first \in 1..(N + 1)
  BY <1>2
<1>4. \A i \in first..N : history[i] \in Int
  BY <1>1, <1>3, ElementOfSeq
<1>5. /\ v \in Seq(Int) /\ Len(v) = IF first <= N THEN N - first + 1 ELSE 0
      /\ \A i \in 1..(N - first + 1) : v[i] = history[first + i - 1]
  <2>1. first \in Int /\ N \in Int
    BY <1>3
  <2>2. QED BY <1>2, <1>4, <2>1, SubSeqProperties
<1>6. w \in Seq(Int) /\ Len(w) = (IF N > W THEN W ELSE N)
      /\ \A i \in 1..Len(w) : w[i] = history[N - Len(w) + i]
  BY <1>1 DEF LastOf
<1>7. Len(v) = Len(w) /\ N - Len(w) = first - 1 /\ N - first + 1 = Len(w)
  BY <1>2, <1>5, <1>6
<1>8. \A i \in 1..Len(w) : w[i] = v[i]
  <2> SUFFICES ASSUME NEW i \in 1..Len(w)
               PROVE  w[i] = v[i]
    OBVIOUS
  <2>1. v[i] = history[first + i - 1]
    BY <1>5, <1>7
  <2>2. w[i] = history[N - Len(w) + i]
    BY <1>6
  <2>3. first + i - 1 = N - Len(w) + i
    BY <1>3, <1>6, <1>7
  <2>4. QED BY <2>1, <2>2, <2>3
<1>9. w = v
  BY <1>5, <1>6, <1>7, <1>8, SeqEqual
<1>10. QED BY <1>1, <1>2, <1>9 DEF WindowOf

LEMMA WindowSlides ==
    ASSUME NEW history \in Seq(Int), NEW n \in 1..Len(history),
           NEW w, LastOf(w, history, n - 1)
    PROVE  LastOf(Append(IF Len(w) = LatencyWindow THEN Tail(w) ELSE w, history[n]),
                  history, n)
<1>1. PICK x, v, W : /\ x = history[n] /\ W = LatencyWindow
                     /\ v = IF Len(w) = W THEN Tail(w) ELSE w
  OBVIOUS
<1>2. x \in Int /\ W \in Nat \ {0} /\ n \in Nat
  BY <1>1, ElementOfSeq, LenProperties, LatencyAssumption
<1>3. /\ w \in Seq(Int) /\ Len(w) = (IF n - 1 > W THEN W ELSE n - 1)
      /\ \A i \in 1..Len(w) : w[i] = history[n - 1 - Len(w) + i]
  BY <1>1 DEF LastOf
<1>4. PICK k \in Nat : k = IF n > W THEN W - 1 ELSE n - 1
  BY <1>2
<1>5. /\ v \in Seq(Int) /\ Len(v) = k
      /\ \A i \in 1..k : v[i] = history[n - 1 - k + i]
  <2>1. CASE Len(w) = W
    <3>1. k = W - 1 /\ w # <<>>
      BY <1>2, <1>3, <1>4, <2>1, EmptySeq
    <3>2. /\ v \in Seq(Int) /\ Len(v) = k
          /\ \A i \in 1..k : v[i] = w[i + 1]
      BY <1>1, <1>3, <2>1, <3>1, HeadTailProperties
    <3>3. ASSUME NEW i \in 1..k
          PROVE  v[i] = history[n - 1 - k + i]
      <4>1. i + 1 \in 1..Len(w) /\ n - 1 - Len(w) + (i + 1) = n - 1 - k + i
        BY <1>2, <2>1, <3>1
      <4>2. QED BY <1>3, <3>2, <4>1
    <3>4. QED BY <3>2, <3>3
  <2>2. CASE Len(w) # W
    <3>1. Len(w) = k /\ v = w
      BY <1>1, <1>2, <1>3, <1>4, <2>2
    <3>2. QED BY <1>3, <3>1
  <2>3. QED BY <2>1, <2>2
<1>6. PICK u : u = Append(v, x)
  OBVIOUS
<1>7. /\ u \in Seq(Int) /\ Len(u) = k + 1 /\ u[k + 1] = x
      /\ \A i \in 1..k : u[i] = v[i]
  BY <1>2, <1>5, <1>6, AppendProperties
<1>8. k + 1 = IF n > W THEN W ELSE n
  BY <1>2, <1>4
<1>9. ASSUME NEW i \in 1..(k + 1)
      PROVE  u[i] = history[n - (k + 1) + i]
  <2>1. CASE i = k + 1
    <3>1. n - (k + 1) + i = n
      BY <1>2, <2>1
    <3>2. QED BY <1>1, <1>7, <2>1, <3>1
  <2>2. CASE i # k + 1
    <3>1. i \in 1..k /\ n - (k + 1) + i = n - 1 - k + i
      BY <1>2, <2>2
    <3>2. QED BY <1>5, <1>7, <3>1
  <2>3. QED BY <2>1, <2>2
<1>10. LastOf(u, history, n)
  BY <1>1, <1>7, <1>8, <1>9 DEF LastOf
<1>11. QED BY <1>1, <1>6, <1>10

LEMMA SamplesAreLast ==
    ASSUME NEW history \in Seq(Int), NEW f, ProcessesOf(f, history, Len(history))
    PROVE  \A n \in 0..Len(history) : LastOf(f[n].stats.samples, history, n)
<1>1. PICK N \in Nat : N = Len(history)
  BY LenProperties
<1> DEFINE S == {n \in 0..N : LastOf(f[n].stats.samples, history, n)}
<1>2. 0 \in S
  <2>1. f[0].stats.samples = <<>>
    BY DEF ProcessesOf, NoLatency, NoStats
  <2>2. LastOf(<<>>, history, 0)
    BY EmptySeq, LatencyAssumption DEF LastOf
  <2>3. QED BY <2>1, <2>2
<1>3. ASSUME NEW n \in 1..N, n - 1 \in S
      PROVE  n \in S
  <2>1. PICK stats : stats = f[n - 1].stats
    OBVIOUS
  <2>2. /\ f[n] = Process(f[n - 1], history[n]) /\ history[n] \in Int
        /\ f[n - 1] \in MonitorState
    <3>1. n - 1 \in 0..N /\ n \in 1..N
      OBVIOUS
    <3>2. f \in [0..N -> MonitorState] /\ f[n] = Process(f[n - 1], history[n])
      BY <1>1, <3>1 DEF ProcessesOf
    <3>3. history[n] \in Int
      BY <1>1, <3>1, ElementOfSeq
    <3>4. f[n - 1] \in MonitorState
      BY ONLY <3>1, <3>2
    <3>5. QED BY <3>2, <3>3, <3>4
  <2>3. Exact(stats)
    BY <2>1, <2>2 DEF MonitorState
  <2>4. f[n].stats = Added(stats, history[n])
    <3>1. \A state, x : Process(state, x).stats = Added(state.stats, x)
      BY DEF Process
    <3>2. QED BY ONLY <2>1, <2>2, <3>1
  <2>5. Added(stats, history[n]).samples
          = Append(IF Len(stats.samples) = LatencyWindow THEN Tail(stats.samples)
                   ELSE stats.samples, history[n])
    <3>1. history[n] \in Int
      BY <2>2
    <3>2. QED BY ONLY <2>3, <3>1, AddedStaysExact
  <2>6. LastOf(stats.samples, history, n - 1)
    BY <1>3, <2>1
  <2>7. LastOf(f[n].stats.samples, history, n)
    BY <1>1, <2>4, <2>5, <2>6, WindowSlides
  <2>8. QED BY <2>7
<1> HIDE DEF S
<1>4. \A n \in 1..N : n - 1 \in S => n \in S
  BY <1>3
<1>5. \A n \in 0..N : n \in S
  BY ONLY N \in Nat, <1>2, <1>4, Upwards
<1>6. QED BY <1>1, <1>5 DEF S

\* Whatever latencies have come and gone, and whatever the size of the window:
\* the mean and the sum of squared deviations that are carried along are those of
\* the last ones, the sum never becomes negative, and an alarm is raised for
\* just the outliers (latency_monitor.rs:42-92, 104-137).
THEOREM StatisticsOfWindow ==
    ASSUME NEW history \in Seq(Int), NEW latency \in Int
    PROVE  ExactAfter(history, latency)
<1>1. PICK h, N : h = Append(history, latency) /\ N = Len(history)
  OBVIOUS
<1>2. /\ N \in Nat /\ h \in Seq(Int) /\ Len(h) = N + 1 /\ h[N + 1] = latency
      /\ \A i \in 1..N : h[i] = history[i]
  BY <1>1, LenProperties, AppendProperties
<1>3. PICK f : ProcessesOf(f, h, Len(h)) /\ Processed(h) = f[Len(h)]
  BY <1>2, ProcessedRun
<1>4. PICK new, old : new = f[N + 1].stats /\ old = f[N].stats
  OBVIOUS
<1>5. Exact(new) /\ Exact(old)
  <2>1. N \in 0..Len(h) /\ N + 1 \in 0..Len(h)
    BY <1>2
  <2>2. f[N] \in MonitorState /\ f[N + 1] \in MonitorState
    BY <1>3, <2>1 DEF ProcessesOf
  <2>3. QED BY <1>4, <2>2 DEF MonitorState
<1>6. \A n \in 0..Len(h) : LastOf(f[n].stats.samples, h, n)
  BY <1>2, <1>3, SamplesAreLast
<1>7. new.samples = WindowOf(h)
  <2>1. LastOf(new.samples, h, Len(h))
    BY <1>2, <1>4, <1>6
  <2>2. QED BY <1>2, <2>1, LastIsWindow
<1>8. old.samples = WindowOf(history)
  <2>1. LastOf(old.samples, h, N)
    BY <1>2, <1>4, <1>6
  <2>2. old.samples \in Seq(Int) /\ Len(old.samples) \in 0..N
    BY <1>2, <2>1, LatencyAssumption DEF LastOf
  <2>3. \A i \in 1..Len(old.samples) :
          old.samples[i] = history[N - Len(old.samples) + i]
    <3> SUFFICES ASSUME NEW i \in 1..Len(old.samples)
                 PROVE  old.samples[i] = history[N - Len(old.samples) + i]
      OBVIOUS
    <3>1. N - Len(old.samples) + i \in 1..N
      BY <1>2, <2>2
    <3>2. old.samples[i] = h[N - Len(old.samples) + i]
      BY <2>1 DEF LastOf
    <3>3. QED BY <1>2, <3>1, <3>2
  <2>4. LastOf(old.samples, history, N)
    BY <2>1, <2>3 DEF LastOf
  <2>5. QED BY <1>1, <2>4, LastIsWindow
<1>9. f[N + 1].alarm = IsAnomaly(old, latency)
  <2>1. f[N + 1] = Process(f[N], h[N + 1])
    <3>1. N + 1 \in 1..Len(h) /\ (N + 1) - 1 = N
      BY <1>2
    <3>2. QED BY <1>3, <3>1 DEF ProcessesOf
  <2>2. QED BY <1>2, <1>4, <2>1 DEF Process
<1>10. IsAnomaly(old, latency) <=> Outlier(WindowOf(history), latency)
  BY <1>5, <1>8, AlarmIsOutlier
<1>11. Processed(h) = f[N + 1]
  BY <1>2, <1>3
<1>12. /\ new.samples = WindowOf(h) /\ new.count = Len(WindowOf(h))
       /\ new.count * new.mean = Scale * Total(WindowOf(h))
       /\ new.m2 >= 0
       /\ new.count * new.m2 = (Scale * Scale) * Spread(WindowOf(h))
  BY <1>5, <1>7, ExactByWindow, DeviationsNotNegative
<1>13. QED
  BY <1>1, <1>4, <1>9, <1>10, <1>11, <1>12 DEF ExactAfter

-----------------------------------------------------------------------------
LEMMA TotalOfZeros ==
    ASSUME NEW s \in Seq(Int), \A i \in 1..Len(s) : s[i] = 0
    PROVE  Total(s) = 0
<1>1. PICK N \in Nat : N = Len(s)
  BY LenProperties
<1>2. PICK f : SumsOf(f, s, N) /\ Total(s) = f[N]
  BY <1>1, TotalRun
<1> DEFINE S == {n \in 0..N : f[n] = 0}
<1>3. 0 \in S
  BY <1>2 DEF SumsOf
<1>4. ASSUME NEW n \in 1..N, n - 1 \in S
      PROVE  n \in S
  <2>1. f[n] = f[n - 1] + s[n] /\ f[n - 1] = 0 /\ s[n] = 0
    BY <1>1, <1>2, <1>4 DEF SumsOf
  <2>2. QED BY <2>1
<1> HIDE DEF S
<1>5. \A n \in 1..N : n - 1 \in S => n \in S
  BY <1>4
<1>6. \A n \in 0..N : n \in S
  BY ONLY N \in Nat, <1>3, <1>5, Upwards
<1>7. f[N] = 0
  BY <1>6 DEF S
<1>8. QED BY <1>2, <1>7

\* A device that comes back always raises an alarm with the first ping it answers,
\* however long that took and whatever came before the failed pings that fill the
\* window: they have been reported as answered in no time
\* (heartbeat_worker.rs:198-205, latency_monitor.rs:104-137).
THEOREM ReturnAlwaysRaisesAlarm ==
    ASSUME NEW history \in Seq(Int), Len(history) >= LatencyWindow,
           \A i \in (Len(history) - LatencyWindow + 1)..Len(history) : history[i] = 0,
           NEW latency \in Nat \ {0}
    PROVE  Processed(Append(history, latency)).alarm
<1>1. PICK N \in Nat, W \in Nat \ {0} : N = Len(history) /\ W = LatencyWindow
  BY LenProperties, LatencyAssumption
<1>2. N >= W /\ W >= MinAnomalySamples /\ \A i \in (N - W + 1)..N : history[i] = 0
  BY <1>1, LatencyAssumption
<1>3. PICK z : z = SubSeq(history, N - W + 1, N)
  OBVIOUS
<1>4. z \in Seq(Int) /\ Len(z) = W /\ \A i \in 1..W : z[i] = 0
  <2>1. /\ N - W + 1 \in Int /\ N \in Int /\ N - W + 1 <= N
        /\ N - (N - W + 1) + 1 = W
    BY <1>2
  <2>2. \A i \in (N - W + 1)..N : history[i] \in Int
    BY <1>2
  <2>3. /\ z \in Seq(Int) /\ Len(z) = W
        /\ \A i \in 1..W : z[i] = history[(N - W + 1) + i - 1]
    BY <1>3, <2>1, <2>2, SubSeqProperties
  <2>4. \A i \in 1..W : (N - W + 1) + i - 1 \in (N - W + 1)..N
    BY <1>2
  <2>5. QED BY <1>2, <2>3, <2>4
<1>5. WindowOf(history) = z
  <2>1. (IF N > W THEN N - W + 1 ELSE 1) = N - W + 1
    BY <1>2
  <2>2. QED BY <1>1, <1>3, <2>1 DEF WindowOf
<1>6. Total(z) = 0
  BY <1>4, TotalOfZeros
<1>7. Total(Squared(z)) = 0
  <2>1. PICK q : q = Squared(z)
    OBVIOUS
  <2>2. q \in Seq(Int) /\ Len(q) = W /\ \A i \in 1..W : q[i] = z[i] * z[i]
    BY <1>4, <2>1, SquaredIsSeq
  <2>3. \A i \in 1..W : q[i] = 0
    BY <1>4, <2>2
  <2>4. QED BY <2>1, <2>2, <2>3, TotalOfZeros
<1>8. Spread(z) = 0
  BY <1>4, <1>6, <1>7 DEF Spread
<1>9. Outlier(z, latency)
  <2>1. PICK e \in Nat \ {0} : e = W * latency
    OBVIOUS
  <2>2. Len(z) * latency - Total(z) = e
    BY <1>4, <1>6, <2>1
  <2>3. e > 0 /\ e * e > 9 * 0
    BY <2>1
  <2>4. QED BY <1>2, <1>4, <1>8, <2>2, <2>3 DEF Outlier
<1>10. ExactAfter(history, latency)
  BY StatisticsOfWindow
<1>11. QED BY <1>5, <1>9, <1>10 DEF ExactAfter

\* So the statistics are exact after every heartbeat of the composed system.
THEOREM StatisticsAlwaysExact == StartedSpec => []StatisticsExact
<1>1. Histories \subseteq Seq(Int)
  <2>1. Reported \subseteq Int
    BY DEF Reported
  <2>2. ASSUME NEW n \in Nat, NEW h \in [1..n -> Reported]
        PROVE  h \in Seq(Int)
    <3>1. h \in [1..n -> Int]
      BY <2>1, <2>2
    <3>2. QED BY <3>1, SeqDef
  <2> SUFFICES ASSUME NEW history \in Histories
               PROVE  history \in Seq(Int)
    OBVIOUS
  <2>3. PICK n \in 0..MaxLatencies : history \in [1..n -> Reported]
    BY DEF Histories
  <2>4. n \in Nat
    OBVIOUS
  <2>5. QED BY ONLY <2>2, <2>3, <2>4
<1>2. AlwaysExact = Reported
  <2>1. Reported \subseteq Int
    BY DEF Reported
  <2>2. \A x \in Reported, history \in Histories : ExactAfter(history, x)
    BY <1>1, <2>1, StatisticsOfWindow
  <2>3. QED BY <2>2 DEF AlwaysExact
<1>3. Published \subseteq Reported
  BY DEF Published, Reported
<1>4. StatisticsExact
  BY <1>2, <1>3 DEF StatisticsExact
<1>5. QED BY <1>4, PTL
=============================================================================
