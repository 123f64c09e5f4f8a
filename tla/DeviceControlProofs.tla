------------------------- MODULE DeviceControlProofs -------------------------
(***************************************************************************)
(* Proofs about DeviceControl for any requests, devices, signal groups,    *)
(* capacities and pool threads: a request acts at most once, capacity is   *)
(* exact, and what the caller is told is true.                             *)
(***************************************************************************)
EXTENDS DeviceControl, HubSendProofs, FiniteSetTheorems

\* Every step of the request path is a step of the send pool, its callers or
\* its subscribers, or leaves them alone.
LEMMA DeviceStepsHub == [Next]_vars => [HubNext]_hubVars
<1> SUFFICES ASSUME [Next]_vars PROVE [HubNext]_hubVars
  OBVIOUS
<1>0. Requests = Single /\ Devices = Subscribers
  BY DeviceAssumption
<1>1. ASSUME NEW m \in Messages, Send(m) \/ SendRefused(m) \/ SendTimesOut(m)
      PROVE  [HubNext]_hubVars
  BY <1>1 DEF Send, SendRefused, SendTimesOut, HubNext
<1>2. ASSUME NEW r \in Requests,
             ReceiveResponse(r) \/ ResponseTimesOut(r) \/ ResponseDisconnected(r)
      PROVE  UNCHANGED hubVars
  BY <1>2 DEF ReceiveResponse, ResponseTimesOut, ResponseDisconnected
<1>3. CASE PoolStep
  BY <1>3 DEF PoolStep, HubNext
<1>4. ASSUME NEW d \in Devices, UpdateConfig(d) \/ IgnoreRequest(d) \/ BeginRequest(d)
      PROVE  [HubNext]_hubVars
  BY <1>0, <1>4 DEF UpdateConfig, IgnoreRequest, BeginRequest, HubNext
<1>5. ASSUME NEW d \in Devices, Connect(d) \/ ConnectFails(d) \/ AnswerStatus(d)
                \/ RefuseOperation(d) \/ SpawnOperation(d) \/ DeviceToggles(d)
      PROVE  UNCHANGED hubVars
  BY <1>5 DEF Connect, ConnectFails, AnswerStatus, RefuseOperation, SpawnOperation,
              DeviceToggles, Finish
<1>6. ASSUME NEW r \in Requests, TaskStep(r)
      PROVE  UNCHANGED hubVars
  BY <1>6 DEF TaskStep, StartTask, Execute, SendResponse, DropGuard
<1>7. CASE UNCHANGED vars
  BY <1>7 DEF vars
<1>8. QED
  BY <1>1, <1>2, <1>3, <1>4, <1>5, <1>6, <1>7 DEF Next, CallerStep, WorkerStep

\* The request path uses the send pool as any publisher does: what HubSendProofs
\* proves of the pool holds of it here.
THEOREM DeviceUsesHub == Spec => HubSpec
<1>1. Init => HubInit
  BY DEF Init
<1>2. QED BY <1>1, DeviceStepsHub, PTL DEF Spec, HubSpec

-----------------------------------------------------------------------------
\* The types of what DeviceControl adds to the hub.
RequestTypeOK ==
    /\ handling \in [Devices -> Requests \cup {NoMessage}]
    /\ connectTimeout \in [Devices -> BaseTimeout..MaxTimeout]
    /\ connectionState \in [Devices -> {"Disconnected", "Connecting", "Connected"}]
    /\ groups \in [Devices -> SUBSET Groups]
    /\ inFlight \in [Devices -> Nat]
    /\ stage \in [Requests -> Stage]
    /\ outcome \in [Requests -> Verdict]
    /\ applied \in [Requests -> Nat]
    /\ response \in [Requests -> Verdict]
    /\ reply \in [Requests -> Reply]

FlagTypeOK ==
    /\ reachable \in [Devices -> BOOLEAN]
    /\ connected \in [Devices -> BOOLEAN]
    /\ hasPool \in [Devices -> BOOLEAN]
    /\ resolved \in [Requests -> BOOLEAN]

LEMMA RequestTypeStep ==
    HubTypeOK /\ RequestTypeOK /\ [Next]_vars => RequestTypeOK'
<1> SUFFICES ASSUME HubTypeOK, RequestTypeOK, [Next]_vars PROVE RequestTypeOK'
  OBVIOUS
<1> USE DEF RequestTypeOK, Stage, Verdict, Reply
<1>0. /\ Requests = Single /\ Devices = Subscribers /\ Single \subseteq Messages
      /\ BaseTimeout \in Nat /\ MaxTimeout \in Nat /\ BaseTimeout <= MaxTimeout
  BY DeviceAssumption, HubAssumption
<1>1. ASSUME NEW m \in Messages, Send(m) \/ SendRefused(m) \/ SendTimesOut(m)
      PROVE  RequestTypeOK'
  BY <1>1 DEF Send, SendRefused, SendTimesOut, workerVars, taskVars, answerVars
<1>2. ASSUME NEW r \in Requests,
             ReceiveResponse(r) \/ ResponseTimesOut(r) \/ ResponseDisconnected(r)
      PROVE  RequestTypeOK'
  BY <1>2 DEF ReceiveResponse, ResponseTimesOut, ResponseDisconnected, workerVars, taskVars
<1>3. CASE PoolStep
  BY <1>3 DEF PoolStep, workerVars, taskVars, answerVars
<1>4. ASSUME NEW d \in Devices, UpdateConfig(d)
      PROVE  RequestTypeOK'
  <2>1. Head(mailbox[d]) \in ConfigUpdates
    BY <1>4 DEF UpdateConfig
  <2>2. NewGroups[Head(mailbox[d])] \in UNION {[D -> SUBSET Groups] : D \in SUBSET Devices}
    BY <2>1, DeviceAssumption
  <2>3. groups' \in [Devices -> SUBSET Groups]
    BY <1>4, <2>2 DEF UpdateConfig
  <2>4. QED BY <1>4, <2>3 DEF UpdateConfig, taskVars, answerVars
<1>5. ASSUME NEW d \in Devices, IgnoreRequest(d) \/ BeginRequest(d)
      PROVE  RequestTypeOK'
  <2>1. CASE IgnoreRequest(d)
    BY <2>1 DEF IgnoreRequest, workerVars, taskVars, answerVars
  <2>2. CASE BeginRequest(d)
    BY <2>2 DEF BeginRequest, workerVars, taskVars, answerVars
  <2> QED
    BY <1>5, <2>1, <2>2
<1>6. ASSUME NEW d \in Devices, Connect(d)
      PROVE  RequestTypeOK'
  BY <1>0, <1>6 DEF Connect, taskVars, answerVars
<1>7. ASSUME NEW d \in Devices, ConnectFails(d)
      PROVE  RequestTypeOK'
  <2>1. connectTimeout[d] \in Nat /\ BaseTimeout <= connectTimeout[d] /\ connectTimeout[d] <= MaxTimeout
    BY <1>0
  <2>2. Doubled(connectTimeout[d]) \in BaseTimeout..MaxTimeout
    BY ONLY <1>0, <2>1 DEF Doubled
  <2>3. handling[d] \in Requests
    BY <1>7 DEF ConnectFails, Idle
  <2>4. QED BY <1>7, <2>2, <2>3 DEF ConnectFails, taskVars, Respond
<1>8. ASSUME NEW d \in Devices, AnswerStatus(d) \/ RefuseOperation(d)
      PROVE  RequestTypeOK'
  BY <1>8 DEF AnswerStatus, RefuseOperation, Finish, Respond, Idle, taskVars
<1>9. ASSUME NEW d \in Devices, SpawnOperation(d)
      PROVE  RequestTypeOK'
  BY <1>9 DEF SpawnOperation, Finish, Idle, answerVars
<1>10. ASSUME NEW d \in Devices, DeviceToggles(d)
       PROVE  RequestTypeOK'
  BY <1>10 DEF DeviceToggles, workerVars, taskVars, answerVars
<1>11. ASSUME NEW r \in Requests, StartTask(r) \/ SendResponse(r)
       PROVE  RequestTypeOK'
  BY <1>11 DEF StartTask, SendResponse, Respond, workerVars, answerVars
<1>12. ASSUME NEW r \in Requests, Execute(r)
       PROVE  RequestTypeOK'
  <2>1. /\ stage' \in [Requests -> Stage]
        /\ outcome' \in [Requests -> Verdict]
        /\ applied' \in [Requests -> Nat]
    BY <1>12 DEF Execute
  <2>2. UNCHANGED <<workerVars, inFlight, answerVars>>
    BY <1>12 DEF Execute
  <2>3. QED BY <2>1, <2>2 DEF workerVars, answerVars
<1>13. ASSUME NEW r \in Requests, DropGuard(r)
       PROVE  RequestTypeOK'
  <2>1. \A n \in Nat : Released(n) \in Nat
    BY DEF Released
  <2>2. inFlight' \in [Devices -> Nat]
    BY <1>13, <2>1 DEF DropGuard
  <2>3. QED BY <1>13, <2>2 DEF DropGuard, workerVars, answerVars
<1>14. CASE UNCHANGED vars
  BY <1>14 DEF vars, workerVars, taskVars, answerVars
<1>15. QED
  BY <1>1, <1>2, <1>3, <1>4, <1>5, <1>6, <1>7, <1>8, <1>9, <1>10, <1>11, <1>12, <1>13, <1>14
     DEF Next, CallerStep, WorkerStep, TaskStep

LEMMA FlagTypeStep == FlagTypeOK /\ [Next]_vars => FlagTypeOK'
<1> SUFFICES ASSUME FlagTypeOK, [Next]_vars PROVE FlagTypeOK'
  OBVIOUS
<1> USE DEF FlagTypeOK
<1>1. CASE CallerStep \/ PoolStep
  BY <1>1 DEF CallerStep, Send, SendRefused, SendTimesOut, ReceiveResponse, ResponseTimesOut,
     ResponseDisconnected, PoolStep, workerVars, taskVars
<1>2. ASSUME NEW d \in Devices, WorkerStep(d)
      PROVE  FlagTypeOK'
  <2>1. CASE UpdateConfig(d) \/ IgnoreRequest(d) \/ BeginRequest(d) \/ ConnectFails(d)
    BY <2>1 DEF UpdateConfig, IgnoreRequest, BeginRequest, ConnectFails, workerVars, taskVars
  <2>2. CASE Connect(d)
    BY <2>2 DEF Connect, taskVars
  <2>3. CASE AnswerStatus(d) \/ RefuseOperation(d)
    BY <2>3 DEF AnswerStatus, RefuseOperation, Finish, taskVars
  <2>4. CASE SpawnOperation(d)
    <3>1. resolved' \in [Requests -> BOOLEAN]
      BY <2>4 DEF SpawnOperation, Resolves, Known
    <3>2. QED BY <2>4, <3>1 DEF SpawnOperation, Finish
  <2>5. QED BY <1>2, <2>1, <2>2, <2>3, <2>4 DEF WorkerStep
<1>3. ASSUME NEW d \in Devices, DeviceToggles(d)
      PROVE  FlagTypeOK'
  BY <1>3 DEF DeviceToggles, workerVars, taskVars
<1>4. ASSUME NEW r \in Requests, TaskStep(r)
      PROVE  FlagTypeOK'
  BY <1>4 DEF TaskStep, StartTask, Execute, SendResponse, DropGuard, workerVars
<1>5. CASE UNCHANGED vars
  BY <1>5 DEF vars, workerVars, taskVars
<1>6. QED BY <1>1, <1>2, <1>3, <1>4, <1>5 DEF Next

\* Every variable of the request path keeps its type, the connect timeout its
\* limits among them (modbus/types.rs:115).
THEOREM DeviceTypeCorrect == Spec => []TypeOK
<1>1. Init => RequestTypeOK /\ FlagTypeOK
  BY DeviceAssumption DEF Init, RequestTypeOK, FlagTypeOK, Stage, Verdict, Reply
<1>2. HubTypeOK /\ RequestTypeOK /\ FlagTypeOK => TypeOK
  BY DEF RequestTypeOK, FlagTypeOK, TypeOK
<1>3. QED
  BY <1>1, <1>2, RequestTypeStep, FlagTypeStep, DeviceUsesHub, HubTypeCorrect, PTL DEF Spec

-----------------------------------------------------------------------------
\* Where the clones of a request are.
InMailbox(d, m) == \E i \in 1..Len(mailbox[d]) : mailbox[d][i] = m

\* Making room for a DeviceControl puts nothing into a mailbox.
LEMMA KeptElements ==
    ASSUME NEW q \in Seq(Messages), NEW m, NEW i \in 1..Len(Kept(q, m))
    PROVE  \E j \in 1..Len(q) : q[j] = Kept(q, m)[i]
<1>1. CASE Kept(q, m) = q
  BY <1>1
<1>2. CASE Kept(q, m) # q
  <2>1. PICK k \in SinglesIn(q) :
          Kept(q, m) = SubSeq(q, 1, k - 1) \o SubSeq(q, k + 1, Len(q))
    BY <1>2 DEF Kept, WithoutSingle
  <2>2. k \in 1..Len(q) /\ Len(q) \in Nat
    BY LenProperties DEF SinglesIn
  <2>3. PICK r : r = Kept(q, m)
    OBVIOUS
  <2>4. /\ Len(r) = Len(q) - 1
        /\ \A j \in 1..(Len(q) - 1) : r[j] = IF j < k THEN q[j] ELSE q[j + 1]
    BY ONLY <2>1, <2>2, <2>3, SeqWithout, q \in Seq(Messages)
  <2>5. i \in 1..(Len(q) - 1) /\ r[i] = IF i < k THEN q[i] ELSE q[i + 1]
    BY <2>3, <2>4
  <2>6. i \in 1..Len(q) /\ i + 1 \in 1..Len(q)
    BY ONLY <2>2, <2>5
  <2>7. QED BY <2>3, <2>5, <2>6
<1>3. QED BY <1>1, <1>2

\* A delivery puts the message delivered into one mailbox, and only there.
LEMMA DeliverMailbox ==
    ASSUME HubTypeOK, NEW t \in Threads, NEW s \in Subscribers, Deliver(t, s),
           NEW d \in Subscribers, NEW m, InMailbox(d, m)'
    PROVE  InMailbox(d, m) \/ (d = s /\ m = carried[t])
<1> DEFINE q == Kept(mailbox[s], carried[t])
<1>1. CASE d # s
  <2>1. mailbox'[d] = mailbox[d]
    BY <1>1 DEF Deliver, HubTypeOK
  <2>2. QED BY <2>1 DEF InMailbox
<1>2. CASE d = s
  <2>1. mailbox[s] \in Seq(Messages) /\ carried[t] \in Messages
    BY DEF HubTypeOK, Deliver
  <2>2. q \in Seq(Messages)
    BY <2>1, KeptType
  <2>3. mailbox'[d] = Append(q, carried[t])
    BY <1>2 DEF Deliver, HubTypeOK
  <2>4. ASSUME NEW i \in 1..Len(q) PROVE \E j \in 1..Len(mailbox[s]) : mailbox[s][j] = q[i]
    BY <2>1, KeptElements
  <2>5. HIDE DEF q
  <2>6. /\ Len(Append(q, carried[t])) = Len(q) + 1 /\ Len(q) \in Nat
        /\ \A i \in 1..Len(q) : Append(q, carried[t])[i] = q[i]
        /\ Append(q, carried[t])[Len(q) + 1] = carried[t]
    BY <2>1, <2>2, AppendProperties, LenProperties
  <2>7. PICK i \in 1..(Len(q) + 1) : Append(q, carried[t])[i] = m
    BY <2>3, <2>6 DEF InMailbox
  <2>8. CASE i \in 1..Len(q)
    BY <1>2, <2>4, <2>6, <2>7, <2>8 DEF InMailbox
  <2>9. CASE i = Len(q) + 1
    BY <1>2, <2>6, <2>7, <2>9
  <2>10. i \in 1..Len(q) \/ i = Len(q) + 1
    BY ONLY <2>6, <2>7
  <2>11. QED BY <2>8, <2>9, <2>10
<1>3. QED BY <1>1, <1>2

\* Taking a message from a mailbox adds nothing to any, and no second clone of a
\* request is left behind.
LEMMA ConsumeMailbox ==
    ASSUME HubTypeOK, OneSinglePerMailbox, NEW s \in Subscribers, Consume(s)
    PROVE  /\ \A d \in Subscribers : \A m : InMailbox(d, m)' => InMailbox(d, m)
           /\ InMailbox(s, Head(mailbox[s]))
           /\ \A m \in Single : m = Head(mailbox[s]) => ~InMailbox(s, m)'
<1> DEFINE q == mailbox[s]
<1>1. q \in Seq(Messages) /\ q # <<>> /\ mailbox'[s] = Tail(q)
  BY DEF HubTypeOK, Consume
<1>2. \A i, j \in SinglesIn(q) : i = j
  BY DEF OneSinglePerMailbox
<1> HIDE DEF q
<1>3. /\ Len(q) \in Nat /\ Len(q) >= 1 /\ Head(q) = q[1]
      /\ Len(Tail(q)) = Len(q) - 1
      /\ \A i \in 1..Len(Tail(q)) : Tail(q)[i] = q[i + 1]
  BY <1>1, HeadTailProperties, LenProperties, EmptySeq
<1>4. \A i \in 1..Len(Tail(q)) : i + 1 \in 1..Len(q) /\ i + 1 # 1 /\ Tail(q)[i] = q[i + 1]
  BY ONLY <1>3
<1>5. ASSUME NEW d \in Subscribers, NEW m, InMailbox(d, m)'
      PROVE  InMailbox(d, m)
  <2>1. CASE d = s
    BY <1>1, <1>4, <1>5, <2>1 DEF InMailbox, q
  <2>2. CASE d # s
    BY <1>5, <2>2 DEF Consume, HubTypeOK, InMailbox
  <2>3. QED BY <2>1, <2>2
<1>6. 1 \in 1..Len(q)
  BY ONLY <1>3
<1>7. InMailbox(s, Head(mailbox[s]))
  BY <1>3, <1>6 DEF InMailbox, q
<1>8. ASSUME NEW m \in Single, m = Head(q), InMailbox(s, m)'
      PROVE  FALSE
  <2>1. PICK i \in 1..Len(Tail(q)) : Tail(q)[i] = m
    BY <1>1, <1>8 DEF InMailbox
  <2>2. 1 \in SinglesIn(q) /\ i + 1 \in SinglesIn(q)
    BY <1>3, <1>4, <1>6, <1>8, <2>1 DEF SinglesIn
  <2>3. QED BY <1>2, <1>4, <2>1, <2>2
<1>9. QED BY <1>5, <1>7, <1>8 DEF q

-----------------------------------------------------------------------------
\* The kinds of steps, as far as the invariants below tell them apart.
Untouched(r) == stage[r] = "none" /\ response[r] = "none"

\* A caller, a connection or the device: no request moves.
Quiet == UNCHANGED <<mailbox, delivered, handling, taskVars, response>>

\* A worker takes a message that it does not handle as a request.
TakeOther(d) == Consume(d) /\ UNCHANGED <<handling, taskVars, answerVars>>

\* A worker answers the request it handles itself, without a task.
Conclude(d) ==
    /\ handling[d] \in Requests
    /\ handling' = [handling EXCEPT ![d] = NoMessage]
    /\ \/ Respond(handling[d], "refused")
       \/ Respond(handling[d], "ok") /\ Operation[handling[d]] = "GetStatus"
    /\ UNCHANGED <<hubVars, taskVars, reply>>

LEMMA StepKinds ==
    ASSUME RequestTypeOK, [Next]_vars
    PROVE  \/ Quiet /\ (CallerStep \/ UNCHANGED <<call, reply>>)
           \/ PoolStep
           \/ \E d \in Devices :
                TakeOther(d) \/ BeginRequest(d) \/ Conclude(d) \/ SpawnOperation(d)
           \/ \E r \in Requests : TaskStep(r)
<1>1. CASE CallerStep
  <2>1. Quiet
    BY <1>1 DEF CallerStep, Send, SendRefused, SendTimesOut, SubmitAccepted, SubmitRefused,
       CallerTimesOut, ReceiveResponse, ResponseTimesOut, ResponseDisconnected,
       Quiet, hubVars, workerVars, taskVars, answerVars
  <2>2. QED BY <1>1, <2>1
<1>2. ASSUME NEW d \in Devices, UpdateConfig(d) \/ IgnoreRequest(d)
      PROVE  TakeOther(d)
  BY <1>2 DEF UpdateConfig, IgnoreRequest, TakeOther, workerVars
<1>3. ASSUME NEW d \in Devices, Connect(d) \/ DeviceToggles(d)
      PROVE  Quiet /\ UNCHANGED <<call, reply>>
  BY <1>3 DEF Connect, DeviceToggles, Quiet, hubVars, workerVars, taskVars, answerVars
<1>4. ASSUME NEW d \in Devices, ConnectFails(d) \/ AnswerStatus(d) \/ RefuseOperation(d)
      PROVE  Conclude(d)
  <2>1. handling[d] \in Requests
    BY <1>4 DEF RequestTypeOK, ConnectFails, AnswerStatus, RefuseOperation, Idle
  <2>2. QED
    BY <1>4, <2>1 DEF ConnectFails, AnswerStatus, RefuseOperation, Finish, Conclude
<1>5. CASE UNCHANGED vars
  BY <1>5 DEF vars, Quiet, hubVars, workerVars, taskVars, answerVars
<1>6. QED BY <1>1, <1>2, <1>3, <1>4, <1>5 DEF Next, WorkerStep

-----------------------------------------------------------------------------
\* A request is handled at most once: what its own worker has, or has had,
\* is not in that worker's mailbox, and was delivered there.
Once(r) ==
    /\ \A d \in Devices : InMailbox(d, r) => d \in delivered[r] /\ handling[d] # r
    /\ \A d \in Devices : InMailbox(d, r) /\ Target[r] = d => Untouched(r)
    /\ \A d \in Devices : handling[d] = r =>
          d \in delivered[r] /\ Target[r] = d /\ Untouched(r)
    /\ ~Untouched(r) => Target[r] \in Devices /\ Target[r] \in delivered[r]

OnceInv == \A r \in Requests : Once(r)

\* A request that no worker newly gets, and whose state stays.
LEMMA OnceKept ==
    ASSUME NEW r \in Requests, Once(r),
           \A d \in Devices : InMailbox(d, r)' => InMailbox(d, r),
           \A d \in Devices : handling'[d] = r => handling[d] = r,
           delivered[r] \subseteq delivered'[r],
           Untouched(r)' <=> Untouched(r)
    PROVE  Once(r)'
BY DEF Once

LEMMA OnceStep ==
    HubTypeOK /\ RequestTypeOK /\ OneSinglePerMailbox /\ OnceInv /\ [Next]_vars => OnceInv'
<1> SUFFICES ASSUME HubTypeOK, RequestTypeOK, OneSinglePerMailbox, OnceInv, [Next]_vars,
                    NEW r \in Requests
             PROVE  Once(r)'
  BY DEF OnceInv
<1>0. Requests = Single /\ Devices = Subscribers /\ Single \subseteq Messages /\ Once(r)
      /\ NoMessage \notin Requests
  BY DeviceAssumption, HubAssumption DEF OnceInv
<1>1. CASE Quiet
  <2>1. UNCHANGED <<mailbox, delivered, handling, stage, response>>
    BY <1>1 DEF Quiet, taskVars
  <2>2. QED BY <1>0, <2>1, OnceKept DEF InMailbox, Untouched
<1>2. CASE PoolStep
  <2>1. UNCHANGED <<handling, stage, response>>
    BY <1>2 DEF PoolStep, workerVars, taskVars, answerVars
  <2>2. CASE UNCHANGED <<delivered, mailbox>>
    BY <1>0, <2>1, <2>2, OnceKept DEF InMailbox, Untouched
  <2>3. ASSUME NEW t \in Threads, NEW s \in Subscribers, Deliver(t, s)
        PROVE  Once(r)'
    <3>1. \A d \in Devices : InMailbox(d, r)' => InMailbox(d, r) \/ (d = s /\ r = carried[t])
      BY <1>0, <2>3, DeliverMailbox
    <3>2. carried[t] \in Messages /\ delivered' = [delivered EXCEPT ![carried[t]] = @ \cup {s}]
          /\ s \notin delivered[carried[t]]
      BY <2>3 DEF Deliver, HubTypeOK
    <3>3. delivered[r] \subseteq delivered'[r]
      BY <1>0, <3>2 DEF HubTypeOK
    <3>4. CASE r # carried[t]
      BY <1>0, <2>1, <3>1, <3>3, <3>4, OnceKept DEF Untouched
    <3>5. CASE r = carried[t]
      <4>1. s \in delivered'[r] /\ s \notin delivered[r]
        BY <1>0, <3>2, <3>5 DEF HubTypeOK
      <4>2. \A d \in Devices : InMailbox(d, r)' => InMailbox(d, r) \/ d = s
        BY <3>1
      <4>3. QED BY <1>0, <2>1, <3>3, <4>1, <4>2 DEF Once, Untouched
    <3>6. QED BY <3>4, <3>5
  <2>4. QED BY <1>2, <2>2, <2>3 DEF PoolStep, TakeTask, CompleteTask
<1>3. ASSUME NEW d \in Devices, TakeOther(d)
      PROVE  Once(r)'
  <2>1. UNCHANGED <<delivered, handling, stage, response>>
    BY <1>3 DEF TakeOther, Consume, taskVars, answerVars
  <2>2. \A e \in Devices : InMailbox(e, r)' => InMailbox(e, r)
    BY <1>0, <1>3, ConsumeMailbox DEF TakeOther
  <2>3. QED BY <1>0, <2>1, <2>2, OnceKept DEF Untouched
<1>4. ASSUME NEW d \in Devices, BeginRequest(d)
      PROVE  Once(r)'
  <2>1. PICK h \in Requests : h = Head(mailbox[d])
    BY <1>4 DEF BeginRequest
  <2>2. /\ UNCHANGED <<delivered, stage, response>>
        /\ handling' = [handling EXCEPT ![d] = h]
        /\ Target[h] = d /\ Consume(d)
    BY <1>4, <2>1 DEF BeginRequest, Consume, taskVars, answerVars
  <2>3. /\ \A e \in Devices : InMailbox(e, r)' => InMailbox(e, r)
        /\ InMailbox(d, h) /\ ~InMailbox(d, h)'
    BY <1>0, <2>1, <2>2, ConsumeMailbox
  <2>4. \A e \in Devices : handling'[e] = IF e = d THEN h ELSE handling[e]
    BY <2>2 DEF RequestTypeOK
  <2>5. CASE r # h
    BY <1>0, <2>2, <2>3, <2>4, <2>5, OnceKept DEF Untouched
  <2>6. CASE r = h
    <3>1. d \in delivered[r] /\ Untouched(r)
      BY <1>0, <2>2, <2>3, <2>6 DEF Once
    <3>2. QED BY <1>0, <2>2, <2>3, <2>4, <2>6, <3>1 DEF Once, Untouched
  <2>7. QED BY <2>5, <2>6
<1>5. ASSUME NEW d \in Devices, Conclude(d) \/ SpawnOperation(d)
      PROVE  Once(r)'
  <2>1. handling[d] \in Requests
    BY <1>5 DEF Conclude, SpawnOperation, Idle, RequestTypeOK
  <2>2. UNCHANGED <<delivered, mailbox>> /\ handling' = [handling EXCEPT ![d] = NoMessage]
    BY <1>5 DEF Conclude, SpawnOperation, Finish, hubVars
  <2>3. \A e \in Devices : handling'[e] = IF e = d THEN NoMessage ELSE handling[e]
    BY <2>2 DEF RequestTypeOK
  <2>4. \A q \in Requests : q # handling[d] => stage'[q] = stage[q] /\ response'[q] = response[q]
    <3>1. CASE Conclude(d)
      BY <3>1 DEF Conclude, Respond, taskVars, RequestTypeOK
    <3>2. CASE SpawnOperation(d)
      BY <3>2 DEF SpawnOperation, answerVars, RequestTypeOK
    <3>3. QED BY <1>5, <3>1, <3>2
  <2>5. CASE r # handling[d]
    BY <1>0, <2>2, <2>3, <2>4, <2>5, OnceKept DEF InMailbox, Untouched
  <2>6. CASE r = handling[d]
    <3>1. Target[r] = d /\ d \in delivered[r] /\ ~InMailbox(d, r)
      BY <1>0, <2>6 DEF Once
    <3>2. \A e \in Devices : handling'[e] # r
      BY <1>0, <2>3, <2>6, <3>1 DEF Once
    <3>3. \A e \in Devices : InMailbox(e, r)' <=> InMailbox(e, r)
      BY <2>2 DEF InMailbox
    <3>4. QED BY <1>0, <2>2, <3>1, <3>2, <3>3 DEF Once
  <2>7. QED BY <2>5, <2>6
<1>6. ASSUME NEW q \in Requests, TaskStep(q)
      PROVE  Once(r)'
  <2>1. UNCHANGED <<delivered, mailbox, handling>>
    BY <1>6 DEF TaskStep, StartTask, Execute, SendResponse, DropGuard, hubVars, workerVars
  <2>2. /\ stage[q] # "none" /\ stage'[q] # "none"
        /\ r # q => stage'[r] = stage[r] /\ response'[r] = response[r]
    BY <1>6 DEF TaskStep, StartTask, Execute, SendResponse, DropGuard, Respond, answerVars,
       RequestTypeOK
  <2>3. QED BY <1>0, <2>1, <2>2, OnceKept DEF InMailbox, Untouched
<1>7. QED BY <1>1, <1>2, <1>3, <1>4, <1>5, <1>6, StepKinds

\* The invariant of the hub and of the requests, reached by every behaviour.
HubFacts == HubInv /\ OneSinglePerMailbox /\ RequestTypeOK

LEMMA HubFactsCorrect == Spec => []HubFacts
<1>1. Init => RequestTypeOK
  BY DeviceAssumption DEF Init, RequestTypeOK, Stage, Verdict, Reply
<1>2. HubInv => HubTypeOK
  BY DEF HubInv
<1>3. QED
  BY <1>1, <1>2, RequestTypeStep, DeviceUsesHub, HubInvCorrect, SinglePolicy, PTL
     DEF Spec, HubFacts

LEMMA OnceCorrect == Spec => []OnceInv
<1>1. Init => OnceInv
  BY DeviceAssumption, HubAssumption, EmptySeq
     DEF Init, HubInit, OnceInv, Once, InMailbox, Untouched
<1>2. HubFacts /\ OnceInv /\ [Next]_vars => OnceInv'
  BY OnceStep DEF HubFacts, HubInv
<1>3. QED BY <1>1, <1>2, HubFactsCorrect, PTL DEF Spec

-----------------------------------------------------------------------------
\* A task performs its operation once and answers with what came of it.
Task(r) ==
    /\ stage[r] \in {"none", "spawned", "running"} => outcome[r] = "none" /\ applied[r] = 0
    /\ stage[r] \in {"returned", "responded", "ended"} => outcome[r] \in {"ok", "refused", "failed"}
    /\ applied[r] \in {0, 1}
    /\ outcome[r] = "ok" => applied[r] = 1
    /\ outcome[r] = "refused" => applied[r] = 0
    /\ stage[r] \in {"spawned", "running", "returned"} => response[r] = "none"
    /\ response[r] # "none" /\ stage[r] # "none" => response[r] = outcome[r]
    /\ response[r] = "ok" /\ stage[r] = "none" => Operation[r] = "GetStatus"
    /\ stage[r] \in {"responded", "ended"} /\ response[r] = "none" => reply[r] # "none"
    /\ stage[r] # "none" => Operation[r] # "GetStatus"

TaskInv == \A r \in Requests : Task(r)

LEMMA TaskKept ==
    ASSUME NEW r \in Requests, Task(r),
           stage'[r] = stage[r], outcome'[r] = outcome[r], applied'[r] = applied[r],
           response'[r] = response[r],
           reply[r] # "none" => reply'[r] # "none"
    PROVE  Task(r)'
BY DEF Task

\* A reply, once given, is not taken back.
LEMMA ReplyStays ==
    ASSUME RequestTypeOK, [Next]_vars, NEW r \in Requests, reply[r] # "none"
    PROVE  reply'[r] # "none"
<1>1. CASE CallerStep
  BY <1>1 DEF CallerStep, Send, SendRefused, SendTimesOut, ReceiveResponse, ResponseTimesOut,
     ResponseDisconnected, RequestTypeOK, answerVars, Listening, Verdict
<1>2. ASSUME PoolStep \/ \E d \in Devices :
                TakeOther(d) \/ BeginRequest(d) \/ Conclude(d) \/ SpawnOperation(d)
      PROVE  reply' = reply
  BY <1>2 DEF PoolStep, TakeOther, BeginRequest, Conclude, SpawnOperation, answerVars
<1>3. ASSUME NEW q \in Requests, TaskStep(q)
      PROVE  reply' = reply
  BY <1>3 DEF TaskStep, StartTask, Execute, SendResponse, DropGuard, answerVars
<1>4. ASSUME NEW d \in Devices, WorkerStep(d) \/ DeviceToggles(d)
      PROVE  reply' = reply
  BY <1>4 DEF WorkerStep, DeviceToggles, UpdateConfig, IgnoreRequest, BeginRequest, Connect,
     ConnectFails, AnswerStatus, RefuseOperation, SpawnOperation, answerVars
<1>5. CASE UNCHANGED vars
  BY <1>5 DEF vars, answerVars
<1>6. QED BY <1>1, <1>2, <1>3, <1>4, <1>5 DEF Next

LEMMA TaskStepInv ==
    RequestTypeOK /\ OnceInv /\ TaskInv /\ [Next]_vars => TaskInv'
<1> SUFFICES ASSUME RequestTypeOK, OnceInv, TaskInv, [Next]_vars, NEW r \in Requests
             PROVE  Task(r)'
  BY DEF TaskInv
<1>0. Task(r) /\ Once(r) /\ (reply[r] # "none" => reply'[r] # "none")
  BY ReplyStays DEF TaskInv, OnceInv
<1>1. CASE Quiet \/ PoolStep \/ \E d \in Devices : TakeOther(d) \/ BeginRequest(d)
  <2>1. UNCHANGED <<stage, outcome, applied, response>>
    BY <1>1 DEF Quiet, PoolStep, TakeOther, BeginRequest, taskVars, answerVars
  <2>2. QED BY <1>0, <2>1, TaskKept
<1>2. ASSUME NEW d \in Devices, Conclude(d)
      PROVE  Task(r)'
  <2>1. UNCHANGED <<stage, outcome, applied>>
    BY <1>2 DEF Conclude, taskVars
  <2>2. CASE r # handling[d]
    <3>1. response'[r] = response[r]
      BY <1>2, <2>2 DEF Conclude, Respond, RequestTypeOK
    <3>2. QED BY <1>0, <2>1, <3>1, TaskKept
  <2>3. CASE r = handling[d]
    <3>1. Untouched(r)
      BY <1>0, <2>3 DEF Once
    <3>2. \/ response'[r] \in {"none", "refused"}
          \/ response'[r] = "ok" /\ Operation[r] = "GetStatus"
      BY <1>2, <2>3, <3>1 DEF Conclude, Respond, RequestTypeOK, Untouched
    <3>3. QED BY <1>0, <2>1, <3>1, <3>2 DEF Task, Untouched
  <2>4. QED BY <2>2, <2>3
<1>3. ASSUME NEW d \in Devices, SpawnOperation(d)
      PROVE  Task(r)'
  <2>1. UNCHANGED <<outcome, applied, response>> /\ stage' = [stage EXCEPT ![handling[d]] = "spawned"]
    BY <1>3 DEF SpawnOperation, answerVars
  <2>2. CASE r # handling[d]
    <3>1. stage'[r] = stage[r]
      BY <2>1, <2>2 DEF RequestTypeOK
    <3>2. QED BY <1>0, <2>1, <3>1, TaskKept
  <2>3. CASE r = handling[d]
    <3>1. Untouched(r) /\ stage'[r] = "spawned" /\ Operation[r] # "GetStatus"
      BY <1>0, <1>3, <2>1, <2>3 DEF Once, RequestTypeOK, SpawnOperation
    <3>2. QED BY <1>0, <2>1, <3>1 DEF Task, Untouched
  <2>4. QED BY <2>2, <2>3
<1>4. ASSUME NEW q \in Requests, TaskStep(q)
      PROVE  Task(r)'
  <2>1. CASE r # q
    <3>1. /\ stage'[r] = stage[r] /\ outcome'[r] = outcome[r]
          /\ applied'[r] = applied[r] /\ response'[r] = response[r]
      BY <1>4, <2>1 DEF TaskStep, StartTask, Execute, SendResponse, DropGuard, Respond,
         answerVars, RequestTypeOK
    <3>2. QED BY <1>0, <3>1, TaskKept
  <2>2. CASE r = q /\ (StartTask(q) \/ DropGuard(q))
    <3>1. /\ \/ stage[r] = "spawned" /\ stage'[r] = "running"
             \/ stage[r] = "responded" /\ stage'[r] = "ended"
          /\ UNCHANGED <<outcome, applied, response, reply>>
      <4>1. CASE StartTask(q)
        BY <2>2, <4>1 DEF StartTask, answerVars, RequestTypeOK
      <4>2. CASE DropGuard(q)
        BY <2>2, <4>2 DEF DropGuard, answerVars, RequestTypeOK
      <4>3. QED BY <2>2, <4>1, <4>2
    <3>2. QED BY <1>0, <3>1 DEF Task
  <2>3. CASE r = q /\ Execute(q)
    <3>1. /\ stage[r] = "running" /\ stage'[r] = "returned"
          /\ UNCHANGED <<response, reply>>
          /\ \/ outcome'[r] = "refused" /\ applied'[r] = applied[r]
             \/ outcome'[r] = "ok" /\ applied'[r] = applied[r] + 1
             \/ outcome'[r] = "failed" /\ applied'[r] \in {applied[r], applied[r] + 1}
      BY <2>3 DEF Execute, answerVars, RequestTypeOK
    <3>2. QED BY <1>0, <3>1 DEF Task
  <2>4. CASE r = q /\ SendResponse(q)
    <3>1. /\ stage[r] = "returned" /\ stage'[r] = "responded"
          /\ UNCHANGED <<outcome, applied, reply>>
          /\ response'[r] = IF reply[r] = "none" THEN outcome[r] ELSE response[r]
      BY <2>4 DEF SendResponse, Respond, Listening, RequestTypeOK
    <3>2. QED BY <1>0, <3>1 DEF Task
  <2>5. QED BY <1>4, <2>1, <2>2, <2>3, <2>4 DEF TaskStep
<1>5. QED BY <1>1, <1>2, <1>3, <1>4, StepKinds

LEMMA TaskCorrect == Spec => []TaskInv
<1>1. Init => TaskInv
  BY DEF Init, TaskInv, Task
<1>2. HubFacts /\ OnceInv /\ TaskInv /\ [Next]_vars => TaskInv'
  BY TaskStepInv DEF HubFacts
<1>3. QED BY <1>1, <1>2, HubFactsCorrect, OnceCorrect, PTL DEF Spec

\* No operation is performed twice on a device, for any requests and devices:
\* the clones of a DeviceControl in other mailboxes and the tasks that outlive
\* their callers never lead to a second one.
THEOREM AppliedOnce == Spec => []AppliedAtMostOnce
<1>1. TaskInv => AppliedAtMostOnce
  BY DEF TaskInv, Task, AppliedAtMostOnce
<1>2. QED BY <1>1, TaskCorrect, PTL

-----------------------------------------------------------------------------
\* The response channel is written by who handles the request, once.
LEMMA ResponseStep ==
    ASSUME RequestTypeOK, OnceInv, TaskInv, [Next]_vars,
           NEW r \in Requests, response[r] # "none"
    PROVE  response'[r] = response[r]
<1>0. Task(r) /\ Once(r)
  BY DEF TaskInv, OnceInv
<1>1. CASE Quiet \/ PoolStep \/ \E d \in Devices :
              TakeOther(d) \/ BeginRequest(d) \/ SpawnOperation(d)
  BY <1>1 DEF Quiet, PoolStep, TakeOther, BeginRequest, SpawnOperation, answerVars
<1>2. ASSUME NEW d \in Devices, Conclude(d)
      PROVE  response'[r] = response[r]
  <2>1. r # handling[d]
    BY <1>0, <1>2 DEF Once, Untouched
  <2>2. QED BY <1>2, <2>1 DEF Conclude, Respond, RequestTypeOK
<1>3. ASSUME NEW q \in Requests, TaskStep(q)
      PROVE  response'[r] = response[r]
  <2>1. CASE SendResponse(q)
    <3>1. r # q
      BY <1>0, <2>1 DEF Task, SendResponse
    <3>2. QED BY <2>1, <3>1 DEF SendResponse, Respond, RequestTypeOK
  <2>2. CASE StartTask(q) \/ Execute(q) \/ DropGuard(q)
    BY <2>2 DEF StartTask, Execute, DropGuard, answerVars
  <2>3. QED BY <1>3, <2>1, <2>2 DEF TaskStep
<1>4. QED BY <1>1, <1>2, <1>3, StepKinds

\* Once the response channel of a request holds an answer, nobody is left who
\* would send another: neither a worker nor a task of its runtime ever waits for
\* room in a channel.
THEOREM AnsweredOnce == Spec => []ResponseSentOnce
<1>1. HubFacts /\ OnceInv /\ TaskInv => ResponseSentOnce
  <2> SUFFICES ASSUME HubFacts, OnceInv, TaskInv, NEW r \in Requests, response[r] # "none"
               PROVE  ~CanStillAnswer(r)
    BY DEF ResponseSentOnce
  <2>0. /\ r \in Messages /\ Devices = Subscribers
        /\ Once(r) /\ Task(r) /\ Placed(r)
        /\ Recipients[r] = Devices
        /\ call[r] \in {"idle", "waiting", "ok", "timeout", "full"}
    BY DeviceAssumption, HubAssumption DEF HubFacts, HubInv, HubTypeOK, Outcome, OnceInv, TaskInv
  <2>1. ~Untouched(r)
    BY DEF Untouched
  <2>2. stage[r] \notin {"spawned", "running", "returned"}
    BY <2>0 DEF Task
  <2>3. Target[r] \in delivered[r]
    BY <2>0, <2>1 DEF Once
  <2>4. Positions(r) = {}
    BY <2>0, <2>3 DEF Placed, Accepted, InQueue, InThread, Done
  <2>5. ~InMailbox(Target[r], r) /\ (Target[r] \in Devices => handling[Target[r]] # r)
    BY <2>0, <2>1 DEF Once
  <2> QED
    BY <2>2, <2>3, <2>4, <2>5 DEF CanStillAnswer, CanStillAct, InMailbox
<1>2. QED BY <1>1, HubFactsCorrect, OnceCorrect, TaskCorrect, PTL

-----------------------------------------------------------------------------
\* What the caller was told, and what stands behind it.
Answer(r) ==
    /\ reply[r] = "data" => response[r] = "ok"
    /\ reply[r] = "refused" => response[r] = "refused"
    /\ reply[r] = "queuefull" => call[r] = "full"
    /\ reply[r] = "disconnected" =>
          /\ call[r] = "ok" /\ stage[r] = "none"
          /\ \A d \in Devices : handling[d] # r /\ ~InMailbox(d, r)
    /\ call[r] \in {"idle", "waiting"} => reply[r] = "none"

AnswerInv == \A r \in Requests : Answer(r)

LEMMA AnswerStep ==
    HubFacts /\ OnceInv /\ TaskInv /\ AnswerInv /\ [Next]_vars => AnswerInv'
<1> SUFFICES ASSUME HubFacts, OnceInv, TaskInv, AnswerInv, [Next]_vars, NEW r \in Requests
             PROVE  Answer(r)'
  BY DEF AnswerInv
<1>0. /\ Requests = Single /\ Devices = Subscribers /\ Single \subseteq Messages
      /\ NoMessage \notin Requests
      /\ HubTypeOK /\ RequestTypeOK /\ OneSinglePerMailbox
      /\ Task(r) /\ Answer(r) /\ Placed(r)
      /\ response[r] # "none" => response'[r] = response[r]
  BY DeviceAssumption, HubAssumption, ResponseStep DEF HubFacts, HubInv, TaskInv, AnswerInv
<1>1. CASE Quiet /\ CallerStep
  <2>1. UNCHANGED <<mailbox, handling, stage, response>>
    BY <1>1 DEF Quiet, taskVars
  <2>2. \A d \in Devices : InMailbox(d, r)' <=> InMailbox(d, r)
    BY <2>1 DEF InMailbox
  <2>3. ASSUME NEW m \in Messages, Send(m) \/ SendRefused(m) \/ SendTimesOut(m)
        PROVE  Answer(r)'
    <3>1. CASE r # m
      <4>1. reply'[r] = reply[r] /\ call'[r] = call[r]
        BY <1>0, <2>3, <3>1 DEF Send, SendRefused, SendTimesOut, SubmitAccepted, SubmitRefused,
           CallerTimesOut, HubTypeOK, RequestTypeOK, answerVars
      <4>2. QED BY <1>0, <2>1, <2>2, <4>1 DEF Answer
    <3>2. CASE r = m /\ Send(m)
      <4>1. reply'[r] = reply[r] /\ call[r] = "idle"
        BY <3>2 DEF Send, SubmitAccepted, answerVars
      <4>2. QED BY <1>0, <2>1, <2>2, <4>1 DEF Answer
    <3>3. CASE r = m /\ SendRefused(m)
      <4>1. reply'[r] = "queuefull" /\ call'[r] = "full"
        BY <1>0, <3>3 DEF SendRefused, SubmitRefused, HubTypeOK, RequestTypeOK
      <4>2. QED BY <4>1 DEF Answer
    <3>4. CASE r = m /\ SendTimesOut(m)
      <4>1. reply'[r] = "sendtimeout" /\ call'[r] = "timeout"
        BY <1>0, <3>4 DEF SendTimesOut, CallerTimesOut, HubTypeOK, RequestTypeOK
      <4>2. QED BY <4>1 DEF Answer
    <3>5. QED BY <2>3, <3>1, <3>2, <3>3, <3>4
  <2>4. ASSUME NEW q \in Requests,
               ReceiveResponse(q) \/ ResponseTimesOut(q) \/ ResponseDisconnected(q)
        PROVE  Answer(r)'
    <3>1. call' = call
      BY <2>4 DEF ReceiveResponse, ResponseTimesOut, ResponseDisconnected, hubVars
    <3>2. CASE r # q
      <4>1. reply'[r] = reply[r]
        BY <1>0, <2>4, <3>2 DEF ReceiveResponse, ResponseTimesOut, ResponseDisconnected,
           RequestTypeOK
      <4>2. QED BY <1>0, <2>1, <2>2, <3>1, <4>1 DEF Answer
    <3>3. CASE r = q /\ (ReceiveResponse(q) \/ ResponseTimesOut(q))
      <4>1. \/ response[r] = "ok" /\ reply'[r] = "data"
            \/ response[r] \in {"refused", "failed"} /\ reply'[r] = response[r]
            \/ reply'[r] = "timedout"
        BY <1>0, <3>3 DEF ReceiveResponse, ResponseTimesOut, RequestTypeOK, Verdict
      <4>2. call'[r] = "ok"
        BY <3>1, <3>3 DEF ReceiveResponse, ResponseTimesOut
      <4>3. QED BY <1>0, <2>1, <4>1, <4>2 DEF Answer
    <3>4. CASE r = q /\ ResponseDisconnected(q)
      <4>1. /\ reply[r] = "none" /\ reply'[r] = "disconnected"
            /\ call[r] = "ok" /\ response[r] = "none" /\ ~SenderAlive(r)
        BY <1>0, <3>4 DEF ResponseDisconnected, Listening, RequestTypeOK
      <4>2. stage[r] = "none"
        BY <1>0, <4>1 DEF SenderAlive, Task, RequestTypeOK, Stage
      <4>3. \A d \in Devices : handling[d] # r /\ ~InMailbox(d, r)
        BY <4>1 DEF SenderAlive, InMailbox
      <4>4. QED BY <2>1, <2>2, <3>1, <4>1, <4>2, <4>3 DEF Answer
    <3>5. QED BY <2>4, <3>2, <3>3, <3>4
  <2>5. QED BY <1>1, <2>3, <2>4 DEF CallerStep
<1>2. CASE Quiet /\ UNCHANGED <<call, reply>>
  <2>1. UNCHANGED <<mailbox, handling, stage, response>>
    BY <1>2 DEF Quiet, taskVars
  <2>2. QED BY <1>0, <1>2, <2>1 DEF Answer, InMailbox
<1>3. CASE PoolStep
  <2>1. UNCHANGED <<handling, stage, response, reply>>
    BY <1>3 DEF PoolStep, workerVars, taskVars, answerVars
  <2>2. CASE \E t \in Threads : TakeTask(t) \/ CompleteTask(t)
    <3>1. call'[r] = call[r] \/ (call[r] = "waiting" /\ call'[r] = "ok")
      BY <1>0, <2>2 DEF TakeTask, CompleteTask, HubTypeOK
    <3>2. mailbox' = mailbox
      BY <2>2 DEF TakeTask, CompleteTask
    <3>3. \A d \in Devices : InMailbox(d, r)' <=> InMailbox(d, r)
      BY <3>2 DEF InMailbox
    <3>4. QED BY <1>0, <2>1, <3>1, <3>3 DEF Answer
  <2>3. ASSUME NEW t \in Threads, NEW s \in Subscribers, Deliver(t, s)
        PROVE  Answer(r)'
    <3>1. call' = call /\ s \in Recipients[carried[t]] \ delivered[carried[t]]
      BY <2>3 DEF Deliver
    <3>2. call[r] = "ok" => r # carried[t]
      BY <1>0, <3>1 DEF Placed
    <3>3. \A d \in Devices : InMailbox(d, r)' => InMailbox(d, r) \/ r = carried[t]
      BY <1>0, <2>3, DeliverMailbox
    <3>4. QED BY <1>0, <2>1, <3>1, <3>2, <3>3 DEF Answer
  <2>4. QED BY <1>3, <2>2, <2>3 DEF PoolStep
<1>4. ASSUME NEW d \in Devices, TakeOther(d)
      PROVE  Answer(r)'
  <2>1. UNCHANGED <<call, handling, stage, response, reply>>
    BY <1>4 DEF TakeOther, Consume, taskVars, answerVars
  <2>2. \A e \in Devices : InMailbox(e, r)' => InMailbox(e, r)
    BY <1>0, <1>4, ConsumeMailbox DEF TakeOther
  <2>3. QED BY <1>0, <2>1, <2>2 DEF Answer
<1>5. ASSUME NEW d \in Devices, BeginRequest(d)
      PROVE  Answer(r)'
  <2>1. PICK h \in Requests : h = Head(mailbox[d])
    BY <1>5 DEF BeginRequest
  <2>2. /\ UNCHANGED <<call, stage, response, reply>>
        /\ handling' = [handling EXCEPT ![d] = h] /\ Consume(d)
    BY <1>5, <2>1 DEF BeginRequest, Consume, taskVars, answerVars
  <2>3. /\ \A e \in Devices : InMailbox(e, r)' => InMailbox(e, r)
        /\ InMailbox(d, h)
    BY <1>0, <2>1, <2>2, ConsumeMailbox
  <2>4. \A e \in Devices : handling'[e] = IF e = d THEN h ELSE handling[e]
    BY <1>0, <2>2 DEF RequestTypeOK
  <2>5. QED BY <1>0, <2>2, <2>3, <2>4 DEF Answer
<1>6. ASSUME NEW d \in Devices, Conclude(d) \/ SpawnOperation(d)
      PROVE  Answer(r)'
  <2>1. /\ UNCHANGED <<call, mailbox, reply>>
        /\ handling' = [handling EXCEPT ![d] = NoMessage]
        /\ stage' = stage \/ stage' = [stage EXCEPT ![handling[d]] = "spawned"]
    BY <1>6 DEF Conclude, SpawnOperation, Finish, hubVars, taskVars, answerVars
  <2>2. \A e \in Devices : handling'[e] = IF e = d THEN NoMessage ELSE handling[e]
    BY <1>0, <2>1 DEF RequestTypeOK
  <2>3. r # handling[d] => stage'[r] = stage[r]
    BY <1>0, <2>1 DEF RequestTypeOK
  <2>4. \A e \in Devices : InMailbox(e, r)' <=> InMailbox(e, r)
    BY <2>1 DEF InMailbox
  <2>5. QED BY <1>0, <2>1, <2>2, <2>3, <2>4 DEF Answer
<1>7. ASSUME NEW q \in Requests, TaskStep(q)
      PROVE  Answer(r)'
  <2>1. /\ UNCHANGED <<call, mailbox, handling, reply>>
        /\ stage[q] # "none"
        /\ r # q => stage'[r] = stage[r]
    BY <1>0, <1>7 DEF TaskStep, StartTask, Execute, SendResponse, DropGuard, hubVars,
       workerVars, answerVars, RequestTypeOK
  <2>2. QED BY <1>0, <2>1 DEF Answer, InMailbox
<1>8. QED BY <1>0, <1>1, <1>2, <1>3, <1>4, <1>5, <1>6, <1>7, StepKinds

LEMMA AnswerCorrect == Spec => []AnswerInv
<1>1. Init => AnswerInv
  BY DEF Init, AnswerInv, Answer
<1>2. QED
  BY <1>1, AnswerStep, HubFactsCorrect, OnceCorrect, TaskCorrect, PTL DEF Spec

\* Data stands for an operation that was performed, by the worker of the device
\* that the request names.
THEOREM DataBacked == Spec => []DataIsBacked
<1>1. OnceInv /\ TaskInv /\ AnswerInv => DataIsBacked
  BY DEF OnceInv, Once, Untouched, TaskInv, Task, AnswerInv, Answer, DataIsBacked
<1>2. QED BY <1>1, OnceCorrect, TaskCorrect, AnswerCorrect, PTL

\* A refusal stands for an operation that never reaches the device: no clone of
\* the request is left where it could act.
THEOREM RefusedForGood == Spec => []RefusedIsFinal
<1>1. HubFacts /\ OnceInv /\ TaskInv /\ AnswerInv => RefusedIsFinal
  <2> SUFFICES ASSUME HubFacts, OnceInv, TaskInv, AnswerInv, NEW r \in Requests,
                      reply[r] \in {"refused", "queuefull", "disconnected"}
               PROVE  applied[r] = 0 /\ ~CanStillAct(r)
    BY DEF RefusedIsFinal
  <2>0. /\ r \in Messages /\ Devices = Subscribers
        /\ Once(r) /\ Task(r) /\ Answer(r) /\ Placed(r)
        /\ Recipients[r] = Devices
        /\ call[r] \in {"idle", "waiting", "ok", "timeout", "full"}
    BY DeviceAssumption, HubAssumption
       DEF HubFacts, HubInv, HubTypeOK, Outcome, OnceInv, TaskInv, AnswerInv
  <2>1. CASE reply[r] = "refused"
    <3>1. response[r] = "refused" /\ ~Untouched(r)
      BY <2>0, <2>1 DEF Answer, Untouched
    <3>2. applied[r] = 0 /\ stage[r] \notin {"spawned", "running"}
      BY <2>0, <3>1 DEF Task
    <3>3. Target[r] \in delivered[r]
      BY <2>0, <3>1 DEF Once
    <3>4. Positions(r) = {}
      BY <2>0, <3>3 DEF Placed, Accepted, InQueue, InThread, Done
    <3>5. ~InMailbox(Target[r], r) /\ (Target[r] \in Devices => handling[Target[r]] # r)
      BY <2>0, <3>1 DEF Once
    <3>6. QED BY <3>2, <3>3, <3>4, <3>5 DEF CanStillAct, InMailbox
  <2>2. CASE reply[r] = "queuefull"
    <3>1. delivered[r] = {} /\ Positions(r) = {} /\ Carriers(r) = {}
      BY <2>0, <2>2 DEF Answer, Placed
    <3>2. Untouched(r) /\ \A d \in Devices : ~InMailbox(d, r) /\ handling[d] # r
      BY <2>0, <3>1 DEF Once
    <3>3. applied[r] = 0 /\ stage[r] = "none"
      BY <2>0, <3>2 DEF Task, Untouched
    <3>4. QED BY <3>1, <3>2, <3>3 DEF CanStillAct, InMailbox
  <2>3. CASE reply[r] = "disconnected"
    <3>1. /\ call[r] = "ok" /\ stage[r] = "none"
          /\ \A d \in Devices : handling[d] # r /\ ~InMailbox(d, r)
      BY <2>0, <2>3 DEF Answer
    <3>2. applied[r] = 0
      BY <2>0, <3>1 DEF Task
    <3>3. delivered[r] = Devices
      BY <2>0, <3>1 DEF Placed
    <3>4. Target[r] \in Devices => Positions(r) = {}
      BY <2>0, <3>1, <3>3 DEF Placed, Accepted, InQueue, InThread, Done
    <3>5. QED BY <3>1, <3>2, <3>3, <3>4 DEF CanStillAct, InMailbox
  <2>4. QED BY <2>1, <2>2, <2>3
<1>2. QED BY <1>1, HubFactsCorrect, OnceCorrect, TaskCorrect, AnswerCorrect, PTL

-----------------------------------------------------------------------------
\* The capacity counter of a worker counts its tasks.
Counted(d) ==
    /\ IsFiniteSet(Admitted(d))
    /\ inFlight[d] = Cardinality(Admitted(d))
    /\ inFlight[d] <= MaxConcurrentOps[d]

CountInv == \A d \in Devices : Counted(d)

LEMMA CountStep ==
    HubFacts /\ OnceInv /\ CountInv /\ [Next]_vars => CountInv'
<1> SUFFICES ASSUME HubFacts, OnceInv, CountInv, [Next]_vars, NEW d \in Devices
             PROVE  Counted(d)'
  BY DEF CountInv
<1>0. /\ RequestTypeOK /\ Counted(d) /\ inFlight[d] \in Nat /\ MaxConcurrentOps[d] \in Nat
      /\ \A q \in Requests : Once(q)
  BY DeviceAssumption DEF HubFacts, RequestTypeOK, CountInv, OnceInv
<1>1. ASSUME inFlight'[d] = inFlight[d], Admitted(d)' = Admitted(d)
      PROVE  Counted(d)'
  BY <1>0, <1>1 DEF Counted
<1>2. CASE Quiet \/ PoolStep \/ \E e \in Devices :
              TakeOther(e) \/ BeginRequest(e) \/ Conclude(e)
  <2>1. UNCHANGED <<inFlight, stage>>
    BY <1>2 DEF Quiet, PoolStep, TakeOther, BeginRequest, Conclude, taskVars
  <2>2. QED BY <1>1, <2>1 DEF Admitted
<1>3. ASSUME NEW e \in Devices, SpawnOperation(e)
      PROVE  Counted(d)'
  <2>1. PICK h \in Requests : h = handling[e]
    BY <1>0, <1>3 DEF SpawnOperation, Idle, RequestTypeOK
  <2>2. Target[h] = e /\ stage[h] = "none"
    BY <1>0, <2>1 DEF Once, Untouched
  <2>3. /\ inFlight' = [inFlight EXCEPT ![e] = @ + 1]
        /\ stage' = [stage EXCEPT ![h] = "spawned"]
        /\ inFlight[e] < MaxConcurrentOps[e]
    BY <1>3, <2>1 DEF SpawnOperation, HasCapacity
  <2>4. \A q \in Requests : stage'[q] = IF q = h THEN "spawned" ELSE stage[q]
    BY <1>0, <2>3 DEF RequestTypeOK
  <2>5. CASE d # e
    <3>1. Admitted(d)' = Admitted(d)
      BY <2>2, <2>4, <2>5 DEF Admitted
    <3>2. QED BY <1>0, <1>1, <2>3, <2>5, <3>1 DEF RequestTypeOK
  <2>6. CASE d = e
    <3>1. Admitted(d)' = Admitted(d) \cup {h} /\ h \notin Admitted(d)
      BY <2>2, <2>4, <2>6 DEF Admitted
    <3>2. IsFiniteSet(Admitted(d)') /\ Cardinality(Admitted(d)') = Cardinality(Admitted(d)) + 1
      BY <1>0, <3>1, FS_AddElement DEF Counted
    <3>3. inFlight'[d] = inFlight[d] + 1
      BY <1>0, <2>3, <2>6 DEF RequestTypeOK
    <3>4. inFlight[d] + 1 <= MaxConcurrentOps[d]
      BY ONLY <1>0, <2>3, <2>6
    <3>5. QED BY <1>0, <3>2, <3>3, <3>4 DEF Counted
  <2>7. QED BY <2>5, <2>6
<1>4. ASSUME NEW q \in Requests, StartTask(q) \/ Execute(q) \/ SendResponse(q)
      PROVE  Counted(d)'
  <2>1. inFlight' = inFlight
    BY <1>4 DEF StartTask, Execute, SendResponse
  <2>2. /\ stage[q] \in {"spawned", "running", "returned", "responded"}
        /\ stage'[q] \in {"spawned", "running", "returned", "responded"}
        /\ \A p \in Requests : p # q => stage'[p] = stage[p]
    BY <1>0, <1>4 DEF StartTask, Execute, SendResponse, RequestTypeOK
  <2>3. Admitted(d)' = Admitted(d)
    BY <2>2 DEF Admitted
  <2>4. QED BY <1>1, <2>1, <2>3
<1>5. ASSUME NEW q \in Requests, DropGuard(q)
      PROVE  Counted(d)'
  <2>1. /\ stage[q] = "responded" /\ stage' = [stage EXCEPT ![q] = "ended"]
        /\ inFlight' = [inFlight EXCEPT ![Target[q]] = Released(@)]
    BY <1>5 DEF DropGuard
  <2>2. \A p \in Requests : stage'[p] = IF p = q THEN "ended" ELSE stage[p]
    BY <1>0, <2>1 DEF RequestTypeOK
  <2>3. CASE Target[q] # d
    <3>1. Admitted(d)' = Admitted(d)
      BY <2>2, <2>3 DEF Admitted
    <3>2. QED BY <1>0, <1>1, <2>1, <2>3, <3>1 DEF RequestTypeOK
  <2>4. CASE Target[q] = d
    <3>1. Admitted(d)' = Admitted(d) \ {q} /\ q \in Admitted(d)
      BY <2>1, <2>2, <2>4 DEF Admitted
    <3>2. IsFiniteSet(Admitted(d)') /\ Cardinality(Admitted(d)') = Cardinality(Admitted(d)) - 1
      BY <1>0, <3>1, FS_RemoveElement DEF Counted
    <3>3. Cardinality(Admitted(d)') \in Nat
      BY <3>2, FS_CardinalityType
    <3>4. inFlight'[d] = Released(inFlight[d])
      BY <1>0, <2>1, <2>4 DEF RequestTypeOK
    <3>5. inFlight[d] = Cardinality(Admitted(d)) /\ inFlight[d] <= MaxConcurrentOps[d]
      BY <1>0 DEF Counted
    <3>6. inFlight[d] - 1 \in Nat
      BY ONLY <1>0, <3>2, <3>3, <3>5
    <3>7. Released(inFlight[d]) = inFlight[d] - 1
      BY ONLY <1>0, <3>6 DEF Released
    <3>8. inFlight[d] - 1 <= MaxConcurrentOps[d]
      BY ONLY <1>0, <3>5
    <3>9. QED BY <3>2, <3>4, <3>5, <3>7, <3>8 DEF Counted
  <2>5. QED BY <2>3, <2>4
<1>6. QED BY <1>0, <1>2, <1>3, <1>4, <1>5, StepKinds DEF TaskStep

\* No early return, failed operation or caller that gave up leaks or frees a
\* slot twice, and the limit of no device is exceeded.
THEOREM CapacityCounts == Spec => []CapacityExact
<1>1. Init => CountInv
  <2> SUFFICES ASSUME Init, NEW d \in Devices PROVE Counted(d)
    BY DEF CountInv
  <2>1. Admitted(d) = {} /\ inFlight[d] = 0 /\ MaxConcurrentOps[d] \in Nat
    BY DeviceAssumption DEF Init, Admitted
  <2>2. QED BY <2>1, FS_EmptySet DEF Counted
<1>2. CountInv => CapacityExact
  BY DEF CountInv, Counted, CapacityExact
<1>3. QED BY <1>1, <1>2, CountStep, HubFactsCorrect, OnceCorrect, PTL DEF Spec

-----------------------------------------------------------------------------
\* DeviceControl implements RequestReply, its liveness aside.
Soundness == HubFacts /\ OnceInv /\ TaskInv /\ AnswerInv

EffectKept(r) == applied'[r] > 0 <=> applied[r] > 0

\* A step that changes at most what is promised of r is one of RequestReply if
\* what it does to r is.
LEMMA PromisedStep ==
    ASSUME NEW r \in Requests,
           \A q \in Requests : q # r =>
              /\ PhaseOf(q)' = PhaseOf(q) /\ AnswerOf(q)' = AnswerOf(q)
              /\ EffectKept(q),
           \/ /\ PhaseOf(r)' = PhaseOf(r) /\ AnswerOf(r)' = AnswerOf(r)
              /\ EffectKept(r)
           \/ /\ PhaseOf(r) = "idle" /\ PhaseOf(r)' = "pending"
              /\ AnswerOf(r)' = AnswerOf(r) /\ EffectKept(r)
           \/ /\ PhaseOf(r) = "idle" /\ PhaseOf(r)' = "answered"
              /\ AnswerOf(r)' = "refused" /\ EffectKept(r)
           \/ /\ PhaseOf(r) = "pending" /\ PhaseOf(r)' = "answered"
              /\ EffectKept(r)
              /\ \/ AnswerOf(r)' = "data" /\ (Operation[r] # "GetStatus" => applied[r] > 0)
                 \/ AnswerOf(r)' = "refused" /\ ~(applied[r] > 0)
                 \/ AnswerOf(r)' = "unknown"
           \/ /\ PhaseOf(r)' = PhaseOf(r) /\ AnswerOf(r)' = AnswerOf(r)
              /\ Operation[r] # "GetStatus" /\ PhaseOf(r) # "idle"
              /\ AnswerOf(r) \in {"none", "unknown"}
              /\ ~(applied[r] > 0) /\ applied'[r] > 0
    PROVE  [Promise!RRNext]_(Promise!rrVars)
<1> DEFINE phase == [q \in Requests |-> PhaseOf(q)]
           answer == [q \in Requests |-> AnswerOf(q)]
           effect == [q \in Requests |-> applied[q] > 0]
<1>0. ASSUME EffectKept(r) PROVE effect' = effect
  <2>1. \A q \in Requests : (applied'[q] > 0) = (applied[q] > 0)
    BY <1>0 DEF EffectKept
  <2>2. QED BY ONLY <2>1, Zenon
<1>1. CASE /\ PhaseOf(r)' = PhaseOf(r) /\ AnswerOf(r)' = AnswerOf(r)
           /\ EffectKept(r)
  <2>1. \A q \in Requests : PhaseOf(q)' = PhaseOf(q) /\ AnswerOf(q)' = AnswerOf(q)
    BY <1>1
  <2>2. effect' = effect
    BY <1>0, <1>1
  <2>3. phase' = phase /\ answer' = answer
    BY <2>1
  <2>4. QED BY <2>2, <2>3 DEF Promise!rrVars
<1>2. CASE /\ PhaseOf(r) = "idle" /\ PhaseOf(r)' = "pending"
           /\ AnswerOf(r)' = AnswerOf(r) /\ EffectKept(r)
  <2>1. phase' = [phase EXCEPT ![r] = "pending"] /\ answer' = answer
    BY <1>2
  <2>2. effect' = effect
    BY <1>0, <1>2
  <2>3. Promise!Start(r)
    BY <1>2, <2>1, <2>2 DEF Promise!Start
  <2>4. QED BY <2>3 DEF Promise!RRNext
<1>3. CASE /\ PhaseOf(r) = "idle" /\ PhaseOf(r)' = "answered"
           /\ AnswerOf(r)' = "refused" /\ EffectKept(r)
  <2>1. /\ phase' = [phase EXCEPT ![r] = "answered"]
        /\ answer' = [answer EXCEPT ![r] = "refused"]
    BY <1>3
  <2>2. effect' = effect
    BY <1>0, <1>3
  <2>3. Promise!Reject(r)
    BY <1>3, <2>1, <2>2 DEF Promise!Reject
  <2>4. QED BY <2>3 DEF Promise!RRNext
<1>4. CASE /\ PhaseOf(r) = "pending" /\ PhaseOf(r)' = "answered"
           /\ EffectKept(r)
           /\ \/ AnswerOf(r)' = "data" /\ (Operation[r] # "GetStatus" => applied[r] > 0)
              \/ AnswerOf(r)' = "refused" /\ ~(applied[r] > 0)
              \/ AnswerOf(r)' = "unknown"
  <2>1. /\ phase' = [phase EXCEPT ![r] = "answered"]
        /\ answer' = [answer EXCEPT ![r] = AnswerOf(r)']
    BY <1>4
  <2>2. effect' = effect
    BY <1>0, <1>4
  <2>3. phase[r] = "pending" /\ (effect[r] <=> applied[r] > 0)
    BY <1>4
  <2>4. Promise!Answer(r)
    BY <1>4, <2>1, <2>2, <2>3 DEF Promise!Answer
  <2>5. QED BY <2>4 DEF Promise!RRNext
<1>5. CASE /\ PhaseOf(r)' = PhaseOf(r) /\ AnswerOf(r)' = AnswerOf(r)
           /\ Operation[r] # "GetStatus" /\ PhaseOf(r) # "idle"
           /\ AnswerOf(r) \in {"none", "unknown"}
           /\ ~(applied[r] > 0) /\ applied'[r] > 0
  <2>1. phase' = phase /\ answer' = answer
    BY <1>5
  <2>2. effect' = [effect EXCEPT ![r] = TRUE]
    <3>1. \A q \in Requests : q # r => (applied'[q] > 0) = (applied[q] > 0)
      BY DEF EffectKept
    <3>2. (applied'[r] > 0) = TRUE
      BY <1>5
    <3>3. QED BY <3>1, <3>2, Zenon
  <2>3. phase[r] # "idle" /\ answer[r] \in {"none", "unknown"} /\ ~effect[r]
    BY <1>5
  <2>4. Promise!Apply(r)
    BY <1>5, <2>1, <2>2, <2>3 DEF Promise!Apply
  <2>5. QED BY <2>4 DEF Promise!RRNext
<1>6. QED BY <1>1, <1>2, <1>3, <1>4, <1>5

LEMMA CallerKeepsPromise ==
    ASSUME Soundness, Soundness', RefusedIsFinal', DataIsBacked', CallerStep
    PROVE  [Promise!RRNext]_(Promise!rrVars)
<1>0. /\ HubTypeOK /\ RequestTypeOK
      /\ Requests \subseteq Messages
      /\ \A r \in Requests : Answer(r)
  BY DeviceAssumption, HubAssumption DEF Soundness, HubFacts, HubInv, AnswerInv
<1>1. UNCHANGED applied
  BY DEF CallerStep, Send, SendRefused, SendTimesOut, ReceiveResponse, ResponseTimesOut,
     ResponseDisconnected, taskVars
<1>2. ASSUME NEW r \in Requests,
             \A q \in Requests : q # r => reply'[q] = reply[q] /\ (call'[q] = "idle" <=> call[q] = "idle"),
             \/ reply'[r] = reply[r] /\ (call'[r] = "idle" => call[r] = "idle")
             \/ reply[r] = "none" /\ call[r] = "idle" /\ reply'[r] = "queuefull"
             \/ /\ reply[r] = "none" /\ call[r] # "idle" /\ reply'[r] # "none"
                /\ reply'[r] # "queuefull"
      PROVE  [Promise!RRNext]_(Promise!rrVars)
  <2>1. \A q \in Requests : EffectKept(q)
    BY <1>1 DEF EffectKept
  <2>2. \A q \in Requests : q # r => PhaseOf(q)' = PhaseOf(q) /\ AnswerOf(q)' = AnswerOf(q)
    BY <1>2 DEF PhaseOf, AnswerOf
  <2>3. CASE reply'[r] = reply[r] /\ (call'[r] = "idle" => call[r] = "idle")
    <3>1. /\ AnswerOf(r)' = AnswerOf(r)
          /\ PhaseOf(r)' = PhaseOf(r) \/ (PhaseOf(r) = "idle" /\ PhaseOf(r)' = "pending")
      BY <2>3 DEF PhaseOf, AnswerOf
    <3>2. QED BY <2>1, <2>2, <3>1, PromisedStep
  <2>4. CASE reply[r] = "none" /\ call[r] = "idle" /\ reply'[r] = "queuefull"
    <3>1. PhaseOf(r) = "idle" /\ PhaseOf(r)' = "answered" /\ AnswerOf(r)' = "refused"
      BY <2>4 DEF PhaseOf, AnswerOf
    <3>2. QED BY <2>1, <2>2, <3>1, PromisedStep
  <2>5. CASE /\ reply[r] = "none" /\ call[r] # "idle" /\ reply'[r] # "none"
             /\ reply'[r] # "queuefull"
    <3>1. PhaseOf(r) = "pending" /\ PhaseOf(r)' = "answered"
      BY <2>5 DEF PhaseOf
    <3>2. applied'[r] = applied[r] /\ applied[r] \in Nat
      BY <1>0, <1>1 DEF RequestTypeOK
    <3>3. \/ AnswerOf(r)' = "data" /\ (Operation[r] # "GetStatus" => applied[r] > 0)
          \/ AnswerOf(r)' = "refused" /\ ~(applied[r] > 0)
          \/ AnswerOf(r)' = "unknown"
      <4>1. CASE reply'[r] = "data"
        BY <3>2, <4>1 DEF AnswerOf, DataIsBacked
      <4>2. CASE reply'[r] \in {"refused", "disconnected"}
        BY <3>2, <4>2 DEF AnswerOf, RefusedIsFinal
      <4>3. CASE reply'[r] \notin {"data", "refused", "disconnected"}
        BY <2>5, <4>3 DEF AnswerOf
      <4>4. QED BY <4>1, <4>2, <4>3
    <3>4. QED BY <2>1, <2>2, <3>1, <3>3, PromisedStep
  <2>6. QED BY <1>2, <2>3, <2>4, <2>5
<1>3. ASSUME NEW m \in Messages, Send(m) \/ SendRefused(m) \/ SendTimesOut(m)
      PROVE  [Promise!RRNext]_(Promise!rrVars)
  <2>1. \A q \in Requests : q # m => reply'[q] = reply[q] /\ call'[q] = call[q]
    BY <1>0, <1>3 DEF Send, SendRefused, SendTimesOut, SubmitAccepted, SubmitRefused,
       CallerTimesOut, HubTypeOK, RequestTypeOK, answerVars
  <2>2. CASE m \notin Requests
    <3>1. \A q \in Requests : PhaseOf(q)' = PhaseOf(q) /\ AnswerOf(q)' = AnswerOf(q)
      BY <2>1, <2>2 DEF PhaseOf, AnswerOf
    <3>2. QED
      BY <1>1, <3>1 DEF Promise!rrVars
  <2>3. CASE m \in Requests
    <3>1. \/ reply'[m] = reply[m] /\ call'[m] # "idle"
          \/ call[m] = "idle" /\ reply'[m] = "queuefull"
          \/ call[m] = "waiting" /\ reply'[m] = "sendtimeout"
      BY <1>0, <1>3, <2>3 DEF Send, SendRefused, SendTimesOut, SubmitAccepted, SubmitRefused,
         CallerTimesOut, HubTypeOK, RequestTypeOK, answerVars
    <3>2. call[m] \in {"idle", "waiting"} => reply[m] = "none"
      BY <1>0, <2>3 DEF Answer
    <3>3. QED BY <1>2, <2>1, <2>3, <3>1, <3>2
  <2>4. QED BY <2>2, <2>3
<1>4. ASSUME NEW r \in Requests,
             ReceiveResponse(r) \/ ResponseTimesOut(r) \/ ResponseDisconnected(r)
      PROVE  [Promise!RRNext]_(Promise!rrVars)
  <2>1. /\ \A q \in Requests : q # r => reply'[q] = reply[q]
        /\ call' = call
        /\ reply[r] = "none" /\ call[r] = "ok"
        /\ reply'[r] \in {"data", "refused", "failed", "timedout", "disconnected"}
    BY <1>0, <1>4 DEF ReceiveResponse, ResponseTimesOut, ResponseDisconnected, Listening,
       RequestTypeOK, Verdict, hubVars
  <2>2. QED BY <1>2, <2>1
<1>5. QED BY <1>3, <1>4 DEF CallerStep

LEMMA TaskKeepsPromise ==
    ASSUME Soundness, RefusedIsFinal', NEW r \in Requests, TaskStep(r)
    PROVE  [Promise!RRNext]_(Promise!rrVars)
<1>0. /\ RequestTypeOK /\ Task(r) /\ Once(r) /\ Answer(r) /\ Placed(r)
  BY DeviceAssumption, HubAssumption
     DEF Soundness, HubFacts, HubInv, OnceInv, TaskInv, AnswerInv
<1>1. UNCHANGED <<call, reply>>
  BY DEF TaskStep, StartTask, Execute, SendResponse, DropGuard, hubVars, answerVars
<1>2. \A q \in Requests : PhaseOf(q)' = PhaseOf(q) /\ AnswerOf(q)' = AnswerOf(q)
  BY <1>1 DEF PhaseOf, AnswerOf
<1>3. CASE applied' = applied
  BY <1>2, <1>3 DEF Promise!rrVars
<1>4. CASE applied' # applied
  <2>1. stage[r] = "running" /\ applied' = [applied EXCEPT ![r] = @ + 1]
    BY <1>4 DEF TaskStep, StartTask, Execute, SendResponse, DropGuard
  <2>2. applied[r] = 0 /\ response[r] = "none" /\ Operation[r] # "GetStatus"
    BY <1>0, <2>1 DEF Task
  <2>3. applied'[r] = 1 /\ \A q \in Requests : q # r => applied'[q] = applied[q]
    BY <1>0, <2>1, <2>2 DEF RequestTypeOK
  <2>4. \A q \in Requests : q # r => EffectKept(q)
    BY <2>3 DEF EffectKept
  <2>5. Target[r] \in delivered[r]
    BY <1>0, <2>1 DEF Once, Untouched
  <2>6. call[r] # "idle"
    BY <1>0, <2>5 DEF Placed
  <2>7. PhaseOf(r) # "idle"
    BY <2>6 DEF PhaseOf
  <2>8. reply[r] \notin {"refused", "queuefull", "disconnected", "data"}
    BY <1>0, <1>1, <2>2, <2>3 DEF RefusedIsFinal, Answer
  <2>9. AnswerOf(r) \in {"none", "unknown"}
    BY <2>8 DEF AnswerOf
  <2>10. QED BY <1>2, <2>2, <2>3, <2>4, <2>7, <2>9, PromisedStep
<1>5. QED BY <1>3, <1>4

\* Hub, pool, mailboxes, workers and tasks together keep what RequestReply
\* promises the caller, for any requests, devices and capacities.
THEOREM KeepsPromise == Spec => Promise!RRInit /\ [][Promise!RRNext]_(Promise!rrVars)
<1>1. Init => Promise!RRInit
  <2> SUFFICES ASSUME Init PROVE Promise!RRInit
    OBVIOUS
  <2>1. \A r \in Requests : PhaseOf(r) = "idle" /\ AnswerOf(r) = "none"
    BY DeviceAssumption, HubAssumption DEF Init, HubInit, PhaseOf, AnswerOf
  <2>2. \A r \in Requests : (applied[r] > 0) = FALSE
    BY DEF Init
  <2>3. [r \in Requests |-> applied[r] > 0] = [r \in Requests |-> FALSE]
    BY ONLY <2>2, Zenon
  <2>4. QED BY <2>1, <2>3 DEF Promise!RRInit
<1>2. ASSUME Soundness, Soundness', RefusedIsFinal', DataIsBacked', [Next]_vars
      PROVE  [Promise!RRNext]_(Promise!rrVars)
  <2>1. CASE CallerStep
    BY <1>2, <2>1, CallerKeepsPromise
  <2>2. CASE \E r \in Requests : TaskStep(r)
    BY <1>2, <2>2, TaskKeepsPromise
  <2>3. ASSUME \/ UNCHANGED <<call, reply>> /\ Quiet
               \/ PoolStep
               \/ \E d \in Devices :
                    TakeOther(d) \/ BeginRequest(d) \/ Conclude(d) \/ SpawnOperation(d)
        PROVE  [Promise!RRNext]_(Promise!rrVars)
    <3>1. UNCHANGED <<reply, applied>>
      BY <2>3 DEF Quiet, PoolStep, TakeOther, BeginRequest, Conclude, SpawnOperation,
         taskVars, answerVars
    <3>2. \A q \in Requests : call'[q] = "idle" <=> call[q] = "idle"
      <4>1. CASE PoolStep
        <5>1. call' = call \/ \E t \in Threads : CompleteTask(t)
          BY <4>1 DEF PoolStep, TakeTask, Deliver
        <5>2. call \in [Messages -> Outcome] /\ Requests \subseteq Messages
          BY <1>2, DeviceAssumption, HubAssumption DEF HubTypeOK, Soundness, HubFacts, HubInv
        <5>3. QED BY <5>1, <5>2 DEF CompleteTask
      <4>2. CASE ~PoolStep
        <5>1. call' = call
          BY <2>3, <4>2 DEF Quiet, TakeOther, BeginRequest, Conclude, SpawnOperation,
             Finish, Consume, hubVars
        <5>2. QED BY <5>1
      <4>3. QED BY <4>1, <4>2
    <3>3. \A q \in Requests : PhaseOf(q)' = PhaseOf(q) /\ AnswerOf(q)' = AnswerOf(q)
      BY <3>1, <3>2 DEF PhaseOf, AnswerOf
    <3>4. QED BY <3>1, <3>3 DEF Promise!rrVars
  <2>4. RequestTypeOK
    BY <1>2 DEF Soundness, HubFacts
  <2>5. QED BY <1>2, <2>1, <2>2, <2>3, <2>4, StepKinds
<1>3. HubFacts /\ OnceInv /\ TaskInv /\ AnswerInv => Soundness
  BY DEF Soundness
<1>4. QED
  BY <1>1, <1>2, <1>3, HubFactsCorrect, OnceCorrect, TaskCorrect, AnswerCorrect,
     RefusedForGood, DataBacked, PTL DEF Spec
=============================================================================
