------------------------ MODULE StreamPipelineProofs ------------------------
(***************************************************************************)
(* Proofs about StreamPipeline for any streams, pool threads, capacities   *)
(* and number of updates: the order in which updates are routed, and the   *)
(* cache against what has been routed.  Then about StreamPolling for any   *)
(* streams, intervals and configurations: every step of the polling loop   *)
(* is a step of the pipeline or leaves the pipeline alone, so what is      *)
(* proved of the pipeline holds of it, and the groups take turns.          *)
(***************************************************************************)
EXTENDS StreamPolling, HubSendProofs, FiniteSetTheorems

\* The publisher and the outcomes of its sends: only the newest number can be
\* waiting, and no number above sequence has been used.
PublisherInv ==
    /\ sequence \in 0..LastSequence
    /\ \A n \in Messages : n > sequence => call[n] = "idle"
    /\ \A n \in Messages : call[n] = "waiting" => publisher = "sending" /\ n = sequence
    /\ publisher = "cached" => sequence < LastSequence
    /\ publisher \in {"numbered", "sending"} => sequence \in Messages
    /\ publisher = "numbered" => call[sequence] = "idle"

\* y, behind x, is another update, and an older one only if it was given up.
Behind(x, y) == x # y /\ (y < x => call[y] = "timeout")

InOrder(q) == \A i, j \in 1..Len(q) : i < j => Behind(q[i], q[j])

Waiting == mailbox[Sse]

\* Everything that has left the pool, in the order in which it left.
OrderInv ==
    /\ routed \in Seq(Messages)
    /\ \A i \in 1..Len(routed) : Sse \in delivered[routed[i]]
    /\ \A i \in 1..Len(Waiting) : Sse \in delivered[Waiting[i]]
    /\ InOrder(routed)
    /\ InOrder(Waiting)
    /\ \A i \in 1..Len(routed), j \in 1..Len(Waiting) : Behind(routed[i], Waiting[j])

PipelineInv == HubInv /\ PublisherInv /\ OrderInv

-----------------------------------------------------------------------------
\* Every step of the pipeline is a step of the send pool or leaves it alone.
LEMMA PipelineStepsHub == PublisherInv /\ [PipelineNext]_pipelineVars => [HubNext]_hubVars
<1> SUFFICES ASSUME PublisherInv, PipelineNext PROVE [HubNext]_hubVars
  BY DEF pipelineVars, hubVars
<1>1. Sse \in Subscribers
  BY PipelineAssumption
<1>2. CASE PoolStep
  BY <1>1, <1>2 DEF PoolStep, HubNext
<1>3. CASE Route
  BY <1>1, <1>3 DEF Route, HubNext
<1>4. CASE PublishAccepted
  BY <1>4 DEF PublishAccepted, PublisherInv, HubNext
<1>5. CASE PublishRefused
  BY <1>5 DEF PublishRefused, PublisherInv, HubNext
<1>6. CASE PublishTimesOut
  BY <1>6 DEF PublishTimesOut, PublisherInv, HubNext
<1>7. CASE PublishReturns \/ NumberUpdate
  BY <1>7 DEF PublishReturns, NumberUpdate
<1>8. ASSUME NEW s \in Streams, CacheAnswer(s) \/ PollTimesOut(s)
      PROVE  UNCHANGED hubVars
  BY <1>8 DEF CacheAnswer, PollTimesOut
<1>9. QED
  BY <1>2, <1>3, <1>4, <1>5, <1>6, <1>7, <1>8 DEF PipelineNext, PublisherStep

LEMMA HubInvKept ==
    HubInv /\ PublisherInv /\ [PipelineNext]_pipelineVars => HubInv'
BY PipelineStepsHub, HubTypeStep, HubInvStep DEF HubInv

LEMMA PublisherInvStep ==
    HubTypeOK /\ PublisherInv /\ [PipelineNext]_pipelineVars => PublisherInv'
<1> SUFFICES ASSUME HubTypeOK, PublisherInv, [PipelineNext]_pipelineVars
             PROVE  PublisherInv'
  OBVIOUS
<1>0. /\ LastSequence \in Nat /\ Messages = 1..LastSequence
      /\ call \in [Messages -> Outcome]
  BY PipelineAssumption DEF HubTypeOK
<1> USE DEF PublisherInv
<1>1. ASSUME NEW s \in Streams, CacheAnswer(s)
      PROVE  PublisherInv'
  BY <1>0, <1>1 DEF CacheAnswer, hubVars
<1>2. ASSUME NEW s \in Streams, PollTimesOut(s)
      PROVE  PublisherInv'
  BY <1>0, <1>2 DEF PollTimesOut, hubVars
<1>3. CASE NumberUpdate
  BY <1>0, <1>3 DEF NumberUpdate, hubVars
<1>4. CASE PublishAccepted
  BY <1>0, <1>4 DEF PublishAccepted, SubmitAccepted
<1>5. CASE PublishRefused
  BY <1>0, <1>5 DEF PublishRefused, SubmitRefused
<1>6. CASE PublishReturns
  BY <1>0, <1>6 DEF PublishReturns, hubVars
<1>7. CASE PublishTimesOut
  BY <1>0, <1>7 DEF PublishTimesOut, CallerTimesOut
<1>8. CASE PoolStep
  <2>1. ASSUME NEW t \in Threads, CompleteTask(t)
        PROVE  PublisherInv'
    BY <1>0, <1>8, <2>1 DEF PoolStep, streamVars, CompleteTask
  <2>2. ASSUME call' = call
        PROVE  PublisherInv'
    BY <1>0, <1>8, <2>2 DEF PoolStep, streamVars
  <2>3. QED BY <1>8, <2>1, <2>2 DEF PoolStep, TakeTask, Deliver
<1>9. CASE Route
  BY <1>0, <1>9 DEF Route, Consume
<1>10. CASE UNCHANGED pipelineVars
  BY <1>10 DEF pipelineVars, hubVars, streamVars
<1>11. QED
  BY <1>1, <1>2, <1>3, <1>4, <1>5, <1>6, <1>7, <1>8, <1>9, <1>10
     DEF PipelineNext, PublisherStep

-----------------------------------------------------------------------------
\* A timeout is final and a delivery is not undone.
LEMMA OutcomesKept ==
    ASSUME HubTypeOK, PublisherInv, [PipelineNext]_pipelineVars, NEW n \in Messages
    PROVE  /\ call[n] = "timeout" => call'[n] = "timeout"
           /\ Sse \in delivered[n] => Sse \in delivered'[n]
<1>1. [HubNext]_hubVars
  BY PipelineStepsHub
<1>2. /\ call \in [Messages -> Outcome]
      /\ delivered \in [Messages -> SUBSET Subscribers]
      /\ carried \in [Threads -> Messages \cup {NoMessage}]
  BY DEF HubTypeOK
<1>3. ASSUME NEW t \in Threads, NEW s \in Subscribers, Deliver(t, s)
      PROVE  call' = call /\ delivered[n] \subseteq delivered'[n]
  BY <1>2, <1>3 DEF Deliver
<1>4. QED
  BY <1>1, <1>2, <1>3 DEF HubNext, hubVars, SubmitAccepted, SubmitRefused, CallerTimesOut,
     TakeTask, CompleteTask, Consume

\* Steps that move no update keep the order.
LEMMA OrderFrame ==
    ASSUME HubTypeOK, PublisherInv, OrderInv, [PipelineNext]_pipelineVars,
           routed' = routed, mailbox'[Sse] = mailbox[Sse]
    PROVE  OrderInv'
<1>1. Sse \in Subscribers /\ Messages = 1..LastSequence
  BY PipelineAssumption
<1>2. \A i \in 1..Len(routed) : routed[i] \in Messages
  BY ElementOfSeq DEF OrderInv
<1>3. \A i \in 1..Len(Waiting) : Waiting[i] \in Messages
  BY <1>1, ElementOfSeq DEF Waiting, HubTypeOK
<1>4. \A x, y \in Messages : Behind(x, y) => Behind(x, y)'
  BY OutcomesKept DEF Behind
<1>5. Waiting' = Waiting
  BY DEF Waiting
<1>6. \A n \in Messages : Sse \in delivered[n] => Sse \in delivered'[n]
  BY OutcomesKept
<1>7. QED
  BY <1>2, <1>3, <1>4, <1>5, <1>6 DEF OrderInv, InOrder

\* The update a thread hands to SseWorker may come behind all those that left
\* the pool before: it is none of them, and if one of them is newer then it is
\* not the update the publisher waits for.
LEMMA DeliveredLast ==
    ASSUME PipelineInv, NEW t \in Threads, Deliver(t, Sse),
           NEW x \in Messages, Sse \in delivered[x]
    PROVE  Behind(x, carried[t])
<1> DEFINE m == carried[t]
<1>1. /\ Messages = 1..LastSequence /\ LastSequence \in Nat
      /\ Recipients[m] = {Sse} /\ m \in Messages
      /\ Sse \notin delivered[m]
  BY PipelineAssumption DEF Deliver, PipelineInv, HubInv, HubTypeOK
<1>2. /\ OkMeansDelivered /\ RefusedHasNoEffect
      /\ call \in [Messages -> Outcome]
  BY HubInvImplies DEF PipelineInv, HubInv, HubTypeOK
<1>3. call[x] \notin {"idle", "full"}
  BY <1>2 DEF RefusedHasNoEffect
<1>4. x <= sequence
  BY <1>1, <1>3 DEF PipelineInv, PublisherInv
<1>5. call[m] # "ok"
  BY <1>1, <1>2 DEF OkMeansDelivered
<1>6. Carriers(m) # {}
  BY DEF Carriers
<1>7. call[m] \in {"waiting", "timeout"}
  BY <1>1, <1>2, <1>5, <1>6 DEF RefusedHasNoEffect, Outcome
<1>8. call[m] = "waiting" => m = sequence
  BY <1>1 DEF PipelineInv, PublisherInv
<1>9. QED
  BY <1>1, <1>4, <1>7, <1>8 DEF Behind

LEMMA OrderDeliver ==
    ASSUME PipelineInv, [PipelineNext]_pipelineVars, UNCHANGED streamVars,
           NEW t \in Threads, Deliver(t, Sse)
    PROVE  OrderInv'
<1> DEFINE m == carried[t]
<1> USE DEF PipelineInv
<1>0. HubTypeOK
  BY DEF HubInv
<1>1. /\ Sse \in Subscribers /\ Messages = 1..LastSequence /\ Single = {}
      /\ m \in Messages /\ Recipients[m] = {Sse}
      /\ Waiting \in Seq(Messages)
  BY <1>0, PipelineAssumption DEF Deliver, HubTypeOK, Waiting
<1>2. Waiting' = Append(Waiting, m)
  BY <1>0, <1>1 DEF Deliver, Kept, HubTypeOK, Waiting
<1>3. /\ Len(Waiting') = Len(Waiting) + 1 /\ Len(Waiting) \in Nat
      /\ \A i \in 1..Len(Waiting) : Waiting'[i] = Waiting[i]
      /\ Waiting'[Len(Waiting) + 1] = m
  <2> HIDE DEF m
  <2>1. QED BY <1>1, <1>2, AppendProperties, LenProperties
<1>4. /\ \A i \in 1..Len(routed) : routed[i] \in Messages
      /\ \A i \in 1..Len(Waiting) : Waiting[i] \in Messages
  BY <1>1, ElementOfSeq DEF OrderInv
<1>5. /\ \A i \in 1..Len(routed) : Behind(routed[i], m)
      /\ \A i \in 1..Len(Waiting) : Behind(Waiting[i], m)
  BY <1>4, DeliveredLast DEF OrderInv
<1>6. call' = call /\ routed' = routed
  BY DEF Deliver, streamVars
<1>7. \A n \in Messages : Sse \in delivered[n] => Sse \in delivered'[n]
  BY <1>0, OutcomesKept
<1>8. Sse \in delivered'[m]
  BY <1>0, <1>1 DEF Deliver, HubTypeOK
<1> HIDE DEF m
<1>9. \A x, y : Behind(x, y)' <=> Behind(x, y)
  BY <1>6 DEF Behind
<1>10. \A i \in 1..Len(Waiting') : Sse \in delivered'[Waiting'[i]]
  BY <1>3, <1>4, <1>7, <1>8 DEF OrderInv
<1>11. InOrder(Waiting)'
  BY <1>3, <1>5, <1>9 DEF OrderInv, InOrder
<1>12. \A i \in 1..Len(routed), j \in 1..Len(Waiting') : Behind(routed[i], Waiting'[j])
  BY <1>3, <1>5 DEF OrderInv
<1>13. QED
  BY <1>4, <1>6, <1>7, <1>9, <1>10, <1>11, <1>12 DEF OrderInv, InOrder

\* Taking an update moves the boundary between routed and waiting only.
LEMMA OrderRoute ==
    ASSUME HubTypeOK, PublisherInv, OrderInv, Route
    PROVE  OrderInv'
<1> DEFINE m == Head(Waiting)
<1>1. /\ Sse \in Subscribers /\ Messages = 1..LastSequence
      /\ Waiting \in Seq(Messages) /\ Waiting # <<>>
  BY PipelineAssumption DEF Route, HubTypeOK, Waiting
<1>2. Waiting' = Tail(Waiting) /\ routed' = Append(routed, m)
  BY <1>1 DEF Route, Consume, HubTypeOK, Waiting
<1>3. /\ m \in Messages /\ m = Waiting[1]
      /\ Len(Waiting) \in Nat /\ Len(Waiting) # 0
      /\ Len(Waiting') = Len(Waiting) - 1
      /\ \A i \in 1..Len(Waiting') : Waiting'[i] = Waiting[i + 1]
  <2>1. ASSUME NEW q \in Seq(Messages), q # <<>>
        PROVE  /\ Head(q) \in Messages /\ Head(q) = q[1]
               /\ Len(q) \in Nat /\ Len(q) # 0 /\ Len(Tail(q)) = Len(q) - 1
               /\ \A i \in 1..Len(Tail(q)) : Tail(q)[i] = q[i + 1]
    BY ONLY <2>1, HeadTailProperties, EmptySeq, LenProperties
  <2>2. QED BY <1>1, <1>2, <2>1
<1> HIDE DEF m
<1>4. /\ routed' \in Seq(Messages)
      /\ Len(routed) \in Nat /\ Len(routed') = Len(routed) + 1
      /\ \A i \in 1..Len(routed) : routed'[i] = routed[i]
      /\ routed'[Len(routed) + 1] = m
  BY <1>2, <1>3, AppendProperties, LenProperties DEF OrderInv
<1>5. call' = call /\ delivered' = delivered
  BY DEF Route, Consume
<1>6. \A x, y : Behind(x, y)' <=> Behind(x, y)
  BY <1>5 DEF Behind
<1>7. \A i \in 1..Len(Waiting') : i + 1 \in 1..Len(Waiting)
  BY <1>3
<1>8. /\ \A i \in 1..Len(routed') : Sse \in delivered[routed'[i]]
      /\ \A i \in 1..Len(Waiting') : Sse \in delivered[Waiting'[i]]
  <2>1. \A i \in 1..Len(Waiting) : Sse \in delivered[Waiting[i]]
    BY DEF OrderInv
  <2>2. Sse \in delivered[m]
    <3>1. 1 \in 1..Len(Waiting)
      BY <1>3
    <3>2. QED BY <1>3, <2>1, <3>1
  <2>3. ASSUME NEW i \in 1..Len(routed')
        PROVE  Sse \in delivered[routed'[i]]
    <3>1. CASE i = Len(routed) + 1
      BY <1>4, <2>2, <3>1
    <3>2. CASE i # Len(routed) + 1
      <4>1. i \in 1..Len(routed)
        BY <1>4, <3>2
      <4>2. QED BY <1>4, <4>1 DEF OrderInv
    <3>3. QED BY <3>1, <3>2
  <2>4. ASSUME NEW i \in 1..Len(Waiting')
        PROVE  Sse \in delivered[Waiting'[i]]
    BY <1>3, <1>7, <2>1
  <2>5. QED BY <2>3, <2>4
<1>9. InOrder(Waiting)'
  BY <1>3, <1>6, <1>7 DEF OrderInv, InOrder
<1>10. InOrder(routed)'
  <2>1. \A i \in 1..Len(routed) : Behind(routed[i], m)
    BY <1>3 DEF OrderInv
  <2>2. QED BY <1>4, <1>6, <2>1 DEF OrderInv, InOrder
<1>11. \A i \in 1..Len(routed'), j \in 1..Len(Waiting') : Behind(routed'[i], Waiting'[j])
  <2> SUFFICES ASSUME NEW i \in 1..Len(routed'), NEW j \in 1..Len(Waiting')
               PROVE  Behind(routed'[i], Waiting[j + 1])
    BY <1>3
  <2>1. CASE i = Len(routed) + 1
    <3>1. 1 \in 1..Len(Waiting) /\ 1 < j + 1
      BY <1>3
    <3>2. Behind(Waiting[1], Waiting[j + 1])
      BY <1>7, <3>1 DEF OrderInv, InOrder
    <3>3. QED BY <1>3, <1>4, <2>1, <3>2
  <2>2. CASE i # Len(routed) + 1
    BY <1>4, <1>7, <2>2 DEF OrderInv
  <2>3. QED BY <2>1, <2>2
<1>12. QED
  BY <1>4, <1>5, <1>6, <1>8, <1>9, <1>10, <1>11 DEF OrderInv

LEMMA PipelineInvInit == PipelineInit => PipelineInv
<1> SUFFICES ASSUME PipelineInit PROVE PipelineInv
  OBVIOUS
<1>1. HubInv
  BY HubInvInit DEF PipelineInit
<1>2. PublisherInv
  BY PipelineAssumption DEF PipelineInit, HubInit, PublisherInv
<1>3. Waiting = <<>> /\ routed = <<>>
  BY PipelineAssumption DEF PipelineInit, HubInit, Waiting
<1>4. OrderInv
  BY <1>3, EmptySeq DEF OrderInv, InOrder
<1>5. QED BY <1>1, <1>2, <1>4 DEF PipelineInv

LEMMA PipelineInvStep == PipelineInv /\ [PipelineNext]_pipelineVars => PipelineInv'
<1> SUFFICES ASSUME PipelineInv, [PipelineNext]_pipelineVars
             PROVE  PipelineInv'
  OBVIOUS
<1>1. HubTypeOK /\ HubInv /\ PublisherInv /\ OrderInv
  BY DEF PipelineInv, HubInv
<1>2. HubInv' /\ PublisherInv'
  BY <1>1, HubInvKept, PublisherInvStep
<1>3. CASE Route
  BY <1>1, <1>2, <1>3, OrderRoute DEF PipelineInv
<1>4. ASSUME PoolStep, NEW t \in Threads, Deliver(t, Sse)
      PROVE  OrderInv'
  BY <1>4, OrderDeliver DEF PoolStep
<1>5. ASSUME routed' = routed, mailbox'[Sse] = mailbox[Sse]
      PROVE  OrderInv'
  BY <1>1, <1>5, OrderFrame
<1>6. CASE PoolStep
  <2>1. routed' = routed
    BY <1>6 DEF PoolStep, streamVars
  <2>2. ASSUME NEW t \in Threads, TakeTask(t) \/ CompleteTask(t)
        PROVE  mailbox'[Sse] = mailbox[Sse]
    BY <2>2 DEF TakeTask, CompleteTask
  <2>3. OrderInv'
    BY <1>4, <1>5, <1>6, <2>1, <2>2 DEF PoolStep
  <2>4. QED BY <1>2, <2>3 DEF PipelineInv
<1>7. CASE PublisherStep
  <2>1. routed' = routed /\ mailbox'[Sse] = mailbox[Sse]
    BY <1>7 DEF PublisherStep, CacheAnswer, PollTimesOut, NumberUpdate, PublishAccepted,
       PublishRefused, PublishReturns, PublishTimesOut, SubmitAccepted, SubmitRefused,
       CallerTimesOut, hubVars
  <2>2. QED BY <1>2, <1>5, <2>1 DEF PipelineInv
<1>8. CASE UNCHANGED pipelineVars
  BY <1>2, <1>5, <1>8 DEF PipelineInv, pipelineVars, hubVars, streamVars
<1>9. QED BY <1>3, <1>6, <1>7, <1>8 DEF PipelineNext

\* The inductive invariant of the pipeline holds.
THEOREM PipelineInvCorrect == PipelineSpec => []PipelineInv
BY PipelineInvInit, PipelineInvStep, PTL DEF PipelineSpec

\* Only updates whose send the worker gave up on can be routed behind newer
\* ones, with any number of pool threads and any capacities.
THEOREM LateUpdatesGivenUp == PipelineSpec => []LateOnlyIfGivenUp
<1>1. PipelineInv => LateOnlyIfGivenUp
  BY DEF PipelineInv, OrderInv, InOrder, Behind, LateOnlyIfGivenUp
<1>2. QED BY <1>1, PipelineInvCorrect, PTL

\* No update is routed twice.
THEOREM NoUpdateTwice == PipelineSpec => []RoutedOnce
<1>1. ASSUME PipelineInv PROVE RoutedOnce
  <2>1. \A i, j \in 1..Len(routed) : i < j => routed[i] # routed[j]
    BY <1>1 DEF PipelineInv, OrderInv, InOrder, Behind
  <2>2. Len(routed) \in Nat
    BY <1>1, LenProperties DEF PipelineInv, OrderInv
  <2>3. QED BY <2>1, <2>2 DEF RoutedOnce
<1>2. QED BY <1>1, PipelineInvCorrect, PTL

\* The pipeline uses the send pool as any publisher does: what HubSendProofs
\* proves of the pool holds of it here.
THEOREM PipelineUsesHub == PipelineSpec => HubSpec
<1>1. PipelineInit => HubInit
  BY DEF PipelineInit
<1>2. PipelineInv => PublisherInv
  BY DEF PipelineInv
<1>3. QED
  BY <1>1, <1>2, PipelineStepsHub, PipelineInvCorrect, PTL DEF PipelineSpec, HubSpec

-----------------------------------------------------------------------------
\* An update has reached SseWorker: it has taken it or will.
Arrived(n) ==
    \/ \E i \in 1..Len(routed) : routed[i] = n
    \/ \E i \in 1..Len(Waiting) : Waiting[i] = n

\* What a pool thread has delivered stays delivered.
ArrivedInv == \A n \in Messages : Sse \in delivered[n] => Arrived(n)

\* A send that returned Ok was not for nothing.
SentArrives == \A n \in Messages : call[n] = "ok" => Arrived(n)

LEMMA ArrivedStep ==
    HubTypeOK /\ OrderInv /\ ArrivedInv /\ [PipelineNext]_pipelineVars => ArrivedInv'
<1> SUFFICES ASSUME HubTypeOK, OrderInv, ArrivedInv, [PipelineNext]_pipelineVars,
                    NEW n \in Messages, Sse \in delivered'[n]
             PROVE  Arrived(n)'
  BY DEF ArrivedInv
<1>1. /\ Sse \in Subscribers /\ Single = {}
      /\ Waiting \in Seq(Messages) /\ routed \in Seq(Messages)
      /\ delivered \in [Messages -> SUBSET Subscribers]
      /\ carried \in [Threads -> Messages \cup {NoMessage}]
  BY PipelineAssumption DEF HubTypeOK, OrderInv, Waiting
<1>2. Len(Waiting) \in Nat /\ Len(routed) \in Nat
  BY <1>1, LenProperties
<1>3. ASSUME routed' = routed, mailbox' = mailbox, delivered' = delivered
      PROVE  Arrived(n)'
  BY <1>3 DEF ArrivedInv, Arrived, Waiting
<1>4. ASSUME NEW t \in Threads, Deliver(t, Sse), routed' = routed
      PROVE  Arrived(n)'
  <2>1. PICK m \in Messages : m = carried[t]
    BY <1>1, <1>4 DEF Deliver
  <2>2. Waiting' = Append(Waiting, m)
    BY <1>1, <1>4, <2>1 DEF Deliver, Kept, HubTypeOK, Waiting
  <2>3. /\ Len(Waiting') = Len(Waiting) + 1
        /\ \A i \in 1..Len(Waiting) : Waiting'[i] = Waiting[i]
        /\ Waiting'[Len(Waiting) + 1] = m
    BY <1>1, <2>2, AppendProperties
  <2>4. CASE n = m
    BY <1>2, <2>3, <2>4 DEF Arrived
  <2>5. CASE n # m
    <3>1. Sse \in delivered[n]
      BY <1>1, <1>4, <2>1, <2>5 DEF Deliver
    <3>2. Arrived(n)
      BY <3>1 DEF ArrivedInv
    <3>3. QED BY <1>2, <1>4, <2>3, <3>2 DEF Arrived
  <2>6. QED BY <2>4, <2>5
<1>5. CASE Route
  <2>1. PICK m : m = Head(Waiting)
    OBVIOUS
  <2>2. /\ Waiting # <<>> /\ Waiting' = Tail(Waiting) /\ routed' = Append(routed, m)
        /\ delivered' = delivered
    BY <1>1, <1>5, <2>1 DEF Route, Consume, HubTypeOK, Waiting
  <2>3. /\ m \in Messages /\ m = Waiting[1]
        /\ Len(Waiting) # 0 /\ Len(Waiting') = Len(Waiting) - 1
        /\ \A i \in 1..Len(Waiting') : Waiting'[i] = Waiting[i + 1]
    <3>1. ASSUME NEW q \in Seq(Messages), q # <<>>
          PROVE  /\ Head(q) \in Messages /\ Head(q) = q[1]
                 /\ Len(q) # 0 /\ Len(Tail(q)) = Len(q) - 1
                 /\ \A i \in 1..Len(Tail(q)) : Tail(q)[i] = q[i + 1]
      BY ONLY <3>1, HeadTailProperties, EmptySeq, LenProperties
    <3>2. QED BY <1>1, <2>1, <2>2, <3>1
  <2>4. /\ Len(routed') = Len(routed) + 1
        /\ \A i \in 1..Len(routed) : routed'[i] = routed[i]
        /\ routed'[Len(routed) + 1] = m
    BY <1>1, <2>2, <2>3, AppendProperties
  <2>5. Arrived(n)
    BY <2>2 DEF ArrivedInv
  <2>6. CASE \E i \in 1..Len(routed) : routed[i] = n
    BY <1>2, <2>4, <2>6 DEF Arrived
  <2>7. ASSUME NEW i \in 1..Len(Waiting), Waiting[i] = n
        PROVE  Arrived(n)'
    <3>1. CASE i = 1
      BY <1>2, <2>3, <2>4, <2>7, <3>1 DEF Arrived
    <3>2. CASE i # 1
      <4>1. i - 1 \in 1..Len(Waiting') /\ Waiting'[i - 1] = n
        BY <1>2, <2>3, <2>7, <3>2
      <4>2. QED BY <4>1 DEF Arrived
    <3>3. QED BY <3>1, <3>2
  <2>8. QED BY <2>5, <2>6, <2>7 DEF Arrived
<1>6. CASE PoolStep
  BY <1>3, <1>4, <1>6 DEF PoolStep, streamVars, TakeTask, CompleteTask
<1>7. CASE PublisherStep \/ UNCHANGED pipelineVars
  <2>1. routed' = routed /\ mailbox' = mailbox /\ delivered' = delivered
    BY <1>7 DEF PublisherStep, CacheAnswer, PollTimesOut, NumberUpdate, PublishAccepted,
       PublishRefused, PublishReturns, PublishTimesOut, SubmitAccepted, SubmitRefused,
       CallerTimesOut, pipelineVars, streamVars, hubVars
  <2>2. QED BY <1>3, <2>1
<1>8. QED BY <1>5, <1>6, <1>7 DEF PipelineNext

\* No update is lost on its way: if the send returned Ok, SseWorker has taken
\* the update or finds it in its mailbox, whatever the threads and the other
\* sends do (hub_protection.rs on data_stream_worker.rs:99-112).
THEOREM NothingLost == PipelineSpec => []SentArrives
<1>1. PipelineInit => ArrivedInv
  BY DEF PipelineInit, HubInit, ArrivedInv
<1>2. PipelineInv /\ ArrivedInv /\ [PipelineNext]_pipelineVars => ArrivedInv'
  BY ArrivedStep DEF PipelineInv, HubInv
<1>3. PipelineInv /\ ArrivedInv => SentArrives
  <2> SUFFICES ASSUME PipelineInv, ArrivedInv, NEW n \in Messages, call[n] = "ok"
               PROVE  Arrived(n)
    BY DEF SentArrives
  <2>1. OkMeansDelivered
    BY HubInvImplies DEF PipelineInv
  <2>2. delivered[n] = {Sse}
    BY <2>1, PipelineAssumption DEF OkMeansDelivered
  <2>3. QED BY <2>2 DEF ArrivedInv
<1>4. QED BY <1>1, <1>2, <1>3, PipelineInvCorrect, PTL DEF PipelineSpec

-----------------------------------------------------------------------------
\* The cache and the numbers it was given.
StreamTypeOK ==
    /\ publisher \in {"idle", "cached", "numbered", "sending"}
    /\ polled \in Streams \cup {NoStream}
    /\ streamOf \in [Messages -> Streams \cup {NoStream}]
    /\ cache \in [Streams -> [number : 0..LastSequence, error : BOOLEAN]]

CacheInv ==
    /\ publisher = "cached" => polled \in Streams /\ cache[polled].number = sequence + 1
    /\ \A n \in 1..sequence : streamOf[n] \in Streams /\ n <= cache[streamOf[n]].number

LEMMA CacheInvStep ==
    PublisherInv /\ StreamTypeOK /\ CacheInv /\ [PipelineNext]_pipelineVars
        => StreamTypeOK' /\ CacheInv'
<1> SUFFICES ASSUME PublisherInv, StreamTypeOK, CacheInv, [PipelineNext]_pipelineVars
             PROVE  StreamTypeOK' /\ CacheInv'
  OBVIOUS
<1>0. /\ LastSequence \in Nat /\ Messages = 1..LastSequence
      /\ sequence \in 0..LastSequence
      /\ publisher = "cached" => sequence < LastSequence
  BY PipelineAssumption DEF PublisherInv
<1> USE DEF StreamTypeOK, CacheInv
<1>1. ASSUME NEW s \in Streams, CacheAnswer(s)
      PROVE  StreamTypeOK' /\ CacheInv'
  <2>1. PICK e \in [number : 0..LastSequence, error : BOOLEAN] :
          e.number = sequence + 1 /\ cache' = [cache EXCEPT ![s] = e]
    <3>1. PICK failed \in BOOLEAN :
            cache' = [cache EXCEPT ![s] = [number |-> sequence + 1, error |-> failed]]
      BY <1>1 DEF CacheAnswer, CacheWith
    <3>2. [number |-> sequence + 1, error |-> failed] \in [number : 0..LastSequence, error : BOOLEAN]
      BY <1>0, <1>1 DEF CacheAnswer, CacheWith
    <3>3. QED BY <3>1, <3>2
  <2>2. cache' \in [Streams -> [number : 0..LastSequence, error : BOOLEAN]]
    BY <2>1
  <2>3. cache'[s].number = sequence + 1
    BY <2>1
  <2>4. \A u \in Streams : u # s => cache'[u] = cache[u]
    BY <2>1
  <2>5. \A n \in 1..sequence : streamOf[n] \in Streams /\ n <= cache'[streamOf[n]].number
    BY <1>0, <2>3, <2>4
  <2>6. QED BY <1>1, <2>2, <2>3, <2>5 DEF CacheAnswer, CacheWith
<1>2. ASSUME NEW s \in Streams, PollTimesOut(s)
      PROVE  StreamTypeOK' /\ CacheInv'
  <2> DEFINE e == [number |-> sequence, error |-> TRUE]
  <2>1. e \in [number : 0..LastSequence, error : BOOLEAN] /\ e.number = sequence
    BY <1>0
  <2>2. cache' = [cache EXCEPT ![s] = e]
    BY <1>2 DEF PollTimesOut, CacheWith
  <2> HIDE DEF e
  <2>3. cache' \in [Streams -> [number : 0..LastSequence, error : BOOLEAN]]
    BY <2>1, <2>2
  <2>4. cache'[s].number = sequence
    BY <2>1, <2>2
  <2>5. \A u \in Streams : u # s => cache'[u] = cache[u]
    BY <2>2
  <2>6. \A n \in 1..sequence : streamOf[n] \in Streams /\ n <= cache'[streamOf[n]].number
    BY <1>0, <2>4, <2>5
  <2>7. QED BY <1>2, <2>3, <2>6 DEF PollTimesOut, CacheWith
<1>3. CASE NumberUpdate
  <2>1. streamOf' = [streamOf EXCEPT ![sequence + 1] = polled] /\ sequence' = sequence + 1
    BY <1>3 DEF NumberUpdate
  <2>2. \A n \in 1..sequence' : streamOf'[n] \in Streams /\ n <= cache[streamOf'[n]].number
    <3>1. ASSUME NEW n \in 1..sequence
          PROVE  streamOf'[n] = streamOf[n]
      BY <1>0, <2>1
    <3>2. streamOf'[sequence + 1] = polled
      BY <1>0, <1>3, <2>1 DEF NumberUpdate
    <3>3. polled \in Streams /\ cache[polled].number = sequence + 1
      BY <1>3 DEF NumberUpdate
    <3>4. QED BY <1>0, <2>1, <3>1, <3>2, <3>3
  <2>3. QED BY <1>0, <1>3, <2>1, <2>2 DEF NumberUpdate
<1>4. ASSUME UNCHANGED <<sequence, streamOf, cache>>,
             publisher' \in {publisher, "idle", "sending"}, polled' \in {polled, NoStream},
             publisher' = "cached" => polled' = polled
      PROVE  StreamTypeOK' /\ CacheInv'
  BY <1>4
<1>5. QED
  BY <1>1, <1>2, <1>3, <1>4 DEF PipelineNext, PublisherStep, PublishAccepted, PublishRefused,
     PublishReturns, PublishTimesOut, PoolStep, Route, streamVars, pipelineVars

\* The entries of the cache and their numbers stay consistent with sequence.
THEOREM CacheInvCorrect == PipelineSpec => [](StreamTypeOK /\ CacheInv)
<1>1. PipelineInit => StreamTypeOK /\ CacheInv
  BY PipelineAssumption DEF PipelineInit, StreamTypeOK, CacheInv
<1>2. QED
  BY <1>1, CacheInvStep, PipelineInvCorrect, PTL DEF PipelineSpec, PipelineInv

\* What HTTP serves from the cache is never older than an update of the same
\* stream that has reached the event streams.
THEOREM CacheUpToDate == PipelineSpec => []CacheNotBehind
<1>1. ASSUME PipelineInv, CacheInv
      PROVE  CacheNotBehind
  <2>1. ASSUME NEW i \in 1..Len(routed)
        PROVE  routed[i] \in 1..sequence
    <3>1. routed[i] \in Messages /\ Sse \in delivered[routed[i]]
      BY <1>1, ElementOfSeq DEF PipelineInv, OrderInv
    <3>2. call[routed[i]] # "idle"
      BY <1>1, <3>1, HubInvImplies DEF PipelineInv, RefusedHasNoEffect
    <3>3. QED BY <1>1, <3>1, <3>2, PipelineAssumption DEF PipelineInv, PublisherInv
  <2>2. QED BY <1>1, <2>1 DEF CacheInv, CacheNotBehind, Shown
<1>2. QED BY <1>1, PipelineInvCorrect, CacheInvCorrect, PTL

\* Every variable of the pipeline keeps its type.
THEOREM PipelineTypeCorrect == PipelineSpec => []PipelineTypeOK
<1>1. PipelineInv /\ StreamTypeOK => PipelineTypeOK
  BY DEF PipelineInv, HubInv, PublisherInv, OrderInv, StreamTypeOK, PipelineTypeOK
<1>2. QED BY <1>1, PipelineInvCorrect, CacheInvCorrect, PTL

-----------------------------------------------------------------------------
\* The polling loop around the polls.

LEMMA PollingStepsPipeline ==
    [PollingNext]_<<pipelineVars, pollingVars>> => [PipelineNext]_pipelineVars
<1> SUFFICES ASSUME PollingNext PROVE [PipelineNext]_pipelineVars
  OBVIOUS
<1>1. ASSUME NEW i \in Intervals, Elapse(i) PROVE UNCHANGED pipelineVars
  BY <1>1 DEF Elapse
<1>2. CASE UpdateConfig \/ StartRound \/ NextGroup \/ FinishGroup
  BY <1>2 DEF UpdateConfig, StartRound, NextGroup, FinishGroup
<1>3. ASSUME NEW s \in Streams, Poll(s) PROVE [PipelineNext]_pipelineVars
  BY <1>3 DEF Poll, PipelineNext, PublisherStep
<1>4. CASE Publish
  BY <1>4 DEF Publish, PipelineNext, PublisherStep
<1>5. CASE PoolStep \/ Route
  BY <1>5 DEF PipelineNext
<1>6. QED BY <1>1, <1>2, <1>3, <1>4, <1>5 DEF PollingNext

\* The polling loop (data_stream_worker.rs:167-241) implements the pipeline in
\* which any stream may be polled next (StreamPipeline).
THEOREM PollingImplementsPipeline == PollingSpec => PipelineSpec
<1>1. PollingInit => PipelineInit
  BY DEF PollingInit
<1>2. QED BY <1>1, PollingStepsPipeline, PTL DEF PollingSpec, PipelineSpec

\* Under the polling loop an update is routed behind a newer one only if the
\* worker gave up its send (data_stream_worker.rs:99-112).
THEOREM PollingKeepsOrder == PollingSpec => []LateOnlyIfGivenUp
BY PollingImplementsPipeline, LateUpdatesGivenUp, PTL

\* Under the polling loop, reloads included, a client that has seen an update
\* gets it or a newer one from the cache (data_stream_worker.rs:94-99).
THEOREM PollingKeepsCache == PollingSpec => []CacheNotBehind
BY PollingImplementsPipeline, CacheUpToDate, PTL

\* The polling loop uses the send pool as any publisher does, and no update
\* whose send returned Ok is lost under it.
THEOREM PollingLosesNothing == PollingSpec => HubSpec /\ []SentArrives
BY PollingImplementsPipeline, PipelineUsesHub, NothingLost, PTL

-----------------------------------------------------------------------------
\* Streams this round has still to poll.
Left == remaining \cup {s \in Streams : intervalOf[s] \in pollsToRun}

\* How the timers, the round under way and its polls belong together.
RoundInv ==
    /\ intervalOf \in [Streams -> Intervals \cup {Disabled}]
    /\ bypassed \in [Intervals -> Nat]
    /\ elapsed \subseteq Intervals
    /\ pollsToRun \subseteq elapsed
    /\ current \in (elapsed \ pollsToRun) \cup {Disabled}
    /\ remaining \subseteq Group(current)
    /\ current = Disabled => remaining = {}
    /\ \A i \in Intervals \ elapsed : bypassed[i] = 0

\* What a group has been through and what may still come before it: a group of
\* this round waits for the rest of the round, one that elapsed too late for it
\* has the rest of the round and one whole round before it.
TurnInv ==
    \A i \in elapsed :
        /\ bypassed[i] <= 2 * Cardinality(Outside(i))
        /\ i \in pollsToRun =>
              bypassed[i] + Cardinality(Left \ Group(i)) <= 2 * Cardinality(Outside(i))
        /\ i \notin pollsToRun /\ i # current =>
              bypassed[i] + Cardinality(Left) <= Cardinality(Outside(i))

\* The sets that are counted are finite, and parts of each other.
LEMMA LeftIsOutside ==
    ASSUME RoundInv
    PROVE  /\ IsFiniteSet(Left) /\ Cardinality(Left) \in Nat
           /\ \A i \in Intervals :
                /\ IsFiniteSet(Outside(i)) /\ Cardinality(Outside(i)) \in Nat
                /\ IsFiniteSet(Left \ Group(i)) /\ Cardinality(Left \ Group(i)) \in Nat
                /\ Cardinality(Left \ Group(i)) <= Cardinality(Outside(i))
                /\ i \notin pollsToRun /\ i # current =>
                      Cardinality(Left) <= Cardinality(Outside(i))
<1>1. Left \subseteq Streams
  BY DEF RoundInv, Left, Group
<1>2. IsFiniteSet(Left) /\ Cardinality(Left) \in Nat
  BY <1>1, PollingAssumption, FS_Subset, FS_CardinalityType
<1>3. ASSUME NEW i \in Intervals
      PROVE  /\ IsFiniteSet(Outside(i)) /\ Cardinality(Outside(i)) \in Nat
             /\ IsFiniteSet(Left \ Group(i)) /\ Cardinality(Left \ Group(i)) \in Nat
             /\ Cardinality(Left \ Group(i)) <= Cardinality(Outside(i))
             /\ i \notin pollsToRun /\ i # current =>
                   Cardinality(Left) <= Cardinality(Outside(i))
  <2>1. Outside(i) \subseteq Streams
    BY DEF Outside
  <2>2. IsFiniteSet(Outside(i)) /\ Cardinality(Outside(i)) \in Nat
    BY <2>1, PollingAssumption, FS_Subset, FS_CardinalityType
  <2>3. Left \ Group(i) \subseteq Outside(i)
    BY PollingAssumption DEF RoundInv, Left, Group, Outside
  <2>4. /\ IsFiniteSet(Left \ Group(i)) /\ Cardinality(Left \ Group(i)) \in Nat
        /\ Cardinality(Left \ Group(i)) <= Cardinality(Outside(i))
    BY <2>2, <2>3, FS_Subset, FS_CardinalityType
  <2>5. ASSUME i \notin pollsToRun, i # current
        PROVE  Cardinality(Left) <= Cardinality(Outside(i))
    <3>1. Left \subseteq Outside(i)
      BY <2>5, PollingAssumption DEF RoundInv, Left, Group, Outside
    <3>2. QED BY <2>2, <3>1, FS_Subset
  <2>6. QED BY <2>2, <2>4, <2>5
<1>4. QED BY <1>2, <1>3

LEMMA RoundInvStep == RoundInv /\ [PollingNext]_<<pipelineVars, pollingVars>> => RoundInv'
<1> SUFFICES ASSUME RoundInv, [PollingNext]_<<pipelineVars, pollingVars>>
             PROVE  RoundInv'
  OBVIOUS
<1> USE DEF RoundInv
<1>1. ASSUME NEW i \in Intervals, Elapse(i) PROVE RoundInv'
  BY <1>1, PollingAssumption DEF Elapse, InUse, Group
<1>2. CASE UpdateConfig
  BY <1>2 DEF UpdateConfig, AtTop, Group
<1>3. CASE StartRound
  BY <1>3, PollingAssumption DEF StartRound, AtTop, Group
<1>4. CASE NextGroup
  BY <1>4, PollingAssumption DEF NextGroup, Group
<1>5. CASE FinishGroup
  BY <1>5, PollingAssumption DEF FinishGroup, Group
<1>6. ASSUME NEW s \in Streams, Poll(s) PROVE RoundInv'
  <2>1. bypassed' \in [Intervals -> Nat] /\ \A i \in Intervals \ elapsed : bypassed'[i] = 0
    BY <1>6 DEF Poll
  <2>2. QED BY <1>6, <2>1 DEF Poll, Group
<1>7. CASE UNCHANGED pollingVars
  BY <1>7 DEF pollingVars, Group
<1>8. QED BY <1>1, <1>2, <1>3, <1>4, <1>5, <1>6, <1>7 DEF PollingNext, Publish

LEMMA TurnInvStep ==
    RoundInv /\ TurnInv /\ [PollingNext]_<<pipelineVars, pollingVars>> => TurnInv'
<1> SUFFICES ASSUME RoundInv, TurnInv, [PollingNext]_<<pipelineVars, pollingVars>>
             PROVE  TurnInv'
  OBVIOUS
<1>0. RoundInv'
  BY RoundInvStep
<1>1. ASSUME NEW i \in Intervals, Elapse(i) PROVE TurnInv'
  <2>1. Left' = Left /\ \A j : Group(j)' = Group(j) /\ Outside(j)' = Outside(j)
    BY <1>1 DEF Elapse, Left, Group, Outside
  <2>2. bypassed[i] = 0 /\ i \notin pollsToRun /\ i # current
    BY <1>1, PollingAssumption DEF Elapse, RoundInv
  <2>3. bypassed[i] + Cardinality(Left) <= Cardinality(Outside(i))
    <3>1. /\ Cardinality(Left) \in Nat /\ Cardinality(Outside(i)) \in Nat
          /\ Cardinality(Left) <= Cardinality(Outside(i))
      BY <2>2, LeftIsOutside
    <3>2. QED BY <2>2, <3>1
  <2>4. bypassed[i] <= 2 * Cardinality(Outside(i))
    <3>1. Cardinality(Outside(i)) \in Nat
      BY LeftIsOutside
    <3>2. QED BY <2>2, <3>1
  <2>5. QED BY <1>1, <2>1, <2>2, <2>3, <2>4 DEF Elapse, TurnInv
<1>2. CASE UpdateConfig
  BY <1>2 DEF UpdateConfig, TurnInv
<1>3. CASE StartRound
  <2>1. \A j : Group(j)' = Group(j) /\ Outside(j)' = Outside(j)
    BY <1>3 DEF StartRound, Group, Outside
  <2>2. ASSUME NEW i \in elapsed'
        PROVE  /\ bypassed'[i] <= 2 * Cardinality(Outside(i)')
               /\ i \in pollsToRun'
               /\ bypassed'[i] + Cardinality(Left' \ Group(i)') <= 2 * Cardinality(Outside(i)')
    <3>1. i \in elapsed /\ i \in Intervals /\ bypassed'[i] = bypassed[i] /\ bypassed[i] \in Nat
      BY <1>3, <2>2 DEF StartRound, RoundInv
    <3>2. bypassed[i] + Cardinality(Left) <= Cardinality(Outside(i))
      BY <1>3, <3>1, PollingAssumption DEF StartRound, AtTop, RoundInv, TurnInv
    <3>3. /\ Cardinality(Outside(i)) \in Nat /\ Cardinality(Left) \in Nat
          /\ Cardinality(Left' \ Group(i)') \in Nat
          /\ Cardinality(Left' \ Group(i)') <= Cardinality(Outside(i))
      <4>1. Left' \ Group(i)' \subseteq Outside(i)
        BY <1>3, <3>1, PollingAssumption
           DEF StartRound, AtTop, RoundInv, Left, Group, Outside
      <4>2. IsFiniteSet(Outside(i))
        BY <3>1, LeftIsOutside
      <4>3. QED BY <3>1, <4>1, <4>2, LeftIsOutside, FS_Subset, FS_CardinalityType
    <3>4. QED BY <1>3, <2>1, <2>2, <3>1, <3>2, <3>3 DEF StartRound
  <2>3. QED BY <2>2 DEF TurnInv
<1>4. CASE NextGroup
  <2>1. Left' = Left
    BY <1>4, PollingAssumption DEF NextGroup, RoundInv, Left, Group
  <2>2. \A j : Group(j)' = Group(j) /\ Outside(j)' = Outside(j)
    BY <1>4 DEF NextGroup, Group, Outside
  <2>3. ASSUME NEW i \in elapsed'
        PROVE  /\ bypassed'[i] <= 2 * Cardinality(Outside(i))
               /\ i \in pollsToRun' =>
                    bypassed'[i] + Cardinality(Left \ Group(i)) <= 2 * Cardinality(Outside(i))
               /\ i \notin pollsToRun' /\ i # current' =>
                    bypassed'[i] + Cardinality(Left) <= Cardinality(Outside(i))
    <3>1. /\ i \in elapsed /\ i \in Intervals /\ bypassed' = bypassed /\ i # current
          /\ i \in pollsToRun' => i \in pollsToRun
          /\ i \notin pollsToRun' /\ i # current' => i \notin pollsToRun
      BY <1>4, <2>3, PollingAssumption DEF NextGroup, RoundInv
    <3>2. QED BY <3>1 DEF TurnInv
  <2>4. QED BY <2>1, <2>2, <2>3 DEF TurnInv
<1>5. CASE FinishGroup
  <2>1. Left' = Left
    BY <1>5 DEF FinishGroup, Left
  <2>2. \A j : Group(j)' = Group(j) /\ Outside(j)' = Outside(j)
    BY <1>5 DEF FinishGroup, Group, Outside
  <2>3. \A j \in elapsed' : j \in elapsed /\ j # current /\ bypassed'[j] = bypassed[j]
    BY <1>5 DEF FinishGroup, RoundInv
  <2>4. QED BY <1>5, <2>1, <2>2, <2>3 DEF FinishGroup, TurnInv
<1>6. ASSUME NEW s \in Streams, Poll(s) PROVE TurnInv'
  <2>1. \A j : Group(j)' = Group(j) /\ Outside(j)' = Outside(j)
    BY <1>6 DEF Poll, Group, Outside
  <2>2. s \in Left /\ Left' = Left \ {s} /\ current \in Intervals /\ intervalOf[s] = current
    BY <1>6, PollingAssumption DEF Poll, RoundInv, Left, Group
  <2>3. Cardinality(Left') = Cardinality(Left) - 1
    BY <2>2, LeftIsOutside, FS_RemoveElement
  <2>4. ASSUME NEW i \in elapsed'
        PROVE  /\ bypassed'[i] <= 2 * Cardinality(Outside(i))
               /\ i \in pollsToRun =>
                    bypassed'[i] + Cardinality(Left' \ Group(i)) <= 2 * Cardinality(Outside(i))
               /\ i \notin pollsToRun /\ i # current =>
                    bypassed'[i] + Cardinality(Left') <= Cardinality(Outside(i))
    <3>1. i \in elapsed /\ i \in Intervals /\ bypassed[i] \in Nat
      BY <1>6, <2>4 DEF Poll, RoundInv
    <3>2. /\ Cardinality(Outside(i)) \in Nat /\ Cardinality(Left) \in Nat
          /\ Cardinality(Left \ Group(i)) \in Nat
      BY <3>1, LeftIsOutside
    <3>3. CASE i = current
      <4>1. bypassed'[i] = bypassed[i] /\ pollsToRun' = pollsToRun /\ current' = current
        BY <1>6, <3>1, <3>3 DEF Poll
      <4>2. i \notin pollsToRun'
        BY <3>1, <3>3, <4>1, PollingAssumption DEF RoundInv
      <4>3. bypassed'[i] <= 2 * Cardinality(Outside(i))
        BY <3>1, <4>1 DEF TurnInv
      <4> QED
        BY <3>3, <4>1, <4>2, <4>3
    <3>4. CASE i # current /\ i \in pollsToRun
      <4>1. bypassed'[i] = bypassed[i] + 1
        BY <1>6, <3>1, <3>4 DEF Poll
      <4>2. s \in Left \ Group(i) /\ Left' \ Group(i) = (Left \ Group(i)) \ {s}
        BY <2>2, <3>4 DEF Group
      <4>3. Cardinality(Left' \ Group(i)) = Cardinality(Left \ Group(i)) - 1
        <5> DEFINE others == Left \ Group(i)
        <5>1. IsFiniteSet(others) /\ s \in others /\ Left' \ Group(i) = others \ {s}
          BY <3>1, <4>2, LeftIsOutside
        <5> HIDE DEF others
        <5>2. Cardinality(others \ {s}) = Cardinality(others) - 1
          BY <5>1, FS_RemoveElement
        <5> QED
          BY <5>1, <5>2 DEF others
      <4>4. bypassed[i] + Cardinality(Left \ Group(i)) <= 2 * Cardinality(Outside(i))
        BY <3>1, <3>4 DEF TurnInv
      <4>5. bypassed'[i] <= 2 * Cardinality(Outside(i))
        <5>1. bypassed[i] + 1 <= bypassed[i] + Cardinality(Left \ Group(i))
          <6>1. Cardinality(Left \ Group(i)) # 0
            BY <3>1, <4>2, LeftIsOutside, FS_EmptySet
          <6>2. QED BY ONLY <3>1, <3>2, <6>1
        <5>2. QED BY ONLY <3>1, <3>2, <4>1, <4>4, <5>1
      <4>6. bypassed'[i] + Cardinality(Left' \ Group(i)) <= 2 * Cardinality(Outside(i))
        BY ONLY <3>1, <3>2, <4>1, <4>3, <4>4
      <4>7. QED BY <3>4, <4>5, <4>6
    <3>5. CASE i # current /\ i \notin pollsToRun
      <4>1. bypassed'[i] = bypassed[i] + 1
        BY <1>6, <3>1, <3>5 DEF Poll
      <4>2. bypassed[i] + Cardinality(Left) <= Cardinality(Outside(i))
        BY <3>1, <3>5 DEF TurnInv
      <4>3. bypassed'[i] <= 2 * Cardinality(Outside(i))
        <5>1. Cardinality(Left) # 0
          BY <2>2, LeftIsOutside, FS_EmptySet
        <5>2. QED BY ONLY <3>1, <3>2, <4>1, <4>2, <5>1
      <4>4. bypassed'[i] + Cardinality(Left') <= Cardinality(Outside(i))
        BY ONLY <2>3, <3>1, <3>2, <4>1, <4>2
      <4>5. QED BY <3>5, <4>3, <4>4
    <3>6. QED BY <3>3, <3>4, <3>5
  <2>5. QED BY <1>6, <2>1, <2>4 DEF Poll, TurnInv
<1>7. CASE UNCHANGED pollingVars
  BY <1>7 DEF pollingVars, TurnInv, Left, Group, Outside
<1>8. QED BY <1>1, <1>2, <1>3, <1>4, <1>5, <1>6, <1>7 DEF PollingNext, Publish

\* No group starves behind the others (data_stream_worker.rs:192-233), for any
\* number of streams, intervals and configurations.
THEOREM TurnsTaken == PollingSpec => []GroupsTakeTurns
<1>1. PollingInit => RoundInv /\ TurnInv
  BY DEF PollingInit, RoundInv, TurnInv
<1>2. TurnInv => GroupsTakeTurns
  BY DEF TurnInv, GroupsTakeTurns
<1>3. QED BY <1>1, <1>2, RoundInvStep, TurnInvStep, PTL DEF PollingSpec
=============================================================================
