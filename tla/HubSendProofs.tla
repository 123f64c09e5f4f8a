--------------------------- MODULE HubSendProofs ---------------------------
(***************************************************************************)
(* Proofs about HubSend for any messages, subscribers, threads and         *)
(* capacities: what the callers are told about their message is right, and *)
(* the pool neither loses nor duplicates one.                              *)
(***************************************************************************)
EXTENDS HubSend, SequenceTheorems, TLAPS

\* Removing the DeviceControl of a mailbox leaves a sequence of messages.
LEMMA WithoutSingleType ==
    ASSUME NEW q \in Seq(Messages)
    PROVE  WithoutSingle(q) \in Seq(Messages)
<1>1. CASE SinglesIn(q) = {}
  BY <1>1 DEF WithoutSingle
<1>2. CASE SinglesIn(q) # {}
  <2> DEFINE i == CHOOSE j \in SinglesIn(q) : TRUE
  <2>1. i \in 1..Len(q)
    BY <1>2 DEF SinglesIn
  <2>2. Len(q) \in Nat
    BY LenProperties
  <2>3. SubSeq(q, 1, i - 1) \in Seq(Messages)
    <3>1. \A k \in 1..(i - 1) : q[k] \in Messages
      BY <2>1, <2>2, ElementOfSeq
    <3>2. QED BY <2>1, <2>2, <3>1, SubSeqProperties
  <2>4. SubSeq(q, i + 1, Len(q)) \in Seq(Messages)
    <3>1. \A k \in (i + 1)..Len(q) : q[k] \in Messages
      BY <2>1, <2>2, ElementOfSeq
    <3>2. QED BY <2>1, <2>2, <3>1, SubSeqProperties
  <2>5. QED BY <1>2, <2>3, <2>4, ConcatProperties DEF WithoutSingle
<1>3. QED BY <1>1, <1>2

LEMMA KeptType ==
    ASSUME NEW q \in Seq(Messages), NEW m
    PROVE  Kept(q, m) \in Seq(Messages)
BY WithoutSingleType DEF Kept

-----------------------------------------------------------------------------
\* Every step of the pool, its callers and its subscribers keeps the types and
\* the capacities.
LEMMA HubTypeStep == HubTypeOK /\ [HubNext]_hubVars => HubTypeOK'
<1> SUFFICES ASSUME HubTypeOK, [HubNext]_hubVars
             PROVE  HubTypeOK'
  OBVIOUS
<1> USE DEF HubTypeOK, Outcome
<1>1. ASSUME NEW m \in Messages, SubmitAccepted(m)
      PROVE  HubTypeOK'
  BY <1>1, HubAssumption, AppendProperties DEF SubmitAccepted
<1>2. ASSUME NEW m \in Messages, SubmitRefused(m)
      PROVE  HubTypeOK'
  BY <1>2 DEF SubmitRefused
<1>3. ASSUME NEW m \in Messages, CallerTimesOut(m)
      PROVE  HubTypeOK'
  BY <1>3 DEF CallerTimesOut
<1>4. ASSUME NEW t \in Threads, TakeTask(t)
      PROVE  HubTypeOK'
  <2>1. /\ Head(taskQueue) \in Messages
        /\ Tail(taskQueue) \in Seq(Messages)
        /\ Len(Tail(taskQueue)) = Len(taskQueue) - 1
    BY <1>4, HeadTailProperties DEF TakeTask
  <2>2. Len(taskQueue) \in Nat
    BY LenProperties
  <2>3. QED BY <1>4, <2>1, <2>2, HubAssumption DEF TakeTask
<1>5. ASSUME NEW t \in Threads, NEW s \in Subscribers, Deliver(t, s)
      PROVE  HubTypeOK'
  <2> DEFINE m == carried[t]
             q == Kept(mailbox[s], m)
  <2>1. m \in Messages
    BY <1>5 DEF Deliver
  <2>2. q \in Seq(Messages)
    BY KeptType
  <2>3. Append(q, m) \in Seq(Messages) /\ Len(Append(q, m)) = Len(q) + 1
    BY <2>1, <2>2, AppendProperties
  <2>4. Len(q) \in Nat /\ Len(q) < HubCapacity
    BY <1>5, <2>2, LenProperties DEF Deliver
  <2>5. mailbox' = [mailbox EXCEPT ![s] = Append(q, m)]
    BY <1>5 DEF Deliver
  <2>6. /\ mailbox' \in [Subscribers -> Seq(Messages)]
        /\ \A u \in Subscribers : Len(mailbox'[u]) <= HubCapacity
    <3> HIDE DEF q, m
    <3>1. QED BY <2>3, <2>4, <2>5, HubAssumption
  <2>7. delivered' \in [Messages -> SUBSET Subscribers]
    BY <1>5, <2>1 DEF Deliver
  <2>8. QED BY <1>5, <2>6, <2>7 DEF Deliver
<1>6. ASSUME NEW t \in Threads, CompleteTask(t)
      PROVE  HubTypeOK'
  BY <1>6 DEF CompleteTask
<1>7. ASSUME NEW s \in Subscribers, Consume(s)
      PROVE  HubTypeOK'
  <2>1. /\ Tail(mailbox[s]) \in Seq(Messages)
        /\ Len(Tail(mailbox[s])) = Len(mailbox[s]) - 1
    BY <1>7, HeadTailProperties DEF Consume
  <2>2. Len(mailbox[s]) \in Nat
    BY LenProperties
  <2>3. QED BY <1>7, <2>1, <2>2, HubAssumption DEF Consume
<1>8. CASE UNCHANGED hubVars
  BY <1>8 DEF hubVars
<1>9. QED BY <1>1, <1>2, <1>3, <1>4, <1>5, <1>6, <1>7, <1>8 DEF HubNext

\* Every variable keeps its type and every queue its capacity, whatever the
\* interleaving of callers, pool threads and subscribers.
THEOREM HubTypeCorrect == HubSpec => []HubTypeOK
<1>1. HubInit => HubTypeOK
  BY HubAssumption, EmptySeq DEF HubInit, HubTypeOK, Outcome
<1>2. QED BY <1>1, HubTypeStep, PTL DEF HubSpec

-----------------------------------------------------------------------------
\* Where one message is: the part of the invariant that concerns it.

InQueue(m) ==
    /\ \E i \in Positions(m) : Positions(m) = {i}
    /\ Carriers(m) = {} /\ delivered[m] = {}

InThread(m) ==
    /\ \E t \in Carriers(m) : Carriers(m) = {t}
    /\ Positions(m) = {}
    /\ delivered[m] \subseteq Recipients[m]

Done(m) ==
    /\ Positions(m) = {} /\ Carriers(m) = {}
    /\ delivered[m] = Recipients[m]

Placed(m) ==
    /\ call[m] = "ok" => delivered[m] = Recipients[m]
    /\ call[m] \in {"idle", "full"} =>
          delivered[m] = {} /\ Positions(m) = {} /\ Carriers(m) = {}
    /\ Accepted(m) => InQueue(m) \/ InThread(m) \/ Done(m)

\* The inductive invariant.
HubInv == HubTypeOK /\ \A m \in Messages : Placed(m)

LEMMA HubInvImplies ==
    HubInv => OkMeansDelivered /\ RefusedHasNoEffect /\ NeverLostInPool
BY DEF HubInv, Placed, InQueue, InThread, Done, OkMeansDelivered,
       RefusedHasNoEffect, NeverLostInPool

\* A message that the step neither moves nor answers keeps its place.
LEMMA PlacedUnchanged ==
    ASSUME NEW m \in Messages, Placed(m),
           Positions(m)' = Positions(m), Carriers(m)' = Carriers(m),
           delivered'[m] = delivered[m], call'[m] = call[m]
    PROVE  Placed(m)'
BY DEF Placed, InQueue, InThread, Done, Accepted

\* Appending m to the task queue adds one position of m and no other.
LEMMA PositionsOfAppend ==
    ASSUME taskQueue \in Seq(Messages), NEW m \in Messages, NEW n \in Messages,
           taskQueue' = Append(taskQueue, m)
    PROVE  Positions(n)' =
              IF n = m THEN Positions(n) \cup {Len(taskQueue) + 1} ELSE Positions(n)
<1>1. /\ Len(taskQueue') = Len(taskQueue) + 1
      /\ \A i \in 1..Len(taskQueue) : taskQueue'[i] = taskQueue[i]
      /\ taskQueue'[Len(taskQueue) + 1] = m
  BY AppendProperties
<1>2. Len(taskQueue) \in Nat
  BY LenProperties
<1>3. 1..Len(taskQueue') = (1..Len(taskQueue)) \cup {Len(taskQueue) + 1}
  BY <1>1, <1>2
<1>4. QED BY <1>1, <1>2, <1>3 DEF Positions

\* Taking the head moves every other position down by one.
LEMMA PositionsOfTail ==
    ASSUME taskQueue \in Seq(Messages), taskQueue # <<>>, NEW n \in Messages,
           taskQueue' = Tail(taskQueue)
    PROVE  Positions(n)' = {i - 1 : i \in Positions(n) \ {1}}
<1>1. /\ Len(taskQueue') = Len(taskQueue) - 1
      /\ \A i \in 1..Len(taskQueue') : taskQueue'[i] = taskQueue[i + 1]
  BY HeadTailProperties
<1>2. Len(taskQueue) \in Nat
  BY LenProperties
<1>3. ASSUME NEW i \in Positions(n)'
      PROVE  i \in {j - 1 : j \in Positions(n) \ {1}}
  <2>1. i + 1 \in Positions(n) \ {1} /\ i = (i + 1) - 1
    BY <1>1, <1>2, <1>3 DEF Positions
  <2>2. QED BY <2>1
<1>4. ASSUME NEW j \in Positions(n) \ {1}
      PROVE  j - 1 \in Positions(n)'
  <2>1. j \in 1..Len(taskQueue) /\ j # 1 /\ taskQueue[j] = n
    BY DEF Positions
  <2>2. j - 1 \in 1..Len(taskQueue') /\ taskQueue'[j - 1] = taskQueue[(j - 1) + 1]
    BY <1>1, <1>2, <2>1
  <2>3. QED BY <2>1, <2>2 DEF Positions
<1>5. QED BY <1>3, <1>4

-----------------------------------------------------------------------------
LEMMA HubInvInit == HubInit => HubInv
<1> SUFFICES ASSUME HubInit PROVE HubInv
  OBVIOUS
<1>1. HubTypeOK
  BY HubAssumption, EmptySeq DEF HubInit, HubTypeOK, Outcome
<1>2. ASSUME NEW m \in Messages
      PROVE  Placed(m)
  <2>1. Positions(m) = {}
    BY DEF HubInit, Positions
  <2>2. Carriers(m) = {}
    BY HubAssumption DEF HubInit, Carriers
  <2>3. QED BY <2>1, <2>2 DEF HubInit, Placed, Accepted
<1>3. QED BY <1>1, <1>2 DEF HubInv

\* One step of any thread, caller or subscriber leaves every message in its
\* place, or moves one message to the next place.
LEMMA HubInvStep == HubInv /\ HubTypeOK' /\ [HubNext]_hubVars => HubInv'
<1> SUFFICES ASSUME HubInv, HubTypeOK', [HubNext]_hubVars,
                    NEW n \in Messages
             PROVE  Placed(n)'
  BY DEF HubInv
<1>0. HubTypeOK /\ Placed(n) /\ taskQueue \in Seq(Messages)
  BY DEF HubInv, HubTypeOK
<1>1. ASSUME NEW m \in Messages, SubmitAccepted(m)
      PROVE  Placed(n)'
  <2>1. Positions(n)' = IF n = m THEN Positions(n) \cup {Len(taskQueue) + 1} ELSE Positions(n)
    BY <1>0, <1>1, PositionsOfAppend DEF SubmitAccepted
  <2>2. Carriers(n)' = Carriers(n) /\ delivered' = delivered
    BY <1>1 DEF SubmitAccepted, Carriers
  <2>3. CASE n = m
    <3>1. Positions(n) = {} /\ Carriers(n) = {} /\ delivered[n] = {}
      BY <1>0, <1>1, <2>3 DEF SubmitAccepted, Placed
    <3>2. Positions(n)' = {Len(taskQueue) + 1}
      BY <2>1, <2>3, <3>1
    <3>3. InQueue(n)'
      BY <2>2, <3>1, <3>2 DEF InQueue
    <3>4. call'[n] = "waiting"
      BY <1>0, <1>1, <2>3 DEF SubmitAccepted, HubTypeOK
    <3>5. QED BY <3>3, <3>4 DEF Placed
  <2>4. CASE n # m
    <3>1. call'[n] = call[n]
      BY <1>0, <1>1, <2>4 DEF SubmitAccepted, HubTypeOK
    <3>2. QED BY <1>0, <2>1, <2>2, <2>4, <3>1, PlacedUnchanged
  <2>5. QED BY <2>3, <2>4
<1>2. ASSUME NEW m \in Messages, SubmitRefused(m)
      PROVE  Placed(n)'
  <2>1. /\ Positions(n)' = Positions(n) /\ Carriers(n)' = Carriers(n)
        /\ delivered' = delivered
    BY <1>2 DEF SubmitRefused, Positions, Carriers
  <2>2. CASE n = m
    <3>1. call[n] = "idle" /\ call'[n] = "full"
      BY <1>0, <1>2, <2>2 DEF SubmitRefused, HubTypeOK
    <3>2. QED BY <1>0, <2>1, <3>1 DEF Placed, Accepted
  <2>3. CASE n # m
    <3>1. call'[n] = call[n]
      BY <1>0, <1>2, <2>3 DEF SubmitRefused, HubTypeOK
    <3>2. QED BY <1>0, <2>1, <3>1, PlacedUnchanged
  <2>4. QED BY <2>2, <2>3
<1>3. ASSUME NEW m \in Messages, CallerTimesOut(m)
      PROVE  Placed(n)'
  <2>1. /\ Positions(n)' = Positions(n) /\ Carriers(n)' = Carriers(n)
        /\ delivered' = delivered
    BY <1>3 DEF CallerTimesOut, Positions, Carriers
  <2>2. CASE n = m
    <3>1. call[n] = "waiting" /\ call'[n] = "timeout"
      BY <1>0, <1>3, <2>2 DEF CallerTimesOut, HubTypeOK
    <3>2. InQueue(n) \/ InThread(n) \/ Done(n)
      BY <1>0, <3>1 DEF Placed, Accepted
    <3>3. QED BY <2>1, <3>1, <3>2 DEF Placed, InQueue, InThread, Done
  <2>3. CASE n # m
    <3>1. call'[n] = call[n]
      BY <1>0, <1>3, <2>3 DEF CallerTimesOut, HubTypeOK
    <3>2. QED BY <1>0, <2>1, <3>1, PlacedUnchanged
  <2>4. QED BY <2>2, <2>3
<1>4. ASSUME NEW t \in Threads, TakeTask(t)
      PROVE  Placed(n)'
  <2> DEFINE m == Head(taskQueue)
  <2>1. Positions(n)' = {i - 1 : i \in Positions(n) \ {1}}
    BY <1>0, <1>4, PositionsOfTail DEF TakeTask
  <2>2. delivered' = delivered /\ call' = call /\ n # NoMessage
    BY <1>4, HubAssumption DEF TakeTask
  <2>3. Carriers(n)' = IF n = m THEN Carriers(n) \cup {t} ELSE Carriers(n)
    BY <1>0, <1>4, <2>2 DEF TakeTask, Carriers, HubTypeOK
  <2>4. 1 \in 1..Len(taskQueue) /\ m = taskQueue[1]
    BY <1>0, <1>4, EmptySeq DEF TakeTask
  <2>5. CASE n = m
    <3>1. 1 \in Positions(n)
      BY <2>4, <2>5 DEF Positions
    <3>2. InQueue(n)
      BY <1>0, <3>1 DEF Placed, InThread, Done, Accepted, HubTypeOK, Outcome
    <3>3. Positions(n) = {1}
      BY <3>1, <3>2 DEF InQueue
    <3>4. Positions(n)' = {} /\ Carriers(n)' = {t} /\ delivered'[n] = {}
      BY <2>1, <2>2, <2>3, <2>5, <3>2, <3>3 DEF InQueue
    <3>5. InThread(n)'
      BY <3>4 DEF InThread
    <3>6. call[n] \notin {"idle", "full"}
      BY <1>0, <3>1 DEF Placed
    <3>7. QED BY <1>0, <2>2, <3>5, <3>6 DEF Placed
  <2>6. CASE n # m
    <3>1. 1 \notin Positions(n) /\ \A i \in Positions(n) : i \in Int
      BY <2>4, <2>6 DEF Positions
    <3>2. Positions(n)' = {i - 1 : i \in Positions(n)}
      BY <2>1, <3>1
    <3>3. CASE Positions(n) = {}
      <4>1. Positions(n)' = {}
        BY <3>2, <3>3
      <4>2. QED BY <1>0, <2>2, <2>3, <2>6, <3>3, <4>1, PlacedUnchanged
    <3>4. CASE Positions(n) # {}
      <4>1. InQueue(n) /\ call[n] \notin {"idle", "full"}
        BY <1>0, <3>4 DEF Placed, InThread, Done, Accepted, HubTypeOK, Outcome
      <4>2. PICK i \in Positions(n) : Positions(n) = {i}
        BY <4>1 DEF InQueue
      <4>3. Positions(n)' = {i - 1}
        BY <3>2, <4>2
      <4>4. InQueue(n)'
        BY <2>2, <2>3, <2>6, <4>1, <4>3 DEF InQueue
      <4>5. QED BY <1>0, <2>2, <4>1, <4>4 DEF Placed
    <3>5. QED BY <3>3, <3>4
  <2>7. QED BY <2>5, <2>6
<1>5. ASSUME NEW t \in Threads, NEW s \in Subscribers, Deliver(t, s)
      PROVE  Placed(n)'
  <2> DEFINE m == carried[t]
  <2>1. /\ Positions(n)' = Positions(n) /\ Carriers(n)' = Carriers(n)
        /\ call' = call
    BY <1>5 DEF Deliver, Positions, Carriers
  <2>2. CASE n = m
    <3>1. t \in Carriers(n) /\ delivered[n] # Recipients[n]
      BY <1>5, <2>2 DEF Carriers, Deliver
    <3>2. InThread(n) /\ call[n] \notin {"ok", "idle", "full"}
      BY <1>0, <3>1 DEF Placed, InQueue, Done, Accepted, HubTypeOK, Outcome
    <3>3. delivered'[n] = delivered[n] \cup {s} /\ s \in Recipients[n]
      BY <1>0, <1>5, <2>2 DEF Deliver, HubTypeOK
    <3>4. InThread(n)'
      BY <2>1, <3>2, <3>3 DEF InThread
    <3>5. QED BY <2>1, <3>2, <3>4 DEF Placed
  <2>3. CASE n # m
    <3>1. delivered'[n] = delivered[n]
      BY <1>0, <1>5, <2>3 DEF Deliver, HubTypeOK
    <3>2. QED BY <1>0, <2>1, <3>1, PlacedUnchanged
  <2>4. QED BY <2>2, <2>3
<1>6. ASSUME NEW t \in Threads, CompleteTask(t)
      PROVE  Placed(n)'
  <2> DEFINE m == carried[t]
  <2>1. Positions(n)' = Positions(n) /\ delivered' = delivered /\ n # NoMessage
    BY <1>6, HubAssumption DEF CompleteTask, Positions
  <2>2. Carriers(n)' = IF n = m THEN Carriers(n) \ {t} ELSE Carriers(n)
    BY <1>0, <1>6, <2>1 DEF CompleteTask, Carriers, HubTypeOK
  <2>3. CASE n = m
    <3>1. t \in Carriers(n) /\ delivered[n] = Recipients[n]
      BY <1>6, <2>3 DEF Carriers, CompleteTask
    <3>2. InThread(n) /\ call[n] \notin {"idle", "full"}
      BY <1>0, <3>1 DEF Placed, InQueue, Done, Accepted, HubTypeOK, Outcome
    <3>3. Carriers(n)' = {}
      BY <2>2, <2>3, <3>1, <3>2 DEF InThread
    <3>4. Done(n)'
      BY <2>1, <3>1, <3>2, <3>3 DEF InThread, Done
    <3>5. call'[n] \notin {"idle", "full"}
      BY <1>0, <1>6, <2>3, <3>2 DEF CompleteTask, HubTypeOK
    <3>6. QED BY <2>1, <3>1, <3>4, <3>5 DEF Placed
  <2>4. CASE n # m
    <3>1. call'[n] = call[n]
      BY <1>0, <1>6, <2>4 DEF CompleteTask, HubTypeOK
    <3>2. QED BY <1>0, <2>1, <2>2, <2>4, <3>1, PlacedUnchanged
  <2>5. QED BY <2>3, <2>4
<1>7. ASSUME NEW s \in Subscribers, Consume(s)
      PROVE  Placed(n)'
  BY <1>0, <1>7, PlacedUnchanged DEF Consume, Positions, Carriers
<1>8. CASE UNCHANGED hubVars
  BY <1>0, <1>8, PlacedUnchanged DEF hubVars, Positions, Carriers
<1>9. QED BY <1>1, <1>2, <1>3, <1>4, <1>5, <1>6, <1>7, <1>8 DEF HubNext

THEOREM HubInvCorrect == HubSpec => []HubInv
BY HubInvInit, HubInvStep, HubTypeCorrect, PTL DEF HubSpec

\* An Ok means that every subscriber has the message.
THEOREM OkIsDelivered == HubSpec => []OkMeansDelivered
BY HubInvCorrect, HubInvImplies, PTL

\* A refused send never takes effect: the caller may repeat it.
THEOREM RefusalIsFinal == HubSpec => []RefusedHasNoEffect
BY HubInvCorrect, HubInvImplies, PTL

\* The pool neither loses nor duplicates an accepted message, whether or not
\* its caller still waits for it.
THEOREM PoolConserves == HubSpec => []NeverLostInPool
BY HubInvCorrect, HubInvImplies, PTL

-----------------------------------------------------------------------------
\* The delivery policy "single".

OneSingleIn(q) == \A i, j \in SinglesIn(q) : i = j

\* What is left of a mailbox without its i-th message.
LEMMA SeqWithout ==
    ASSUME NEW q \in Seq(Messages), NEW i \in 1..Len(q), NEW r,
           r = SubSeq(q, 1, i - 1) \o SubSeq(q, i + 1, Len(q))
    PROVE  /\ Len(r) = Len(q) - 1
           /\ \A k \in 1..(Len(q) - 1) : r[k] = IF k < i THEN q[k] ELSE q[k + 1]
<1>1. Len(q) \in Nat
  BY LenProperties
<1>a. PICK a : a = SubSeq(q, 1, i - 1)
  OBVIOUS
<1>b. PICK b : b = SubSeq(q, i + 1, Len(q))
  OBVIOUS
<1>2. /\ a \in Seq(Messages) /\ Len(a) = i - 1
      /\ \A k \in 1..(i - 1) : a[k] = q[k]
  <2>1. \A k \in 1..(i - 1) : q[k] \in Messages
    BY <1>1, ElementOfSeq
  <2>2. /\ SubSeq(q, 1, i - 1) \in Seq(Messages)
        /\ Len(SubSeq(q, 1, i - 1)) = IF 1 <= i - 1 THEN (i - 1) - 1 + 1 ELSE 0
        /\ \A k \in 1..((i - 1) - 1 + 1) : SubSeq(q, 1, i - 1)[k] = q[1 + k - 1]
    BY ONLY <1>1, <2>1, SubSeqProperties, i \in 1..Len(q)
  <2>3. QED BY <1>1, <1>a, <2>2
<1>3. /\ b \in Seq(Messages) /\ Len(b) = Len(q) - i
      /\ \A k \in 1..(Len(q) - i) : b[k] = q[i + k]
  <2>1. \A k \in (i + 1)..Len(q) : q[k] \in Messages
    BY <1>1, ElementOfSeq
  <2>2. i + 1 \in Int /\ Len(q) \in Int
    BY <1>1
  <2>3. /\ SubSeq(q, i + 1, Len(q)) \in Seq(Messages)
        /\ Len(SubSeq(q, i + 1, Len(q))) =
              IF i + 1 <= Len(q) THEN Len(q) - (i + 1) + 1 ELSE 0
        /\ \A k \in 1..(Len(q) - (i + 1) + 1) :
              SubSeq(q, i + 1, Len(q))[k] = q[(i + 1) + k - 1]
    BY ONLY <2>1, <2>2, SubSeqProperties
  <2>4. \A k \in 1..(Len(q) - i) : b[k] = q[(i + 1) + k - 1] /\ (i + 1) + k - 1 = i + k
    BY <1>1, <1>b, <2>3
  <2>5. QED BY <1>1, <1>b, <2>3, <2>4
<1>4. r = a \o b
  BY <1>a, <1>b
<1>5. /\ Len(r) = Len(a) + Len(b)
      /\ \A k \in 1..(Len(a) + Len(b)) :
            r[k] = IF k <= Len(a) THEN a[k] ELSE b[k - Len(a)]
  BY ONLY <1>2, <1>3, <1>4, ConcatProperties
<1>6. Len(r) = Len(q) - 1
  BY ONLY <1>1, <1>2, <1>3, <1>5, i \in 1..Len(q)
<1>7. ASSUME NEW k \in 1..(Len(q) - 1)
      PROVE  r[k] = IF k < i THEN q[k] ELSE q[k + 1]
  <2>1. i \in Int /\ k \in Int /\ 1 <= k /\ k <= Len(q) - 1 /\ 1 <= i /\ i <= Len(q)
    BY <1>1
  <2>2. r[k] = IF k <= i - 1 THEN a[k] ELSE b[k - (i - 1)]
    BY ONLY <1>1, <1>2, <1>3, <1>5, <2>1
  <2>3. CASE k < i
    BY ONLY <1>1, <1>2, <2>1, <2>2, <2>3
  <2>4. CASE ~(k < i)
    <3>1. k - (i - 1) \in 1..(Len(q) - i) /\ i + (k - (i - 1)) = k + 1 /\ ~(k <= i - 1)
      BY ONLY <1>1, <2>1, <2>4
    <3>2. b[k - (i - 1)] = q[k + 1]
      BY ONLY <1>3, <3>1
    <3>3. QED BY ONLY <2>2, <2>4, <3>1, <3>2
  <2>5. QED BY ONLY <2>3, <2>4
<1>8. QED BY ONLY <1>6, <1>7

\* Removing the DeviceControl of a mailbox that has at most one leaves none.
LEMMA WithoutSingleHasNone ==
    ASSUME NEW q \in Seq(Messages), OneSingleIn(q)
    PROVE  SinglesIn(WithoutSingle(q)) = {}
<1>1. CASE SinglesIn(q) = {}
  BY <1>1 DEF WithoutSingle
<1>2. CASE SinglesIn(q) # {}
  <2>1. PICK i \in SinglesIn(q) :
          WithoutSingle(q) = SubSeq(q, 1, i - 1) \o SubSeq(q, i + 1, Len(q))
    BY <1>2 DEF WithoutSingle
  <2>2. i \in 1..Len(q) /\ Len(q) \in Nat
    BY LenProperties DEF SinglesIn
  <2>3. \A k \in 1..Len(q) : k # i => q[k] \notin Single
    BY DEF OneSingleIn, SinglesIn
  <2>4. PICK r : r = WithoutSingle(q)
    OBVIOUS
  <2>5. /\ Len(r) = Len(q) - 1
        /\ \A k \in 1..(Len(q) - 1) : r[k] = IF k < i THEN q[k] ELSE q[k + 1]
    BY ONLY <2>1, <2>2, <2>4, SeqWithout, q \in Seq(Messages)
  <2>6. \A k \in 1..(Len(q) - 1) : r[k] \notin Single
    BY ONLY <2>2, <2>3, <2>5
  <2>7. SinglesIn(r) = {}
    BY <2>5, <2>6 DEF SinglesIn
  <2>8. QED BY <2>4, <2>7
<1>3. QED BY <1>1, <1>2

\* Pushing a message keeps the policy.
LEMMA PushKeepsOneSingle ==
    ASSUME NEW q \in Seq(Messages), OneSingleIn(q), NEW m \in Messages
    PROVE  OneSingleIn(Append(Kept(q, m), m))
<1> DEFINE k == Kept(q, m)
<1>1. k \in Seq(Messages)
  BY KeptType
<1>2. m \in Single => SinglesIn(k) = {}
  BY WithoutSingleHasNone DEF Kept
<1>3. m \notin Single => OneSingleIn(k)
  BY DEF Kept
<1>4. /\ Len(Append(k, m)) = Len(k) + 1
      /\ \A i \in 1..Len(k) : Append(k, m)[i] = k[i]
      /\ Append(k, m)[Len(k) + 1] = m
  BY <1>1, AppendProperties
<1>5. Len(k) \in Nat
  BY <1>1, LenProperties
<1> HIDE DEF k
<1>6. CASE m \in Single
  <2>1. SinglesIn(Append(k, m)) \subseteq {Len(k) + 1}
    BY <1>2, <1>4, <1>5, <1>6 DEF SinglesIn
  <2>2. QED BY <2>1 DEF OneSingleIn, k
<1>7. CASE m \notin Single
  <2>1. SinglesIn(Append(k, m)) \subseteq SinglesIn(k)
    BY <1>4, <1>5, <1>7 DEF SinglesIn
  <2>2. QED BY <1>3, <1>7, <2>1 DEF OneSingleIn, k
<1>8. QED BY <1>6, <1>7

\* No mailbox ever holds two DeviceControl messages.
THEOREM SinglePolicy == HubSpec => []OneSinglePerMailbox
<1>1. HubInit => OneSinglePerMailbox
  BY EmptySeq DEF HubInit, OneSinglePerMailbox, SinglesIn
<1>2. HubTypeOK /\ OneSinglePerMailbox /\ [HubNext]_hubVars => OneSinglePerMailbox'
  <2> SUFFICES ASSUME HubTypeOK, OneSinglePerMailbox, [HubNext]_hubVars,
                      NEW u \in Subscribers
               PROVE  OneSingleIn(mailbox'[u])
    BY DEF OneSinglePerMailbox, OneSingleIn
  <2>0. /\ OneSingleIn(mailbox[u])
        /\ mailbox \in [Subscribers -> Seq(Messages)]
        /\ carried \in [Threads -> Messages \cup {NoMessage}]
    BY DEF OneSinglePerMailbox, OneSingleIn, HubTypeOK
  <2>1. ASSUME NEW t \in Threads, NEW s \in Subscribers, Deliver(t, s)
        PROVE  OneSingleIn(mailbox'[u])
    <3>1. CASE u = s
      <4>1. carried[t] \in Messages
        BY <2>0, <2>1 DEF Deliver
      <4>2. mailbox'[u] = Append(Kept(mailbox[u], carried[t]), carried[t])
        BY <2>0, <2>1, <3>1 DEF Deliver
      <4>3. QED BY <2>0, <4>1, <4>2, PushKeepsOneSingle
    <3>2. CASE u # s
      BY <2>0, <2>1, <3>2 DEF Deliver
    <3>3. QED BY <3>1, <3>2
  <2>2. ASSUME NEW s \in Subscribers, Consume(s)
        PROVE  OneSingleIn(mailbox'[u])
    <3>1. CASE u = s
      <4>1. /\ Len(Tail(mailbox[u])) = Len(mailbox[u]) - 1
            /\ \A i \in 1..Len(Tail(mailbox[u])) : Tail(mailbox[u])[i] = mailbox[u][i + 1]
        BY <2>0, <2>2, <3>1, HeadTailProperties DEF Consume
      <4>2. mailbox'[u] = Tail(mailbox[u]) /\ Len(mailbox[u]) \in Nat
        BY <2>0, <2>2, <3>1, LenProperties DEF Consume
      <4>3. \A i \in SinglesIn(Tail(mailbox[u])) : i \in Int /\ i + 1 \in SinglesIn(mailbox[u])
        BY <4>1, <4>2 DEF SinglesIn
      <4>4. QED BY <2>0, <4>2, <4>3 DEF OneSingleIn
    <3>2. CASE u # s
      BY <2>0, <2>2, <3>2 DEF Consume
    <3>3. QED BY <3>1, <3>2
  <2>3. ASSUME mailbox' = mailbox
        PROVE  OneSingleIn(mailbox'[u])
    BY <2>0, <2>3
  <2>4. QED
    BY <2>1, <2>2, <2>3 DEF HubNext, hubVars, SubmitAccepted, SubmitRefused,
       CallerTimesOut, TakeTask, CompleteTask
<1>3. QED BY <1>1, <1>2, HubTypeCorrect, PTL DEF HubSpec

-----------------------------------------------------------------------------
(* What can hold up a message.                                             *)

\* The guards of TakeTask, CompleteTask and Deliver.
MayTake(t) == carried[t] = NoMessage /\ taskQueue # <<>>
MayComplete(t) == carried[t] # NoMessage /\ delivered[carried[t]] = Recipients[carried[t]]
MayDeliver(t, s) ==
    /\ carried[t] # NoMessage
    /\ s \in Recipients[carried[t]] \ delivered[carried[t]]
    /\ Len(Kept(mailbox[s], carried[t])) < HubCapacity

PoolMoves ==
    \E t \in Threads : MayTake(t) \/ MayComplete(t) \/ \E s \in Subscribers : MayDeliver(t, s)

\* t stands before the full mailbox of a subscriber its message is for.
BeforeFullMailbox(t) ==
    /\ carried[t] # NoMessage
    /\ \E s \in Recipients[carried[t]] \ delivered[carried[t]] : Len(mailbox[s]) = HubCapacity

\* The thread that carries m, or all of them if m is still in the queue.
Concerned(m) == {t \in Threads : carried[t] = m \/ Positions(m) # {}}

\* An accepted message that has not reached its subscribers can move, or the
\* thread that carries it, or all threads while it is queued, are held up by
\* full mailboxes: threads and callers never wait for each other.
OnlyFullMailboxesBlock ==
    Threads # {} =>
        \A m \in Messages :
            Accepted(m) /\ delivered[m] # Recipients[m] =>
                \/ PoolMoves
                \/ Concerned(m) # {} /\ \A t \in Concerned(m) : BeforeFullMailbox(t)

LEMMA KeptNotLonger ==
    ASSUME NEW q \in Seq(Messages), NEW m
    PROVE  Len(Kept(q, m)) <= Len(q)
<1>1. Len(q) \in Nat
  BY LenProperties
<1>2. CASE Kept(q, m) = q
  BY <1>1, <1>2
<1>3. CASE Kept(q, m) # q
  <2>1. PICK i \in 1..Len(q) :
          Kept(q, m) = SubSeq(q, 1, i - 1) \o SubSeq(q, i + 1, Len(q))
    BY <1>3 DEF Kept, WithoutSingle, SinglesIn
  <2>2. PICK r : r = Kept(q, m)
    OBVIOUS
  <2>3. Len(r) = Len(q) - 1
    BY ONLY <2>1, <2>2, SeqWithout, q \in Seq(Messages)
  <2>4. QED BY <1>1, <2>2, <2>3
<1>4. QED BY <1>2, <1>3

\* A thread that can neither complete its message nor deliver it any further.
LEMMA HeldUp ==
    ASSUME HubInv, ~PoolMoves, NEW t \in Threads, carried[t] # NoMessage
    PROVE  BeforeFullMailbox(t)
<1>1. PICK m : m = carried[t]
  OBVIOUS
<1>2. HubTypeOK /\ m \in Messages
  BY <1>1 DEF HubInv, HubTypeOK
<1>3. m \in Messages /\ t \in Carriers(m) /\ Placed(m)
  BY <1>1, <1>2 DEF Carriers, HubInv
<1>4. Accepted(m)
  BY <1>2, <1>3 DEF Placed, Accepted, HubTypeOK, Outcome
<1>5. delivered[m] \subseteq Recipients[m] /\ delivered[m] # Recipients[m]
  BY <1>1, <1>3, <1>4 DEF Placed, InQueue, InThread, Done, PoolMoves, MayComplete
<1>6. PICK s \in Recipients[m] : s \notin delivered[m]
  BY <1>5
<1>7. s \in Subscribers
  BY <1>2, HubAssumption
<1>8. ~(Len(Kept(mailbox[s], m)) < HubCapacity)
  BY <1>1, <1>6, <1>7 DEF PoolMoves, MayDeliver
<1>9. PICK q \in Seq(Messages) : q = mailbox[s] /\ Len(q) <= HubCapacity
  BY <1>2, <1>7 DEF HubTypeOK
<1>10. /\ Len(Kept(q, m)) <= Len(q) /\ Len(q) \in Nat /\ Len(Kept(q, m)) \in Nat
  BY KeptNotLonger, KeptType, LenProperties
<1>11. Len(mailbox[s]) = HubCapacity
  BY <1>8, <1>9, <1>10, HubAssumption
<1>12. QED BY <1>1, <1>6, <1>11 DEF BeforeFullMailbox

\* The pool is never stuck in itself (hub_protection.rs:36-65): what holds up an
\* accepted message are mailboxes that subscribers leave full.
THEOREM PoolNeverStuck == HubSpec => []OnlyFullMailboxesBlock
<1>1. ASSUME HubInv PROVE OnlyFullMailboxesBlock
  <2> SUFFICES ASSUME Threads # {}, ~PoolMoves, NEW m \in Messages,
                      Accepted(m), delivered[m] # Recipients[m]
               PROVE  Concerned(m) # {} /\ \A t \in Concerned(m) : BeforeFullMailbox(t)
    BY DEF OnlyFullMailboxesBlock
  <2>1. InQueue(m) \/ InThread(m)
    BY <1>1 DEF HubInv, Placed, Done
  <2>2. CASE InQueue(m)
    <3>1. Positions(m) # {}
      BY <2>2 DEF InQueue
    <3>2. taskQueue # <<>>
      BY <3>1, EmptySeq DEF Positions
    <3>3. \A t \in Threads : carried[t] # NoMessage
      BY <3>2 DEF PoolMoves, MayTake
    <3>4. Concerned(m) = Threads
      BY <3>1 DEF Concerned
    <3>5. QED BY <1>1, <3>3, <3>4, HeldUp
  <2>3. CASE InThread(m)
    <3>1. Concerned(m) = Carriers(m) /\ Carriers(m) # {}
      BY <2>3 DEF InThread, Concerned, Carriers
    <3>2. \A t \in Concerned(m) : t \in Threads /\ carried[t] # NoMessage
      BY <3>1, HubAssumption DEF Carriers
    <3>3. QED BY <1>1, <3>1, <3>2, HeldUp
  <2>4. QED BY <2>1, <2>2, <2>3
<1>2. QED BY <1>1, HubInvCorrect, PTL
=============================================================================
