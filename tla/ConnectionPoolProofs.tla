----------------------- MODULE ConnectionPoolProofs -----------------------
(***************************************************************************)
(* Proofs about ConnectionPool for any number of threads, any pool size    *)
(* and any health check interval: total_created counts the connections,    *)
(* and there are never more of them than threads.                          *)
(***************************************************************************)
EXTENDS ConnectionPool, SequenceTheorems, FiniteSetTheorems, TLAPS

\* A thread holds a connection exactly between opening or taking it and
\* giving it back.
HoldersHold ==
    \A t \in RuntimeThreads :
        client[t] # NoConnection <=> step[t] \in {"opened", "holding", "succeeded", "failed"}

\* The inductive invariant.
PoolInv == PoolTypeOK /\ HoldersHold /\ AccountingExact /\ OpenBounded

-----------------------------------------------------------------------------
\* The sets Counted and Busy follow the step of the thread that moves.

LEMMA ThreadSetsFinite ==
    /\ IsFiniteSet(Counted) /\ Cardinality(Counted) \in Nat
    /\ IsFiniteSet(Busy) /\ Cardinality(Busy) \in Nat
<1>1. Counted \in SUBSET RuntimeThreads /\ Busy \in SUBSET RuntimeThreads
  BY DEF Counted, Busy
<1>2. QED BY <1>1, PoolAssumption, FS_Subset, FS_CardinalityType

LEMMA ThreadSetsMove ==
    ASSUME NEW t
    PROVE  /\ t \notin Counted => Cardinality(Counted \cup {t}) = Cardinality(Counted) + 1
           /\ t \in Counted => Cardinality(Counted \ {t}) = Cardinality(Counted) - 1
           /\ t \notin Busy => Cardinality(Busy \cup {t}) = Cardinality(Busy) + 1
           /\ t \in Busy => Cardinality(Busy \ {t}) = Cardinality(Busy) - 1
BY ThreadSetsFinite, FS_AddElement, FS_RemoveElement

\* A thread that is between steps of an operation is counted as busy, so
\* Busy is never larger than the set of threads.
LEMMA BusyBounded == Cardinality(Busy) <= Cardinality(RuntimeThreads)
<1>1. Busy \in SUBSET RuntimeThreads
  BY DEF Busy
<1>2. QED BY <1>1, PoolAssumption, FS_Subset

\* A thread that holds a counted connection makes the count positive.
LEMMA CountedPositive ==
    ASSUME NEW t \in Counted PROVE Cardinality(Counted) > 0
BY ThreadSetsFinite, FS_EmptySet

\* What is left of the deque after dropping its first n connections.
LEMMA RestOfDeque ==
    ASSUME available \in Seq(Pooled), NEW n \in Nat, n < Len(available),
           NEW rest, rest = SubSeq(available, n + 2, Len(available))
    PROVE  /\ rest \in Seq(Pooled)
           /\ Len(rest) = Len(available) - (n + 1)
           /\ \A i \in 1..Len(rest) : rest[i] = available[i + (n + 1)]
<1>1. Len(available) \in Nat
  BY LenProperties
<1>2. \A i \in (n + 2)..Len(available) : available[i] \in Pooled
  BY <1>1, ElementOfSeq
<1>3. n + 2 \in Int /\ Len(available) \in Int
  BY <1>1
<1>4. /\ rest \in Seq(Pooled)
      /\ Len(rest) = IF n + 2 <= Len(available) THEN Len(available) - (n + 2) + 1 ELSE 0
      /\ \A i \in 1..(Len(available) - (n + 2) + 1) : rest[i] = available[(n + 2) + i - 1]
  BY <1>2, <1>3, SubSeqProperties
<1>5. Len(rest) = Len(available) - (n + 1)
  BY <1>1, <1>4
<1>6. ASSUME NEW i \in 1..Len(rest)
      PROVE  rest[i] = available[i + (n + 1)]
  <2>1. i \in 1..(Len(available) - (n + 2) + 1) /\ (n + 2) + i - 1 = i + (n + 1)
    BY <1>1, <1>5
  <2>2. QED BY <1>4, <2>1
<1>7. QED BY <1>4, <1>5, <1>6

\* Time changes ages only.
LEMMA AgedDeque ==
    ASSUME available \in Seq(Pooled), NEW aged,
           aged = [i \in DOMAIN available |-> Older(available[i])]
    PROVE  /\ aged \in Seq(Pooled)
           /\ Len(aged) = Len(available)
           /\ \A i \in 1..Len(available) :
                /\ aged[i].conn = available[i].conn
                /\ aged[i].age = IF Fresh(available[i]) THEN available[i].age + 1
                                 ELSE available[i].age
<1>1. Len(available) \in Nat /\ DOMAIN available = 1..Len(available)
  BY LenProperties
<1>2. ASSUME NEW i \in 1..Len(available)
      PROVE  /\ Older(available[i]) \in Pooled
             /\ Older(available[i]).conn = available[i].conn
             /\ Older(available[i]).age = IF Fresh(available[i]) THEN available[i].age + 1
                                          ELSE available[i].age
  <2>1. available[i] \in Pooled
    BY ElementOfSeq
  <2>2. QED BY <2>1, PoolAssumption DEF Older, Fresh, Pooled
<1>3. aged \in [1..Len(available) -> Pooled]
  BY <1>1, <1>2
<1>4. aged \in Seq(Pooled) /\ Len(aged) = Len(available)
  BY <1>1, <1>3
<1>5. QED BY <1>1, <1>2, <1>4

-----------------------------------------------------------------------------
LEMMA PoolInvInit == PoolInit => PoolInv
<1> SUFFICES ASSUME PoolInit PROVE PoolInv
  OBVIOUS
<1>1. Counted = {} /\ Busy = {}
  BY DEF PoolInit, Counted, Busy
<1>2. Cardinality(Counted) = 0 /\ Cardinality(Busy) = 0
  BY <1>1, FS_EmptySet
<1>3. available = <<>> /\ available \in Seq(Pooled) /\ Len(available) = 0
  BY EmptySeq DEF PoolInit
<1>4. PoolTypeOK /\ HoldersHold
  BY <1>3, PoolAssumption DEF PoolInit, PoolTypeOK, HoldersHold, Steps
<1>5. AccountingExact
  BY <1>2, <1>3 DEF PoolInit, AccountingExact
<1>6. OpenBounded
  BY <1>2, <1>3, PoolAssumption, FS_CardinalityType DEF OpenBounded
<1>7. QED BY <1>4, <1>5, <1>6 DEF PoolInv

LEMMA PoolInvStep == PoolInv /\ [PoolNext]_poolVars => PoolInv'
<1> SUFFICES ASSUME PoolInv, [PoolNext]_poolVars
             PROVE  PoolInv'
  OBVIOUS
<1>0. /\ available \in Seq(Pooled) /\ Len(available) \in Nat
      /\ totalCreated \in Nat
      /\ step \in [RuntimeThreads -> Steps]
      /\ client \in [RuntimeThreads -> Connections \cup {NoConnection}]
      /\ up \in BOOLEAN /\ broken \subseteq Connections
      /\ HoldersHold
      /\ totalCreated = Len(available) + Cardinality(Counted)
      /\ Len(available) + Cardinality(Busy) <= Cardinality(RuntimeThreads)
      /\ Cardinality(Counted) \in Nat /\ Cardinality(Busy) \in Nat
      /\ Cardinality(RuntimeThreads) \in Nat
  BY LenProperties, ThreadSetsFinite, PoolAssumption, FS_CardinalityType
     DEF PoolInv, PoolTypeOK, AccountingExact, OpenBounded
<1>00. step \in [RuntimeThreads -> Steps]
  BY <1>0
<1>1. ASSUME NEW t \in RuntimeThreads, AcquireReuse(t)
      PROVE  PoolInv'
  <2>1. PICK n \in 0..Len(available) - 1 :
          /\ client' = [client EXCEPT ![t] = available[n + 1].conn]
          /\ available' = SubSeq(available, n + 2, Len(available))
          /\ totalCreated' = totalCreated - n
    BY <1>1 DEF AcquireReuse
  <2>2. n \in Nat /\ n < Len(available) /\ n + 1 \in 1..Len(available)
    BY <1>0
  <2>3. available' \in Seq(Pooled) /\ Len(available') = Len(available) - (n + 1)
    BY <1>0, <2>1, <2>2, RestOfDeque
  <2>4. available[n + 1] \in Pooled
    BY <1>0, <2>2, ElementOfSeq
  <2>5. available[n + 1].conn \in Connections /\ available[n + 1].conn # NoConnection
    BY <2>4, PoolAssumption DEF Pooled
  <2>6. step[t] = "idle" /\ step' = [step EXCEPT ![t] = "holding"]
    BY <1>1 DEF AcquireReuse
  <2>7. Cardinality(Counted)' = Cardinality(Counted) + 1
    <3>1. Counted' = Counted \cup {t} /\ t \notin Counted
      BY <1>00, <2>6 DEF Counted
    <3>2. QED BY <3>1, ThreadSetsMove
  <2>7b. Cardinality(Busy)' = Cardinality(Busy) + 1
    <3>1. Busy' = Busy \cup {t} /\ t \notin Busy
      BY <1>00, <2>6 DEF Busy
    <3>2. QED BY <3>1, ThreadSetsMove
  <2>8. PoolTypeOK'
    <3>1. up' = up /\ broken' = broken
      BY <1>1 DEF AcquireReuse
    <3>2. totalCreated' \in Nat
      BY <1>0, <2>1, <2>2
    <3>3. step' \in [RuntimeThreads -> Steps]
      BY <1>0, <2>6 DEF Steps
    <3>4. client' \in [RuntimeThreads -> Connections \cup {NoConnection}]
      BY <1>0, <2>1, <2>5
    <3>5. QED BY <1>0, <2>3, <3>1, <3>2, <3>3, <3>4 DEF PoolTypeOK
  <2>9. HoldersHold'
    BY <1>0, <2>1, <2>5, <2>6 DEF HoldersHold
  <2>10. AccountingExact' /\ OpenBounded'
    <3>0. /\ n \in Nat /\ Len(available) \in Nat
          /\ Cardinality(Counted) \in Nat /\ Cardinality(Busy) \in Nat
          /\ Cardinality(RuntimeThreads) \in Nat
          /\ totalCreated = Len(available) + Cardinality(Counted)
          /\ Len(available) + Cardinality(Busy) <= Cardinality(RuntimeThreads)
      BY ONLY <1>0, <2>2
    <3>1. totalCreated - n = Len(available) - (n + 1) + (Cardinality(Counted) + 1)
      BY ONLY <3>0
    <3>2. Len(available) - (n + 1) + (Cardinality(Busy) + 1) <= Cardinality(RuntimeThreads)
      BY ONLY <3>0
    <3>3. AccountingExact'
      BY <2>1, <2>3, <2>7, <3>1 DEF AccountingExact
    <3>4. OpenBounded'
      BY <2>3, <2>7b, <3>2 DEF OpenBounded
    <3>5. QED BY <3>3, <3>4
  <2>11. QED BY <2>8, <2>9, <2>10 DEF PoolInv
<1>2. ASSUME NEW t \in RuntimeThreads, AcquireEmpty(t)
      PROVE  PoolInv'
  <2>1. step[t] = "idle" /\ step' = [step EXCEPT ![t] = "creating"]
    BY <1>2 DEF AcquireEmpty
  <2>2. Cardinality(Counted)' = Cardinality(Counted)
    <3>1. Counted' = Counted
      BY <1>00, <2>1 DEF Counted
    <3>2. QED BY <3>1
  <2>2b. Cardinality(Busy)' = Cardinality(Busy) + 1
    <3>1. Busy' = Busy \cup {t} /\ t \notin Busy
      BY <1>00, <2>1 DEF Busy
    <3>2. QED BY <3>1, ThreadSetsMove
  <2>3. available' \in Seq(Pooled) /\ Len(available') = 0
    BY <1>2, EmptySeq DEF AcquireEmpty
  <2>4. PoolTypeOK'
    BY <1>0, <1>2, <2>1, <2>3 DEF PoolTypeOK, Steps, AcquireEmpty
  <2>5. HoldersHold'
    BY <1>0, <1>2, <2>1 DEF HoldersHold, AcquireEmpty
  <2>6. AccountingExact'
    BY <1>0, <1>2, <2>2, <2>2b, <2>3 DEF AccountingExact, AcquireEmpty
  <2>7. OpenBounded'
    <3>1. Cardinality(Busy)' <= Cardinality(RuntimeThreads)
      <4>1. Busy' \in SUBSET RuntimeThreads
        BY DEF Busy
      <4>2. QED BY <4>1, PoolAssumption, FS_Subset
    <3>2. QED BY <1>0, <2>2, <2>2b, <2>3, <3>1 DEF OpenBounded
  <2>8. QED BY <2>4, <2>5, <2>6, <2>7 DEF PoolInv
<1>3. ASSUME NEW t \in RuntimeThreads, Open(t)
      PROVE  PoolInv'
  <2>1. PICK c \in Connections : client' = [client EXCEPT ![t] = c] /\ broken' = broken \ {c}
    BY <1>3 DEF Open
  <2>2. step[t] = "creating" /\ step' = [step EXCEPT ![t] = "opened"]
    BY <1>3 DEF Open
  <2>3. Cardinality(Counted)' = Cardinality(Counted)
    <3>1. Counted' = Counted
      BY <1>00, <2>2 DEF Counted
    <3>2. QED BY <3>1
  <2>3b. Cardinality(Busy)' = Cardinality(Busy)
    <3>1. Busy' = Busy
      BY <1>00, <2>2 DEF Busy
    <3>2. QED BY <3>1
  <2>4. PoolTypeOK'
    BY <1>0, <1>3, <2>1, <2>2 DEF PoolTypeOK, Steps, Open
  <2>5. HoldersHold'
    BY <1>0, <2>1, <2>2, PoolAssumption DEF HoldersHold
  <2>6. AccountingExact' /\ OpenBounded'
    BY <1>0, <1>3, <2>3, <2>3b DEF AccountingExact, OpenBounded, Open
  <2>7. QED BY <2>4, <2>5, <2>6 DEF PoolInv
<1>4. ASSUME NEW t \in RuntimeThreads, OpenFails(t)
      PROVE  PoolInv'
  <2>1. step[t] = "creating" /\ step' = [step EXCEPT ![t] = "idle"]
    BY <1>4 DEF OpenFails
  <2>2. Cardinality(Counted)' = Cardinality(Counted)
    <3>1. Counted' = Counted
      BY <1>00, <2>1 DEF Counted
    <3>2. QED BY <3>1
  <2>2b. Cardinality(Busy)' = Cardinality(Busy) - 1
    <3>1. Busy' = Busy \ {t} /\ t \in Busy
      BY <1>00, <2>1 DEF Busy
    <3>2. QED BY <3>1, ThreadSetsMove
  <2>3. PoolTypeOK' /\ HoldersHold'
    BY <1>0, <1>4, <2>1 DEF PoolTypeOK, Steps, OpenFails, HoldersHold
  <2>4. AccountingExact' /\ OpenBounded'
    BY <1>0, <1>4, <2>2, <2>2b DEF AccountingExact, OpenBounded, OpenFails
  <2>5. QED BY <2>3, <2>4 DEF PoolInv
<1>5. ASSUME NEW t \in RuntimeThreads, CountCreated(t)
      PROVE  PoolInv'
  <2>1. step[t] = "opened" /\ step' = [step EXCEPT ![t] = "holding"]
    BY <1>5 DEF CountCreated
  <2>2. Cardinality(Counted)' = Cardinality(Counted) + 1
    <3>1. Counted' = Counted \cup {t} /\ t \notin Counted
      BY <1>00, <2>1 DEF Counted
    <3>2. QED BY <3>1, ThreadSetsMove
  <2>2b. Cardinality(Busy)' = Cardinality(Busy)
    <3>1. Busy' = Busy
      BY <1>00, <2>1 DEF Busy
    <3>2. QED BY <3>1
  <2>3. PoolTypeOK' /\ HoldersHold'
    BY <1>0, <1>5, <2>1 DEF PoolTypeOK, Steps, CountCreated, HoldersHold
  <2>4. AccountingExact' /\ OpenBounded'
    BY <1>0, <1>5, <2>2, <2>2b DEF AccountingExact, OpenBounded, CountCreated
  <2>5. QED BY <2>3, <2>4 DEF PoolInv
<1>6. ASSUME NEW t \in RuntimeThreads, Operate(t)
      PROVE  PoolInv'
  <2>1. PICK v \in {"succeeded", "failed"} : step' = [step EXCEPT ![t] = v]
    BY <1>6 DEF Operate
  <2>2. step[t] = "holding"
    BY <1>6 DEF Operate
  <2>3. Cardinality(Counted)' = Cardinality(Counted)
    <3>1. Counted' = Counted
      BY <1>00, <2>1, <2>2 DEF Counted
    <3>2. QED BY <3>1
  <2>3b. Cardinality(Busy)' = Cardinality(Busy)
    <3>1. Busy' = Busy
      BY <1>00, <2>1, <2>2 DEF Busy
    <3>2. QED BY <3>1
  <2>4. PoolTypeOK' /\ HoldersHold'
    BY <1>0, <1>6, <2>1, <2>2 DEF PoolTypeOK, Steps, Operate, HoldersHold
  <2>5. AccountingExact' /\ OpenBounded'
    BY <1>0, <1>6, <2>3, <2>3b DEF AccountingExact, OpenBounded, Operate
  <2>6. QED BY <2>4, <2>5 DEF PoolInv
<1>7. ASSUME NEW t \in RuntimeThreads, ReleaseHealthy(t)
      PROVE  PoolInv'
  <2>1. step[t] = "succeeded" /\ step' = [step EXCEPT ![t] = "idle"]
    BY <1>7 DEF ReleaseHealthy
  <2>2. Cardinality(Counted)' = Cardinality(Counted) - 1
    <3>1. Counted' = Counted \ {t} /\ t \in Counted
      BY <1>00, <2>1 DEF Counted
    <3>2. QED BY <3>1, ThreadSetsMove
  <2>2b. Cardinality(Busy)' = Cardinality(Busy) - 1
    <3>1. Busy' = Busy \ {t} /\ t \in Busy
      BY <1>00, <2>1 DEF Busy
    <3>2. QED BY <3>1, ThreadSetsMove
  <2>3. client[t] \in Connections
    BY <1>0, <2>1 DEF HoldersHold
  <2>4. [conn |-> client[t], age |-> 0] \in Pooled
    BY <2>3, PoolAssumption DEF Pooled
  <2>5. available' \in Seq(Pooled) /\ Len(available') = Len(available) + 1
    BY <1>0, <1>7, <2>4, AppendProperties DEF ReleaseHealthy
  <2>6. PoolTypeOK' /\ HoldersHold'
    BY <1>0, <1>7, <2>1, <2>5 DEF PoolTypeOK, Steps, ReleaseHealthy, HoldersHold
  <2>7. AccountingExact' /\ OpenBounded'
    BY <1>0, <1>7, <2>2, <2>2b, <2>5 DEF AccountingExact, OpenBounded, ReleaseHealthy
  <2>8. QED BY <2>6, <2>7 DEF PoolInv
<1>8. ASSUME NEW t \in RuntimeThreads, ReleaseDiscards(t)
      PROVE  PoolInv'
  <2>1. step[t] \in {"succeeded", "failed"} /\ step' = [step EXCEPT ![t] = "idle"]
    BY <1>8 DEF ReleaseDiscards
  <2>2. Cardinality(Counted)' = Cardinality(Counted) - 1
    <3>1. Counted' = Counted \ {t} /\ t \in Counted
      BY <1>00, <2>1 DEF Counted
    <3>2. QED BY <3>1, ThreadSetsMove
  <2>2b. Cardinality(Busy)' = Cardinality(Busy) - 1
    <3>1. Busy' = Busy \ {t} /\ t \in Busy
      BY <1>00, <2>1 DEF Busy
    <3>2. QED BY <3>1, ThreadSetsMove
  <2>3. Cardinality(Counted) > 0
    BY <2>1, CountedPositive DEF Counted
  <2>4. PoolTypeOK' /\ HoldersHold'
    BY <1>0, <1>8, <2>1, <2>3 DEF PoolTypeOK, Steps, ReleaseDiscards, HoldersHold
  <2>5. AccountingExact' /\ OpenBounded'
    BY <1>0, <1>8, <2>2, <2>2b DEF AccountingExact, OpenBounded, ReleaseDiscards
  <2>6. QED BY <2>4, <2>5 DEF PoolInv
<1>9. ASSUME Tick
      PROVE  PoolInv'
  <2>1. available' \in Seq(Pooled) /\ Len(available') = Len(available)
    BY <1>0, <1>9, AgedDeque DEF Tick
  <2>2. Counted' = Counted /\ Busy' = Busy
    BY <1>9 DEF Tick, Counted, Busy
  <2>3. QED BY <1>0, <1>9, <2>1, <2>2
            DEF PoolInv, PoolTypeOK, HoldersHold, AccountingExact, OpenBounded, Tick
<1>10. ASSUME DeviceDown \/ DeviceUp
       PROVE  PoolInv'
  <2>1. Counted' = Counted /\ Busy' = Busy
    BY <1>10 DEF DeviceDown, DeviceUp, Counted, Busy
  <2>2. Idle \subseteq Connections
    <3>1. \A i \in 1..Len(available) : available[i] \in Pooled
      BY <1>0, ElementOfSeq
    <3>2. QED BY <3>1 DEF Idle, Pooled
  <2>3. Held \subseteq Connections
    BY <1>0 DEF Held
  <2>4. up' \in BOOLEAN /\ broken' \subseteq Connections
    BY <1>0, <1>10, <2>2, <2>3 DEF DeviceDown, DeviceUp
  <2>5. UNCHANGED <<available, totalCreated, step, client>>
    BY <1>10 DEF DeviceDown, DeviceUp
  <2>6. QED BY <1>0, <2>1, <2>4, <2>5
            DEF PoolInv, PoolTypeOK, HoldersHold, AccountingExact, OpenBounded
<1>11. CASE UNCHANGED poolVars
  <2>1. Counted' = Counted /\ Busy' = Busy
    BY <1>11 DEF poolVars, Counted, Busy
  <2>2. QED BY <1>0, <1>11, <2>1
            DEF PoolInv, PoolTypeOK, HoldersHold, AccountingExact, OpenBounded, poolVars
<1>12. QED
  BY <1>1, <1>2, <1>3, <1>4, <1>5, <1>6, <1>7, <1>8, <1>9, <1>10, <1>11
     DEF PoolNext, ThreadStep, Acquire

THEOREM PoolInvCorrect == PoolSpec => []PoolInv
BY PoolInvInit, PoolInvStep, PTL DEF PoolSpec

\* total_created is exact, and never negative (PoolTypeOK).
THEOREM PoolAccounting == PoolSpec => [](PoolTypeOK /\ AccountingExact)
<1>1. PoolInv => PoolTypeOK /\ AccountingExact
  BY DEF PoolInv
<1>2. QED BY <1>1, PoolInvCorrect, PTL

\* However many operations are admitted and however large the pool is
\* configured, a device sees at most one connection per runtime thread.
THEOREM ConnectionsPerThread == PoolSpec => []OpenBounded
<1>1. PoolInv => OpenBounded
  BY DEF PoolInv
<1>2. QED BY <1>1, PoolInvCorrect, PTL

-----------------------------------------------------------------------------
\* The deque stays ordered by age: what is put back goes behind, and time
\* passes for all alike.
LEMMA OldestFirstStep ==
    PoolTypeOK /\ OldestFirst /\ [PoolNext]_poolVars => OldestFirst'
<1> SUFFICES ASSUME PoolTypeOK, OldestFirst, [PoolNext]_poolVars
             PROVE  OldestFirst'
  OBVIOUS
<1>0. available \in Seq(Pooled) /\ Len(available) \in Nat
  BY LenProperties DEF PoolTypeOK
<1>00. \A i \in 1..Len(available) : available[i] \in Pooled /\ available[i].age \in Nat
  <2>1. \A i \in 1..Len(available) : available[i] \in Pooled
    BY <1>0, ElementOfSeq
  <2>2. QED BY <2>1, PoolAssumption DEF Pooled
<1>1. ASSUME NEW t \in RuntimeThreads, AcquireReuse(t)
      PROVE  OldestFirst'
  <2>1. PICK n \in 0..Len(available) - 1 :
          available' = SubSeq(available, n + 2, Len(available))
    BY <1>1 DEF AcquireReuse
  <2>2. n \in Nat /\ n < Len(available)
    BY <1>0
  <2>3. /\ Len(available') = Len(available) - (n + 1)
        /\ \A i \in 1..Len(available') : available'[i] = available[i + (n + 1)]
    BY <1>0, <2>1, <2>2, RestOfDeque
  <2>4. ASSUME NEW i \in 1..Len(available'), NEW j \in 1..Len(available'), i < j
        PROVE  available'[i].age >= available'[j].age
    <3>1. /\ i + (n + 1) \in 1..Len(available) /\ j + (n + 1) \in 1..Len(available)
          /\ i + (n + 1) < j + (n + 1)
      BY <1>0, <2>2, <2>3, <2>4
    <3>2. available[i + (n + 1)].age >= available[j + (n + 1)].age
      BY <3>1 DEF OldestFirst
    <3>3. QED BY <2>3, <3>2
  <2>5. QED BY <2>4 DEF OldestFirst
<1>2. ASSUME NEW t \in RuntimeThreads, AcquireEmpty(t)
      PROVE  OldestFirst'
  BY <1>2, EmptySeq DEF AcquireEmpty, OldestFirst
<1>3. ASSUME NEW t \in RuntimeThreads, ReleaseHealthy(t)
      PROVE  OldestFirst'
  <2>1. PICK c : c = [conn |-> client[t], age |-> 0]
    OBVIOUS
  <2>2. available' = Append(available, c) /\ c.age = 0
    BY <1>3, <2>1 DEF ReleaseHealthy
  <2>3. /\ Len(available') = Len(available) + 1
        /\ \A i \in 1..Len(available) : available'[i] = available[i]
        /\ available'[Len(available) + 1] = c
    BY <1>0, <2>2, AppendProperties
  <2>4. ASSUME NEW i \in 1..Len(available'), NEW j \in 1..Len(available'), i < j
        PROVE  available'[i].age >= available'[j].age
    <3>1. i \in 1..Len(available)
      BY <1>0, <2>3, <2>4
    <3>2. CASE j = Len(available) + 1
      BY <1>00, <2>2, <2>3, <3>1, <3>2
    <3>3. CASE j # Len(available) + 1
      <4>1. j \in 1..Len(available)
        BY <1>0, <2>3, <3>3
      <4>2. QED BY <2>3, <2>4, <3>1, <4>1 DEF OldestFirst
    <3>4. QED BY <3>2, <3>3
  <2>5. QED BY <2>4 DEF OldestFirst
<1>4. ASSUME Tick
      PROVE  OldestFirst'
  <2>1. /\ Len(available') = Len(available)
        /\ \A i \in 1..Len(available) :
              available'[i].age = IF Fresh(available[i]) THEN available[i].age + 1
                                  ELSE available[i].age
    BY <1>0, <1>4, AgedDeque DEF Tick
  <2>2. ASSUME NEW i \in 1..Len(available), NEW j \in 1..Len(available), i < j
        PROVE  available'[i].age >= available'[j].age
    <3>1. /\ available[i].age >= available[j].age
          /\ available[i].age \in Nat /\ available[j].age \in Nat
          /\ available[i].age <= HealthCheckInterval
          /\ available[j].age <= HealthCheckInterval
      BY <1>0, <1>00, <2>2, PoolAssumption DEF OldestFirst, Pooled
    <3>2. QED BY <2>1, <3>1, PoolAssumption DEF Fresh
  <2>3. QED BY <2>1, <2>2 DEF OldestFirst
<1>5. ASSUME UNCHANGED available
      PROVE  OldestFirst'
  BY <1>5 DEF OldestFirst
<1>6. QED
  BY <1>1, <1>2, <1>3, <1>4, <1>5
     DEF PoolNext, ThreadStep, Acquire, Open, OpenFails, CountCreated, Operate,
         ReleaseDiscards, DeviceDown, DeviceUp, poolVars

THEOREM DequeOrdered == PoolSpec => []OldestFirst
<1>1. PoolInit => OldestFirst
  BY EmptySeq DEF PoolInit, OldestFirst
<1>2. PoolInv => PoolTypeOK
  BY DEF PoolInv
<1>3. QED BY <1>1, <1>2, OldestFirstStep, PoolInvCorrect, PTL DEF PoolSpec

\* Looking at the front of the deque is enough: no expired connection is ever
\* left behind one that is handed out.
THEOREM NoExpiredLeftBehind == PoolSpec => NoExpiredLeft
<1>1. PoolTypeOK /\ OldestFirst /\ [PoolNext]_poolVars =>
        [\A t \in RuntimeThreads :
           AcquireReuse(t) => \A i \in 1..Len(available') : Fresh(available'[i])]_poolVars
  <2> SUFFICES ASSUME PoolTypeOK, OldestFirst,
                      NEW t \in RuntimeThreads, AcquireReuse(t),
                      NEW i \in 1..Len(available')
               PROVE  Fresh(available'[i])
    OBVIOUS
  <2>1. PICK n \in 0..Len(available) - 1 :
          Fresh(available[n + 1]) /\ available' = SubSeq(available, n + 2, Len(available))
    BY DEF AcquireReuse
  <2>2. available \in Seq(Pooled) /\ Len(available) \in Nat /\ n \in Nat /\ n < Len(available)
    BY LenProperties DEF PoolTypeOK
  <2>3. Len(available') = Len(available) - (n + 1) /\ available'[i] = available[i + (n + 1)]
    BY <2>1, <2>2, RestOfDeque
  <2>4. /\ n + 1 \in 1..Len(available) /\ i + (n + 1) \in 1..Len(available)
        /\ n + 1 < i + (n + 1)
    BY <2>2, <2>3
  <2>5. /\ available[n + 1].age >= available[i + (n + 1)].age
        /\ available[n + 1].age \in Nat /\ available[i + (n + 1)].age \in Nat
    <3>1. available[n + 1] \in Pooled /\ available[i + (n + 1)] \in Pooled
      BY <2>2, <2>4, ElementOfSeq
    <3>2. QED BY <2>4, <3>1, PoolAssumption DEF OldestFirst, Pooled
  <2>6. QED BY <2>1, <2>3, <2>5, PoolAssumption DEF Fresh
<1>2. PoolInv => PoolTypeOK
  BY DEF PoolInv
<1>3. QED BY <1>1, <1>2, PoolInvCorrect, DequeOrdered, PTL DEF PoolSpec, NoExpiredLeft

-----------------------------------------------------------------------------
\* ConnectionsExclusive, position by position.
Exclusive ==
    /\ \A t \in RuntimeThreads, i \in 1..Len(available) :
          client[t] # NoConnection => available[i].conn # client[t]
    /\ \A i, j \in 1..Len(available) :
          available[i].conn = available[j].conn => i = j
    /\ \A t, u \in RuntimeThreads :
          client[t] = client[u] /\ client[t] # NoConnection => t = u

LEMMA ExclusiveImplies == Exclusive => ConnectionsExclusive
BY DEF Exclusive, ConnectionsExclusive, Idle, Held

LEMMA ExclusiveStep == PoolInv /\ Exclusive /\ [PoolNext]_poolVars => Exclusive'
<1> SUFFICES ASSUME PoolInv, Exclusive, [PoolNext]_poolVars
             PROVE  Exclusive'
  OBVIOUS
<1>0. /\ available \in Seq(Pooled) /\ Len(available) \in Nat
      /\ client \in [RuntimeThreads -> Connections \cup {NoConnection}]
  BY LenProperties DEF PoolInv, PoolTypeOK
<1>00. \A i \in 1..Len(available) : available[i].conn \in Connections
  <2>1. \A i \in 1..Len(available) : available[i] \in Pooled
    BY <1>0, ElementOfSeq
  <2>2. QED BY <2>1 DEF Pooled
<1>1. ASSUME NEW t \in RuntimeThreads, AcquireReuse(t)
      PROVE  Exclusive'
  <2>1. PICK n \in 0..Len(available) - 1 :
          /\ client' = [client EXCEPT ![t] = available[n + 1].conn]
          /\ available' = SubSeq(available, n + 2, Len(available))
    BY <1>1 DEF AcquireReuse
  <2>2. n \in Nat /\ n < Len(available) /\ n + 1 \in 1..Len(available)
    BY <1>0
  <2>3. /\ Len(available') = Len(available) - (n + 1)
        /\ \A i \in 1..Len(available') : available'[i] = available[i + (n + 1)]
    BY <1>0, <2>1, <2>2, RestOfDeque
  <2>4. \A i \in 1..Len(available') :
          i + (n + 1) \in 1..Len(available) /\ i + (n + 1) # n + 1
    BY <1>0, <2>2, <2>3
  <2>5. ASSUME NEW u \in RuntimeThreads, NEW i \in 1..Len(available'),
               client'[u] # NoConnection
        PROVE  available'[i].conn # client'[u]
    <3>1. CASE u = t
      <4>1. client'[u] = available[n + 1].conn
        BY <1>0, <2>1, <3>1
      <4>2. available[i + (n + 1)].conn # available[n + 1].conn
        BY <2>2, <2>4 DEF Exclusive
      <4>3. QED BY <2>3, <4>1, <4>2
    <3>2. CASE u # t
      <4>1. client'[u] = client[u]
        BY <1>0, <2>1, <3>2
      <4>2. QED BY <2>3, <2>4, <2>5, <4>1 DEF Exclusive
    <3>3. QED BY <3>1, <3>2
  <2>6. ASSUME NEW i \in 1..Len(available'), NEW j \in 1..Len(available'),
               available'[i].conn = available'[j].conn
        PROVE  i = j
    <3>1. available[i + (n + 1)].conn = available[j + (n + 1)].conn
      BY <2>3, <2>6
    <3>2. i + (n + 1) = j + (n + 1)
      BY <2>4, <3>1 DEF Exclusive
    <3>3. i \in Int /\ j \in Int
      BY <2>3
    <3>4. QED BY <2>2, <3>2, <3>3
  <2>7. ASSUME NEW u \in RuntimeThreads, NEW v \in RuntimeThreads,
               client'[u] = client'[v], client'[u] # NoConnection
        PROVE  u = v
    <3>1. \A w \in RuntimeThreads \ {t} :
            client'[w] = client[w] /\ (client[w] # NoConnection => available[n + 1].conn # client[w])
      BY <1>0, <2>1, <2>2 DEF Exclusive
    <3>2. client'[t] = available[n + 1].conn
      BY <1>0, <2>1
    <3>3. QED BY <2>7, <3>1, <3>2 DEF Exclusive
  <2>8. QED BY <2>5, <2>6, <2>7 DEF Exclusive
<1>2. ASSUME NEW t \in RuntimeThreads, AcquireEmpty(t)
      PROVE  Exclusive'
  <2>1. client' = client /\ Len(available') = 0
    BY <1>2, EmptySeq DEF AcquireEmpty
  <2>2. QED BY <2>1 DEF Exclusive
<1>3. ASSUME NEW t \in RuntimeThreads, Open(t)
      PROVE  Exclusive'
  <2>1. PICK c \in Connections \ (Idle \cup Held) : client' = [client EXCEPT ![t] = c]
    BY <1>3 DEF Open
  <2>2. /\ \A i \in 1..Len(available) : available[i].conn # c
        /\ \A u \in RuntimeThreads : client[u] # c
    BY <2>1, PoolAssumption DEF Idle, Held
  <2>3. available' = available
    BY <1>3 DEF Open
  <2>4. client'[t] = c /\ \A u \in RuntimeThreads \ {t} : client'[u] = client[u]
    BY <1>0, <2>1
  <2>5. QED BY <2>2, <2>3, <2>4 DEF Exclusive
<1>4. ASSUME NEW t \in RuntimeThreads, ReleaseHealthy(t)
      PROVE  Exclusive'
  <2>1. PICK c : c = [conn |-> client[t], age |-> 0]
    OBVIOUS
  <2>2. /\ available' = Append(available, c) /\ c.conn = client[t]
        /\ client' = [client EXCEPT ![t] = NoConnection]
    BY <1>4, <2>1 DEF ReleaseHealthy
  <2>3. client[t] \in Connections /\ client[t] # NoConnection
    BY <1>0, <1>4 DEF PoolInv, HoldersHold, ReleaseHealthy
  <2>4. c \in Pooled
    BY <2>1, <2>3, PoolAssumption DEF Pooled
  <2>5. /\ Len(available') = Len(available) + 1
        /\ \A i \in 1..Len(available) : available'[i] = available[i]
        /\ available'[Len(available) + 1] = c
    BY <1>0, <2>2, <2>4, AppendProperties
  <2>6. \A i \in 1..Len(available') : i \in 1..Len(available) \/ i = Len(available) + 1
    BY <1>0, <2>5
  <2>7. client'[t] = NoConnection /\ \A u \in RuntimeThreads \ {t} : client'[u] = client[u]
    BY <1>0, <2>2
  <2>8. \A u \in RuntimeThreads, i \in 1..Len(available') :
          client'[u] # NoConnection => available'[i].conn # client'[u]
    BY <2>2, <2>3, <2>5, <2>6, <2>7 DEF Exclusive
  <2>9. \A i, j \in 1..Len(available') : available'[i].conn = available'[j].conn => i = j
    BY <2>2, <2>3, <2>5, <2>6 DEF Exclusive
  <2>10. \A u, v \in RuntimeThreads :
           client'[u] = client'[v] /\ client'[u] # NoConnection => u = v
    BY <2>7 DEF Exclusive
  <2>11. QED BY <2>8, <2>9, <2>10 DEF Exclusive
<1>5. ASSUME NEW t \in RuntimeThreads, ReleaseDiscards(t)
      PROVE  Exclusive'
  <2>1. available' = available /\ client' = [client EXCEPT ![t] = NoConnection]
    BY <1>5 DEF ReleaseDiscards
  <2>2. client'[t] = NoConnection /\ \A u \in RuntimeThreads \ {t} : client'[u] = client[u]
    BY <1>0, <2>1
  <2>3. QED BY <2>1, <2>2 DEF Exclusive
<1>6. ASSUME Tick
      PROVE  Exclusive'
  <2>1. /\ Len(available') = Len(available)
        /\ \A i \in 1..Len(available) : available'[i].conn = available[i].conn
    BY <1>0, <1>6, AgedDeque DEF Tick
  <2>2. client' = client
    BY <1>6 DEF Tick
  <2>3. QED BY <2>1, <2>2 DEF Exclusive
<1>7. ASSUME UNCHANGED <<available, client>>
      PROVE  Exclusive'
  BY <1>7 DEF Exclusive
<1>8. QED
  BY <1>1, <1>2, <1>3, <1>4, <1>5, <1>6, <1>7
     DEF PoolNext, ThreadStep, Acquire, OpenFails, CountCreated, Operate,
         DeviceDown, DeviceUp, poolVars

\* No two operations ever share a connection.
THEOREM NoSharedConnection == PoolSpec => []ConnectionsExclusive
<1>1. PoolInit => Exclusive
  BY EmptySeq DEF PoolInit, Exclusive
<1>2. QED BY <1>1, ExclusiveStep, ExclusiveImplies, PoolInvCorrect, PTL DEF PoolSpec
=============================================================================
