--------------------------- MODULE RpcServerProofs ---------------------------
(***************************************************************************)
(* Proofs about RpcServer for any clients, texts and limits: a shutdown    *)
(* that was not forced leaves no connection behind, no more handlers run   *)
(* than there are blocking threads, and however the network cuts a text,   *)
(* the reader stops after a chunk exactly if all it has read is balanced.  *)
(***************************************************************************)
EXTENDS RpcServer, FiniteSetTheorems, SequenceTheorems, WellFoundedInduction,
        TLAPS

Listening == {"accepting", "spawned", "added", "draining"}

\* The part of the type invariant that speaks of connections and threads.
ServerTypeOK ==
    /\ conn \in [Connections -> {"new", "backlog", "refused"} \cup InTask \cup Ended]
    /\ server \in {"binding", "stopped", "closing", "down"} \cup Listening
    /\ accepted \in Connections \cup {Nobody}
    /\ server \in {"spawned", "added"} <=> accepted # Nobody
    /\ taskSet \subseteq Connections
    /\ finished \subseteq taskSet

\* Whom the drain waits for.  A task is watched from the moment its observer is
\* spawned, before that the accept loop is at it; an observer ends, and is
\* joined, only when its task has ended.  There is no task before the address
\* is bound and none after the runtime has dropped them.
Watched ==
    /\ \A c \in finished : conn[c] \in Ended
    /\ \A c \in Connections :
        /\ conn[c] \in InTask =>
            \/ server \in Listening /\ c \in taskSet \cup {accepted}
            \/ server = "stopped" /\ forced
        /\ conn[c] = "aborted" => forced

DrainInv == ServerTypeOK /\ Watched

LEMMA DrainInvInit == RpcInit => DrainInv
BY DEF RpcInit, DrainInv, ServerTypeOK, Watched, InTask, Ended, Listening, RpcAssumption

\* A task goes on, or ends, where it is watched.
LEMMA TaskStepKeeps ==
    ASSUME DrainInv, NEW c \in Connections, conn[c] \in InTask \cup Ended,
           NEW place \in InTask \cup {"closed"},
           conn' = [conn EXCEPT ![c] = place],
           conn[c] \in Ended => conn' = conn,
           UNCHANGED <<server, accepted, setVars, forced>>
    PROVE  DrainInv'
<1> USE DEF setVars, InTask, Ended
<1>1. ServerTypeOK'
  BY DEF DrainInv, ServerTypeOK
<1>2. Watched'
  BY DEF DrainInv, ServerTypeOK, Watched
<1> QED BY <1>1, <1>2 DEF DrainInv

LEMMA DrainInvConnections ==
    ASSUME DrainInv, NEW c \in Connections,
           Connect(c) \/ ConnectionStep(c) \/ HandlerReturns(c) \/ ObserverEnds(c)
    PROVE  DrainInv'
<1> USE DEF InTask, Ended
<1>1. CASE Connect(c)
  BY <1>1 DEF Connect, DrainInv, ServerTypeOK, Watched, setVars, Listening
<1>2. CASE Read(c)
  <2>1. PICK place \in {"reading", "queued", "closed"} :
            conn' = [conn EXCEPT ![c] = place]
    <3>1. PICK n \in 1..ChunkSize :
            \/ conn' = [conn EXCEPT ![c] = "closed"]
            \/ \E complete \in BOOLEAN :
                conn' = [conn EXCEPT ![c] = IF complete THEN "queued" ELSE @]
      BY <1>2, Zenon DEF Read
    <3> QED BY <1>2, <3>1 DEF Read
  <2> QED BY <1>2, <2>1, TaskStepKeeps DEF Read
<1>3. CASE StopReading(c)
  <2>1. PICK place \in {"queued", "closed"} : conn' = [conn EXCEPT ![c] = place]
    BY <1>3 DEF StopReading
  <2> QED BY <1>3, <2>1, TaskStepKeeps DEF StopReading
<1>4. CASE ConnectionFails(c) \/ WriteResponse(c)
  BY <1>4, TaskStepKeeps DEF ConnectionFails, WriteResponse
<1>5. CASE StartHandler(c)
  BY <1>5, TaskStepKeeps DEF StartHandler
<1>6. CASE HandlerReturns(c)
  <2>1. CASE conn[c] = "handling"
    <3>1. PICK place \in {"writing", "closed"} : conn' = [conn EXCEPT ![c] = place]
      BY <1>6, <2>1 DEF HandlerReturns
    <3> QED BY <1>6, <2>1, <3>1, TaskStepKeeps DEF HandlerReturns
  <2>2. CASE conn[c] # "handling"
    BY <1>6, <2>2 DEF HandlerReturns, DrainInv, ServerTypeOK, Watched, setVars
  <2> QED BY <2>1, <2>2
<1>7. CASE ObserverEnds(c)
  BY <1>7 DEF ObserverEnds, DrainInv, ServerTypeOK, Watched
<1> QED
  BY <1>1, <1>2, <1>3, <1>4, <1>5, <1>6, <1>7 DEF ConnectionStep

LEMMA DrainInvServer ==
    ASSUME DrainInv, ServerStep
    PROVE  DrainInv'
<1> USE DEF InTask, Ended, Listening, DrainInv, ServerTypeOK, Watched, setVars
<1>1. CASE Start
  BY <1>1 DEF Start
<1>2. CASE AddActive
  BY <1>2 DEF AddActive
<1>3. CASE SpawnObserver
  BY <1>3, RpcAssumption DEF SpawnObserver
<1>4. CASE BeginDrain
  BY <1>4 DEF BeginDrain
<1>5. CASE DrainCompletes
  BY <1>5, RpcAssumption DEF DrainCompletes, WithoutListener
<1>6. CASE DrainTimesOut
  BY <1>6 DEF DrainTimesOut, WithoutListener
<1>7. CASE DropTasks
  BY <1>7 DEF DropTasks
<1>8. CASE RuntimeEnds
  BY <1>8 DEF RuntimeEnds
<1>9. ASSUME NEW c \in Connections, Accept(c) PROVE DrainInv'
  BY <1>9, RpcAssumption DEF Accept
<1>10. ASSUME NEW c \in Connections, JoinNext(c) PROVE DrainInv'
  BY <1>10 DEF JoinNext
<1> QED
  BY <1>1, <1>2, <1>3, <1>4, <1>5, <1>6, <1>7, <1>8, <1>9, <1>10 DEF ServerStep

\* Whatever the clients do and however their requests are handled, everyone the
\* drain has to wait for is in the set it waits for.
THEOREM DrainInvCorrect == RpcSpec => []DrainInv
<1>1. ASSUME DrainInv, [RpcNext]_rpcVars PROVE DrainInv'
  <2>1. CASE ServerStep
    BY <1>1, <2>1, DrainInvServer
  <2>2. ASSUME NEW c \in Connections,
               Connect(c) \/ ConnectionStep(c) \/ HandlerReturns(c) \/ ObserverEnds(c)
        PROVE  DrainInv'
    BY <1>1, <2>2, DrainInvConnections
  <2>3. CASE GoOffline \/ WorkerStep
    BY <1>1, <2>3 DEF GoOffline, WorkerStep, SignalShutdown, JoinRuntime,
        DrainInv, ServerTypeOK, Watched, setVars
  <2>4. CASE UNCHANGED rpcVars
    BY <1>1, <2>4 DEF rpcVars, DrainInv, ServerTypeOK, Watched, setVars
  <2> QED
    BY <1>1, <2>1, <2>2, <2>3, <2>4, Zenon DEF RpcNext
<1> QED
  BY <1>1, DrainInvInit, PTL DEF RpcSpec

\* A shutdown that was not forced leaves no connection behind.
THEOREM DrainIsComplete == RpcSpec => []DrainWaits
<1>1. DrainInv => DrainWaits
  BY DEF DrainInv, ServerTypeOK, Watched, DrainWaits, Listening
<1> QED
  BY <1>1, DrainInvCorrect, PTL

-----------------------------------------------------------------------------
\* The blocking threads: every one of them has a handler whose task waits for
\* it or was dropped meanwhile, and every waiting task has one.
ThreadsInv ==
    /\ running \subseteq Connections
    /\ Cardinality(running) <= MaxBlockingThreads
    /\ \A c \in running : conn[c] \in {"handling", "aborted"}
    /\ \A c \in Connections : conn[c] = "handling" => c \in running

LEMMA ConnectionsFinite == IsFiniteSet(Connections)
BY RpcAssumption

LEMMA ThreadsInvInit == RpcInit => ThreadsInv
BY FS_EmptySet, RpcAssumption DEF RpcInit, ThreadsInv

\* Steps that leave the blocking threads, and the tasks that wait for them, as
\* they are.
LEMMA ThreadsUnchanged ==
    ASSUME ThreadsInv, running' = running,
           \A c \in Connections : conn[c] = "handling" <=> conn'[c] = "handling",
           \A c \in Connections : conn[c] = "aborted" => conn'[c] = "aborted"
    PROVE  ThreadsInv'
BY DEF ThreadsInv

LEMMA ThreadsInvStep == ThreadsInv /\ DrainInv /\ [RpcNext]_rpcVars => ThreadsInv'
<1> SUFFICES ASSUME ThreadsInv, DrainInv, [RpcNext]_rpcVars PROVE ThreadsInv'
  OBVIOUS
<1>0. conn \in [Connections -> {"new", "backlog", "refused"} \cup InTask \cup Ended]
  BY DEF DrainInv, ServerTypeOK
<1>1. ASSUME NEW c \in Connections, StartHandler(c) PROVE ThreadsInv'
  <2>1. IsFiniteSet(running)
    BY ConnectionsFinite, FS_Subset DEF ThreadsInv
  <2>2. /\ Cardinality(running) \in Nat
        /\ Cardinality(running \cup {c}) \in {Cardinality(running), Cardinality(running) + 1}
    BY <2>1, FS_AddElement, FS_CardinalityType, Zenon
  <2>3. Cardinality(running') <= MaxBlockingThreads
    <3>1. running' = running \cup {c} /\ Cardinality(running) < MaxBlockingThreads
      BY <1>1 DEF StartHandler
    <3>2. MaxBlockingThreads \in Nat
      BY RpcAssumption
    <3> QED
      BY <2>2, <3>1, <3>2
  <2> QED
    BY <1>0, <1>1, <2>3 DEF StartHandler, ThreadsInv
<1>2. ASSUME NEW c \in Connections, HandlerReturns(c) PROVE ThreadsInv'
  <2>1. IsFiniteSet(running)
    BY ConnectionsFinite, FS_Subset DEF ThreadsInv
  <2>2. /\ Cardinality(running) \in Nat
        /\ Cardinality(running \ {c}) \in {Cardinality(running), Cardinality(running) - 1}
    BY <2>1, FS_RemoveElement, FS_CardinalityType, Zenon
  <2>3. Cardinality(running') <= MaxBlockingThreads
    <3>1. running' = running \ {c} /\ Cardinality(running) <= MaxBlockingThreads
      BY <1>2 DEF HandlerReturns, ThreadsInv
    <3>2. MaxBlockingThreads \in Nat
      BY RpcAssumption
    <3> QED
      BY <2>2, <3>1, <3>2
  <2> QED
    BY <1>0, <1>2, <2>3 DEF HandlerReturns, ThreadsInv
<1>3. CASE DropTasks
  BY <1>0, <1>3 DEF DropTasks, ThreadsInv, InTask
<1>4. ASSUME NEW c \in Connections, Read(c) PROVE ThreadsInv'
  <2>1. PICK place \in {"reading", "queued", "closed"} :
            conn' = [conn EXCEPT ![c] = place]
    <3>1. PICK n \in 1..ChunkSize :
            \/ conn' = [conn EXCEPT ![c] = "closed"]
            \/ \E complete \in BOOLEAN :
                conn' = [conn EXCEPT ![c] = IF complete THEN "queued" ELSE @]
      BY <1>4, Zenon DEF Read
    <3> QED BY <1>4, <3>1 DEF Read
  <2> QED BY <1>0, <1>4, <2>1, ThreadsUnchanged DEF Read
<1>5. ASSUME NEW c \in Connections,
             Connect(c) \/ StopReading(c) \/ ConnectionFails(c) \/ WriteResponse(c)
                \/ Accept(c)
      PROVE  ThreadsInv'
  BY <1>0, <1>5, ThreadsUnchanged
  DEF Connect, StopReading, ConnectionFails, WriteResponse, Accept
<1>6. ASSUME NEW c \in Connections, ObserverEnds(c) \/ JoinNext(c) PROVE ThreadsInv'
  BY <1>6, ThreadsUnchanged DEF ObserverEnds, JoinNext
<1>7. CASE DrainCompletes \/ DrainTimesOut
  BY <1>0, <1>7, ThreadsUnchanged DEF DrainCompletes, DrainTimesOut, WithoutListener
<1>8. CASE Start \/ AddActive \/ SpawnObserver \/ BeginDrain \/ RuntimeEnds
  BY <1>8, ThreadsUnchanged DEF Start, AddActive, SpawnObserver, BeginDrain, RuntimeEnds
<1>9. CASE GoOffline \/ WorkerStep
  BY <1>9, ThreadsUnchanged DEF GoOffline, WorkerStep, SignalShutdown, JoinRuntime
<1>10. CASE UNCHANGED rpcVars
  BY <1>10, ThreadsUnchanged DEF rpcVars
<1> QED
  BY <1>1, <1>2, <1>3, <1>4, <1>5, <1>6, <1>7, <1>8, <1>9, <1>10, Zenon
  DEF RpcNext, ConnectionStep, ServerStep

\* No more handlers run than there are blocking threads, also while the runtime
\* is shut down and those whose task was dropped go on, and every task that
\* waits for its handler has one (connection.rs:94-101, server.rs:103-114).
THEOREM ThreadsBounded == RpcSpec => []ThreadsInv
BY DrainInvCorrect, ThreadsInvInit, ThreadsInvStep, PTL DEF RpcSpec

-----------------------------------------------------------------------------
\* The remaining variables.
FlagsOK ==
    /\ received \in [Connections -> Nat]
    /\ active \subseteq Connections
    /\ worker \in {"running", "joining", "done"}

SwitchesOK == forced \in BOOLEAN /\ online \in BOOLEAN

LEMMA FlagsStep == FlagsOK /\ DrainInv /\ [RpcNext]_rpcVars => FlagsOK'
<1> SUFFICES ASSUME FlagsOK, DrainInv, [RpcNext]_rpcVars PROVE FlagsOK'
  OBVIOUS
<1> USE DEF FlagsOK
<1>1. ASSUME NEW c \in Connections, Read(c) PROVE FlagsOK'
  <2>1. PICK n \in 1..ChunkSize : received' = [received EXCEPT ![c] = @ + n]
    BY <1>1, Zenon DEF Read
  <2>2. n \in Nat
    BY RpcAssumption
  <2>3. received' \in [Connections -> Nat]
    BY <2>1, <2>2
  <2> QED
    BY <1>1, <2>3 DEF Read, setVars, workerVars
<1>2. ASSUME NEW c \in Connections,
             Connect(c) \/ StopReading(c) \/ ConnectionFails(c) \/ StartHandler(c)
                \/ HandlerReturns(c) \/ WriteResponse(c) \/ Accept(c)
      PROVE  FlagsOK'
  BY <1>2 DEF Connect, StopReading, ConnectionFails, StartHandler, HandlerReturns,
        WriteResponse, Accept, readVars, setVars, workerVars
<1>3. ASSUME NEW c \in Connections, ObserverEnds(c) \/ JoinNext(c) PROVE FlagsOK'
  BY <1>3 DEF ObserverEnds, JoinNext, readVars, workerVars
<1>4. CASE AddActive
  BY <1>4 DEF AddActive, DrainInv, ServerTypeOK, readVars, workerVars
<1>5. CASE Start \/ SpawnObserver \/ BeginDrain \/ DropTasks \/ RuntimeEnds
  BY <1>5 DEF Start, SpawnObserver, BeginDrain, DropTasks, RuntimeEnds, readVars,
        setVars, workerVars
<1>6. CASE DrainCompletes \/ DrainTimesOut
  BY <1>6 DEF DrainCompletes, DrainTimesOut, readVars, setVars, workerVars
<1>7. CASE GoOffline \/ WorkerStep
  BY <1>7 DEF GoOffline, WorkerStep, SignalShutdown, JoinRuntime, readVars, setVars
<1>8. CASE UNCHANGED rpcVars
  BY <1>8 DEF rpcVars, readVars, setVars, workerVars
<1> QED
  BY <1>1, <1>2, <1>3, <1>4, <1>5, <1>6, <1>7, <1>8, Zenon
  DEF RpcNext, ConnectionStep, ServerStep

LEMMA SwitchesStep == SwitchesOK /\ [RpcNext]_rpcVars => SwitchesOK'
<1> SUFFICES ASSUME SwitchesOK, [RpcNext]_rpcVars PROVE SwitchesOK'
  OBVIOUS
<1>1. forced' = forced \/ forced' = TRUE
  BY Zenon DEF RpcNext, ConnectionStep, ServerStep, WorkerStep, rpcVars, Connect, Read,
        StopReading, ConnectionFails, StartHandler, HandlerReturns, WriteResponse,
        Accept, ObserverEnds, JoinNext, Start, AddActive, SpawnObserver, BeginDrain,
        DropTasks, RuntimeEnds, DrainCompletes, DrainTimesOut, GoOffline,
        SignalShutdown, JoinRuntime
<1>2. online' = online \/ online' = FALSE
  BY Zenon DEF RpcNext, ConnectionStep, ServerStep, WorkerStep, rpcVars, workerVars, Connect, Read,
        StopReading, ConnectionFails, StartHandler, HandlerReturns, WriteResponse,
        Accept, ObserverEnds, JoinNext, Start, AddActive, SpawnObserver, BeginDrain,
        DropTasks, RuntimeEnds, DrainCompletes, DrainTimesOut, GoOffline,
        SignalShutdown, JoinRuntime
<1> QED
  BY <1>1, <1>2, Zenon DEF SwitchesOK

\* Every variable keeps to its values.
THEOREM RpcTypeCorrect == RpcSpec => []RpcTypeOK
<1>0. RpcInit => FlagsOK
  BY DEF RpcInit, FlagsOK
<1>1. RpcInit => SwitchesOK
  BY Zenon DEF RpcInit, SwitchesOK
<1>2. DrainInv /\ ThreadsInv /\ FlagsOK /\ SwitchesOK => RpcTypeOK
  BY Zenon DEF DrainInv, ServerTypeOK, ThreadsInv, FlagsOK, SwitchesOK, RpcTypeOK, Listening
<1> QED
  BY <1>0, <1>1, <1>2, DrainInvCorrect, ThreadsBounded, FlagsStep, SwitchesStep, PTL DEF RpcSpec

-----------------------------------------------------------------------------
(* What the reader knows of the nesting.                                   *)

\* Every set of natural numbers has a smallest one, so a set that holds zero, and
\* with a number the next, holds them all.
LEMMA SmallestNumber ==
    ASSUME NEW T, T \subseteq Nat, T # {}
    PROVE  \E x \in T : \A y \in T : x <= y
<1> DEFINE R == {p \in Nat \X Nat : p[1] < p[2]}
<1>1. IsWellFoundedOn(R, Nat)
  BY NatLessThanWellFounded DEF OpToRel
<1> HIDE DEF R
<1>2. PICK x \in T : \A y \in T : ~(<<y, x>> \in R)
  BY <1>1, WFMin
<1>3. ASSUME NEW y \in T
      PROVE  x <= y
  <2>1. <<y, x>> \in Nat \X Nat /\ ~(<<y, x>> \in R)
    BY <1>2
  <2>2. ~(y < x)
    BY <2>1 DEF R
  <2>3. QED BY <2>2
<1>4. QED BY <1>3

LEMMA Upwards ==
    ASSUME NEW N \in Nat, NEW S, 0 \in S, \A n \in 1..N : n - 1 \in S => n \in S
    PROVE  \A n \in 0..N : n \in S
<1> SUFFICES ASSUME (0..N) \ S # {}
             PROVE  FALSE
  OBVIOUS
<1>1. PICK x \in (0..N) \ S : \A y \in (0..N) \ S : x <= y
  <2>1. (0..N) \ S \subseteq Nat
    OBVIOUS
  <2>2. QED BY ONLY <2>1, (0..N) \ S # {}, SmallestNumber
<1>2. x \in 1..N
  BY <1>1
<1>3. x - 1 \in S
  BY <1>1, <1>2
<1>4. QED BY <1>1, <1>2, <1>3

\* What the reader keeps of the first k bytes of a text.
Exact(t, k) ==
    [depth |-> Cardinality(Brackets(t, k, "open")) - Cardinality(Brackets(t, k, "close")),
     inString |-> Quoted(t, k), escape |-> Escaped(t, k + 1),
     started |-> Brackets(t, k, "open") # {}]

LEMMA UpToFinite ==
    ASSUME NEW k \in Nat, NEW S, S \subseteq 1..k
    PROVE  IsFiniteSet(S) /\ Cardinality(S) \in Nat
<1>1. IsFiniteSet(1..k)
  BY FS_Interval
<1>2. QED BY <1>1, FS_Subset, FS_CardinalityType

LEMMA OneMore ==
    ASSUME NEW k \in Nat \ {0}, NEW S, S \subseteq 1..(k - 1)
    PROVE  /\ Cardinality(S) \in Nat /\ Cardinality(S \cup {k}) = Cardinality(S) + 1
           /\ Cardinality(S \cup {k}) % 2 = 1 <=> ~(Cardinality(S) % 2 = 1)
<1>1. IsFiniteSet(S) /\ Cardinality(S) \in Nat /\ k \notin S
  <2>1. k - 1 \in Nat /\ k \notin 1..(k - 1)
    OBVIOUS
  <2>2. QED BY <2>1, UpToFinite
<1>2. Cardinality(S \cup {k}) = Cardinality(S) + 1
  BY <1>1, FS_AddElement
<1>3. \A n \in Nat : (n + 1) % 2 = 1 <=> ~(n % 2 = 1)
  OBVIOUS
<1>4. QED BY <1>1, <1>2, <1>3

\* A byte is escaped if a backslash that is not stands before it.
LEMMA EscapedNext ==
    ASSUME NEW t, NEW k \in Nat \ {0}
    PROVE  Escaped(t, k + 1) <=> t[k] = "backslash" /\ ~Escaped(t, k)
<1> DEFINE Run(i) == {j \in 1..(i - 1) : \A m \in j..(i - 1) : t[m] = "backslash"}
<1>1. (k + 1) - 1 = k /\ k \in 1..k
  OBVIOUS
<1>2. Escaped(t, k) <=> Cardinality(Run(k)) % 2 = 1
  BY DEF Escaped
<1>3. Escaped(t, k + 1) <=> Cardinality(Run(k + 1)) % 2 = 1
  BY DEF Escaped
<1>4. CASE t[k] # "backslash"
  <2>1. Run(k + 1) = {}
    BY <1>1, <1>4
  <2>2. Cardinality(Run(k + 1)) = 0
    BY ONLY <2>1, FS_EmptySet
  <2>3. QED BY ONLY <1>3, <1>4, <2>2
<1>5. CASE t[k] = "backslash"
  <2>1. Run(k + 1) = Run(k) \cup {k} /\ Run(k) \subseteq 1..(k - 1)
    <3>1. ASSUME NEW j \in Run(k + 1), j # k
          PROVE  j \in Run(k)
      BY <1>1, <3>1
    <3>2. ASSUME NEW j \in Run(k)
          PROVE  j \in Run(k + 1)
      <4>1. \A m \in j..k : m = k \/ m \in j..(k - 1)
        BY <1>1
      <4>2. QED BY <1>1, <1>5, <4>1
    <3>3. k \in Run(k + 1)
      <4>1. \A m \in k..k : m = k
        OBVIOUS
      <4>2. QED BY <1>1, <1>5, <4>1
    <3>4. QED BY <3>1, <3>2, <3>3
  <2> HIDE DEF Run
  <2>2. Cardinality(Run(k) \cup {k}) % 2 = 1 <=> ~(Cardinality(Run(k)) % 2 = 1)
    BY ONLY k \in Nat \ {0}, <2>1, OneMore
  <2>3. QED BY ONLY <1>2, <1>3, <1>5, <2>1, <2>2
<1>6. QED BY <1>4, <1>5

LEMMA QuotedNext ==
    ASSUME NEW t, NEW k \in Nat \ {0}
    PROVE  Quoted(t, k) <=> IF t[k] = "quote" /\ ~Escaped(t, k) THEN ~Quoted(t, k - 1)
                            ELSE Quoted(t, k - 1)
<1> DEFINE Quotes(n) == {q \in 1..n : t[q] = "quote" /\ ~Escaped(t, q)}
<1>1. /\ Quoted(t, k) <=> Cardinality(Quotes(k)) % 2 = 1
      /\ Quoted(t, k - 1) <=> Cardinality(Quotes(k - 1)) % 2 = 1
  BY DEF Quoted
<1>2. \A q : q \in 1..k <=> q \in 1..(k - 1) \/ q = k
  OBVIOUS
<1>3. CASE t[k] = "quote" /\ ~Escaped(t, k)
  <2>1. Quotes(k) = Quotes(k - 1) \cup {k} /\ Quotes(k - 1) \subseteq 1..(k - 1)
    BY <1>2, <1>3
  <2> HIDE DEF Quotes
  <2>2. Cardinality(Quotes(k - 1) \cup {k}) % 2 = 1 <=> ~(Cardinality(Quotes(k - 1)) % 2 = 1)
    BY ONLY k \in Nat \ {0}, <2>1, OneMore
  <2>3. QED BY ONLY <1>1, <1>3, <2>1, <2>2
<1>4. CASE ~(t[k] = "quote" /\ ~Escaped(t, k))
  <2>1. Quotes(k) = Quotes(k - 1)
    BY <1>2, <1>4
  <2>2. QED BY <1>1, <1>4, <2>1
<1>5. QED BY <1>3, <1>4

LEMMA BracketsNext ==
    ASSUME NEW t, NEW k \in Nat \ {0}, NEW b
    PROVE  /\ Brackets(t, k - 1, b) \subseteq 1..(k - 1)
           /\ Brackets(t, k, b) = IF t[k] = b /\ ~Quoted(t, k) THEN Brackets(t, k - 1, b) \cup {k}
                                  ELSE Brackets(t, k - 1, b)
<1>1. \A q : q \in 1..k <=> q \in 1..(k - 1) \/ q = k
  OBVIOUS
<1>2. QED BY <1>1 DEF Brackets

LEMMA NothingRead ==
    ASSUME NEW t
    PROVE  Exact(t, 0) = Untracked
<1>1. 1..0 = {} /\ 1..(1 - 1) = {} /\ 0 + 1 = 1 /\ 0 - 0 = 0 /\ 0 % 2 # 1
  OBVIOUS
<1>2. Cardinality({}) = 0
  BY FS_EmptySet
<1>3. Brackets(t, 0, "open") = {} /\ Brackets(t, 0, "close") = {}
  BY <1>1 DEF Brackets
<1>4. ~Quoted(t, 0)
  <2>1. {q \in 1..0 : t[q] = "quote" /\ ~Escaped(t, q)} = {}
    BY <1>1
  <2>2. QED BY ONLY <1>1, <1>2, <2>1 DEF Quoted
<1>5. ~Escaped(t, 1)
  <2>1. {j \in 1..(1 - 1) : \A k \in j..(1 - 1) : t[k] = "backslash"} = {}
    BY <1>1
  <2>2. QED BY ONLY <1>1, <1>2, <2>1 DEF Escaped
<1>6. Quoted(t, 0) = FALSE /\ Escaped(t, 0 + 1) = FALSE
  BY <1>1, <1>4, <1>5 DEF Quoted, Escaped
<1>7. QED BY ONLY <1>1, <1>2, <1>3, <1>6 DEF Exact, Untracked

\* One byte.
LEMMA ByteStaysExact ==
    ASSUME NEW t, NEW k \in Nat \ {0}, WellQuoted(t, k)
    PROVE  ScanByte(Exact(t, k - 1), t[k]) = Exact(t, k)
<1>1. PICK s, new, b, q, r, e, f, o, p, c, d, x, y :
        /\ s = Exact(t, k - 1) /\ new = Exact(t, k) /\ b = t[k]
        /\ q = Quoted(t, k - 1) /\ r = Quoted(t, k)
        /\ e = Escaped(t, k) /\ f = Escaped(t, k + 1)
        /\ o = Brackets(t, k - 1, "open") /\ p = Brackets(t, k, "open")
        /\ c = Brackets(t, k - 1, "close") /\ d = Brackets(t, k, "close")
        /\ x = Cardinality(o) - Cardinality(c) /\ y = Cardinality(p) - Cardinality(d)
  OBVIOUS
<1>2. q \in BOOLEAN /\ r \in BOOLEAN /\ e \in BOOLEAN /\ f \in BOOLEAN
  BY <1>1 DEF Quoted, Escaped
<1>3. s = [depth |-> x, inString |-> q, escape |-> e, started |-> o # {}]
  <2>1. (k - 1) + 1 = k
    OBVIOUS
  <2>2. QED BY ONLY <1>1, <2>1 DEF Exact
<1>4. new = [depth |-> y, inString |-> r, escape |-> f, started |-> p # {}]
  BY <1>1 DEF Exact
<1> SUFFICES ScanByte(s, b) = new
  BY <1>1
<1>5. /\ f <=> b = "backslash" /\ ~e
      /\ r <=> IF b = "quote" /\ ~e THEN ~q ELSE q
  BY <1>1, EscapedNext, QuotedNext
<1>6. /\ p = IF b = "open" /\ ~r THEN o \cup {k} ELSE o
      /\ d = IF b = "close" /\ ~r THEN c \cup {k} ELSE c
  BY <1>1, BracketsNext
<1>7. /\ Cardinality(o) \in Nat /\ Cardinality(o \cup {k}) = Cardinality(o) + 1
      /\ Cardinality(c) \in Nat /\ Cardinality(c \cup {k}) = Cardinality(c) + 1
  <2>1. o \subseteq 1..(k - 1) /\ c \subseteq 1..(k - 1)
    BY <1>1, BracketsNext
  <2>2. QED BY <2>1, OneMore
<1>8. e => q
  <2> SUFFICES ASSUME e
               PROVE  q
    OBVIOUS
  <2>1. CASE k = 1
    <3>1. Exact(t, 0).escape = FALSE
      BY NothingRead DEF Untracked
    <3>2. QED BY <1>1, <1>3, <2>1, <3>1
  <2>2. CASE k # 1
    <3>1. k - 1 \in Nat \ {0} /\ (k - 1) + 1 = k /\ k - 1 \in 1..k
      BY <2>2
    <3>2. t[k - 1] = "backslash"
      BY <1>1, <3>1, EscapedNext
    <3>3. QED BY <1>1, <3>1, <3>2 DEF WellQuoted
  <2>3. QED BY <2>1, <2>2
<1>9. b = "backslash" => r
  <2>1. k \in 1..k
    OBVIOUS
  <2>2. QED BY <1>1, <2>1 DEF WellQuoted
<1>10. CASE e
  <2>1. ScanByte(s, b) = [s EXCEPT !.escape = FALSE]
    BY <1>3, <1>10 DEF ScanByte
  <2>2. f = FALSE /\ r = q /\ p = o /\ d = c /\ y = x
    BY <1>1, <1>2, <1>5, <1>6, <1>8, <1>10
  <2>3. QED BY ONLY <1>3, <1>4, <2>1, <2>2
<1>11. CASE ~e /\ b = "backslash"
  <2>1. q = r /\ q = TRUE /\ f = TRUE /\ p = o /\ d = c /\ y = x /\ e = FALSE
    BY <1>1, <1>2, <1>5, <1>6, <1>9, <1>11
  <2>2. ScanByte(s, b) = [s EXCEPT !.escape = TRUE]
    BY <1>3, <1>11, <2>1 DEF ScanByte
  <2>3. QED BY ONLY <1>3, <1>4, <2>1, <2>2
<1>12. CASE ~e /\ b = "quote"
  <2>1. r = ~q /\ e = FALSE /\ f = FALSE /\ p = o /\ d = c /\ y = x
    BY <1>1, <1>2, <1>5, <1>6, <1>12
  <2>2. ScanByte(s, b) = [s EXCEPT !.inString = ~@]
    BY <1>3, <1>12, <2>1 DEF ScanByte
  <2>3. QED BY ONLY <1>3, <1>4, <2>1, <2>2
<1>13. CASE ~e /\ b = "open"
  <2>1. r = q /\ e = FALSE /\ f = FALSE /\ d = c
    BY <1>2, <1>5, <1>6, <1>13
  <2>2. CASE q
    <3>1. ScanByte(s, b) = s /\ p = o /\ y = x
      BY <1>1, <1>3, <1>6, <1>13, <2>1, <2>2 DEF ScanByte
    <3>2. QED BY ONLY <1>3, <1>4, <2>1, <3>1
  <2>3. CASE ~q
    <3>1. ScanByte(s, b) = [s EXCEPT !.depth = @ + 1, !.started = TRUE]
      BY <1>3, <1>13, <2>1, <2>3 DEF ScanByte
    <3>2. p = o \cup {k} /\ p # {}
      BY <1>6, <1>13, <2>1, <2>3
    <3>3. y = x + 1
      BY <1>1, <1>7, <2>1, <3>2
    <3>4. QED BY ONLY <1>3, <1>4, <2>1, <3>1, <3>2, <3>3
  <2>4. QED BY <2>2, <2>3
<1>14. CASE ~e /\ b = "close"
  <2>1. r = q /\ e = FALSE /\ f = FALSE /\ p = o
    BY <1>2, <1>5, <1>6, <1>14
  <2>2. CASE q
    <3>1. ScanByte(s, b) = s /\ d = c /\ y = x
      BY <1>1, <1>3, <1>6, <1>14, <2>1, <2>2 DEF ScanByte
    <3>2. QED BY ONLY <1>3, <1>4, <2>1, <3>1
  <2>3. CASE ~q
    <3>1. ScanByte(s, b) = [s EXCEPT !.depth = @ - 1]
      BY <1>3, <1>14, <2>1, <2>3 DEF ScanByte
    <3>2. d = c \cup {k}
      BY <1>6, <1>14, <2>1, <2>3
    <3>3. y = x - 1
      BY <1>1, <1>7, <2>1, <3>2
    <3>4. QED BY ONLY <1>3, <1>4, <2>1, <3>1, <3>3
  <2>4. QED BY <2>2, <2>3
<1>15. CASE ~e /\ b \notin {"backslash", "quote", "open", "close"}
  <2>1. r = q /\ e = FALSE /\ f = FALSE /\ p = o /\ d = c /\ y = x
    BY <1>1, <1>2, <1>5, <1>6, <1>15
  <2>2. ScanByte(s, b) = s
    BY <1>3, <1>15, <2>1 DEF ScanByte
  <2>3. QED BY ONLY <1>3, <1>4, <2>1, <2>2
<1>16. QED BY <1>10, <1>11, <1>12, <1>13, <1>14, <1>15

\* A chunk, wherever it was cut.
LEMMA ChunkStaysExact ==
    ASSUME NEW t \in Seq(Byte), NEW k \in Nat, NEW n \in Nat, k + n <= Len(t),
           WellQuoted(t, k + n)
    PROVE  Scan(Exact(t, k), SubSeq(t, k + 1, k + n)) = Exact(t, k + n)
<1>1. PICK s, chunk : s = Exact(t, k) /\ chunk = SubSeq(t, k + 1, k + n)
  OBVIOUS
<1>2. Len(chunk) = n /\ \A i \in 1..n : chunk[i] = t[k + i]
  <2>1. /\ k + 1 \in Int /\ k + n \in Int /\ (k + n) - (k + 1) + 1 = n
        /\ n = IF k + 1 <= k + n THEN (k + n) - (k + 1) + 1 ELSE 0
    OBVIOUS
  <2>2. \A i \in (k + 1)..(k + n) : t[i] \in Byte
    <3>1. \A i \in (k + 1)..(k + n) : i \in 1..Len(t)
      BY LenProperties
    <3>2. QED BY <3>1, ElementOfSeq
  <2>3. Len(chunk) = n /\ \A i \in 1..n : chunk[i] = t[(k + 1) + i - 1]
    <3>1. PICK m, u : m = k + 1 /\ u = k + n
      OBVIOUS
    <3>2. /\ m \in Int /\ u \in Int /\ u - m + 1 = n
          /\ n = IF m <= u THEN u - m + 1 ELSE 0
          /\ \A i \in m..u : t[i] \in Byte
      BY ONLY <2>1, <2>2, <3>1
    <3>3. Len(chunk) = n /\ \A i \in 1..(u - m + 1) : chunk[i] = t[m + i - 1]
      BY ONLY <1>1, <3>1, <3>2, SubSeqProperties
    <3>4. QED BY ONLY <3>1, <3>2, <3>3
  <2>4. \A i \in 1..n : (k + 1) + i - 1 = k + i
    OBVIOUS
  <2>5. QED BY <2>3, <2>4
<1>3. ASSUME NEW i \in 1..n
      PROVE  Exact(t, k + i) = ScanByte(Exact(t, k + (i - 1)), chunk[i])
  <2>1. k + i \in Nat \ {0} /\ (k + i) - 1 = k + (i - 1)
    OBVIOUS
  <2>2. WellQuoted(t, k + i)
    BY DEF WellQuoted
  <2>3. ScanByte(Exact(t, (k + i) - 1), t[k + i]) = Exact(t, k + i)
    BY <2>1, <2>2, ByteStaysExact
  <2>4. QED BY <1>2, <2>1, <2>3
<1> DEFINE Body(f) == [i \in 0..Len(chunk) |-> IF i = 0 THEN s ELSE ScanByte(f[i - 1], chunk[i])]
           f == [i \in 0..n |-> Exact(t, k + i)]
           g == CHOOSE h : h = Body(h)
<1>4. f = Body(f)
  <2>1. f[0] = s
    BY <1>1
  <2>2. ASSUME NEW i \in 1..n
        PROVE  f[i] = ScanByte(f[i - 1], chunk[i])
    <3>1. f[i] = Exact(t, k + i) /\ f[i - 1] = Exact(t, k + (i - 1))
      OBVIOUS
    <3>2. QED BY ONLY <1>3, <3>1
  <2> HIDE DEF f
  <2>3. \A i \in 0..n : f[i] = IF i = 0 THEN s ELSE ScanByte(f[i - 1], chunk[i])
    BY <2>1, <2>2
  <2>4. f = [i \in 0..n |-> f[i]]
    BY DEF f
  <2>5. QED BY <1>2, <2>3, <2>4
<1>5. g = Body(g)
  BY <1>4
<1>6. Scan(s, chunk) = g[n]
  BY <1>2 DEF Scan
<1> HIDE DEF f, g
<1>7. ASSUME NEW i \in 0..n
      PROVE  g[i] = IF i = 0 THEN s ELSE ScanByte(g[i - 1], chunk[i])
  <2>1. g[i] = Body(g)[i]
    BY <1>5
  <2>2. QED BY <1>2, <2>1
<1> DEFINE S == {i \in 0..n : g[i] = Exact(t, k + i)}
<1>8. 0 \in S
  BY <1>1, <1>7
<1>9. ASSUME NEW i \in 1..n, i - 1 \in S
      PROVE  i \in S
  <2>1. g[i] = ScanByte(g[i - 1], chunk[i])
    BY <1>7
  <2>2. g[i - 1] = Exact(t, k + (i - 1))
    BY <1>9
  <2>3. Exact(t, k + i) = ScanByte(Exact(t, k + (i - 1)), chunk[i])
    BY <1>3
  <2>4. g[i] = Exact(t, k + i)
    BY ONLY <2>1, <2>2, <2>3
  <2>5. QED BY <2>4
<1> HIDE DEF S
<1>10. \A i \in 1..n : i - 1 \in S => i \in S
  BY <1>9
<1>11. \A i \in 0..n : i \in S
  BY ONLY n \in Nat, <1>8, <1>10, Upwards
<1>12. g[n] = Exact(t, k + n)
  BY <1>11 DEF S
<1>13. QED BY <1>1, <1>6, <1>12

LEMMA CompleteIsBalanced ==
    ASSUME NEW t, NEW k \in Nat
    PROVE  Complete(Exact(t, k)) <=> Balanced(t, k)
<1>1. PICK o, c : o = Brackets(t, k, "open") /\ c = Brackets(t, k, "close")
  OBVIOUS
<1>2. Cardinality(o) \in Nat /\ Cardinality(c) \in Nat
  BY <1>1, UpToFinite DEF Brackets
<1>3. /\ Exact(t, k).started <=> o # {}
      /\ Exact(t, k).depth = Cardinality(o) - Cardinality(c)
  BY <1>1 DEF Exact
<1>4. Complete(Exact(t, k)) <=> o # {} /\ Cardinality(o) - Cardinality(c) = 0
  BY <1>3 DEF Complete
<1>5. Balanced(t, k) <=> o # {} /\ Cardinality(o) = Cardinality(c)
  BY <1>1 DEF Balanced
<1>6. QED BY ONLY <1>2, <1>4, <1>5

-----------------------------------------------------------------------------
\* A reader is at a place of its text and knows the nesting there.
ReaderKnows(c) ==
    /\ conn[c] \in {"new", "backlog"} => received[c] = 0 /\ track[c] = Untracked
    /\ conn[c] = "reading" =>
        /\ received[c] <= Len(Text[c])
        /\ WellQuoted(Text[c], received[c]) => track[c] = Exact(Text[c], received[c])

TrackInv ==
    /\ track = [c \in Connections |-> track[c]]
    /\ received \in [Connections -> Nat]
    /\ \A c \in Connections : ReaderKnows(c)

ReadersInv == DrainInv /\ TrackInv

\* What a read does to its connection, and that it does nothing to others.
LEMMA ReadEffect ==
    ASSUME ReadersInv, NEW c \in Connections, Read(c)
    PROVE  /\ conn' = [conn EXCEPT ![c] = conn'[c]]
           /\ received' = [received EXCEPT ![c] = received'[c]]
           /\ track' = [track EXCEPT ![c] = track'[c]]
           /\ received'[c] \in Nat /\ received'[c] <= Len(Text[c])
           /\ conn'[c] \in {"reading", "queued", "closed"}
           /\ conn'[c] # "closed" /\ WellQuoted(Text[c], received'[c]) =>
                /\ track'[c] = Exact(Text[c], received'[c])
                /\ conn'[c] = "queued" <=> Balanced(Text[c], received'[c])
<1>0. PICK n \in 1..ChunkSize :
        LET chunk == SubSeq(Text[c], received[c] + 1, received[c] + n)
            result == Scan(track[c], chunk)
        IN  /\ n <= Remaining(c)
            /\ received' = [received EXCEPT ![c] = @ + n]
            /\ IF received[c] + n > MaxRequestSize
               THEN /\ conn' = [conn EXCEPT ![c] = "closed"]
                    /\ track' = track
               ELSE /\ conn' = [conn EXCEPT ![c] = IF Complete(result) THEN "queued" ELSE @]
                    /\ track' = [track EXCEPT ![c] = result]
  BY Zenon DEF Read
<1>1. PICK t, k, next :
        /\ t = Text[c] /\ k = received[c]
        /\ next = Scan(track[c], SubSeq(t, k + 1, k + n))
        /\ n <= Len(t) - k
        /\ received' = [received EXCEPT ![c] = @ + n]
        /\ IF k + n > MaxRequestSize
           THEN /\ conn' = [conn EXCEPT ![c] = "closed"]
                /\ track' = track
           ELSE /\ conn' = [conn EXCEPT ![c] = IF Complete(next) THEN "queued" ELSE @]
                /\ track' = [track EXCEPT ![c] = next]
  BY <1>0 DEF Remaining
<1>2. /\ DOMAIN conn = Connections /\ track = [d \in Connections |-> track[d]]
      /\ received \in [Connections -> Nat] /\ conn[c] = "reading"
  BY DEF ReadersInv, DrainInv, ServerTypeOK, TrackInv, Read
<1>3. k \in Nat /\ n \in Nat /\ t \in Seq(Byte) /\ Len(t) \in Nat
  BY <1>1, <1>2, RpcAssumption, LenProperties
<1>4. /\ received'[c] = k + n /\ k + n \in Nat /\ k + n <= Len(t)
      /\ received' = [received EXCEPT ![c] = received'[c]]
  BY <1>1, <1>2, <1>3
<1>5. CASE k + n > MaxRequestSize
  <2>1. /\ conn' = [conn EXCEPT ![c] = "closed"] /\ conn'[c] = "closed"
        /\ track' = track /\ track' = [track EXCEPT ![c] = track'[c]]
    BY <1>1, <1>2, <1>5
  <2>2. QED BY <1>1, <1>4, <2>1
<1>6. CASE ~(k + n > MaxRequestSize)
  <2>1. PICK place : place = IF Complete(next) THEN "queued" ELSE "reading"
    OBVIOUS
  <2>2. /\ conn' = [conn EXCEPT ![c] = place] /\ conn'[c] = place
        /\ track' = [track EXCEPT ![c] = next] /\ track'[c] = next
    BY <1>1, <1>2, <1>6, <2>1
  <2>3. ASSUME WellQuoted(t, k + n)
        PROVE  next = Exact(t, k + n)
    <3>1. WellQuoted(t, k)
      BY <1>3, <2>3 DEF WellQuoted
    <3>2. track[c] = Exact(t, k)
      BY <1>1, <1>2, <3>1 DEF ReadersInv, TrackInv, ReaderKnows
    <3>3. QED BY ONLY <1>1, <1>3, <1>4, <2>3, <3>2, ChunkStaysExact
  <2>4. WellQuoted(t, k + n) => (Complete(next) <=> Balanced(t, k + n))
    BY <1>4, <2>3, CompleteIsBalanced
  <2>5. place \in {"queued", "reading"} /\ (place = "queued" <=> Complete(next))
    BY <2>1
  <2>6. QED BY <1>1, <1>4, <2>2, <2>3, <2>4, <2>5
<1>7. QED BY <1>5, <1>6

LEMMA ReadKeeps ==
    ASSUME ReadersInv, NEW c \in Connections, Read(c)
    PROVE  TrackInv'
<1>1. /\ conn' = [conn EXCEPT ![c] = conn'[c]]
      /\ received' = [received EXCEPT ![c] = received'[c]]
      /\ track' = [track EXCEPT ![c] = track'[c]]
      /\ received'[c] \in Nat /\ received'[c] <= Len(Text[c])
      /\ conn'[c] \in {"reading", "queued", "closed"}
      /\ conn'[c] = "reading" /\ WellQuoted(Text[c], received'[c]) =>
            track'[c] = Exact(Text[c], received'[c])
  BY ReadEffect
<1>2. /\ DOMAIN conn = Connections /\ DOMAIN track = Connections
      /\ received \in [Connections -> Nat] /\ \A d \in Connections : ReaderKnows(d)
  BY DEF ReadersInv, DrainInv, ServerTypeOK, TrackInv
<1>3. received' \in [Connections -> Nat] /\ DOMAIN track' = Connections
  BY <1>1, <1>2
<1>4. track' = [d \in Connections |-> track'[d]]
  BY <1>1, <1>2
<1>5. ASSUME NEW d \in Connections
      PROVE  ReaderKnows(d)'
  <2>1. CASE d = c
    BY <1>1, <2>1 DEF ReaderKnows
  <2>2. CASE d # c
    <3>1. conn'[d] = conn[d] /\ received'[d] = received[d] /\ track'[d] = track[d]
      BY <1>1, <1>2, <2>2
    <3>2. QED BY <1>2, <3>1 DEF ReaderKnows
  <2>3. QED BY <2>1, <2>2
<1>6. QED BY <1>3, <1>4, <1>5 DEF TrackInv

\* No other step reads, and nobody gets back to reading.
LEMMA OtherStep ==
    ASSUME ReadersInv, [RpcNext]_rpcVars, ~\E c \in Connections : Read(c)
    PROVE  /\ received' = received /\ track' = track
           /\ \A c \in Connections :
                /\ conn'[c] \in {"new", "backlog"} => conn[c] \in {"new", "backlog"}
                /\ conn'[c] = "reading" => conn[c] \in {"backlog", "reading"}
<1>0. /\ DOMAIN conn = Connections
      /\ conn \in [Connections -> {"new", "backlog", "refused"} \cup InTask \cup Ended]
  BY DEF ReadersInv, DrainInv, ServerTypeOK
<1> USE DEF readVars
<1> DEFINE Goal ==
             /\ received' = received /\ track' = track
             /\ \A d \in Connections :
                  /\ conn'[d] \in {"new", "backlog"} => conn[d] \in {"new", "backlog"}
                  /\ conn'[d] = "reading" => conn[d] \in {"backlog", "reading"}
<1>1. ASSUME NEW c \in Connections, Connect(c) \/ Accept(c)
      PROVE  Goal
  BY <1>0, <1>1 DEF Connect, Accept
<1>2. ASSUME NEW c \in Connections,
             \/ StopReading(c) \/ ConnectionFails(c) \/ StartHandler(c)
             \/ HandlerReturns(c) \/ WriteResponse(c)
      PROVE  Goal
  <2>1. CASE StopReading(c)
    BY <1>0, <2>1 DEF StopReading
  <2>2. CASE ConnectionFails(c) \/ StartHandler(c) \/ WriteResponse(c)
    BY <1>0, <2>2 DEF ConnectionFails, StartHandler, WriteResponse
  <2>3. CASE HandlerReturns(c)
    BY <1>0, <2>3 DEF HandlerReturns
  <2>4. QED BY <1>2, <2>1, <2>2, <2>3
<1>3. CASE DrainCompletes \/ DrainTimesOut \/ DropTasks
  BY <1>0, <1>3 DEF DrainCompletes, DrainTimesOut, DropTasks, WithoutListener, InTask
<1>4. CASE UNCHANGED <<conn, readVars>>
  BY <1>4
<1>5. ASSUME NEW c \in Connections, ObserverEnds(c) \/ JoinNext(c)
      PROVE  UNCHANGED <<conn, readVars>>
  BY <1>5 DEF ObserverEnds, JoinNext
<1>6. CASE Start \/ AddActive \/ SpawnObserver \/ BeginDrain \/ RuntimeEnds
  BY <1>4, <1>6 DEF Start, AddActive, SpawnObserver, BeginDrain, RuntimeEnds
<1>7. CASE GoOffline \/ WorkerStep
  BY <1>4, <1>7 DEF GoOffline, WorkerStep, SignalShutdown, JoinRuntime
<1>8. CASE UNCHANGED rpcVars
  BY <1>4, <1>8 DEF rpcVars
<1>9. QED
  BY <1>1, <1>2, <1>3, <1>4, <1>5, <1>6, <1>7, <1>8, Zenon DEF RpcNext, ConnectionStep, ServerStep

LEMMA TrackStep == ReadersInv /\ [RpcNext]_rpcVars => TrackInv'
<1> SUFFICES ASSUME ReadersInv, [RpcNext]_rpcVars, ~\E c \in Connections : Read(c)
             PROVE  TrackInv'
  BY ReadKeeps
<1>1. /\ received' = received /\ track' = track
      /\ \A c \in Connections :
           /\ conn'[c] \in {"new", "backlog"} => conn[c] \in {"new", "backlog"}
           /\ conn'[c] = "reading" => conn[c] \in {"backlog", "reading"}
  BY OtherStep
<1>2. ASSUME NEW c \in Connections
      PROVE  ReaderKnows(c)'
  <2>1. ReaderKnows(c)
    BY DEF ReadersInv, TrackInv
  <2>2. Len(Text[c]) \in Nat
    BY RpcAssumption, LenProperties
  <2>3. Exact(Text[c], 0) = Untracked
    BY NothingRead
  <2>4. QED BY <1>1, <2>1, <2>2, <2>3 DEF ReaderKnows
<1>3. QED BY <1>1, <1>2 DEF ReadersInv, TrackInv

LEMMA TrackCorrect == RpcSpec => []ReadersInv
<1>1. RpcInit => TrackInv
  BY DEF RpcInit, TrackInv, ReaderKnows
<1>2. DrainInv /\ TrackInv <=> ReadersInv
  BY DEF ReadersInv
<1>3. QED BY <1>1, <1>2, DrainInvCorrect, TrackStep, PTL DEF RpcSpec

\* Whatever the clients send and however the network cuts it, the reader stops
\* after a chunk exactly if the brackets of all it has read are balanced
\* (connection.rs:51-77).
THEOREM RequestsCutRight == RpcSpec => RequestsReadWhole
<1>1. ReadersInv /\ [RpcNext]_rpcVars =>
        [\A c \in Connections :
            /\ received'[c] # received[c]
            /\ conn'[c] # "closed"
            /\ WellQuoted(Text[c], received'[c])
            => (conn'[c] = "queued" <=> Balanced(Text[c], received'[c]))]_rpcVars
  <2> SUFFICES ASSUME ReadersInv, [RpcNext]_rpcVars, NEW c \in Connections,
                      received'[c] # received[c], conn'[c] # "closed",
                      WellQuoted(Text[c], received'[c])
               PROVE  conn'[c] = "queued" <=> Balanced(Text[c], received'[c])
    OBVIOUS
  <2>1. PICK d \in Connections : Read(d)
    BY OtherStep
  <2>2. received' = [received EXCEPT ![d] = received'[d]]
    BY <2>1, ReadEffect
  <2>3. c = d
    BY <2>2 DEF ReadersInv, TrackInv
  <2>4. QED BY <2>1, <2>3, ReadEffect
<1>2. QED BY <1>1, TrackCorrect, PTL DEF RpcSpec, RequestsReadWhole

=============================================================================
