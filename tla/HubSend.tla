------------------------------ MODULE HubSend ------------------------------
(***************************************************************************)
(* send_to_hub_with_protection (src/hub_protection.rs): every worker that  *)
(* publishes on the hub hands its message to one global pool of threads    *)
(* through a bounded task queue and waits, with a timeout, for the pool to *)
(* finish the blocking hub.send.  The hub itself (roboplc) is external: it *)
(* pushes a copy of the message into the bounded mailbox of every          *)
(* subscriber whose filter accepts it and blocks while a mailbox is full.  *)
(* The policy "single" of Message::DeviceControl keeps one message of that *)
(* kind per mailbox: the newer one replaces the older one.                 *)
(***************************************************************************)
EXTENDS Naturals, Sequences, FiniteSets

CONSTANTS
    Messages,       \* one identity per call of send_to_hub_with_protection
    Single,         \* the messages of kind DeviceControl (delivery "single")
    Subscribers,    \* the hub clients
    Recipients,     \* [Messages -> SUBSET Subscribers]: whose filter accepts it
    Threads,        \* the threads of the pool (16 in the code)
    QueueCapacity,  \* capacity of the pool's task queue (512 in the code)
    HubCapacity,    \* capacity of a subscriber's mailbox (1024 in the code)
    NoMessage       \* an idle thread's message

ASSUME HubAssumption ==
    /\ Single \subseteq Messages
    /\ Recipients \in [Messages -> SUBSET Subscribers]
    /\ QueueCapacity \in Nat \ {0}
    /\ HubCapacity \in Nat \ {0}
    /\ NoMessage \notin Messages

VARIABLES
    taskQueue,   \* the bounded channel in front of the pool threads
    carried,     \* the message a pool thread is sending, or NoMessage
    delivered,   \* the subscribers the hub.send of a message has reached
    mailbox,     \* the hub channel of each subscriber
    call         \* the outcome of the protected send, as its caller sees it

hubVars == <<taskQueue, carried, delivered, mailbox, call>>

Outcome == {"idle", "waiting", "ok", "full", "timeout"}

HubTypeOK ==
    /\ taskQueue \in Seq(Messages)
    /\ Len(taskQueue) <= QueueCapacity
    /\ carried \in [Threads -> Messages \cup {NoMessage}]
    /\ delivered \in [Messages -> SUBSET Subscribers]
    /\ mailbox \in [Subscribers -> Seq(Messages)]
    /\ \A s \in Subscribers : Len(mailbox[s]) <= HubCapacity
    /\ call \in [Messages -> Outcome]

HubInit ==
    /\ taskQueue = <<>>
    /\ carried = [t \in Threads |-> NoMessage]
    /\ delivered = [m \in Messages |-> {}]
    /\ mailbox = [s \in Subscribers |-> <<>>]
    /\ call = [m \in Messages |-> "idle"]

(* Definitions named ...Deviation are errors the code could plausibly have  *)
(* had.  They occur in no specification; substituted for the definition     *)
(* that follows them they show which property notices the error.            *)

-----------------------------------------------------------------------------
\* The caller: submit is a try_send on the task queue, then recv_timeout.

SubmitAccepted(m) ==
    /\ call[m] = "idle"
    /\ Len(taskQueue) < QueueCapacity
    /\ taskQueue' = Append(taskQueue, m)
    /\ call' = [call EXCEPT ![m] = "waiting"]
    /\ UNCHANGED <<carried, delivered, mailbox>>

SubmitRefused(m) ==
    /\ call[m] = "idle"
    /\ Len(taskQueue) = QueueCapacity
    /\ call' = [call EXCEPT ![m] = "full"]
    /\ UNCHANGED <<taskQueue, carried, delivered, mailbox>>

\* Giving up cancels the task while it is queued.
TimeoutCancelsDeviation(m) ==
    /\ call[m] = "waiting"
    /\ call' = [call EXCEPT ![m] = "timeout"]
    /\ taskQueue' = IF taskQueue # <<>> /\ Head(taskQueue) = m
                    THEN Tail(taskQueue) ELSE taskQueue
    /\ UNCHANGED <<carried, delivered, mailbox>>

\* The timeout covers the wait for a pool thread only.
TimeoutWhileQueuedDeviation(m) ==
    /\ call[m] = "waiting"
    /\ \E i \in 1..Len(taskQueue) : taskQueue[i] = m
    /\ call' = [call EXCEPT ![m] = "timeout"]
    /\ UNCHANGED <<taskQueue, carried, delivered, mailbox>>

\* recv_timeout expires; the task stays where it is.
CallerTimesOut(m) ==
    /\ call[m] = "waiting"
    /\ call' = [call EXCEPT ![m] = "timeout"]
    /\ UNCHANGED <<taskQueue, carried, delivered, mailbox>>

-----------------------------------------------------------------------------
\* A pool thread: recv a task, hub.send, signal completion.

TakeTask(t) ==
    /\ carried[t] = NoMessage
    /\ taskQueue # <<>>
    /\ carried' = [carried EXCEPT ![t] = Head(taskQueue)]
    /\ taskQueue' = Tail(taskQueue)
    /\ UNCHANGED <<delivered, mailbox, call>>

\* Positions of the DeviceControl messages of a mailbox.
SinglesIn(q) == {i \in 1..Len(q) : q[i] \in Single}

\* q without its DeviceControl message (a mailbox holds at most one: the
\* invariant OneSinglePerMailbox).
WithoutSingle(q) ==
    IF SinglesIn(q) = {} THEN q
    ELSE LET i == CHOOSE j \in SinglesIn(q) : TRUE
         IN  SubSeq(q, 1, i - 1) \o SubSeq(q, i + 1, Len(q))

\* What of q is kept when m is pushed: "single" displaces, "always" appends.
Kept(q, m) == IF m \in Single THEN WithoutSingle(q) ELSE q

\* One subscriber of the hub.send in progress; blocks while it has no room.
Deliver(t, s) ==
    LET m == carried[t] IN
    /\ m # NoMessage
    /\ s \in Recipients[m] \ delivered[m]
    /\ Len(Kept(mailbox[s], m)) < HubCapacity
    /\ mailbox' = [mailbox EXCEPT ![s] = Append(Kept(@, m), m)]
    /\ delivered' = [delivered EXCEPT ![m] = @ \cup {s}]
    /\ UNCHANGED <<taskQueue, carried, call>>

\* Completion is signalled before hub.send returns.
CompleteEarlyDeviation(t) ==
    LET m == carried[t] IN
    /\ m # NoMessage
    /\ call' = [call EXCEPT ![m] = IF @ = "waiting" THEN "ok" ELSE @]
    /\ carried' = IF delivered[m] = Recipients[m]
                  THEN [carried EXCEPT ![t] = NoMessage] ELSE carried
    /\ UNCHANGED <<taskQueue, delivered, mailbox>>

\* hub.send returned: completed_tx.send wakes the caller if it still waits.
CompleteTask(t) ==
    LET m == carried[t] IN
    /\ m # NoMessage
    /\ delivered[m] = Recipients[m]
    /\ carried' = [carried EXCEPT ![t] = NoMessage]
    /\ call' = [call EXCEPT ![m] = IF @ = "waiting" THEN "ok" ELSE @]
    /\ UNCHANGED <<taskQueue, delivered, mailbox>>

-----------------------------------------------------------------------------
\* A subscriber takes the next message of its mailbox.
Consume(s) ==
    /\ mailbox[s] # <<>>
    /\ mailbox' = [mailbox EXCEPT ![s] = Tail(@)]
    /\ UNCHANGED <<taskQueue, carried, delivered, call>>

\* Every message has been through the pool and every mailbox is empty.
Quiescent ==
    /\ \A m \in Messages : call[m] \notin {"idle", "waiting"}
    /\ taskQueue = <<>>
    /\ \A t \in Threads : carried[t] = NoMessage
    /\ \A s \in Subscribers : mailbox[s] = <<>>

HubNext ==
    \/ \E m \in Messages :
        \/ SubmitAccepted(m)
        \/ SubmitRefused(m)
        \/ CallerTimesOut(m)
    \/ \E t \in Threads :
        \/ TakeTask(t)
        \/ \E s \in Subscribers : Deliver(t, s)
        \/ CompleteTask(t)
    \/ \E s \in Subscribers : Consume(s)
    \/ Quiescent /\ UNCHANGED hubVars

HubSpec == HubInit /\ [][HubNext]_hubVars

-----------------------------------------------------------------------------
\* Places of a message inside the pool.
Positions(m) == {i \in 1..Len(taskQueue) : taskQueue[i] = m}
Carriers(m)  == {t \in Threads : carried[t] = m}

Accepted(m) == call[m] \in {"waiting", "ok", "timeout"}

\* The caller is told Ok only once the message is with every subscriber: Ok
\* never stands for "queued" (hub_protection.rs:95 "Message was sent").
OkMeansDelivered ==
    \A m \in Messages : call[m] = "ok" => delivered[m] = Recipients[m]

\* A send refused because the task queue is full has no effect, ever: the
\* caller may repeat it (hub_protection.rs:116-118).
RefusedHasNoEffect ==
    \A m \in Messages :
        call[m] \in {"idle", "full"} =>
            delivered[m] = {} /\ Positions(m) = {} /\ Carriers(m) = {}

\* An accepted message, whether or not its caller gave up, is in one place of
\* the pool or with all its subscribers: no interleaving of threads and
\* timeouts loses it or sends it twice.
NeverLostInPool ==
    \A m \in Messages :
        Accepted(m) =>
            \/ /\ \E i \in Positions(m) : Positions(m) = {i}
               /\ Carriers(m) = {} /\ delivered[m] = {}
            \/ /\ \E t \in Carriers(m) : Carriers(m) = {t}
               /\ Positions(m) = {}
               /\ delivered[m] \subseteq Recipients[m]
            \/ /\ Positions(m) = {} /\ Carriers(m) = {}
               /\ delivered[m] = Recipients[m]

\* The delivery policy of DeviceControl: a mailbox never holds two of them.
OneSinglePerMailbox ==
    \A s \in Subscribers :
        \A i, j \in SinglesIn(mailbox[s]) : i = j

-----------------------------------------------------------------------------
\* Threads of the pool and timers run; nothing is assumed of the subscribers.
PoolFairness ==
    /\ \A m \in Messages : WF_hubVars(CallerTimesOut(m))
    /\ \A t \in Threads :
        /\ WF_hubVars(TakeTask(t))
        /\ \A s \in Subscribers : WF_hubVars(Deliver(t, s))
        /\ WF_hubVars(CompleteTask(t))

\* A subscriber in C keeps taking messages.
ConsumerFairness(C) == \A s \in C : WF_hubVars(Consume(s))

\* No caller is blocked for good, whatever the subscribers do: as each of the
\* messages is sent once, this says that nobody is waiting in the end
\* (hub_protection.rs:85-87).
CallsReturn == []<>(\A m \in Messages : call[m] # "waiting")

\* A message whose caller gave up still reaches its subscribers if they keep
\* taking messages: "timeout" is not "not sent", and in the end nothing is on
\* its way (hub_protection.rs:95, 108-118).
AcceptedReachesRecipients ==
    ConsumerFairness(Subscribers) =>
        []<>(\A m \in Messages : Accepted(m) => delivered[m] = Recipients[m])
=============================================================================
