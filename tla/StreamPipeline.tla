--------------------------- MODULE StreamPipeline ---------------------------
(***************************************************************************)
(* The way of a polled value (src/workers/data_stream_worker.rs):          *)
(* DataStreamWorker reads a signal group, stores the values in the data    *)
(* cache that HTTP serves, numbers them and publishes them through the     *)
(* send pool (HubSend); SseWorker takes them from its mailbox.  The worker *)
(* waits for each send, but not longer than the timeout of the protected   *)
(* send, after which it goes on with the next poll.                        *)
(***************************************************************************)
EXTENDS HubSend

CONSTANTS
    LastSequence,  \* bound of the model: updates that are published
    Streams,       \* the configured streams (device and signal group)
    Sse,           \* SseWorker, as a subscriber of the hub
    NoStream

ASSUME PipelineAssumption ==
    /\ LastSequence \in Nat
    /\ Messages = 1..LastSequence
    /\ Single = {}
    /\ Subscribers = {Sse}
    /\ Recipients = [n \in Messages |-> {Sse}]
    /\ NoStream \notin Streams

VARIABLES
    sequence,    \* DataStreamWorker.sequence
    publisher,   \* what the thread of DataStreamWorker does
    polled,      \* the stream whose answer it has
    streamOf,    \* the stream of each published number
    cache,       \* data_cache: the number and error flag of each stream
    routed       \* the updates SseWorker has taken, in order

streamVars == <<sequence, publisher, polled, streamOf, cache, routed>>
pipelineVars == <<hubVars, streamVars>>

PipelineTypeOK ==
    /\ HubTypeOK
    /\ sequence \in 0..LastSequence
    /\ publisher \in {"idle", "cached", "numbered", "sending"}
    /\ polled \in Streams \cup {NoStream}
    /\ streamOf \in [Messages -> Streams \cup {NoStream}]
    /\ cache \in [Streams -> [number : 0..LastSequence, error : BOOLEAN]]
    /\ routed \in Seq(Messages)

PipelineInit ==
    /\ HubInit
    /\ sequence = 0
    /\ publisher = "idle"
    /\ polled = NoStream
    /\ streamOf = [n \in Messages |-> NoStream]
    /\ cache = [s \in Streams |-> [number |-> 0, error |-> TRUE]]
    /\ routed = <<>>

(* Definitions named ...Deviation are errors the code could plausibly have  *)
(* had.  They occur in no specification; substituted for the definition     *)
(* that follows them they show which property notices the error.            *)

-----------------------------------------------------------------------------
\* DataStreamWorker.  (A poll whose request was refused or whose channel was
\* closed changes nothing: neither cache nor sequence.)  Which stream is polled
\* when is left open here; the loop that decides it is StreamPolling.

\* DataCache::set: the entry of s is replaced.
CacheWith(s, entry) == [cache EXCEPT ![s] = entry]

\* The cache keeps its entry: it is filled when the update is numbered.
CacheLaterDeviation(s) ==
    /\ publisher = "idle"
    /\ sequence < LastSequence
    /\ polled' = s
    /\ publisher' = "cached"
    /\ UNCHANGED <<hubVars, sequence, streamOf, cache, routed>>

\* The device answered, with values or with an error: the cache first.
CacheAnswer(s) ==
    /\ publisher = "idle"
    /\ sequence < LastSequence
    /\ \E failed \in BOOLEAN :
        cache' = CacheWith(s, [number |-> sequence + 1, error |-> failed])
    /\ polled' = s
    /\ publisher' = "cached"
    /\ UNCHANGED <<hubVars, sequence, streamOf, routed>>

\* The poll timed out: an error entry, and nothing is published.
PollTimesOut(s) ==
    /\ publisher = "idle"
    /\ cache' = CacheWith(s, [number |-> sequence, error |-> TRUE])
    /\ UNCHANGED <<hubVars, sequence, publisher, polled, streamOf, routed>>

NumberUpdate ==
    /\ publisher = "cached"
    /\ sequence' = sequence + 1
    /\ streamOf' = [streamOf EXCEPT ![sequence + 1] = polled]
    /\ publisher' = "numbered"
    /\ UNCHANGED <<hubVars, polled, cache, routed>>

PublishAccepted ==
    /\ publisher = "numbered"
    /\ SubmitAccepted(sequence)
    /\ publisher' = "sending"
    /\ UNCHANGED <<sequence, polled, streamOf, cache, routed>>

\* "Failed to broadcast DataStreamUpdate": the number is never used again.
PublishRefused ==
    /\ publisher = "numbered"
    /\ SubmitRefused(sequence)
    /\ publisher' = "idle"
    /\ polled' = NoStream
    /\ UNCHANGED <<sequence, streamOf, cache, routed>>

\* The worker does not wait for the send.
DoNotWaitDeviation ==
    /\ publisher = "sending"
    /\ publisher' = "idle"
    /\ polled' = NoStream
    /\ UNCHANGED <<hubVars, sequence, streamOf, cache, routed>>

PublishReturns ==
    /\ publisher = "sending"
    /\ call[sequence] = "ok"
    /\ publisher' = "idle"
    /\ polled' = NoStream
    /\ UNCHANGED <<hubVars, sequence, streamOf, cache, routed>>

PublishTimesOut ==
    /\ publisher = "sending"
    /\ CallerTimesOut(sequence)
    /\ publisher' = "idle"
    /\ polled' = NoStream
    /\ UNCHANGED <<sequence, streamOf, cache, routed>>

-----------------------------------------------------------------------------
PoolStep ==
    /\ \E t \in Threads : TakeTask(t) \/ Deliver(t, Sse) \/ CompleteTask(t)
    /\ UNCHANGED streamVars

\* SseWorker takes the next update.
Route ==
    /\ mailbox[Sse] # <<>>
    /\ routed' = Append(routed, Head(mailbox[Sse]))
    /\ Consume(Sse)
    /\ UNCHANGED <<sequence, publisher, polled, streamOf, cache>>

\* get_cached_data of HttpWorker: the values of the entry, whatever their age
\* and whether or not they stand for an error (number 0: there is no entry).
Shown(s) == cache[s].number

PublisherStep ==
    \/ \E s \in Streams : CacheAnswer(s) \/ PollTimesOut(s)
    \/ NumberUpdate
    \/ PublishAccepted \/ PublishRefused \/ PublishReturns \/ PublishTimesOut

PipelineNext == PublisherStep \/ PoolStep \/ Route

PipelineSpec == PipelineInit /\ [][PipelineNext]_pipelineVars

-----------------------------------------------------------------------------
\* Updates reach the event streams in the order of their numbers, except those
\* whose send the worker gave up on: only they can arrive late, behind newer
\* ones (data_stream_worker.rs:99-112 on the pool of hub_protection.rs).
LateOnlyIfGivenUp ==
    \A i, j \in 1..Len(routed) :
        i < j /\ routed[j] < routed[i] => call[routed[j]] = "timeout"

\* No number is routed twice, whatever the threads and timeouts do.
RoutedOnce ==
    \A i, j \in 1..Len(routed) : routed[i] = routed[j] => i = j

\* A client that has seen an update and asks HTTP for the cached values gets
\* that update's or newer ones, never older (data_stream_worker.rs:94-99).
CacheNotBehind ==
    \A i \in 1..Len(routed) : routed[i] <= Shown(streamOf[routed[i]])
=============================================================================
