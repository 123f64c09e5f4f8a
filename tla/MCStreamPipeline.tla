-------------------------- MODULE MCStreamPipeline --------------------------
(* Instances of StreamPolling and StreamPipeline for TLC. *)
EXTENDS StreamPolling, TLC

CONSTANTS t1, t2, boiler, pump, valve, fast, slow

MCMessages == 1..LastSequence
NoSingle == {}
MCThreads == {t1, t2}
MCSubscribers == {Sse}
MCStreams == {boiler, pump, valve}
MCIntervals == {fast, slow}
ToSse == [n \in Messages |-> {Sse}]

\* The threads, the streams and the two intervals are interchangeable.
Interchangeable == Permutations(MCThreads) \cup Permutations(MCStreams)
                     \cup Permutations(MCIntervals)
=============================================================================
