---------------------------- MODULE LatencyStats ----------------------------
(***************************************************************************)
(* The statistics LatencyMonitor keeps of one device                       *)
(* (src/workers/latency_monitor.rs): the last latencies, and their mean    *)
(* and sum of squared deviations, both carried along by Welford's update   *)
(* and, for a sample that leaves the window, by its inverse.  The floating *)
(* point numbers of the code are exact here: a mean is counted in units of *)
(* 1/Scale, which every number of samples divides, a sum of squares in     *)
(* units of 1/Scale^2.                                                     *)
(***************************************************************************)
EXTENDS Integers, Sequences

CONSTANTS LatencyWindow, MinAnomalySamples, Scale

ASSUME LatencyAssumption ==
    /\ LatencyWindow \in Nat \ {0}
    /\ MinAnomalySamples \in 0..LatencyWindow
    /\ Scale \in Nat \ {0}
    /\ \A n \in 1..LatencyWindow : Scale % n = 0

NoStats == [samples |-> <<>>, mean |-> 0, count |-> 0, m2 |-> 0]

(* Definitions named ...Deviation are errors the code could plausibly have  *)
(* had.  They occur in no specification; substituted for the definition     *)
(* that follows them they show which property notices the error.            *)

\* The deviation from the old mean is taken twice.
RemovedSameDeltaDeviation(stats) ==
    LET x == Scale * Head(stats.samples)
        delta == x - stats.mean
        count == stats.count - 1
    IN  IF stats.count <= 1 THEN NoStats
        ELSE [samples |-> Tail(stats.samples), count |-> count,
              mean |-> stats.mean - delta \div count, m2 |-> stats.m2 - delta * delta]

\* remove_sample_welford, for the oldest sample.
Removed(stats) ==
    LET x == Scale * Head(stats.samples)
        delta == x - stats.mean
        count == stats.count - 1
        mean == stats.mean - delta \div count
    IN  IF stats.count <= 1 THEN NoStats
        ELSE [samples |-> Tail(stats.samples), count |-> count,
              mean |-> mean, m2 |-> stats.m2 - delta * (x - mean)]

\* add_sample
Added(stats, latency) ==
    LET old == IF Len(stats.samples) >= LatencyWindow THEN Removed(stats) ELSE stats
        x == Scale * latency
        count == old.count + 1
        delta == x - old.mean
        mean == old.mean + delta \div count
    IN  [samples |-> Append(old.samples, latency), count |-> count,
         mean |-> mean, m2 |-> old.m2 + delta * (x - mean)]

\* is_anomaly: above the mean by more than three standard deviations, which
\* are a root only of what is not negative (NaN is exceeded by nothing).
IsAnomaly(stats, latency) ==
    LET excess == Scale * latency - stats.mean
    IN  /\ Len(stats.samples) >= MinAnomalySamples
        /\ stats.m2 >= 0
        /\ excess > 0
        /\ excess * excess * stats.count > 9 * stats.m2

\* process_latency_sample for one latency after the other: the statistics and
\* whether the last one raised an alarm.
Process(state, latency) ==
    [stats |-> Added(state.stats, latency), alarm |-> IsAnomaly(state.stats, latency)]

Processed(latencies) ==
    LET after[n \in 0..Len(latencies)] ==
            IF n = 0 THEN [stats |-> NoStats, alarm |-> FALSE]
            ELSE Process(after[n - 1], latencies[n])
    IN  after[Len(latencies)]

-----------------------------------------------------------------------------
\* What the statistics stand for: those of the last latencies of a history.

WindowOf(history) ==
    SubSeq(history, IF Len(history) > LatencyWindow THEN Len(history) - LatencyWindow + 1
                    ELSE 1, Len(history))

Total(s) ==
    LET upTo[n \in 0..Len(s)] == IF n = 0 THEN 0 ELSE upTo[n - 1] + s[n]
    IN  upTo[Len(s)]

Squared(s) == [i \in 1..Len(s) |-> s[i] * s[i]]

\* The sum of squared deviations from the mean of s, times the length of s.
Spread(s) == Len(s) * Total(Squared(s)) - Total(s) * Total(s)

\* More than three standard deviations above the mean of s, without a root.
Outlier(s, x) ==
    LET excess == Len(s) * x - Total(s)
    IN  Len(s) >= MinAnomalySamples /\ excess > 0 /\ excess * excess > 9 * Spread(s)

\* What is carried along after history and one more latency, against the
\* statistics of the window; and the alarm against the window before.
ExactAfter(history, latency) ==
    LET state == Processed(Append(history, latency))
        stats == state.stats
        window == WindowOf(Append(history, latency))
    IN  /\ stats.samples = window /\ stats.count = Len(window)
        /\ stats.count * stats.mean = Scale * Total(window)
        /\ stats.m2 >= 0
        /\ stats.count * stats.m2 = (Scale * Scale) * Spread(window)
        /\ state.alarm <=> Outlier(WindowOf(history), latency)
=============================================================================
