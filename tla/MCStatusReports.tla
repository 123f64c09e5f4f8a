-------------------------- MODULE MCStatusReports --------------------------
(* Instances of StatusReports and LatencyStats for TLC. *)
EXTENDS StatusReports, LatencyStats, TLC

CONSTANTS boiler, pump

MCDevices == {boiler, pump}
MCOrder == <<boiler, pump>>

\* The requests HealthTruthful is about: they come when all devices have been
\* registered, and the table, which keeps its entries from then on, is always
\* read in the same order.
AfterStartup == health = NoRequest /\ registered < Len(Order) => health' = NoRequest
BoilerFirst == health' # NoRequest => health'.left # {boiler}

StartedNext == ReportNext /\ AfterStartup /\ BoilerFirst
StartedSpec == ReportInit /\ [][StartedNext]_reportVars /\ ThreadFairness

-----------------------------------------------------------------------------
\* Latencies as heartbeats report them: none at all is reported as zero.
Reported == {0, 2, 7}
Usual == 2
MaxLatencies == 5       \* so that the window of three moves on by three
Histories == UNION {[1..n -> Reported] : n \in 0..MaxLatencies}

AlwaysExact == {x \in Reported : \A history \in Histories : ExactAfter(history, x)}

\* What the heartbeat of this state publishes: a measured latency, or zero.
Published ==
    IF phase # "answered" THEN {} ELSE IF result = "none" THEN {0} ELSE Reported

\* Whatever latencies have come and gone before, with zeros for failed pings
\* among them, after the heartbeat of this state the numbers carried along are
\* the mean and the sum of squared deviations, which is never negative, of
\* exactly the last ones, and an alarm is raised for just the outliers
\* (latency_monitor.rs:42-92, 104-137; heartbeat_worker.rs:198-205).
StatisticsExact == Published \subseteq AlwaysExact

\* A device that comes back raises an alarm with the first ping it answers: the
\* failed ones before have been reported as answered in no time.
ASSUME ReturnRaisesAlarm ==
    Processed(Append([i \in 1..LatencyWindow |-> 0], Usual)).alarm
=============================================================================
