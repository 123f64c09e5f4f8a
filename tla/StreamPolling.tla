---------------------------- MODULE StreamPolling ----------------------------
(***************************************************************************)
(* The polling loop of DataStreamWorker (data_stream_worker.rs:146-241)    *)
(* around the polls of StreamPipeline.  Streams with the same interval     *)
(* form a group with one timer.  Each round of the loop first takes a new  *)
(* configuration, if there is one, and then polls every group whose timer  *)
(* has elapsed, one stream after the other; a poll lasts as long as the    *)
(* device and the hub take.  The timer of a group starts again when its    *)
(* last poll has ended, and all of them start again with a configuration.  *)
(*                                                                         *)
(* Time is the nondeterminism of Elapse; the order of the groups in a      *)
(* round is that of a HashMap, so any.                                     *)
(***************************************************************************)
EXTENDS StreamPipeline, FiniteSets

CONSTANTS
    Intervals,    \* the poll intervals (poll_interval_ms)
    Disabled,     \* "interval" of a stream that is disabled or not configured
    MaxUpdates    \* bound of the model: ConfigUpdates received

ASSUME PollingAssumption ==
    /\ IsFiniteSet(Streams)
    /\ Disabled \notin Intervals
    /\ MaxUpdates \in Nat

VARIABLES
    intervalOf,   \* stream_groups: the group of each stream
    elapsed,      \* groups whose timer has elapsed
    pollsToRun,   \* polls_to_run: groups this round has still to poll
    current,      \* the group being polled
    remaining,    \* its streams still to be polled
    bypassed,     \* per elapsed group: polls of other groups since
    updates       \* ConfigUpdates received

pollingVars == <<intervalOf, elapsed, pollsToRun, current, remaining, bypassed, updates>>

Group(i) == {s \in Streams : intervalOf[s] = i}

InUse == {i \in Intervals : Group(i) # {}}

PollingInit ==
    /\ PipelineInit
    /\ intervalOf \in [Streams -> Intervals \cup {Disabled}]
    /\ elapsed = {}
    /\ pollsToRun = {}
    /\ current = Disabled
    /\ remaining = {}
    /\ bypassed = [i \in Intervals |-> 0]
    /\ updates = 0

-----------------------------------------------------------------------------
\* Top of the loop: no group is left to poll and the last poll has ended.
AtTop == pollsToRun = {} /\ current = Disabled

\* The interval of group i has passed since its last round.
Elapse(i) ==
    /\ i \in InUse \ elapsed
    /\ elapsed' = elapsed \cup {i}
    /\ UNCHANGED <<pipelineVars, intervalOf, pollsToRun, current, remaining, bypassed, updates>>

\* try_recv gave a ConfigUpdate: new groups, and every timer starts again.
UpdateConfig ==
    /\ AtTop
    /\ updates < MaxUpdates
    /\ updates' = updates + 1
    /\ intervalOf' \in [Streams -> Intervals \cup {Disabled}]
    /\ elapsed' = {}
    /\ bypassed' = [i \in Intervals |-> 0]
    /\ UNCHANGED <<pipelineVars, pollsToRun, current, remaining>>

\* A round polls the first group it finds elapsed and no other.
OneGroupDeviation ==
    /\ AtTop
    /\ \/ \E i \in elapsed : pollsToRun' = {i}
       \/ elapsed = {} /\ pollsToRun' = {}
    /\ UNCHANGED <<pipelineVars, intervalOf, elapsed, current, remaining, bypassed, updates>>

\* polls_to_run: every group that has elapsed by now.
StartRound ==
    /\ AtTop
    /\ pollsToRun' = elapsed
    /\ UNCHANGED <<pipelineVars, intervalOf, elapsed, current, remaining, bypassed, updates>>

NextGroup ==
    /\ current = Disabled
    /\ \E i \in pollsToRun :
        /\ current' = i
        /\ pollsToRun' = pollsToRun \ {i}
        /\ remaining' = Group(i)
    /\ UNCHANGED <<pipelineVars, intervalOf, elapsed, bypassed, updates>>

\* The next poll of the group: the device answers, does not answer in time, or
\* the request does not get there (refused, or no worker for the device),
\* which leaves cache and sequence alone.
Poll(s) ==
    /\ s \in remaining
    /\ publisher = "idle"
    /\ CacheAnswer(s) \/ PollTimesOut(s) \/ UNCHANGED pipelineVars
    /\ remaining' = remaining \ {s}
    /\ bypassed' = [i \in Intervals |->
                      IF i \in elapsed \ {current} THEN bypassed[i] + 1 ELSE bypassed[i]]
    /\ UNCHANGED <<intervalOf, elapsed, pollsToRun, current, updates>>

\* The last poll of the group has ended: its timer starts now.
FinishGroup ==
    /\ current # Disabled
    /\ remaining = {}
    /\ publisher = "idle"
    /\ elapsed' = elapsed \ {current}
    /\ bypassed' = [bypassed EXCEPT ![current] = 0]
    /\ current' = Disabled
    /\ UNCHANGED <<pipelineVars, intervalOf, pollsToRun, remaining, updates>>

\* The send of the update of a poll (StreamPipeline).
Publish ==
    /\ NumberUpdate \/ PublishAccepted \/ PublishRefused \/ PublishReturns \/ PublishTimesOut
    /\ UNCHANGED pollingVars

PollingNext ==
    \/ \E i \in Intervals : Elapse(i)
    \/ UpdateConfig \/ StartRound \/ NextGroup \/ FinishGroup
    \/ \E s \in Streams : Poll(s)
    \/ Publish
    \/ (PoolStep \/ Route) /\ UNCHANGED pollingVars

PollingSpec == PollingInit /\ [][PollingNext]_<<pipelineVars, pollingVars>>

-----------------------------------------------------------------------------
\* The streams that are polled in other groups than i.
Outside(i) == {s \in Streams : intervalOf[s] \in Intervals \ {i}}

\* No group starves behind the others, however slow their devices and however
\* short their intervals are: from the moment its timer has elapsed until its
\* own polls, every stream outside the group is polled at most twice, once in
\* the round under way and once in the next (data_stream_worker.rs:192-233).
GroupsTakeTurns == \A i \in elapsed : bypassed[i] <= 2 * Cardinality(Outside(i))
=============================================================================
