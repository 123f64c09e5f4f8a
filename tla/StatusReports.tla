---------------------------- MODULE StatusReports ----------------------------
(***************************************************************************)
(* What becomes of the heartbeats: /api/health and /api/devices            *)
(* (src/workers/http_worker.rs) read the table device_states entry by      *)
(* entry while DeviceManager and HeartbeatWorker (Heartbeat.tla) write it. *)
(***************************************************************************)
EXTENDS Heartbeat, FiniteSets

CONSTANT NoRequest

VARIABLE health     \* the request in progress

reportVars == <<heartbeatVars, health>>

\* total: what len() gave; left: the entries still to be read; counted: those
\* found connected.  For the properties only: which devices have been shown as
\* online at some time and at all times since the request began.
Reading ==
    [total : 0..Len(Order), left : SUBSET Devices, counted : SUBSET Devices,
     sometime : SUBSET Devices, always : SUBSET Devices]

ReportTypeOK == HeartbeatTypeOK /\ health \in Reading \cup {NoRequest}

ReportInit == HeartbeatInit /\ health = NoRequest

Shown == {d \in Devices : status[d] = "online"}
Listed == {d \in Devices : status[d] # "absent"}

\* data.device_states.len()
BeginRequest ==
    /\ health = NoRequest
    /\ health' = [total |-> Cardinality(Listed), left |-> Devices, counted |-> {},
                  sometime |-> Shown, always |-> Shown]
    /\ UNCHANGED heartbeatVars

(* Definitions named ...Deviation are errors the code could plausibly have  *)
(* had.  They occur in no specification; substituted for the definition     *)
(* that follows them they show which property notices the error.            *)

\* Every entry counts.
CountUnfilteredDeviation(d) ==
    /\ health # NoRequest /\ d \in health.left
    /\ health' = [health EXCEPT !.left = @ \ {d}, !.counted = @ \cup ({d} \cap Listed)]
    /\ UNCHANGED heartbeatVars

\* The iterator comes to the place of one more device, in the order of the map.
CountEntry(d) ==
    /\ health # NoRequest /\ d \in health.left
    /\ health' = [health EXCEPT !.left = @ \ {d}, !.counted = @ \cup ({d} \cap Shown)]
    /\ UNCHANGED heartbeatVars

Complete == health # NoRequest /\ health.left = {}

AnswerRequestedHealth ==
    /\ Complete
    /\ health' = NoRequest
    /\ UNCHANGED heartbeatVars

\* get_health: the status for so many entries and so many of them connected.
Verdict(total, connected) ==
    IF total = 0 THEN "unhealthy"
    ELSE IF connected = total THEN "healthy"
    ELSE IF connected = 0 THEN "unhealthy"
    ELSE "degraded"

HeartbeatGoesOn ==
    /\ HeartbeatNext
    /\ health' = IF health = NoRequest THEN NoRequest
                 ELSE [health EXCEPT !.sometime = @ \cup Shown', !.always = @ \cap Shown']

ReportNext ==
    \/ HeartbeatGoesOn
    \/ BeginRequest \/ AnswerRequestedHealth
    \/ \E d \in Devices : CountEntry(d)

ReportSpec == ReportInit /\ [][ReportNext]_reportVars

\* Nothing is assumed of the HTTP server either.
ReportFairSpec == ReportSpec /\ ThreadFairness

-----------------------------------------------------------------------------
\* "healthy" means that all devices are connected, "unhealthy" that none is
\* (docs/http-api.md:84-86).  The answer is put together from entries read at
\* different times, so it may describe a moment that never was; but it never
\* says more than the table did since the request began: healthy only if each
\* device was online at some time, unhealthy only if none was online all the
\* time, and the same the other way round.  A request that begins before
\* DeviceManager has registered all devices is answered from a shorter table.
HealthTruthful ==
    Complete /\ health.total = Cardinality(Devices) =>
        LET verdict == Verdict(health.total, Cardinality(health.counted)) IN
        /\ health.always \subseteq health.counted
        /\ health.counted \subseteq health.sometime
        /\ verdict = "healthy" => health.sometime = Devices
        /\ verdict = "unhealthy" => health.always = {}
        /\ health.always = Devices => verdict = "healthy"
        /\ health.sometime = {} => verdict = "unhealthy"

\* The two numbers of the answer fit together: "disconnected" is their
\* difference, of unsigned numbers.
HealthAddsUp == Complete => Cardinality(health.counted) <= health.total
=============================================================================
