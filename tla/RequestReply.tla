---------------------------- MODULE RequestReply ----------------------------
(***************************************************************************)
(* What the middleware promises the caller of a device request, without    *)
(* hub, pool, mailboxes or tasks: a request takes effect on the device at  *)
(* most once, every request is answered exactly once, "data" means the     *)
(* operation was performed, "refused" means it was not and never will be,  *)
(* and "unknown" leaves it open (the effect may even come after the        *)
(* answer).  DeviceControl implements this specification.                  *)
(***************************************************************************)
CONSTANTS
    Requests,
    Operations     \* the requests that act on the device (not GetStatus)

VARIABLES phase, answer, effect

rrVars == <<phase, answer, effect>>

RRInit ==
    /\ phase = [r \in Requests |-> "idle"]
    /\ answer = [r \in Requests |-> "none"]
    /\ effect = [r \in Requests |-> FALSE]

Start(r) ==
    /\ phase[r] = "idle"
    /\ phase' = [phase EXCEPT ![r] = "pending"]
    /\ UNCHANGED <<answer, effect>>

\* The device performs the operation, possibly after an "unknown" answer.
Apply(r) ==
    /\ r \in Operations
    /\ phase[r] # "idle" /\ ~effect[r]
    /\ answer[r] \in {"none", "unknown"}
    /\ effect' = [effect EXCEPT ![r] = TRUE]
    /\ UNCHANGED <<phase, answer>>

Answer(r) ==
    /\ phase[r] = "pending"
    /\ phase' = [phase EXCEPT ![r] = "answered"]
    /\ \/ /\ r \in Operations => effect[r]
          /\ answer' = [answer EXCEPT ![r] = "data"]
       \/ ~effect[r] /\ answer' = [answer EXCEPT ![r] = "refused"]
       \/ answer' = [answer EXCEPT ![r] = "unknown"]
    /\ UNCHANGED effect

\* Refused on the spot.
Reject(r) ==
    /\ phase[r] = "idle"
    /\ phase' = [phase EXCEPT ![r] = "answered"]
    /\ answer' = [answer EXCEPT ![r] = "refused"]
    /\ UNCHANGED effect

RRNext == \E r \in Requests : Start(r) \/ Apply(r) \/ Answer(r) \/ Reject(r)

RRSpec == RRInit /\ [][RRNext]_rrVars /\ \A r \in Requests : WF_rrVars(Answer(r))
=============================================================================
