---------------------------- MODULE MCSseRegistry ----------------------------
(* Instances of SseRegistry for TLC. *)
EXTENDS SseRegistry, TLC

CONSTANTS a, b, c, d, temperature, pressure

FourClients == {a, b, c, d}
ThreeClients == {a, b, c}
OneTopic == {temperature}

\* Two clients of what is polled, one of what never is, one that asks for nothing.
MixedTopics ==
    (a :> {temperature}) @@ (b :> {pressure}) @@ (c :> {temperature}) @@ (d :> {})

\* Nothing is assumed of publishers, clients and handlers.
FairSseSpec == SseSpec /\ SseFairness
=============================================================================
