----------------------------- MODULE MCHubSend -----------------------------
(* Instances of HubSend for TLC. *)
EXTENDS HubSend, TLC

CONSTANTS m1, m2, m3, m4, modbusA, modbusB, t1, t2

MCMessages == {m1, m2, m3, m4}
MCSingle == {m1, m2}
NoSingle == {}
MCSubscribers == {modbusA, modbusB}
MCThreads == {t1, t2}

\* m1 and m2 are DeviceControl (every ModbusWorker subscribes to those), m3
\* and m4 messages only modbusB's filter accepts: they fill its mailbox.
MCRecipients ==
    (m1 :> MCSubscribers) @@ (m2 :> MCSubscribers)
        @@ (m3 :> {modbusB}) @@ (m4 :> {modbusB})

\* Three messages for a subscriber that stopped reading, one for the other.
StalledRecipients ==
    (m1 :> {modbusB}) @@ (m2 :> {modbusA}) @@ (m3 :> {modbusA}) @@ (m4 :> {modbusA})

\* The pool runs; the subscribers may stop taking messages.
UnfairConsumersSpec == HubSpec /\ PoolFairness
StalledSpec == HubSpec /\ PoolFairness /\ ConsumerFairness(Subscribers \ {modbusA})

\* docs/messaging (357): the hub delivers without blocking, so a message is
\* not held up by a subscriber it is not addressed to.
NotBlockedByOthers ==
    \A m \in Messages :
        (Accepted(m) /\ modbusA \notin Recipients[m])
            ~> (delivered[m] = Recipients[m])
=============================================================================
