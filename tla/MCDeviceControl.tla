-------------------------- MODULE MCDeviceControl --------------------------
(* Instances of DeviceControl for TLC. *)
EXTENDS DeviceControl, TLC

CONSTANTS r1, r2, r3, c1, plc, robot, t1, t2, g

MCDevices == {plc, robot}
OneThread == {t1}
TwoThreads == {t1, t2}
PlcOnly == {plc}
MCGroups == {g}
OneOpEach == [d \in {plc, robot} |-> 1]
KnowsGroup == [d \in {plc, robot} |-> {g}]

Broadcast == [m \in Messages |-> MCDevices]
GroupG == [r \in Requests |-> g]

\* Two requests for one device and one for another.
ThreeRequests == {r1, r2, r3}
MixedTarget == (r1 :> plc) @@ (r2 :> plc) @@ (r3 :> robot)
MixedOperation == (r1 :> "Write") @@ (r2 :> "Read") @@ (r3 :> "GetStatus")
NoConfig == <<>>

\* A write and a read racing a configuration change that removes their group.
TwoRequests == {r1, r2}
TwoAndConfig == {r1, r2, c1}
SameTarget == (r1 :> plc) @@ (r2 :> plc)
ReadAndWrite == (r1 :> "Write") @@ (r2 :> "Read")
\* (the robot is not listed and keeps its groups)
DropsGroup == c1 :> (plc :> {})

CrossTarget == (r1 :> plc) @@ (r2 :> robot)

Nothing == {}
JustR1 == {r1}
=============================================================================
