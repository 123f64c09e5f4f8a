---------------------------- MODULE MCHeartbeat ----------------------------
(* The instance of Heartbeat alone: one device is enough to be missed. *)
EXTENDS Heartbeat

CONSTANT boiler

MCDevices == {boiler}
MCOrder == <<boiler>>
=============================================================================
