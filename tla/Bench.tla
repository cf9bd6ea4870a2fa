------------------------------- MODULE Bench -------------------------------
(***************************************************************************)
(* The test bench on a Linux host: the broker, the FIFO bridge at its      *)
(* MQTT-SN port and a listener at its MQTT port.  The two meet only in the *)
(* broker, which may be stopped and started while they run.                *)
(***************************************************************************)
EXTENDS MqttClient, FifoBridge

vars == <<broker, clientVars, bridgeVars>>

TypeOK == BrokerTypeOK /\ ClientTypeOK /\ BridgeTypeOK

Init == BrokerInit /\ ClientInit /\ BridgeInit

\* Every connection goes down with the broker.
BrokerStops ==
    /\ Stop
    /\ conn' = Severed
    /\ UNCHANGED <<client, refusals, bridgeVars>>

BrokerStarts == Start /\ UNCHANGED <<clientVars, bridgeVars>>

Next ==
    \/ ClientNext /\ UNCHANGED bridgeVars
    \/ BridgeNext /\ UNCHANGED clientVars
    \/ BrokerStops
    \/ BrokerStarts

Spec == Init /\ [][Next]_vars

FairSpec == Spec /\ ClientFairness /\ BridgeFairness

\* The inductive invariant of the proofs.
IndInv == BrokerTypeOK /\ ClientInv /\ BridgeInv
=============================================================================
