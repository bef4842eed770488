---------------------------- MODULE MCMqttBridge ----------------------------
(***************************************************************************)
(* A small instance of the bridge: two deliveries that share a key, two    *)
(* commands in one partition, one failure, one lost connection, one        *)
(* restart.                                                                *)
(***************************************************************************)
EXTENDS MqttBridge

MCKeyOf == [d \in Deliveries |-> "k"]
=============================================================================
