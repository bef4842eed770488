-------------------------- MODULE MCMqttPublisher --------------------------
(***************************************************************************)
(* A small instance of the publisher: enough messages to overflow the      *)
(* buffer, one topic (the command topic is the only one the services       *)
(* subscribe to), and a connection that is lost and comes back.             *)
(***************************************************************************)
EXTENDS MqttPublisher
=============================================================================
