--------------------------- MODULE MCMqttSession ---------------------------
(***************************************************************************)
(* MqttSession with the limit of the code, 25 items.                       *)
(***************************************************************************)
EXTENDS MqttSession
=============================================================================
