---------------------------- MODULE MCMqttClient ----------------------------
(* Constants of MqttClient for TLC. *)
EXTENDS MqttClient

\* No limit, none at all, less than a tick, and several ticks.
MCLimits == {-1, 0, 1, 4}

=============================================================================
