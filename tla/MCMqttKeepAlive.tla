---------------------------- MODULE MCMqttKeepAlive ----------------------------
(* The tick count wraps soon after the longest wait. *)
EXTENDS MqttKeepAlive

\* No step and neither bound reads silence.
WithoutSilence ==
  <<xTickCount, curtick, no_mqtt_msg_exchange, pc, waited, link, data, idle, down, kept>>
=============================================================================
