------------------------------ MODULE MCMqttFraming ------------------------------
(* mqtt_thread and mqtt_send, digits of base 2, and a small and a large buffer. *)
EXTENDS MqttFraming

CONSTANTS recv, send

Readers == {recv, send}
Buffers == [t \in {recv, send} |-> IF t = recv THEN {6} ELSE {3}]
Types == {1}
Lengths == {0, 2}
Payloads == {3}
=============================================================================
