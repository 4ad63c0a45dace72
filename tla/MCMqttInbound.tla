----------------------------- MODULE MCMqttInbound -----------------------------
(* Instances of MqttInbound for TLC. *)
EXTENDS MqttInbound

CONSTANTS m0, m1, m2, m3

\* One message of each quality, and a second one at the highest.
MixedQoS ==
  [m \in Message |-> CASE m = m0 -> 0 [] m = m1 -> 1 [] m \in {m2, m3} -> 2]
=============================================================================
