----------------------------- MODULE MCMqttSession -----------------------------
(* Instances of MqttSession for TLC: the cfg files give the bounds. *)
EXTENDS MqttSession

CONSTANT MaxAfterwards   \* bound on the subscriptions once both tasks met

\* Once both tasks have reconnected at once, where only TypeOK and
\* DescriptorsAgree go on to claim something, the run follows them for a while.
Afterwards == together => losses <= 1 /\ PacketID <= MaxAfterwards
=============================================================================
