------------------------------ MODULE MqttDelivery -----------------------------
(***************************************************************************)
(* What the application sees of the inbound half of the MQTT client:       *)
(* messages are forwarded to it by the broker, and it acts on a message    *)
(* only after that; on some of them at most once.                          *)
(***************************************************************************)
EXTENDS Naturals

CONSTANTS
  Message,             \* application messages
  AtMostOnceMessage    \* those forwarded at QoS 2

VARIABLES
  forwarded,           \* messages the broker has forwarded
  handled              \* how often Proscess has run on each message

vars == <<forwarded, handled>>

Init ==
  /\ forwarded = {}
  /\ handled = [m \in Message |-> 0]

Forward(m) ==
  /\ m \notin forwarded
  /\ forwarded' = forwarded \cup {m}
  /\ UNCHANGED handled

Handle(m) ==
  /\ m \in forwarded
  /\ m \in AtMostOnceMessage => handled[m] = 0
  /\ handled' = [handled EXCEPT ![m] = @ + 1]
  /\ UNCHANGED forwarded

Next == \E m \in Message : Forward(m) \/ Handle(m)

Spec == Init /\ [][Next]_vars
=============================================================================
