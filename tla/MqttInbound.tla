------------------------------ MODULE MqttInbound ------------------------------
(***************************************************************************)
(* Inbound half of the MQTT client: the loop of mqtt_thread, the packet    *)
(* handler mqtt_pktype_ctl and the single message buffer mqtt_user_msg     *)
(* (User/mqttclient.c), against a broker that is not part of the           *)
(* repository.                                                             *)
(*                                                                         *)
(* The connection is two FIFO channels of whole packets; how packets are   *)
(* cut out of the byte stream is the subject of MqttFraming.  Between two  *)
(* blocking calls mqtt_thread runs a handler to its end, so a handler is   *)
(* one action.                                                             *)
(***************************************************************************)
EXTENDS Naturals, Sequences, FiniteSets

CONSTANTS
  Message,      \* application messages the broker may forward, each once
  QoSOf,        \* quality of service at which each message was published
  Long,         \* messages of more than two bytes, which UserMsgCtl acts on
  PacketId,     \* packet identifiers the broker uses, each once per session
  SubQoS,       \* quality of service of the subscription
  Window,       \* most messages the broker keeps unacknowledged
  MaxDup,       \* bound on retransmissions
  MaxSession,   \* bound on sessions
  NoMsg,        \* no message: content of the buffer before the first one
  OtherId       \* a packet identifier the broker does not use

ASSUME ConstantsAssumption ==
  /\ QoSOf \in [Message -> 0..2]
  /\ Long \subseteq Message
  /\ SubQoS \in 0..2
  /\ Window \in Nat /\ MaxDup \in Nat /\ MaxSession \in Nat \ {0}
  /\ NoMsg \notin Message
  /\ OtherId \notin PacketId

VARIABLES
  slot,         \* mqtt_user_msg
  handled,      \* how often Proscess has run on each message
  pc,           \* where mqtt_thread is: its loop, MQTT_PingReq, or CLOSE
  link,         \* whether the peers still reach each other
  toClient,     \* packets on their way to the client
  toBroker,     \* packets on their way to the broker
  exchange,     \* broker: what each packet identifier of this session stands for
  session,      \* session in which each message was forwarded, 0 if not yet
  epoch,        \* current session
  dups          \* retransmissions so far

vars == <<slot, handled, pc, link, toClient, toBroker, exchange, session,
          epoch, dups>>
clientVars == <<slot, handled, pc>>
brokerVars == <<exchange, session, dups>>

-----------------------------------------------------------------------------
AnyId == PacketId \cup {OtherId}

\* A broker forwards a message at no more than the subscribed quality.
QoS(m) == IF QoSOf[m] < SubQoS THEN QoSOf[m] ELSE SubQoS

Slot == [msg : Message \cup {NoMsg}, packetid : AnyId, valid : BOOLEAN]

Packet ==
  [type : {"PUBLISH"}, id : AnyId, msg : Message]
    \cup [type : {"PUBACK", "PUBREC", "PUBREL", "PUBCOMP"}, id : PacketId]
    \cup [type : {"PINGREQ", "PINGRESP"}]

Publish(m, p) == [type |-> "PUBLISH", id |-> p, msg |-> m]
Ack(t, p) == [type |-> t, id |-> p]
PingPacket(t) == [type |-> t]

Exchange == [phase : {"unused", "pub", "rel", "done"},
             msg : Message \cup {NoMsg}]
Unused == [phase |-> "unused", msg |-> NoMsg]

TypeOK ==
  /\ slot \in Slot
  /\ handled \in [Message -> Nat]
  /\ pc \in {"loop", "ping", "closed"}
  /\ link \in {"up", "down"}
  /\ toClient \in Seq(Packet)
  /\ toBroker \in Seq(Packet)
  /\ exchange \in [PacketId -> Exchange]
  /\ session \in [Message -> Nat]
  /\ epoch \in Nat \ {0}
  /\ dups \in Nat

Init ==
  /\ slot = [msg |-> NoMsg, packetid |-> OtherId, valid |-> FALSE]
  /\ handled = [m \in Message |-> 0]
  /\ pc = "loop"
  /\ link = "up"
  /\ toClient = << >>
  /\ toBroker = << >>
  /\ exchange = [p \in PacketId |-> Unused]
  /\ session = [m \in Message |-> 0]
  /\ epoch = 1
  /\ dups = 0

-----------------------------------------------------------------------------
(* The client *)

\* transport_sendPacketBuffer: on a broken connection lwip_write may still
\* accept the bytes, or return -1.
Write(pkt) == toBroker' = IF link = "up" THEN Append(toBroker, pkt) ELSE toBroker
WriteFails == link = "down"

\* select reports the socket readable and MQTTPacket_read takes one packet.
Reads(type) ==
  /\ pc = "loop"
  /\ toClient # << >>
  /\ Head(toClient).type = type
  /\ toClient' = Tail(toClient)

\* Seeded bugs, as below.
deliverMessageNotValid(m, id) == [msg |-> m, packetid |-> id, valid |-> FALSE]
UserMsgCtlKeeps(s) ==
  /\ handled' = IF s.msg \in Long
                  THEN [handled EXCEPT ![s.msg] = @ + 1]
                  ELSE handled
  /\ slot' = s

deliverMessage(m, id) == [msg |-> m, packetid |-> id, valid |-> TRUE]

UserMsgCtl(s) ==
  /\ handled' = IF s.msg \in Long
                  THEN [handled EXCEPT ![s.msg] = @ + 1]
                  ELSE handled
  /\ slot' = [s EXCEPT !.valid = FALSE]

\* Seeded bugs, never part of Next: each stands for an action in a run that
\* tests whether the properties notice.
HandlePublish1NoId ==
  /\ Reads("PUBLISH")
  /\ QoS(Head(toClient).msg) = 1
  /\ UserMsgCtl(deliverMessage(Head(toClient).msg, OtherId))
  /\ Write(Ack("PUBACK", OtherId))
  /\ UNCHANGED <<pc, link, epoch, brokerVars>>

HandlePublish2Early ==
  /\ Reads("PUBLISH")
  /\ LET s == deliverMessage(Head(toClient).msg, Head(toClient).id)
     IN QoS(s.msg) = 2 /\ UserMsgCtl(s) /\ Write(Ack("PUBREC", s.packetid))
  /\ UNCHANGED <<pc, link, epoch, brokerVars>>

HandlePublish2Silent ==
  /\ Reads("PUBLISH")
  /\ LET s == deliverMessage(Head(toClient).msg, Head(toClient).id)
     IN QoS(s.msg) = 2 /\ slot' = s
  /\ UNCHANGED <<handled, toBroker, pc, link, epoch, brokerVars>>

HandlePubrelNoValid ==
  /\ Reads("PUBREL")
  /\ IF Head(toClient).id = slot.packetid
       THEN UserMsgCtl(slot) /\ Write(Ack("PUBCOMP", slot.packetid))
       ELSE UNCHANGED <<slot, handled, toBroker>>
  /\ UNCHANGED <<pc, link, epoch, brokerVars>>

HandlePubrelAnyId ==
  /\ Reads("PUBREL")
  /\ IF slot.valid THEN UserMsgCtl(slot) ELSE UNCHANGED <<slot, handled>>
  /\ Write(Ack("PUBCOMP", Head(toClient).id))
  /\ UNCHANGED <<pc, link, epoch, brokerVars>>

\* MQTTDeserialize_publish sets msg.id only for QoS 1 and 2, and msg is an
\* uninitialised local: at QoS 0 the identifier stored is whatever was there.
HandlePublish0 ==
  /\ Reads("PUBLISH")
  /\ LET m == Head(toClient).msg IN
       /\ QoS(m) = 0
       /\ \E id \in AnyId : UserMsgCtl(deliverMessage(m, id))
  /\ UNCHANGED <<toBroker, pc, link, epoch, brokerVars>>

HandlePublish1 ==
  /\ Reads("PUBLISH")
  /\ LET m == Head(toClient).msg
         s == deliverMessage(m, Head(toClient).id)
     IN /\ QoS(m) = 1
        /\ \/ Write(Ack("PUBACK", s.packetid)) /\ UserMsgCtl(s)
           \/ WriteFails /\ slot' = s /\ UNCHANGED <<toBroker, handled>>
  /\ UNCHANGED <<pc, link, epoch, brokerVars>>

HandlePublish2 ==
  /\ Reads("PUBLISH")
  /\ LET m == Head(toClient).msg
         s == deliverMessage(m, Head(toClient).id)
     IN /\ QoS(m) = 2
        /\ slot' = s
        /\ Write(Ack("PUBREC", s.packetid))
  /\ UNCHANGED <<handled, pc, link, epoch, brokerVars>>

HandlePubrel ==
  /\ Reads("PUBREL")
  /\ IF Head(toClient).id = slot.packetid
       THEN /\ IF slot.valid THEN UserMsgCtl(slot) ELSE UNCHANGED <<slot, handled>>
            /\ Write(Ack("PUBCOMP", slot.packetid))
       ELSE UNCHANGED <<slot, handled, toBroker>>
  /\ UNCHANGED <<pc, link, epoch, brokerVars>>

\* More than KEEPLIVE_TIME/2 seconds without a packet read: MQTT_PingReq.
PingReq ==
  /\ pc = "loop"
  /\ toClient = << >>
  /\ Write(PingPacket("PINGREQ"))
  /\ pc' = "ping"
  /\ UNCHANGED <<slot, handled, link, toClient, epoch, brokerVars>>

\* MQTT_PingReq reads the next packet, whatever it is.
PingRead ==
  /\ pc = "ping"
  /\ toClient # << >>
  /\ toClient' = Tail(toClient)
  /\ pc' = IF Head(toClient).type = "PINGRESP" THEN "loop" ELSE "closed"
  /\ UNCHANGED <<slot, handled, link, toBroker, epoch, brokerVars>>

\* Five seconds without a readable byte, or the end of the stream.
PingTimeout ==
  /\ pc = "ping"
  /\ toClient = << >>
  /\ pc' = "closed"
  /\ UNCHANGED <<slot, handled, link, toClient, toBroker, epoch, brokerVars>>

\* CLOSE: transport_close, then Client_Connect with cleansession = 1: a new
\* session of which the broker remembers nothing.  mqtt_user_msg is not reset.
Reconnect ==
  /\ pc = "closed"
  /\ epoch < MaxSession
  /\ pc' = "loop"
  /\ link' = "up"
  /\ toClient' = << >>
  /\ toBroker' = << >>
  /\ exchange' = [p \in PacketId |-> Unused]
  /\ epoch' = epoch + 1
  /\ UNCHANGED <<slot, handled, session, dups>>

-----------------------------------------------------------------------------
(* The broker and the network (external) *)

Unacked == {p \in PacketId : exchange[p].phase \in {"pub", "rel"}}

Send(pkt) == toClient' = Append(toClient, pkt)

Forward(m) ==
  /\ link = "up"
  /\ session[m] = 0
  /\ session' = [session EXCEPT ![m] = epoch]
  /\ \/ /\ QoS(m) = 0
        /\ Send(Publish(m, OtherId))
        /\ UNCHANGED exchange
     \/ /\ QoS(m) > 0
        /\ Cardinality(Unacked) < Window
        /\ \E p \in PacketId :
             /\ exchange[p] = Unused
             /\ exchange' = [exchange EXCEPT ![p] = [phase |-> "pub", msg |-> m]]
             /\ Send(Publish(m, p))
  /\ UNCHANGED <<clientVars, link, toBroker, epoch, dups>>

\* A broker may retransmit what it has no answer to.
Retransmit(p) ==
  /\ link = "up"
  /\ dups < MaxDup
  /\ dups' = dups + 1
  /\ \/ exchange[p].phase = "pub" /\ Send(Publish(exchange[p].msg, p))
     \/ exchange[p].phase = "rel" /\ Send(Ack("PUBREL", p))
  /\ UNCHANGED <<clientVars, link, toBroker, exchange, session, epoch>>

SetPhase(p, phase) == exchange' = [exchange EXCEPT ![p].phase = phase]

BrokerReceive ==
  /\ link = "up"
  /\ toBroker # << >>
  /\ toBroker' = Tail(toBroker)
  /\ LET k == Head(toBroker) IN
       \/ /\ k.type = "PUBACK"
          /\ SetPhase(k.id, "done")
          /\ UNCHANGED toClient
       \/ /\ k.type = "PUBREC"
          /\ IF exchange[k.id].phase = "done"
               THEN UNCHANGED <<exchange, toClient>>
               ELSE SetPhase(k.id, "rel") /\ Send(Ack("PUBREL", k.id))
       \/ /\ k.type = "PUBCOMP"
          /\ SetPhase(k.id, "done")
          /\ UNCHANGED toClient
       \/ /\ k.type = "PINGREQ"
          /\ Send(PingPacket("PINGRESP"))
          /\ UNCHANGED exchange
  /\ UNCHANGED <<clientVars, link, session, epoch, dups>>

\* The connection breaks: what had not reached its reader may be lost.
Break ==
  /\ link = "up"
  /\ link' = "down"
  /\ \E n \in 0..Len(toClient) : toClient' = SubSeq(toClient, 1, n)
  /\ toBroker' = << >>
  /\ UNCHANGED <<clientVars, epoch, brokerVars>>

-----------------------------------------------------------------------------
ClientStep ==
  \/ HandlePublish0 \/ HandlePublish1 \/ HandlePublish2 \/ HandlePubrel
  \/ PingReq \/ PingRead \/ PingTimeout \/ Reconnect

BrokerStep ==
  \/ \E m \in Message : Forward(m)
  \/ \E p \in PacketId : Retransmit(p)
  \/ BrokerReceive

Next == ClientStep \/ BrokerStep \/ Break

Spec == Init /\ [][Next]_vars

\* mqtt_thread never stops reading, and the broker reads what it is sent.
HandlerStep ==
  HandlePublish0 \/ HandlePublish1 \/ HandlePublish2 \/ HandlePubrel \/ PingRead
Fairness == WF_vars(HandlerStep) /\ WF_vars(BrokerReceive)
FairSpec == Spec /\ Fairness

-----------------------------------------------------------------------------
(* Properties *)

\* The hazards: one buffer for handshakes that overlap, packets that arrive
\* while a ping is answered, retransmissions, and a buffer that survives the
\* session it was filled in.

\* A message forwarded at QoS 2 is acted on at most once, however often its
\* PUBLISH and PUBREL are retransmitted and the session re-established
\* (mqtt_pktype_ctl's test of mqtt_user_msg.valid).
AtMostOnce == \A m \in Message : QoS(m) = 2 => handled[m] <= 1

\* A QoS 0 message, which is stored under an identifier nobody assigned, may have
\* been in the buffer; if it is long, Proscess has run on it.
BufferShared ==
  \E m \in Message :
    QoS(m) = 0 /\ session[m] # 0 /\ (m \in Long => handled[m] > 0)

\* Once the broker may forget a message because the client acknowledged it
\* (PUBACK or PUBCOMP), Proscess has run on it; unless a QoS 0 message has been
\* in its place.
AcknowledgedIsHandled ==
  \A p \in PacketId :
    exchange[p].phase = "done" /\ exchange[p].msg \in Long
      => handled[exchange[p].msg] > 0 \/ BufferShared

\* Proscess runs on a QoS 2 message only after the broker has released it in
\* the current session: never on PUBLISH, never on what an earlier session
\* left in mqtt_user_msg, never on another message's PUBREL.
HandledWhenReleased ==
  [][\A m \in Message :
       QoS(m) = 2 /\ handled'[m] # handled[m] =>
         \E p \in PacketId : exchange[p] = [phase |-> "rel", msg |-> m]]_vars

\* "PUBREL received, the data must be processed and discarded"
\* (mqttclient.c:432): when the handler has taken a PUBREL, its message has
\* been acted on.
PubrelIsProcessed ==
  [][HandlePubrel =>
       LET m == exchange[Head(toClient).id].msg
       IN m \in Long => handled'[m] > 0]_vars

\* Every message forwarded at QoS 1 or 2 is acted on, unless its connection
\* is lost or given up.
ForwardedIsHandled ==
  \A m \in Long :
    (QoS(m) > 0 /\ session[m] # 0)
      ~> (handled[m] > 0 \/ epoch > session[m] \/ link = "down" \/ pc = "closed")

\* What the receiver promises to the application: see MqttDelivery.
Delivery == INSTANCE MqttDelivery WITH
  AtMostOnceMessage <- {m \in Message : QoS(m) = 2},
  forwarded <- {m \in Message : session[m] # 0}
ImplementsDelivery == Delivery!Spec
=============================================================================
