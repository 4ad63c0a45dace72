--------------------------- MODULE MqttInboundProofs ---------------------------
(***************************************************************************)
(* Proofs about MqttInbound, for every set of messages, of packet          *)
(* identifiers, and every bound: its type invariant, that a QoS 2 message  *)
(* is acted on at most once, that the receiver implements MqttDelivery,    *)
(* that what is acknowledged has been acted on, that a QoS 2 message is    *)
(* acted on only when it is released, and, with one message outstanding,   *)
(* that every PUBREL is answered by acting on its message.                 *)
(***************************************************************************)
EXTENDS MqttInbound, SequenceTheorems, FiniteSetTheorems, TLAPS

\* Elements of the two sequence operations the channels use.
LEMMA TailElements ==
  ASSUME NEW S, NEW s \in Seq(S), s # << >>
  PROVE  /\ Tail(s) \in Seq(S)
         /\ Len(s) \in Nat \ {0}
         /\ Len(Tail(s)) = Len(s) - 1
         /\ \A i \in 1..Len(Tail(s)) : i + 1 \in 1..Len(s) /\ Tail(s)[i] = s[i+1]
         /\ Head(s) = s[1] /\ Head(s) \in S /\ 1 \in 1..Len(s)
  BY HeadTailProperties, EmptySeq, LenProperties

LEMMA AppendElements ==
  ASSUME NEW S, NEW s \in Seq(S), NEW e \in S
  PROVE  /\ Append(s, e) \in Seq(S)
         /\ Len(s) \in Nat
         /\ Len(Append(s, e)) = Len(s) + 1
         /\ \A i \in 1..Len(s) : Append(s, e)[i] = s[i]
         /\ Append(s, e)[Len(s) + 1] = e
  BY AppendProperties, LenProperties

LEMMA QoSRange == \A m \in Message : QoS(m) \in 0..2
  BY ConstantsAssumption DEF QoS

LEMMA PacketsTyped ==
  /\ \A m \in Message, p \in AnyId : Publish(m, p) \in Packet
  /\ \A p \in PacketId, t \in {"PUBACK", "PUBREC", "PUBREL", "PUBCOMP"} :
       Ack(t, p) \in Packet
  /\ \A t \in {"PINGREQ", "PINGRESP"} : PingPacket(t) \in Packet
  BY DEF Publish, Ack, PingPacket, Packet

LEMMA PublishFields ==
  \A k \in Packet : k.type = "PUBLISH" => k.msg \in Message /\ k.id \in AnyId
  BY DEF Packet

LEMMA AckFields ==
  \A k \in Packet :
    k.type \in {"PUBACK", "PUBREC", "PUBREL", "PUBCOMP"} => k.id \in PacketId
  BY DEF Packet

\* What a packet on its way to the client, or to the broker, says about the
\* exchange ex of its identifier.
KnownIn(ex, k) ==
  /\ k.type = "PUBLISH" /\ QoS(k.msg) # 0 =>
       k.id \in PacketId /\ ex[k.id].phase # "unused" /\ ex[k.id].msg = k.msg
  /\ k.type = "PUBREL" =>
       ex[k.id].phase \in {"rel", "done"} /\ QoS(ex[k.id].msg) = 2
KnownOut(ex, k) ==
  /\ k.type \in {"PUBACK", "PUBREC", "PUBCOMP"} => ex[k.id].phase # "unused"
  /\ k.type = "PUBACK" => QoS(ex[k.id].msg) = 1
  /\ k.type = "PUBREC" => QoS(ex[k.id].msg) = 2
  /\ k.type = "PUBCOMP" => ex[k.id].phase \in {"rel", "done"}

ToClientKnown == \A i \in 1..Len(toClient) : KnownIn(exchange, toClient[i])
ToBrokerKnown == \A i \in 1..Len(toBroker) : KnownOut(exchange, toBroker[i])

\* An identifier that was handed out stands for a message, and only messages
\* of QoS 2 are released.
ExchangeHasMessage ==
  \A p \in PacketId :
    /\ exchange[p].phase # "unused" => exchange[p].msg \in Message
    /\ exchange[p].phase = "rel" => QoS(exchange[p].msg) = 2

TypeInv == TypeOK /\ ToClientKnown /\ ToBrokerKnown /\ ExchangeHasMessage

\* Within a session an exchange keeps its message and moves forward only.
Advances ==
  \A p \in PacketId :
    exchange[p].phase # "unused" =>
      /\ exchange'[p].msg = exchange[p].msg
      /\ exchange'[p].phase # "unused"
      /\ exchange[p].phase \in {"rel", "done"} => exchange'[p].phase \in {"rel", "done"}

LEMMA TypeInit == Init => TypeInv
  BY ConstantsAssumption DEF Init, TypeInv, TypeOK, ToClientKnown, ToBrokerKnown,
     ExchangeHasMessage, Slot, AnyId, Exchange, Unused

LEMMA KnownAdvances ==
  ASSUME Advances, NEW k \in Packet
  PROVE  /\ KnownIn(exchange, k) => KnownIn(exchange', k)
         /\ KnownOut(exchange, k) => KnownOut(exchange', k)
  BY PublishFields, AckFields DEF Advances, KnownIn, KnownOut

LEMMA UserMsgCtlTyped ==
  ASSUME TypeOK, NEW s \in Slot, UserMsgCtl(s)
  PROVE  slot' \in Slot /\ handled' \in [Message -> Nat]
<1>1. slot' \in Slot
  BY DEF UserMsgCtl, Slot
<1>2. CASE s.msg \in Long
  BY <1>1, <1>2, ConstantsAssumption DEF TypeOK, UserMsgCtl
<1>3. CASE s.msg \notin Long
  BY <1>1, <1>3 DEF TypeOK, UserMsgCtl
<1>4. QED
  BY <1>2, <1>3

\* The three things a step does to a channel: a packet is read from it, one is
\* written to it, or nothing, while the exchanges advance.
LEMMA SameChannels ==
  ASSUME TypeInv, Advances
  PROVE  /\ toClient' = toClient => toClient' \in Seq(Packet) /\ ToClientKnown'
         /\ toBroker' = toBroker => toBroker' \in Seq(Packet) /\ ToBrokerKnown'
  BY KnownAdvances, ElementOfSeq DEF TypeInv, TypeOK, ToClientKnown, ToBrokerKnown

LEMMA TakeFromClient ==
  ASSUME TypeInv, Advances, toClient # << >>, toClient' = Tail(toClient)
  PROVE  /\ toClient' \in Seq(Packet) /\ ToClientKnown'
         /\ Head(toClient) \in Packet /\ KnownIn(exchange, Head(toClient))
         /\ Head(toClient) = toClient[1] /\ 1 \in 1..Len(toClient)
         /\ Len(toClient) \in Nat /\ Len(toClient') = Len(toClient) - 1
         /\ \A i \in 1..Len(toClient') :
              i + 1 \in 1..Len(toClient) /\ toClient'[i] = toClient[i+1]
<1>1. /\ toClient' \in Seq(Packet)
      /\ Len(toClient) \in Nat \ {0} /\ Len(toClient') = Len(toClient) - 1
      /\ \A i \in 1..Len(toClient') :
           i + 1 \in 1..Len(toClient) /\ toClient'[i] = toClient[i+1]
      /\ Head(toClient) = toClient[1] /\ Head(toClient) \in Packet
      /\ 1 \in 1..Len(toClient)
  BY TailElements DEF TypeInv, TypeOK
<1>2. ToClientKnown'
  BY <1>1, KnownAdvances, ElementOfSeq DEF TypeInv, TypeOK, ToClientKnown
<1>3. QED
  BY <1>1, <1>2 DEF TypeInv, ToClientKnown

LEMMA TakeFromBroker ==
  ASSUME TypeInv, Advances, toBroker # << >>, toBroker' = Tail(toBroker)
  PROVE  /\ toBroker' \in Seq(Packet) /\ ToBrokerKnown'
<1>1. /\ toBroker' \in Seq(Packet)
      /\ \A i \in 1..Len(toBroker') :
           i + 1 \in 1..Len(toBroker) /\ toBroker'[i] = toBroker[i+1]
  BY TailElements DEF TypeInv, TypeOK
<1>2. QED
  BY <1>1, KnownAdvances, ElementOfSeq DEF TypeInv, TypeOK, ToBrokerKnown

LEMMA BrokerHead ==
  ASSUME TypeInv, toBroker # << >>
  PROVE  /\ Head(toBroker) \in Packet /\ KnownOut(exchange, Head(toBroker))
         /\ Head(toBroker) = toBroker[1] /\ 1 \in 1..Len(toBroker)
  BY TailElements DEF TypeInv, TypeOK, ToBrokerKnown

LEMMA SendKnown ==
  ASSUME TypeInv, Advances, NEW k \in Packet, Send(k), KnownIn(exchange', k)
  PROVE  /\ toClient' \in Seq(Packet) /\ ToClientKnown'
         /\ Len(toClient) \in Nat /\ Len(toClient') = Len(toClient) + 1
         /\ \A i \in 1..Len(toClient) : toClient'[i] = toClient[i]
         /\ toClient'[Len(toClient) + 1] = k
<1>1. /\ toClient' \in Seq(Packet) /\ Len(toClient) \in Nat
      /\ Len(toClient') = Len(toClient) + 1
      /\ \A i \in 1..Len(toClient) : toClient'[i] = toClient[i]
      /\ toClient'[Len(toClient) + 1] = k
  BY AppendElements DEF TypeInv, TypeOK, Send
<1>2. ASSUME NEW i \in 1..Len(toClient') PROVE KnownIn(exchange', toClient'[i])
  <2>1. i \in 1..Len(toClient) \/ i = Len(toClient) + 1
    BY <1>1
  <2>2. QED
    BY <1>1, <2>1, KnownAdvances, ElementOfSeq DEF TypeInv, TypeOK, ToClientKnown
<1>3. QED
  BY <1>1, <1>2 DEF ToClientKnown

LEMMA WriteKnown ==
  ASSUME TypeInv, UNCHANGED exchange, NEW k \in Packet, Write(k), KnownOut(exchange, k)
  PROVE  /\ toBroker' \in Seq(Packet) /\ ToBrokerKnown'
         /\ \A i \in 1..Len(toBroker') :
              (i \in 1..Len(toBroker) /\ toBroker'[i] = toBroker[i]) \/ toBroker'[i] = k
<1>1. CASE link = "up"
  <2>1. /\ toBroker' \in Seq(Packet) /\ Len(toBroker) \in Nat
        /\ Len(toBroker') = Len(toBroker) + 1
        /\ \A i \in 1..Len(toBroker) : toBroker'[i] = toBroker[i]
        /\ toBroker'[Len(toBroker) + 1] = k
    BY <1>1, AppendElements DEF TypeInv, TypeOK, Write
  <2>2. ASSUME NEW i \in 1..Len(toBroker')
        PROVE  /\ KnownOut(exchange', toBroker'[i])
               /\ (i \in 1..Len(toBroker) /\ toBroker'[i] = toBroker[i]) \/ toBroker'[i] = k
    <3>1. i \in 1..Len(toBroker) \/ i = Len(toBroker) + 1
      BY <2>1
    <3>2. QED
      BY <2>1, <3>1 DEF TypeInv, ToBrokerKnown
  <2>3. QED
    BY <2>1, <2>2 DEF ToBrokerKnown
<1>2. CASE link # "up"
  BY <1>2 DEF TypeInv, TypeOK, ToBrokerKnown, Write
<1>3. QED
  BY <1>1, <1>2

LEMMA SetPhaseAdvances ==
  ASSUME TypeInv, NEW p \in PacketId, NEW phase \in {"rel", "done"},
         exchange[p].phase # "unused", SetPhase(p, phase),
         phase = "rel" => QoS(exchange[p].msg) = 2
  PROVE  /\ exchange' \in [PacketId -> Exchange] /\ ExchangeHasMessage' /\ Advances
         /\ exchange'[p] = [phase |-> phase, msg |-> exchange[p].msg]
         /\ \A q \in PacketId \ {p} : exchange'[q] = exchange[q]
  BY DEF TypeInv, TypeOK, Exchange, SetPhase, ExchangeHasMessage, Advances

LEMMA SameAdvances ==
  ASSUME TypeInv, UNCHANGED exchange
  PROVE  Advances /\ ExchangeHasMessage' /\ exchange' \in [PacketId -> Exchange]
  BY DEF TypeInv, TypeOK, ExchangeHasMessage, Advances

\* Each kind of step preserves the types; one step of the proof per action.
LEMMA TypeNext == TypeInv /\ [Next]_vars => TypeInv'
<1> SUFFICES ASSUME TypeInv, [Next]_vars PROVE TypeInv'
  OBVIOUS
<1>1. CASE HandlePublish0
  <2>1. PICK id \in AnyId : UserMsgCtl(deliverMessage(Head(toClient).msg, id))
    BY <1>1 DEF HandlePublish0
  <2>2. Advances /\ ExchangeHasMessage'
    BY <1>1, SameAdvances DEF HandlePublish0, brokerVars
  <2>3. toClient' \in Seq(Packet) /\ ToClientKnown' /\ Head(toClient) \in Packet
    BY <1>1, <2>2, TakeFromClient DEF HandlePublish0, Reads
  <2>4. deliverMessage(Head(toClient).msg, id) \in Slot
    BY <1>1, <2>3, PublishFields DEF HandlePublish0, Reads, deliverMessage, Slot
  <2>5. slot' \in Slot /\ handled' \in [Message -> Nat]
    BY <2>1, <2>4, UserMsgCtlTyped DEF TypeInv
  <2>6. ToBrokerKnown'
    BY <1>1, <2>2, SameChannels DEF HandlePublish0
  <2>7. QED
    BY <1>1, <2>2, <2>3, <2>5, <2>6
       DEF HandlePublish0, TypeInv, TypeOK, brokerVars
<1>2. CASE HandlePublish1
  <2> DEFINE s == deliverMessage(Head(toClient).msg, Head(toClient).id)
  <2>1. Advances /\ ExchangeHasMessage' /\ UNCHANGED exchange
    BY <1>2, SameAdvances DEF HandlePublish1, brokerVars
  <2>2. /\ toClient' \in Seq(Packet) /\ ToClientKnown'
        /\ Head(toClient) \in Packet /\ KnownIn(exchange, Head(toClient))
    BY <1>2, <2>1, TakeFromClient DEF HandlePublish1, Reads
  <2>3. /\ s \in Slot /\ s.packetid \in PacketId
        /\ exchange[s.packetid].phase # "unused"
        /\ QoS(exchange[s.packetid].msg) = 1
    BY <1>2, <2>2, PublishFields
       DEF HandlePublish1, Reads, deliverMessage, Slot, KnownIn
  <2>4. /\ Ack("PUBACK", s.packetid) \in Packet
        /\ KnownOut(exchange, Ack("PUBACK", s.packetid))
    BY <2>3, PacketsTyped DEF KnownOut, Ack
  <2>5. /\ slot' \in Slot /\ handled' \in [Message -> Nat]
        /\ toBroker' \in Seq(Packet) /\ ToBrokerKnown'
    <3>1. CASE Write(Ack("PUBACK", s.packetid)) /\ UserMsgCtl(s)
      BY <2>1, <2>3, <2>4, <3>1, UserMsgCtlTyped, WriteKnown DEF TypeInv
    <3>2. CASE slot' = s /\ UNCHANGED <<toBroker, handled>>
      BY <2>1, <2>3, <3>2, SameChannels DEF TypeInv, TypeOK
    <3>3. QED
      BY <1>2, <3>1, <3>2 DEF HandlePublish1
  <2>6. QED
    BY <1>2, <2>1, <2>2, <2>5 DEF HandlePublish1, TypeInv, TypeOK, brokerVars
<1>3. CASE HandlePublish2
  <2> DEFINE s == deliverMessage(Head(toClient).msg, Head(toClient).id)
  <2>1. Advances /\ ExchangeHasMessage' /\ UNCHANGED exchange
    BY <1>3, SameAdvances DEF HandlePublish2, brokerVars
  <2>2. /\ toClient' \in Seq(Packet) /\ ToClientKnown'
        /\ Head(toClient) \in Packet /\ KnownIn(exchange, Head(toClient))
    BY <1>3, <2>1, TakeFromClient DEF HandlePublish2, Reads
  <2>3. /\ s \in Slot /\ s.packetid \in PacketId
        /\ exchange[s.packetid].phase # "unused"
        /\ QoS(exchange[s.packetid].msg) = 2
    BY <1>3, <2>2, PublishFields
       DEF HandlePublish2, Reads, deliverMessage, Slot, KnownIn
  <2>4. /\ Ack("PUBREC", s.packetid) \in Packet
        /\ KnownOut(exchange, Ack("PUBREC", s.packetid))
    BY <2>3, PacketsTyped DEF KnownOut, Ack
  <2>5. slot' \in Slot /\ toBroker' \in Seq(Packet) /\ ToBrokerKnown'
    BY <1>3, <2>1, <2>3, <2>4, WriteKnown DEF HandlePublish2
  <2>6. QED
    BY <1>3, <2>1, <2>2, <2>5 DEF HandlePublish2, TypeInv, TypeOK, brokerVars
<1>4. CASE HandlePubrel
  <2>1. Advances /\ ExchangeHasMessage' /\ UNCHANGED exchange
    BY <1>4, SameAdvances DEF HandlePubrel, brokerVars
  <2>2. /\ toClient' \in Seq(Packet) /\ ToClientKnown'
        /\ Head(toClient) \in Packet /\ KnownIn(exchange, Head(toClient))
    BY <1>4, <2>1, TakeFromClient DEF HandlePubrel, Reads
  <2>3. slot' \in Slot /\ handled' \in [Message -> Nat]
    BY <1>4, UserMsgCtlTyped DEF HandlePubrel, TypeInv, TypeOK
  <2>4. toBroker' \in Seq(Packet) /\ ToBrokerKnown'
    <3>1. CASE Head(toClient).id = slot.packetid
      <4> DEFINE k == Ack("PUBCOMP", slot.packetid)
      <4>1. k \in Packet /\ KnownOut(exchange, k)
        BY <1>4, <2>2, <3>1, PacketsTyped, AckFields
           DEF HandlePubrel, Reads, KnownIn, KnownOut, Ack
      <4>2. QED
        BY <1>4, <2>1, <3>1, <4>1, WriteKnown DEF HandlePubrel
    <3>2. CASE Head(toClient).id # slot.packetid
      BY <1>4, <2>1, <3>2, SameChannels DEF HandlePubrel
    <3>3. QED
      BY <3>1, <3>2
  <2>5. QED
    BY <1>4, <2>1, <2>2, <2>3, <2>4 DEF HandlePubrel, TypeInv, TypeOK, brokerVars
<1>5. CASE PingReq
  <2>1. Advances /\ ExchangeHasMessage' /\ UNCHANGED exchange
    BY <1>5, SameAdvances DEF PingReq, brokerVars
  <2>2. PingPacket("PINGREQ") \in Packet /\ KnownOut(exchange, PingPacket("PINGREQ"))
    BY PacketsTyped DEF PingPacket, KnownOut
  <2>3. /\ toBroker' \in Seq(Packet) /\ ToBrokerKnown'
        /\ toClient' \in Seq(Packet) /\ ToClientKnown'
    BY <1>5, <2>1, <2>2, WriteKnown, SameChannels DEF PingReq
  <2>4. QED
    BY <1>5, <2>1, <2>3 DEF PingReq, TypeInv, TypeOK, brokerVars
<1>6. CASE PingRead
  <2>1. Advances /\ ExchangeHasMessage' /\ UNCHANGED exchange
    BY <1>6, SameAdvances DEF PingRead, brokerVars
  <2>2. /\ toClient' \in Seq(Packet) /\ ToClientKnown'
        /\ toBroker' \in Seq(Packet) /\ ToBrokerKnown'
    BY <1>6, <2>1, TakeFromClient, SameChannels DEF PingRead
  <2>3. QED
    BY <1>6, <2>1, <2>2 DEF PingRead, TypeInv, TypeOK, brokerVars
<1>7. CASE PingTimeout
  <2>1. Advances /\ ExchangeHasMessage' /\ UNCHANGED exchange
    BY <1>7, SameAdvances DEF PingTimeout, brokerVars
  <2>2. QED
    BY <1>7, <2>1, SameChannels DEF PingTimeout, TypeInv, TypeOK, brokerVars
<1>8. CASE Reconnect
  BY <1>8 DEF Reconnect, TypeInv, TypeOK, ToClientKnown, ToBrokerKnown,
     ExchangeHasMessage, Exchange, Unused
<1>9. ASSUME NEW m \in Message, Forward(m) PROVE TypeInv'
  <2>1. session' \in [Message -> Nat]
    BY <1>9 DEF Forward, TypeInv, TypeOK
  <2>2. CASE QoS(m) = 0 /\ Send(Publish(m, OtherId)) /\ UNCHANGED exchange
    <3>1. Advances /\ ExchangeHasMessage'
      BY <2>2, SameAdvances
    <3>2. /\ Publish(m, OtherId) \in Packet
          /\ KnownIn(exchange', Publish(m, OtherId))
      BY <2>2, PacketsTyped DEF AnyId, Publish, KnownIn
    <3>3. /\ toClient' \in Seq(Packet) /\ ToClientKnown'
          /\ toBroker' \in Seq(Packet) /\ ToBrokerKnown'
      BY <1>9, <2>2, <3>1, <3>2, SendKnown, SameChannels DEF Forward
    <3>4. QED
      BY <1>9, <2>1, <2>2, <3>1, <3>3 DEF Forward, TypeInv, TypeOK, clientVars
  <2>3. ASSUME QoS(m) > 0, NEW p \in PacketId, exchange[p] = Unused,
               exchange' = [exchange EXCEPT ![p] = [phase |-> "pub", msg |-> m]],
               Send(Publish(m, p))
        PROVE  TypeInv'
    <3>1. /\ Advances /\ ExchangeHasMessage'
          /\ exchange' \in [PacketId -> Exchange]
          /\ exchange'[p] = [phase |-> "pub", msg |-> m]
      BY <2>3 DEF TypeInv, TypeOK, Exchange, Advances, ExchangeHasMessage, Unused
    <3>2. Publish(m, p) \in Packet /\ KnownIn(exchange', Publish(m, p))
      BY <3>1, PacketsTyped DEF AnyId, Publish, KnownIn
    <3>3. /\ toClient' \in Seq(Packet) /\ ToClientKnown'
          /\ toBroker' \in Seq(Packet) /\ ToBrokerKnown'
      BY <1>9, <2>3, <3>1, <3>2, SendKnown, SameChannels DEF Forward
    <3>4. QED
      BY <1>9, <2>1, <3>1, <3>3 DEF Forward, TypeInv, TypeOK, clientVars
  <2>4. QED
    BY <1>9, <2>2, <2>3 DEF Forward
<1>10. ASSUME NEW p \in PacketId, Retransmit(p) PROVE TypeInv'
  <2>1. Advances /\ ExchangeHasMessage' /\ UNCHANGED exchange
    BY <1>10, SameAdvances DEF Retransmit
  <2>2. PICK k \in Packet : Send(k) /\ KnownIn(exchange, k)
    <3>1. CASE exchange[p].phase = "pub" /\ Send(Publish(exchange[p].msg, p))
      BY <3>1, PacketsTyped DEF TypeInv, ExchangeHasMessage, AnyId, Publish, KnownIn
    <3>2. CASE exchange[p].phase = "rel" /\ Send(Ack("PUBREL", p))
      BY <3>2, PacketsTyped DEF TypeInv, ExchangeHasMessage, Ack, KnownIn
    <3>3. QED
      BY <1>10, <3>1, <3>2 DEF Retransmit
  <2>3. /\ toClient' \in Seq(Packet) /\ ToClientKnown'
        /\ toBroker' \in Seq(Packet) /\ ToBrokerKnown'
    BY <1>10, <2>1, <2>2, SendKnown, SameChannels DEF Retransmit
  <2>4. QED
    BY <1>10, <2>1, <2>3 DEF Retransmit, TypeInv, TypeOK, clientVars
<1>11. CASE BrokerReceive
  <2> DEFINE k == Head(toBroker)
  <2>1. k \in Packet /\ KnownOut(exchange, k)
    BY <1>11, BrokerHead DEF BrokerReceive
  <2>2. /\ exchange' \in [PacketId -> Exchange] /\ ExchangeHasMessage' /\ Advances
        /\ toClient' \in Seq(Packet) /\ ToClientKnown'
    <3>1. CASE UNCHANGED <<exchange, toClient>>
      BY <3>1, SameAdvances, SameChannels
    <3>2. CASE k.type \in {"PUBACK", "PUBCOMP"} /\ SetPhase(k.id, "done") /\ UNCHANGED toClient
      <4>1. k.id \in PacketId /\ exchange[k.id].phase # "unused"
        BY <2>1, <3>2, AckFields DEF KnownOut
      <4>2. QED
        BY <3>2, <4>1, SetPhaseAdvances, SameChannels
    <3>3. CASE k.type = "PUBREC" /\ SetPhase(k.id, "rel") /\ Send(Ack("PUBREL", k.id))
      <4>1. k.id \in PacketId /\ exchange[k.id].phase # "unused" /\ QoS(exchange[k.id].msg) = 2
        BY <2>1, <3>3, AckFields DEF KnownOut
      <4>2. /\ exchange' \in [PacketId -> Exchange] /\ ExchangeHasMessage' /\ Advances
            /\ exchange'[k.id] = [phase |-> "rel", msg |-> exchange[k.id].msg]
        BY <3>3, <4>1, SetPhaseAdvances
      <4>3. Ack("PUBREL", k.id) \in Packet /\ KnownIn(exchange', Ack("PUBREL", k.id))
        <5>1. Ack("PUBREL", k.id) \in Packet /\ Ack("PUBREL", k.id).id = k.id
              /\ Ack("PUBREL", k.id).type = "PUBREL"
          BY <4>1, PacketsTyped DEF Ack
        <5>2. exchange'[k.id].phase = "rel" /\ QoS(exchange'[k.id].msg) = 2
          BY <4>1, <4>2
        <5>3. QED
          BY <5>1, <5>2 DEF KnownIn
      <4>4. QED
        BY <3>3, <4>2, <4>3, SendKnown
    <3>4. CASE Send(PingPacket("PINGRESP")) /\ UNCHANGED exchange
      <4>1. PingPacket("PINGRESP") \in Packet /\ KnownIn(exchange', PingPacket("PINGRESP"))
        BY PacketsTyped DEF PingPacket, KnownIn
      <4>2. QED
        BY <3>4, <4>1, SameAdvances, SendKnown
    <3>5. QED
      BY <1>11, <3>1, <3>2, <3>3, <3>4 DEF BrokerReceive
  <2>3. toBroker' \in Seq(Packet) /\ ToBrokerKnown'
    BY <1>11, <2>2, TakeFromBroker DEF BrokerReceive
  <2>4. QED
    BY <1>11, <2>2, <2>3 DEF BrokerReceive, TypeInv, TypeOK, clientVars
<1>12. CASE Break
  <2>1. PICK n \in 0..Len(toClient) : toClient' = SubSeq(toClient, 1, n)
    BY <1>12 DEF Break
  <2>2. Advances /\ ExchangeHasMessage' /\ UNCHANGED exchange
    BY <1>12, SameAdvances DEF Break, brokerVars
  <2>3. /\ toClient' \in Seq(Packet)
        /\ \A i \in 1..Len(toClient') :
             i \in 1..Len(toClient) /\ toClient'[i] = toClient[i]
    BY <2>1, SubSeqProperties, LenProperties DEF TypeInv, TypeOK
  <2>4. ToClientKnown' /\ toBroker' \in Seq(Packet) /\ ToBrokerKnown'
    BY <1>12, <2>2, <2>3 DEF TypeInv, ToClientKnown, ToBrokerKnown, Break, brokerVars
  <2>5. QED
    BY <1>12, <2>2, <2>3, <2>4 DEF Break, TypeInv, TypeOK, clientVars, brokerVars
<1>13. CASE UNCHANGED vars
  BY <1>13, SameAdvances, SameChannels DEF vars, TypeInv, TypeOK
<1>14. QED
  BY <1>1, <1>2, <1>3, <1>4, <1>5, <1>6, <1>7, <1>8, <1>9, <1>10, <1>11,
     <1>12, <1>13 DEF Next, ClientStep, BrokerStep

\* The state of mqtt_thread, of the connection and of the broker always has
\* the declared types.
THEOREM Typing == Spec => []TypeOK
<1>1. TypeInv => TypeOK
  BY DEF TypeInv
<1>2. QED
  BY <1>1, TypeInit, TypeNext, PTL DEF Spec

-----------------------------------------------------------------------------
\* At most once.  A PUBREL can only meet the buffer of its own message, or an
\* empty one (SlotMatches), nothing follows it that would fill the buffer with
\* that message again (ReleaseOrder), and until it is taken the message has
\* not been acted on (NotYetHandled).

OnlyForwarded ==
  /\ \A m \in Message : session[m] = 0 => handled[m] = 0
  /\ \A i \in 1..Len(toClient) :
       toClient[i].type = "PUBLISH" => session[toClient[i].msg] # 0
  /\ \A p \in PacketId :
       exchange[p].phase # "unused" => session[exchange[p].msg] # 0
  /\ slot.valid => slot.msg \in Message /\ session[slot.msg] # 0

OneExchange ==
  \A p, q \in PacketId :
    /\ exchange[p].phase # "unused" /\ exchange[q].phase # "unused"
    /\ exchange[p].msg = exchange[q].msg
    => p = q

ReleaseOrder ==
  \A i, j \in 1..Len(toClient) :
    /\ i < j
    /\ toClient[i].type = "PUBREL"
    /\ toClient[j].type = "PUBLISH" /\ QoS(toClient[j].msg) # 0
    => toClient[i].id # toClient[j].id

Received(p) == \E i \in 1..Len(toBroker) : toBroker[i] = Ack("PUBREC", p)

SlotMatches ==
  \A p \in PacketId :
    /\ slot.valid /\ slot.packetid = p
    /\ exchange[p].phase # "unused" /\ QoS(exchange[p].msg) = 2
    /\ exchange[p].phase \in {"rel", "done"} \/ Received(p)
    => slot.msg = exchange[p].msg

NotYetHandled ==
  /\ slot.valid /\ QoS(slot.msg) = 2 => handled[slot.msg] = 0
  /\ \A i \in 1..Len(toClient) :
       toClient[i].type = "PUBLISH" /\ QoS(toClient[i].msg) = 2
         => handled[toClient[i].msg] = 0
  /\ \A p \in PacketId :
       exchange[p].phase = "pub" /\ QoS(exchange[p].msg) = 2
         => handled[exchange[p].msg] = 0

IInv ==
  /\ TypeInv
  /\ OnlyForwarded
  /\ OneExchange
  /\ ReleaseOrder
  /\ SlotMatches
  /\ NotYetHandled
  /\ AtMostOnce

LEMMA SafeInit == Init => IInv
  BY TypeInit, ConstantsAssumption
     DEF Init, IInv, OnlyForwarded, OneExchange, ReleaseOrder, SlotMatches,
         NotYetHandled, AtMostOnce, Unused

\* A step that leaves the buffer, the exchanges and what was handled alone, and
\* at most drops packets.
LEMMA DropStep ==
  ASSUME IInv, TypeInv', UNCHANGED <<slot, handled, exchange, session>>,
         NEW d \in Nat,
         \A i \in 1..Len(toClient') :
           i + d \in 1..Len(toClient) /\ toClient'[i] = toClient[i+d],
         \A p \in PacketId : Received(p)' => Received(p)
  PROVE  IInv'
<1>1. OnlyForwarded'
  BY DEF IInv, OnlyForwarded
<1>2. OneExchange'
  BY DEF IInv, OneExchange
<1>3. ReleaseOrder'
  <2>1. SUFFICES ASSUME NEW i \in 1..Len(toClient'), NEW j \in 1..Len(toClient'),
                        i < j, toClient'[i].type = "PUBREL",
                        toClient'[j].type = "PUBLISH", QoS(toClient'[j].msg) # 0
                 PROVE  toClient'[i].id # toClient'[j].id
    BY DEF ReleaseOrder
  <2>2. /\ i + d \in 1..Len(toClient) /\ toClient'[i] = toClient[i+d]
        /\ j + d \in 1..Len(toClient) /\ toClient'[j] = toClient[j+d]
    OBVIOUS
  <2>3. i + d < j + d
    BY <2>1
  <2>4. QED
    BY <2>1, <2>2, <2>3 DEF IInv, ReleaseOrder
<1>4. SlotMatches'
  BY DEF IInv, SlotMatches
<1>5. NotYetHandled' /\ AtMostOnce'
  BY DEF IInv, NotYetHandled, AtMostOnce
<1>6. QED
  BY <1>1, <1>2, <1>3, <1>4, <1>5 DEF IInv

\* What reading one packet leaves of the two properties of channel and exchanges.
LEMMA ReadStep ==
  ASSUME IInv, NEW t, Reads(t), UNCHANGED <<exchange, session>>
  PROVE  /\ OneExchange' /\ ReleaseOrder'
         /\ Head(toClient) = toClient[1] /\ Head(toClient) \in Packet
         /\ Head(toClient).type = t
         /\ KnownIn(exchange, Head(toClient))
         /\ 1 \in 1..Len(toClient)
         /\ \A i \in 1..Len(toClient') :
              i + 1 \in 1..Len(toClient) /\ 1 < i + 1 /\ toClient'[i] = toClient[i+1]
<1>1. TypeInv /\ Advances
  BY SameAdvances DEF IInv
<1>2. /\ Head(toClient) = toClient[1] /\ Head(toClient) \in Packet
      /\ KnownIn(exchange, Head(toClient))
      /\ 1 \in 1..Len(toClient)
      /\ \A i \in 1..Len(toClient') :
           i + 1 \in 1..Len(toClient) /\ toClient'[i] = toClient[i+1]
  BY <1>1, TakeFromClient DEF Reads
<1>3. OneExchange'
  BY DEF IInv, OneExchange
<1>4. ReleaseOrder'
  <2>1. SUFFICES ASSUME NEW i \in 1..Len(toClient'), NEW j \in 1..Len(toClient'),
                        i < j, toClient'[i].type = "PUBREL",
                        toClient'[j].type = "PUBLISH", QoS(toClient'[j].msg) # 0
                 PROVE  toClient'[i].id # toClient'[j].id
    BY DEF ReleaseOrder
  <2>2. /\ i + 1 \in 1..Len(toClient) /\ toClient'[i] = toClient[i+1]
        /\ j + 1 \in 1..Len(toClient) /\ toClient'[j] = toClient[j+1]
    BY <1>2
  <2>3. i + 1 < j + 1
    BY <2>1
  <2>4. QED
    BY <2>1, <2>2, <2>3 DEF IInv, ReleaseOrder
<1>5. QED
  BY <1>2, <1>3, <1>4 DEF Reads

\* Acknowledgements other than PUBREC do not count as received.
LEMMA WriteReceived ==
  ASSUME IInv, UNCHANGED exchange, NEW k \in Packet, Write(k), KnownOut(exchange, k)
  PROVE  \A p \in PacketId : Received(p)' => Received(p) \/ k = Ack("PUBREC", p)
  BY WriteKnown DEF IInv, Received, Ack

LEMMA SendElements ==
  ASSUME TypeInv, NEW k \in Packet, Send(k)
  PROVE  /\ \A i \in 1..Len(toClient') :
              \/ i \in 1..Len(toClient) /\ toClient'[i] = toClient[i]
              \/ i = Len(toClient) + 1 /\ toClient'[i] = k
         /\ Len(toClient) \in Nat
  BY AppendElements DEF Send, TypeInv, TypeOK

\* Messages in packets and exchanges are messages.
LEMMA MessagesTyped ==
  ASSUME TypeInv
  PROVE  /\ \A i \in 1..Len(toClient) :
              toClient[i].type = "PUBLISH" => toClient[i].msg \in Message
         /\ \A p \in PacketId : exchange[p].phase # "unused" => exchange[p].msg \in Message
  BY PublishFields, ElementOfSeq DEF TypeInv, TypeOK, ExchangeHasMessage

LEMMA SafeNext == IInv /\ [Next]_vars => IInv'
<1> SUFFICES ASSUME IInv, [Next]_vars PROVE IInv'
  OBVIOUS
<1>0. TypeInv /\ TypeInv'
  BY TypeNext DEF IInv
<1>1. CASE HandlePublish0
  <2> DEFINE m == Head(toClient).msg
  <2>1. PICK id \in AnyId : UserMsgCtl(deliverMessage(m, id))
    BY <1>1 DEF HandlePublish0
  <2>2. UNCHANGED <<exchange, session, toBroker>> /\ QoS(m) = 0 /\ Reads("PUBLISH")
    BY <1>1 DEF HandlePublish0, brokerVars
  <2>3. m \in Message /\ session[m] # 0
    BY <2>2, ReadStep, PublishFields DEF IInv, OnlyForwarded
  <2>4. /\ slot'.valid = FALSE
        /\ \A n \in Message \ {m} : handled'[n] = handled[n]
    BY <1>0, <2>1, <2>3 DEF UserMsgCtl, deliverMessage, TypeInv, TypeOK
  <2>5. OnlyForwarded'
    BY <2>2, <2>3, <2>4, ReadStep DEF IInv, OnlyForwarded
  <2>6. SlotMatches'
    BY <2>4 DEF SlotMatches
  <2>7. NotYetHandled' /\ AtMostOnce'
    BY <1>0, <2>2, <2>4, ReadStep, MessagesTyped DEF IInv, NotYetHandled, AtMostOnce
  <2>8. QED
    BY <1>0, <2>2, <2>5, <2>6, <2>7, ReadStep DEF IInv
<1>2. CASE HandlePublish1
  <2> DEFINE m == Head(toClient).msg
             s == deliverMessage(m, Head(toClient).id)
  <2>1. UNCHANGED <<exchange, session>> /\ QoS(m) = 1 /\ Reads("PUBLISH")
    BY <1>2 DEF HandlePublish1, brokerVars
  <2>2. m \in Message /\ session[m] # 0
    BY <2>1, ReadStep, PublishFields DEF IInv, OnlyForwarded
  <2>3. /\ s.packetid \in PacketId /\ exchange[s.packetid].msg = m
        /\ exchange[s.packetid].phase # "unused" /\ s.msg = m
    BY <2>1, ReadStep DEF KnownIn, deliverMessage
  <2>4. CASE Write(Ack("PUBACK", s.packetid)) /\ UserMsgCtl(s)
    <3>1. /\ slot'.valid = FALSE
          /\ \A n \in Message \ {m} : handled'[n] = handled[n]
      BY <1>0, <2>2, <2>4 DEF UserMsgCtl, deliverMessage, TypeInv, TypeOK
    <3>2. OnlyForwarded'
      BY <2>1, <2>2, <3>1, ReadStep DEF IInv, OnlyForwarded
    <3>3. SlotMatches'
      BY <3>1 DEF SlotMatches
    <3>4. NotYetHandled' /\ AtMostOnce'
      BY <1>0, <2>1, <3>1, ReadStep, MessagesTyped DEF IInv, NotYetHandled, AtMostOnce
    <3>5. QED
      BY <1>0, <2>1, <3>2, <3>3, <3>4, ReadStep DEF IInv
  <2>5. CASE slot' = s /\ UNCHANGED <<toBroker, handled>>
    <3>1. OnlyForwarded'
      BY <2>1, <2>2, <2>3, <2>5, ReadStep DEF IInv, OnlyForwarded
    <3>2. SlotMatches'
      BY <2>1, <2>3, <2>5 DEF SlotMatches, deliverMessage
    <3>3. NotYetHandled' /\ AtMostOnce'
      <4>1. QoS(slot'.msg) # 2
        BY <2>1, <2>3, <2>5
      <4>2. QED
        BY <2>1, <2>5, <4>1, ReadStep DEF IInv, NotYetHandled, AtMostOnce
    <3>4. QED
      BY <1>0, <2>1, <3>1, <3>2, <3>3, ReadStep DEF IInv
  <2>6. QED
    BY <1>2, <2>4, <2>5 DEF HandlePublish1
<1>3. CASE HandlePublish2
  <2> DEFINE m == Head(toClient).msg
             s == deliverMessage(m, Head(toClient).id)
  <2>1. /\ UNCHANGED <<exchange, session, handled>> /\ QoS(m) = 2
        /\ Reads("PUBLISH") /\ slot' = s
    BY <1>3 DEF HandlePublish2, brokerVars
  <2>2. m \in Message /\ session[m] # 0
    BY <2>1, ReadStep, PublishFields DEF IInv, OnlyForwarded
  <2>3. /\ s.packetid \in PacketId /\ exchange[s.packetid].msg = m
        /\ exchange[s.packetid].phase # "unused" /\ s.msg = m
    BY <2>1, ReadStep DEF KnownIn, deliverMessage
  <2>4. OnlyForwarded'
    BY <2>1, <2>2, <2>3, ReadStep DEF IInv, OnlyForwarded
  <2>5. SlotMatches'
    BY <2>1, <2>3 DEF SlotMatches
  <2>6. handled[m] = 0
    BY <2>1, <2>2, ReadStep DEF IInv, NotYetHandled
  <2>7. NotYetHandled' /\ AtMostOnce'
    BY <2>1, <2>3, <2>6, ReadStep DEF IInv, NotYetHandled, AtMostOnce
  <2>8. QED
    BY <1>0, <2>1, <2>4, <2>5, <2>7, ReadStep DEF IInv
<1>4. CASE HandlePubrel
  <2> DEFINE p == Head(toClient).id
             m == slot.msg
  <2>1. UNCHANGED <<exchange, session>> /\ Reads("PUBREL")
    BY <1>4 DEF HandlePubrel, brokerVars
  <2>2. /\ p \in PacketId /\ exchange[p].phase \in {"rel", "done"}
        /\ QoS(exchange[p].msg) = 2
    BY <2>1, ReadStep, AckFields DEF KnownIn
  <2>3. CASE p = slot.packetid /\ slot.valid
    <3>1. UserMsgCtl(slot) /\ Write(Ack("PUBCOMP", p))
      BY <1>4, <2>3 DEF HandlePubrel
    <3>2. m = exchange[p].msg /\ m \in Message /\ session[m] # 0 /\ QoS(m) = 2
      BY <2>2, <2>3 DEF IInv, SlotMatches, OnlyForwarded
    <3>3. handled[m] = 0
      BY <2>3, <3>2 DEF IInv, NotYetHandled
    <3>4. /\ slot'.valid = FALSE
          /\ \A n \in Message \ {m} : handled'[n] = handled[n]
          /\ handled'[m] \in {0, 1}
      <4>1. slot'.valid = FALSE
        BY <1>0, <3>1 DEF UserMsgCtl, TypeInv, TypeOK, Slot
      <4>2. CASE m \in Long
        BY <1>0, <3>1, <3>2, <3>3, <4>1, <4>2 DEF UserMsgCtl, TypeInv, TypeOK
      <4>3. CASE m \notin Long
        BY <3>1, <3>3, <4>1, <4>3 DEF UserMsgCtl
      <4>4. QED
        BY <4>2, <4>3
    <3>5. OnlyForwarded'
      BY <2>1, <3>2, <3>4, ReadStep DEF IInv, OnlyForwarded
    <3>6. SlotMatches'
      BY <3>4 DEF SlotMatches
    <3>7. ASSUME NEW i \in 1..Len(toClient'),
                 toClient'[i].type = "PUBLISH", toClient'[i].msg = m
          PROVE  FALSE
      <4>1. /\ i + 1 \in 1..Len(toClient) /\ 1 < i + 1 /\ 1 \in 1..Len(toClient)
            /\ toClient[i+1].type = "PUBLISH" /\ toClient[i+1].msg = m
            /\ toClient[1].type = "PUBREL" /\ toClient[1].id = p
        BY <2>1, <3>7, ReadStep
      <4>2. KnownIn(exchange, toClient[i+1])
        BY <1>0, <4>1 DEF TypeInv, ToClientKnown
      <4>3. /\ toClient[i+1].id \in PacketId /\ exchange[toClient[i+1].id].msg = m
            /\ exchange[toClient[i+1].id].phase # "unused"
        BY <3>2, <4>1, <4>2 DEF KnownIn
      <4>4. toClient[i+1].id = p
        BY <2>2, <3>2, <4>3 DEF IInv, OneExchange
      <4>5. QED
        BY <3>2, <4>1, <4>4 DEF IInv, ReleaseOrder
    <3>8. \A q \in PacketId : exchange[q].phase = "pub" => exchange[q].msg # m
      BY <2>2, <3>2 DEF IInv, OneExchange
    <3>9. NotYetHandled'
      BY <1>0, <2>1, <3>4, <3>7, <3>8, ReadStep, MessagesTyped
         DEF IInv, NotYetHandled
    <3>10. AtMostOnce'
      BY <3>4 DEF IInv, AtMostOnce
    <3>11. QED
      BY <1>0, <2>1, <3>5, <3>6, <3>9, <3>10, ReadStep DEF IInv
  <2>4. CASE ~(p = slot.packetid /\ slot.valid)
    <3>1. UNCHANGED <<slot, handled>>
      BY <1>4, <2>4 DEF HandlePubrel
    <3>2. \A q \in PacketId : Received(q)' => Received(q)
      <4>1. CASE p = slot.packetid
        <5>1. Ack("PUBCOMP", p) \in Packet /\ KnownOut(exchange, Ack("PUBCOMP", p))
          BY <2>2, PacketsTyped DEF Ack, KnownOut
        <5>2. Write(Ack("PUBCOMP", p))
          BY <1>4, <4>1 DEF HandlePubrel
        <5>3. QED
          BY <2>1, <5>1, <5>2, WriteReceived DEF Ack
      <4>2. CASE p # slot.packetid
        BY <1>4, <4>2 DEF HandlePubrel, Received
      <4>3. QED
        BY <4>1, <4>2
    <3>3. QED
      BY <1>0, <2>1, <3>1, <3>2, ReadStep, DropStep
  <2>5. QED
    BY <2>3, <2>4
<1>5. CASE PingReq
  <2>1. /\ UNCHANGED <<slot, handled, exchange, session, toClient>>
        /\ Write(PingPacket("PINGREQ"))
    BY <1>5 DEF PingReq, brokerVars
  <2>2. PingPacket("PINGREQ") \in Packet /\ KnownOut(exchange, PingPacket("PINGREQ"))
    BY PacketsTyped DEF PingPacket, KnownOut
  <2>3. \A q \in PacketId : Received(q)' => Received(q)
    <3>1. \A q \in PacketId : PingPacket("PINGREQ") # Ack("PUBREC", q)
      BY DEF PingPacket, Ack
    <3>2. QED
      BY <2>1, <2>2, <3>1, WriteReceived
  <2>4. \A i \in 1..Len(toClient') :
          i + 0 \in 1..Len(toClient) /\ toClient'[i] = toClient[i+0]
    BY <2>1
  <2>5. QED
    BY <1>0, <2>1, <2>3, <2>4, DropStep
<1>6. CASE PingRead
  <2>1. UNCHANGED <<slot, handled, exchange, session, toBroker>>
    BY <1>6 DEF PingRead, brokerVars
  <2>2. \A i \in 1..Len(toClient') :
          i + 1 \in 1..Len(toClient) /\ toClient'[i] = toClient[i+1]
    BY <1>0, <1>6, TailElements DEF PingRead, TypeInv, TypeOK
  <2>3. QED
    BY <1>0, <2>1, <2>2, DropStep DEF Received
<1>7. CASE PingTimeout
  <2>1. UNCHANGED <<slot, handled, exchange, session, toClient, toBroker>>
    BY <1>7 DEF PingTimeout, brokerVars
  <2>2. \A i \in 1..Len(toClient') :
          i + 0 \in 1..Len(toClient) /\ toClient'[i] = toClient[i+0]
    BY <2>1
  <2>3. QED
    BY <1>0, <2>1, <2>2, DropStep DEF Received
<1>8. CASE Reconnect
  <2>1. /\ UNCHANGED <<slot, handled, session>>
        /\ exchange' = [p \in PacketId |-> Unused]
        /\ toClient' = << >> /\ toBroker' = << >>
    BY <1>8 DEF Reconnect
  <2>2. \A p \in PacketId : exchange'[p].phase = "unused"
    BY <2>1 DEF Unused
  <2>3. OnlyForwarded' /\ OneExchange' /\ ReleaseOrder' /\ SlotMatches'
    BY <2>1, <2>2 DEF IInv, OnlyForwarded, OneExchange, ReleaseOrder, SlotMatches
  <2>4. AtMostOnce' /\ Len(toClient') = 0
    BY <2>1 DEF IInv, AtMostOnce
  <2>5. NotYetHandled'
    BY <2>1, <2>2, <2>4 DEF IInv, NotYetHandled
  <2>6. QED
    BY <1>0, <2>3, <2>4, <2>5 DEF IInv
<1>9. ASSUME NEW m \in Message, Forward(m) PROVE IInv'
  <2>1. /\ UNCHANGED <<slot, handled, toBroker>> /\ session[m] = 0
        /\ session' = [session EXCEPT ![m] = epoch] /\ epoch # 0
    BY <1>0, <1>9 DEF Forward, clientVars, TypeInv, TypeOK
  <2>2. /\ session'[m] # 0 /\ \A n \in Message : session[n] # 0 => session'[n] # 0
        /\ \A n \in Message : session'[n] = 0 => session[n] = 0
    BY <1>0, <2>1 DEF TypeInv, TypeOK
  <2>3. handled[m] = 0 /\ AtMostOnce'
    BY <2>1 DEF IInv, OnlyForwarded, AtMostOnce
  <2>4. CASE QoS(m) = 0 /\ Send(Publish(m, OtherId)) /\ UNCHANGED exchange
    <3> DEFINE k == Publish(m, OtherId)
    <3>1. k \in Packet /\ k.type = "PUBLISH" /\ k.msg = m
      BY PacketsTyped DEF Publish, AnyId
    <3>2. /\ \A i \in 1..Len(toClient') :
               \/ i \in 1..Len(toClient) /\ toClient'[i] = toClient[i]
               \/ i = Len(toClient) + 1 /\ toClient'[i] = k
          /\ Len(toClient) \in Nat
      BY <1>0, <2>4, <3>1, SendElements
    <3>3. OnlyForwarded'
      BY <1>0, <2>1, <2>2, <2>4, <3>1, <3>2, MessagesTyped DEF IInv, OnlyForwarded
    <3>4. OneExchange' /\ SlotMatches'
      BY <2>1, <2>4 DEF IInv, OneExchange, SlotMatches, Received
    <3>5. ReleaseOrder'
      BY <2>4, <3>1, <3>2 DEF IInv, ReleaseOrder
    <3>6. NotYetHandled'
      BY <2>1, <2>4, <3>1, <3>2 DEF IInv, NotYetHandled
    <3>7. QED
      BY <1>0, <2>3, <3>3, <3>4, <3>5, <3>6 DEF IInv
  <2>5. ASSUME QoS(m) > 0, NEW p \in PacketId, exchange[p] = Unused,
               exchange' = [exchange EXCEPT ![p] = [phase |-> "pub", msg |-> m]],
               Send(Publish(m, p))
        PROVE  IInv'
    <3> DEFINE k == Publish(m, p)
    <3>1. k \in Packet /\ k.type = "PUBLISH" /\ k.msg = m /\ k.id = p
      BY PacketsTyped DEF Publish, AnyId
    <3>2. /\ \A i \in 1..Len(toClient') :
               \/ i \in 1..Len(toClient) /\ toClient'[i] = toClient[i]
               \/ i = Len(toClient) + 1 /\ toClient'[i] = k
          /\ Len(toClient) \in Nat
      BY <1>0, <2>5, <3>1, SendElements
    <3>3. /\ exchange[p].phase = "unused"
          /\ exchange'[p].phase = "pub" /\ exchange'[p].msg = m
          /\ \A q \in PacketId \ {p} : exchange'[q] = exchange[q]
      BY <1>0, <2>5 DEF TypeInv, TypeOK, Unused
    <3>4. \A q \in PacketId : exchange[q].phase # "unused" => exchange[q].msg # m
      BY <2>1 DEF IInv, OnlyForwarded
    <3>5. OnlyForwarded'
      BY <1>0, <2>1, <2>2, <3>1, <3>2, <3>3, MessagesTyped DEF IInv, OnlyForwarded
    <3>6. OneExchange'
      BY <3>3, <3>4 DEF IInv, OneExchange
    <3>7. ReleaseOrder'
      <4>1. \A i \in 1..Len(toClient) :
              toClient[i].type = "PUBREL" => toClient[i].id # p
        BY <1>0, <3>3 DEF TypeInv, ToClientKnown, KnownIn
      <4>2. QED
        BY <3>1, <3>2, <4>1 DEF IInv, ReleaseOrder
    <3>8. SlotMatches'
      <4>1. ~Received(p)
        BY <1>0, <3>3 DEF TypeInv, ToBrokerKnown, KnownOut, Received, Ack
      <4>2. QED
        BY <2>1, <3>3, <4>1 DEF IInv, SlotMatches, Received
    <3>9. NotYetHandled'
      BY <2>1, <2>3, <3>1, <3>2, <3>3 DEF IInv, NotYetHandled
    <3>10. QED
      BY <1>0, <2>3, <3>5, <3>6, <3>7, <3>8, <3>9 DEF IInv
  <2>6. QED
    BY <1>9, <2>4, <2>5 DEF Forward
<1>10. ASSUME NEW p \in PacketId, Retransmit(p) PROVE IInv'
  <2>1. UNCHANGED <<slot, handled, toBroker, exchange, session>>
    BY <1>10 DEF Retransmit, clientVars
  <2>2. PICK k \in Packet :
          /\ Send(k)
          /\ \/ /\ k.type = "PUBLISH" /\ k.id = p /\ k.msg = exchange[p].msg
                /\ exchange[p].phase = "pub"
             \/ k.type = "PUBREL"
    <3>1. CASE exchange[p].phase = "pub" /\ Send(Publish(exchange[p].msg, p))
      BY <1>0, <3>1, PacketsTyped DEF TypeInv, ExchangeHasMessage, AnyId, Publish
    <3>2. CASE exchange[p].phase = "rel" /\ Send(Ack("PUBREL", p))
      BY <3>2, PacketsTyped DEF Ack
    <3>3. QED
      BY <1>10, <3>1, <3>2 DEF Retransmit
  <2>3. /\ \A i \in 1..Len(toClient') :
             \/ i \in 1..Len(toClient) /\ toClient'[i] = toClient[i]
             \/ i = Len(toClient) + 1 /\ toClient'[i] = k
        /\ Len(toClient) \in Nat
    BY <1>0, <2>2, AppendElements DEF Send, TypeInv, TypeOK
  <2>4. k.type = "PUBLISH" =>
          /\ exchange[p] = [phase |-> "pub", msg |-> k.msg]
          /\ k.msg \in Message /\ session[k.msg] # 0
    BY <1>0, <2>2 DEF IInv, OnlyForwarded, TypeInv, TypeOK, Exchange, ExchangeHasMessage
  <2>5. OnlyForwarded' /\ OneExchange' /\ SlotMatches' /\ AtMostOnce'
    BY <2>1, <2>3, <2>4
       DEF IInv, OnlyForwarded, OneExchange, SlotMatches, Received, AtMostOnce
  <2>6. ReleaseOrder'
    <3>1. k.type = "PUBLISH" =>
            \A i \in 1..Len(toClient) : toClient[i].type = "PUBREL" => toClient[i].id # p
      BY <1>0, <2>2 DEF TypeInv, ToClientKnown, KnownIn
    <3>2. QED
      BY <2>2, <2>3, <3>1 DEF IInv, ReleaseOrder
  <2>7. NotYetHandled'
    BY <2>1, <2>2, <2>3, <2>4 DEF IInv, NotYetHandled
  <2>8. QED
    BY <1>0, <2>5, <2>6, <2>7 DEF IInv
<1>11. CASE BrokerReceive
  <2> DEFINE b == Head(toBroker)
  <2>1. /\ UNCHANGED <<slot, handled, session>> /\ toBroker # << >>
        /\ toBroker' = Tail(toBroker)
    BY <1>11 DEF BrokerReceive, clientVars
  <2>2. /\ b \in Packet /\ KnownOut(exchange, b)
        /\ b = toBroker[1] /\ 1 \in 1..Len(toBroker)
    BY <1>0, <2>1, BrokerHead
  <2>3. \A q \in PacketId : Received(q)' => Received(q)
    BY <1>0, <2>1, TailElements DEF Received, TypeInv, TypeOK
  <2>4. CASE UNCHANGED <<exchange, toClient>>
    <3>1. \A i \in 1..Len(toClient') :
            i + 0 \in 1..Len(toClient) /\ toClient'[i] = toClient[i+0]
      BY <2>4
    <3>2. QED
      BY <1>0, <2>1, <2>3, <2>4, <3>1, DropStep
  <2>5. CASE b.type \in {"PUBACK", "PUBCOMP"} /\ SetPhase(b.id, "done") /\ UNCHANGED toClient
    <3> DEFINE p == b.id
    <3>1. /\ p \in PacketId /\ exchange[p].phase # "unused"
          /\ QoS(exchange[p].msg) = 2 => exchange[p].phase \in {"rel", "done"}
      BY <2>2, <2>5, AckFields DEF KnownOut
    <3>2. /\ exchange'[p] = [phase |-> "done", msg |-> exchange[p].msg]
          /\ \A q \in PacketId \ {p} : exchange'[q] = exchange[q]
      BY <1>0, <2>5, <3>1, SetPhaseAdvances
    <3>3. OnlyForwarded' /\ OneExchange' /\ AtMostOnce'
      BY <2>1, <2>5, <3>1, <3>2 DEF IInv, OnlyForwarded, OneExchange, AtMostOnce
    <3>4. ReleaseOrder'
      BY <2>5 DEF IInv, ReleaseOrder
    <3>5. SlotMatches'
      BY <2>1, <2>3, <3>1, <3>2 DEF IInv, SlotMatches
    <3>6. NotYetHandled'
      BY <2>1, <2>5, <3>2 DEF IInv, NotYetHandled
    <3>7. QED
      BY <1>0, <3>3, <3>4, <3>5, <3>6 DEF IInv
  <2>6. CASE b.type = "PUBREC" /\ SetPhase(b.id, "rel") /\ Send(Ack("PUBREL", b.id))
    <3> DEFINE p == b.id
    <3>1. /\ p \in PacketId /\ exchange[p].phase # "unused"
          /\ QoS(exchange[p].msg) = 2 /\ b = Ack("PUBREC", p)
      BY <2>2, <2>6, AckFields DEF KnownOut, Packet, Ack
    <3>2. Received(p)
      BY <2>2, <3>1 DEF Received
    <3>3. /\ exchange'[p] = [phase |-> "rel", msg |-> exchange[p].msg]
          /\ \A q \in PacketId \ {p} : exchange'[q] = exchange[q]
      BY <1>0, <2>6, <3>1, SetPhaseAdvances
    <3>4. /\ \A i \in 1..Len(toClient') :
               \/ i \in 1..Len(toClient) /\ toClient'[i] = toClient[i]
               \/ i = Len(toClient) + 1 /\ toClient'[i].type = "PUBREL"
          /\ Len(toClient) \in Nat
      BY <1>0, <2>6, <3>1, AppendElements, PacketsTyped DEF Send, TypeInv, TypeOK, Ack
    <3>5. OnlyForwarded' /\ OneExchange' /\ AtMostOnce'
      BY <2>1, <3>1, <3>3, <3>4 DEF IInv, OnlyForwarded, OneExchange, AtMostOnce
    <3>6. ReleaseOrder'
      BY <3>4 DEF IInv, ReleaseOrder
    <3>7. SlotMatches'
      BY <2>1, <2>3, <3>1, <3>2, <3>3 DEF IInv, SlotMatches
    <3>8. NotYetHandled'
      BY <2>1, <3>3, <3>4 DEF IInv, NotYetHandled
    <3>9. QED
      BY <1>0, <3>5, <3>6, <3>7, <3>8 DEF IInv
  <2>7. CASE Send(PingPacket("PINGRESP")) /\ UNCHANGED exchange
    <3>1. /\ \A i \in 1..Len(toClient') :
               \/ i \in 1..Len(toClient) /\ toClient'[i] = toClient[i]
               \/ i = Len(toClient) + 1 /\ toClient'[i].type = "PINGRESP"
          /\ Len(toClient) \in Nat
      BY <1>0, <2>7, AppendElements, PacketsTyped DEF Send, TypeInv, TypeOK, PingPacket
    <3>2. OnlyForwarded' /\ OneExchange' /\ AtMostOnce'
      BY <2>1, <2>7, <3>1 DEF IInv, OnlyForwarded, OneExchange, AtMostOnce
    <3>3. ReleaseOrder'
      BY <3>1 DEF IInv, ReleaseOrder
    <3>4. SlotMatches'
      BY <2>1, <2>3, <2>7 DEF IInv, SlotMatches
    <3>5. NotYetHandled'
      BY <2>1, <2>7, <3>1 DEF IInv, NotYetHandled
    <3>6. QED
      BY <1>0, <3>2, <3>3, <3>4, <3>5 DEF IInv
  <2>8. QED
    BY <1>11, <2>4, <2>5, <2>6, <2>7 DEF BrokerReceive
<1>12. CASE Break
  <2>1. PICK n \in 0..Len(toClient) : toClient' = SubSeq(toClient, 1, n)
    BY <1>12 DEF Break
  <2>2. UNCHANGED <<slot, handled, exchange, session>> /\ toBroker' = << >>
    BY <1>12 DEF Break, clientVars, brokerVars
  <2>3. \A i \in 1..Len(toClient') :
          i + 0 \in 1..Len(toClient) /\ toClient'[i] = toClient[i+0]
    BY <1>0, <2>1, SubSeqProperties, LenProperties DEF TypeInv, TypeOK
  <2>4. \A q \in PacketId : ~Received(q)'
    BY <2>2 DEF Received
  <2>5. QED
    BY <1>0, <2>2, <2>3, <2>4, DropStep
<1>13. CASE UNCHANGED vars
  <2>1. UNCHANGED <<slot, handled, exchange, session, toClient, toBroker>>
    BY <1>13 DEF vars
  <2>2. \A i \in 1..Len(toClient') :
          i + 0 \in 1..Len(toClient) /\ toClient'[i] = toClient[i+0]
    BY <2>1
  <2>3. QED
    BY <1>0, <2>1, <2>2, DropStep DEF Received
<1>14. QED
  BY <1>1, <1>2, <1>3, <1>4, <1>5, <1>6, <1>7, <1>8, <1>9, <1>10, <1>11,
     <1>12, <1>13 DEF Next, ClientStep, BrokerStep

\* A message forwarded at QoS 2 is acted on at most once (mqtt_pktype_ctl's
\* test of mqtt_user_msg.valid), for any messages, identifiers, window and
\* number of retransmissions, broken connections and sessions.
THEOREM AtMostOnceTheorem == Spec => []AtMostOnce
<1>1. IInv => AtMostOnce
  BY DEF IInv
<1>2. QED
  BY <1>1, SafeInit, SafeNext, PTL DEF Spec

-----------------------------------------------------------------------------
\* Implementation of MqttDelivery.

\* UserMsgCtl on a forwarded message is Handle, or nothing for a short one.
LEMMA UserMsgCtlImplements ==
  ASSUME TypeInv, NEW s, s.msg \in Message, session[s.msg] # 0, UserMsgCtl(s),
         QoS(s.msg) = 2 => handled[s.msg] = 0, UNCHANGED session
  PROVE  [Delivery!Next]_Delivery!vars
<1>1. CASE s.msg \in Long
  <2>1. Delivery!Handle(s.msg)
    BY <1>1 DEF UserMsgCtl, Delivery!Handle
  <2>2. QED
    BY <2>1 DEF Delivery!Next
<1>2. CASE s.msg \notin Long
  BY <1>2 DEF UserMsgCtl, Delivery!vars
<1>3. QED
  BY <1>1, <1>2

LEMMA ImplementsInit == Init => Delivery!Init
  BY DEF Init, Delivery!Init

LEMMA ImplementsNext == IInv /\ [Next]_vars => [Delivery!Next]_Delivery!vars
<1> SUFFICES ASSUME IInv, [Next]_vars PROVE [Delivery!Next]_Delivery!vars
  OBVIOUS
<1>0. TypeInv
  BY DEF IInv
<1>1. CASE HandlePublish0
  <2> DEFINE m == Head(toClient).msg
  <2>1. PICK id \in AnyId : UserMsgCtl(deliverMessage(m, id))
    BY <1>1 DEF HandlePublish0
  <2>2. UNCHANGED <<exchange, session>> /\ QoS(m) = 0 /\ Reads("PUBLISH")
    BY <1>1 DEF HandlePublish0, brokerVars
  <2>3. m \in Message /\ session[m] # 0
    BY <2>2, ReadStep, PublishFields DEF IInv, OnlyForwarded
  <2>4. deliverMessage(m, id).msg = m
    BY DEF deliverMessage
  <2>5. QED
    BY <1>0, <2>1, <2>2, <2>3, <2>4, UserMsgCtlImplements
<1>2. CASE HandlePublish1
  <2> DEFINE m == Head(toClient).msg
             s == deliverMessage(m, Head(toClient).id)
  <2>1. UNCHANGED <<exchange, session>> /\ QoS(m) = 1 /\ Reads("PUBLISH")
    BY <1>2 DEF HandlePublish1, brokerVars
  <2>2. m \in Message /\ session[m] # 0 /\ s.msg = m
    BY <2>1, ReadStep, PublishFields DEF IInv, OnlyForwarded, deliverMessage
  <2>3. CASE UserMsgCtl(s)
    BY <1>0, <2>1, <2>2, <2>3, UserMsgCtlImplements
  <2>4. CASE UNCHANGED handled
    BY <2>1, <2>4 DEF Delivery!vars
  <2>5. QED
    BY <1>2, <2>3, <2>4 DEF HandlePublish1
<1>3. CASE HandlePubrel
  <2>1. UNCHANGED <<exchange, session>> /\ Reads("PUBREL")
    BY <1>3 DEF HandlePubrel, brokerVars
  <2>2. CASE slot.valid /\ UserMsgCtl(slot)
    BY <1>0, <2>1, <2>2, UserMsgCtlImplements
       DEF IInv, OnlyForwarded, NotYetHandled
  <2>3. CASE UNCHANGED handled
    BY <2>1, <2>3 DEF Delivery!vars
  <2>4. QED
    BY <1>3, <2>2, <2>3 DEF HandlePubrel
<1>4. ASSUME NEW m \in Message, Forward(m) PROVE [Delivery!Next]_Delivery!vars
  <2>1. /\ session[m] = 0 /\ session' = [session EXCEPT ![m] = epoch]
        /\ epoch # 0 /\ UNCHANGED handled /\ session \in [Message -> Nat]
    BY <1>0, <1>4 DEF Forward, clientVars, TypeInv, TypeOK
  <2>2. {n \in Message : session'[n] # 0} = {n \in Message : session[n] # 0} \cup {m}
    BY <2>1
  <2>3. Delivery!Forward(m)
    BY <2>1, <2>2 DEF Delivery!Forward
  <2>4. QED
    BY <2>3 DEF Delivery!Next
<1>5. CASE UNCHANGED <<handled, session>>
  BY <1>5 DEF Delivery!vars
<1>6. CASE HandlePublish2 \/ PingReq \/ PingRead \/ PingTimeout \/ Reconnect
  <2>1. UNCHANGED <<handled, session>>
    BY <1>6 DEF HandlePublish2, PingReq, PingRead, PingTimeout, Reconnect, brokerVars
  <2>2. QED
    BY <1>5, <2>1
<1>7. CASE (\E p \in PacketId : Retransmit(p)) \/ BrokerReceive \/ Break \/ UNCHANGED vars
  <2>1. UNCHANGED <<handled, session>>
    BY <1>7 DEF Retransmit, BrokerReceive, Break, vars, clientVars, brokerVars
  <2>2. QED
    BY <1>5, <2>1
<1>8. QED
  BY <1>1, <1>2, <1>3, <1>4, <1>6, <1>7 DEF Next, ClientStep, BrokerStep

\* The receiver does what MqttDelivery promises: the application acts only on
\* messages the broker has forwarded, and on a QoS 2 message at most once.
THEOREM ImplementsDeliveryTheorem == Spec => ImplementsDelivery
<1>1. IInv /\ [Next]_vars => [Delivery!Next]_Delivery!vars
  BY ImplementsNext
<1>2. QED
  BY <1>1, ImplementsInit, SafeInit, SafeNext, PTL
     DEF Spec, ImplementsDelivery, Delivery!Spec
-----------------------------------------------------------------------------
\* What an acknowledgement says.  The client acknowledges a released message only when
\* it acts on it, or finds the buffer empty under the message's identifier, which is so
\* after it has acted on it (SlotKept).  Once it has, nothing that is still to arrive
\* fills the buffer under that identifier again (Finishing).

\* The message has been acted on, unless something else was in the buffer.
Settled(m) == m \in Long => handled[m] > 0 \/ BufferShared

Sent(t, p) == \E i \in 1..Len(toBroker) : toBroker[i] = Ack(t, p)
InExchange(p, qos) == exchange[p].phase # "unused" /\ QoS(exchange[p].msg) = qos

\* A PUBLISH with that identifier is on its way to the client.
Coming(p) ==
  \E i \in 1..Len(toClient) :
    toClient[i].type = "PUBLISH" /\ QoS(toClient[i].msg) # 0 /\ toClient[i].id = p

AckSettled ==
  \A p \in PacketId :
    /\ exchange[p].phase # "unused"
    /\ exchange[p].phase = "done" \/ Sent("PUBACK", p) \/ Sent("PUBCOMP", p)
    => Settled(exchange[p].msg)

SlotKept ==
  \A p \in PacketId :
    /\ InExchange(p, 2) /\ slot.packetid = p
    /\ exchange[p].phase \in {"rel", "done"} \/ Received(p)
    => slot.valid \/ Settled(exchange[p].msg)

Finishing ==
  \A p \in PacketId :
    /\ InExchange(p, 2)
    /\ exchange[p].phase = "done" \/ Sent("PUBCOMP", p)
    => ~(slot.valid /\ slot.packetid = p) /\ ~Coming(p)

AckInv == AckSettled /\ SlotKept /\ Finishing

LEMMA AckInit == Init => AckInv
  BY DEF Init, AckInv, AckSettled, SlotKept, Finishing, InExchange, Unused

\* Sent and Received where the client writes one packet, and where the broker reads one.
LEMMA WriteSent ==
  ASSUME IInv, UNCHANGED exchange, NEW k \in Packet, Write(k), KnownOut(exchange, k)
  PROVE  /\ \A t, p : Sent(t, p)' => Sent(t, p) \/ k = Ack(t, p)
         /\ \A p : Received(p)' => Received(p) \/ k = Ack("PUBREC", p)
  BY WriteKnown DEF IInv, Sent, Received

LEMMA BrokerReadSent ==
  ASSUME TypeInv, toBroker # << >>, toBroker' = Tail(toBroker)
  PROVE  /\ \A t, p : Sent(t, p)' => Sent(t, p)
         /\ \A p : Received(p)' => Received(p)
         /\ \A t, p : Head(toBroker) = Ack(t, p) => Sent(t, p)
         /\ \A p : Head(toBroker) = Ack("PUBREC", p) => Received(p)
  BY TailElements DEF TypeInv, TypeOK, Sent, Received

\* What the client has acted on stays acted on.
Grows ==
  /\ \A m \in Message : handled[m] > 0 => handled'[m] > 0
  /\ \A m \in Message : session[m] # 0 => session'[m] # 0

LEMMA SettledGrows ==
  ASSUME Grows, NEW m \in Message, Settled(m)
  PROVE  Settled(m)'
  BY DEF Grows, Settled, BufferShared

LEMMA UserMsgCtlGrows ==
  ASSUME TypeInv, NEW s, UserMsgCtl(s), s.msg \in Message, UNCHANGED session
  PROVE  Grows /\ (s.msg \in Long => handled'[s.msg] > 0)
  BY DEF TypeInv, TypeOK, UserMsgCtl, Grows

LEMMA ReadComing ==
  ASSUME IInv, NEW t, Reads(t), UNCHANGED <<exchange, session>>
  PROVE  \A p : Coming(p)' => Coming(p)
<1>1. \A i \in 1..Len(toClient') : i + 1 \in 1..Len(toClient) /\ toClient'[i] = toClient[i+1]
  BY ReadStep
<1>2. QED
  BY <1>1 DEF Coming

\* A step that leaves the buffer and the exchanges alone and adds no acknowledgement and
\* no PUBLISH.
LEMMA QuietStep ==
  ASSUME IInv, AckInv, UNCHANGED <<slot, exchange>>, Grows,
         \A p : Coming(p)' => Coming(p),
         \A t, p : Sent(t, p)' => Sent(t, p),
         \A p : Received(p)' => Received(p)
  PROVE  AckInv'
<1>1. \A p \in PacketId :
        exchange[p].phase # "unused" /\ Settled(exchange[p].msg) => Settled(exchange[p].msg)'
  BY SettledGrows, MessagesTyped DEF IInv
<1>2. AckSettled'
  BY <1>1 DEF AckInv, AckSettled
<1>3. SlotKept'
  BY <1>1 DEF AckInv, SlotKept, InExchange
<1>4. Finishing'
  BY DEF AckInv, Finishing, InExchange
<1>5. QED
  BY <1>2, <1>3, <1>4 DEF AckInv

LEMMA AckPublish0 ==
  ASSUME IInv, AckInv, HandlePublish0
  PROVE  AckInv'
<1> DEFINE m == Head(toClient).msg
<1>1. PICK id \in AnyId : UserMsgCtl(deliverMessage(m, id))
  BY DEF HandlePublish0
<1>2. UNCHANGED <<exchange, session, toBroker>> /\ QoS(m) = 0 /\ Reads("PUBLISH")
  BY DEF HandlePublish0, brokerVars
<1>3. m \in Message /\ session[m] # 0
  BY <1>2, ReadStep, PublishFields DEF IInv, OnlyForwarded
<1>4. (m \in Long => handled'[m] > 0) /\ slot'.valid = FALSE
  BY <1>1, <1>2, <1>3, UserMsgCtlGrows DEF IInv, deliverMessage, UserMsgCtl
<1>5. BufferShared'
  BY <1>2, <1>3, <1>4 DEF BufferShared
<1>6. \A p : Coming(p)' => Coming(p)
  BY <1>2, ReadComing
<1>7. AckSettled' /\ SlotKept'
  BY <1>5 DEF AckSettled, SlotKept, Settled
<1>8. Finishing'
  BY <1>2, <1>4, <1>6 DEF AckInv, Finishing, InExchange, Sent
<1>9. QED
  BY <1>7, <1>8 DEF AckInv

LEMMA AckPublish1 ==
  ASSUME IInv, AckInv, HandlePublish1
  PROVE  AckInv'
<1> DEFINE m == Head(toClient).msg
           p == Head(toClient).id
           s == deliverMessage(m, p)
<1>1. UNCHANGED <<exchange, session>> /\ QoS(m) = 1 /\ Reads("PUBLISH")
  BY DEF HandlePublish1, brokerVars
<1>2. /\ m \in Message /\ p \in PacketId /\ s.msg = m /\ s.packetid = p
      /\ exchange[p].msg = m /\ exchange[p].phase # "unused"
  BY <1>1, ReadStep, PublishFields DEF KnownIn, deliverMessage
<1>3. ~InExchange(p, 2)
  BY <1>1, <1>2 DEF InExchange
<1>4. Grows /\ slot'.packetid = p
      /\ \/ \A t, q : Sent(t, q)' => Sent(t, q)
         \/ /\ \A t, q : Sent(t, q)' => Sent(t, q) \/ (t = "PUBACK" /\ q = p)
            /\ m \in Long => handled'[m] > 0
  <2>1. CASE Write(Ack("PUBACK", p)) /\ UserMsgCtl(s)
    <3>1. Ack("PUBACK", p) \in Packet /\ KnownOut(exchange, Ack("PUBACK", p))
      BY <1>1, <1>2, PacketsTyped DEF KnownOut, Ack
    <3>2. \A t, q : Sent(t, q)' => Sent(t, q) \/ Ack("PUBACK", p) = Ack(t, q)
      BY <1>1, <2>1, <3>1, WriteSent
    <3>3. \A t, q : Ack("PUBACK", p) = Ack(t, q) => t = "PUBACK" /\ q = p
      BY DEF Ack
    <3>4. slot'.packetid = p
      BY <1>2, <2>1 DEF UserMsgCtl, deliverMessage
    <3>5. QED
      BY <1>1, <1>2, <2>1, <3>2, <3>3, <3>4, UserMsgCtlGrows DEF IInv
  <2>2. CASE slot' = s /\ UNCHANGED <<toBroker, handled>>
    BY <1>1, <1>2, <2>2 DEF Grows, Sent
  <2>3. QED
    BY <1>2, <2>1, <2>2 DEF HandlePublish1
<1>5. \A q \in PacketId :
        exchange[q].phase # "unused" /\ Settled(exchange[q].msg) => Settled(exchange[q].msg)'
  BY <1>1, <1>4, SettledGrows, MessagesTyped DEF IInv
<1>6. AckSettled'
  <2>1. SUFFICES ASSUME NEW q \in PacketId, exchange[q].phase # "unused",
                        exchange[q].phase = "done" \/ Sent("PUBACK", q)' \/ Sent("PUBCOMP", q)'
                 PROVE  Settled(exchange[q].msg)'
    BY <1>1 DEF AckSettled
  <2>2. CASE exchange[q].phase = "done" \/ Sent("PUBACK", q) \/ Sent("PUBCOMP", q)
    BY <1>5, <2>1, <2>2 DEF AckInv, AckSettled
  <2>3. CASE q = p /\ (m \in Long => handled'[m] > 0)
    BY <1>1, <1>2, <2>3 DEF Settled
  <2>4. QED
    BY <1>4, <2>1, <2>2, <2>3
<1>7. SlotKept'
  BY <1>1, <1>3, <1>4 DEF SlotKept, InExchange
<1>8. Finishing'
  <2>1. \A q : Coming(q)' => Coming(q)
    BY <1>1, ReadComing
  <2>2. \A q : Sent("PUBCOMP", q)' => Sent("PUBCOMP", q)
    BY <1>4
  <2>3. QED
    BY <1>1, <1>3, <1>4, <2>1, <2>2 DEF AckInv, Finishing, InExchange
<1>9. QED
  BY <1>6, <1>7, <1>8 DEF AckInv

LEMMA AckPublish2 ==
  ASSUME IInv, AckInv, HandlePublish2
  PROVE  AckInv'
<1> DEFINE m == Head(toClient).msg
           p == Head(toClient).id
<1>1. UNCHANGED <<exchange, session, handled>> /\ QoS(m) = 2 /\ Reads("PUBLISH")
      /\ slot' = deliverMessage(m, p) /\ Write(Ack("PUBREC", p))
  BY DEF HandlePublish2, brokerVars, deliverMessage
<1>2. /\ p \in PacketId /\ exchange[p].msg = m /\ exchange[p].phase # "unused"
      /\ slot'.packetid = p /\ slot'.valid
  BY <1>1, ReadStep DEF KnownIn, deliverMessage
<1>3. \A t, q : t # "PUBREC" /\ Sent(t, q)' => Sent(t, q)
  <2>1. Ack("PUBREC", p) \in Packet /\ KnownOut(exchange, Ack("PUBREC", p))
    BY <1>1, <1>2, PacketsTyped DEF KnownOut, Ack
  <2>2. \A t, q : Ack("PUBREC", p) = Ack(t, q) => t = "PUBREC"
    BY DEF Ack
  <2>3. QED
    BY <1>1, <2>1, <2>2, WriteSent
<1>4. Coming(p)
  BY <1>1, ReadStep DEF Coming
<1>5. \A q : Coming(q)' => Coming(q)
  BY <1>1, ReadComing
<1>6. AckSettled'
  BY <1>1, <1>3 DEF AckInv, AckSettled, Settled, BufferShared
<1>7. SlotKept'
  BY <1>2 DEF SlotKept
<1>8. Finishing'
  BY <1>1, <1>2, <1>3, <1>4, <1>5 DEF AckInv, Finishing, InExchange
<1>9. QED
  BY <1>6, <1>7, <1>8 DEF AckInv

\* A PUBREL that meets its own identifier in the buffer settles the message, here or
\* because an earlier one did.
LEMMA PubrelSettles ==
  ASSUME IInv, AckInv, HandlePubrel, NEW p \in PacketId, NEW m \in Message,
         p = Head(toClient).id, p = slot.packetid, m = exchange[p].msg
  PROVE  Grows /\ slot'.valid = FALSE /\ slot'.packetid = p /\ Settled(m)'
<1>1. UNCHANGED <<exchange, session>> /\ Reads("PUBREL")
  BY DEF HandlePubrel, brokerVars
<1>2. exchange[p].phase \in {"rel", "done"} /\ QoS(m) = 2 /\ InExchange(p, 2)
  BY <1>1, ReadStep DEF KnownIn, InExchange
<1>3. CASE slot.valid
  <2>1. UserMsgCtl(slot) /\ slot.msg = m
    BY <1>2, <1>3 DEF HandlePubrel, IInv, SlotMatches
  <2>2. Grows /\ (m \in Long => handled'[m] > 0)
    BY <1>1, <2>1, UserMsgCtlGrows DEF IInv
  <2>3. slot'.valid = FALSE /\ slot'.packetid = p
    BY <2>1 DEF UserMsgCtl, IInv, TypeInv, TypeOK, Slot
  <2>4. QED
    BY <2>2, <2>3 DEF Settled
<1>4. CASE ~slot.valid
  <2>1. UNCHANGED <<slot, handled>>
    BY <1>4 DEF HandlePubrel
  <2>2. Settled(m)
    BY <1>2, <1>4 DEF AckInv, SlotKept
  <2>3. Grows /\ Settled(m)'
    BY <1>1, <2>1, <2>2 DEF Grows, Settled, BufferShared
  <2>4. QED
    BY <1>4, <2>1, <2>3 DEF IInv, TypeInv, TypeOK, Slot
<1>5. QED
  BY <1>3, <1>4

LEMMA AckPubrel ==
  ASSUME IInv, AckInv, HandlePubrel
  PROVE  AckInv'
<1>1. UNCHANGED <<exchange, session>> /\ Reads("PUBREL")
  BY DEF HandlePubrel, brokerVars
<1>2. PICK p \in PacketId, m \in Message :
        /\ p = Head(toClient).id /\ m = exchange[p].msg
        /\ exchange[p].phase \in {"rel", "done"} /\ QoS(m) = 2 /\ InExchange(p, 2)
  BY <1>1, ReadStep, AckFields, MessagesTyped DEF IInv, KnownIn, InExchange
<1>3. \A q : Coming(q)' => Coming(q)
  BY <1>1, ReadComing
<1>4. ASSUME p = slot.packetid PROVE AckInv'
  <2>1. /\ \A t, q : Sent(t, q)' => Sent(t, q) \/ (t = "PUBCOMP" /\ q = p)
        /\ \A q : Received(q)' => Received(q)
    <3>1. Ack("PUBCOMP", p) \in Packet /\ KnownOut(exchange, Ack("PUBCOMP", p))
      BY <1>2, PacketsTyped DEF KnownOut, Ack
    <3>2. \A t, q : Ack("PUBCOMP", p) = Ack(t, q) => t = "PUBCOMP" /\ q = p
      BY DEF Ack
    <3>3. QED
      BY <1>1, <1>2, <1>4, <3>1, <3>2, WriteSent DEF HandlePubrel
  <2>2. /\ Grows /\ slot'.valid = FALSE /\ slot'.packetid = p /\ Settled(m)'
    BY <1>2, <1>4, PubrelSettles
  <2>3. \A q \in PacketId :
          exchange[q].phase # "unused" /\ Settled(exchange[q].msg) => Settled(exchange[q].msg)'
    BY <1>1, <1>2, <2>2, SettledGrows, MessagesTyped DEF IInv
  <2>4. AckSettled'
    BY <1>1, <1>2, <2>1, <2>2, <2>3 DEF AckInv, AckSettled
  <2>5. SlotKept'
    BY <1>1, <1>2, <2>2 DEF SlotKept
  <2>6. ~Coming(p)'
    <3>1. SUFFICES ASSUME NEW i \in 1..Len(toClient'), toClient'[i].type = "PUBLISH",
                          QoS(toClient'[i].msg) # 0, toClient'[i].id = p
                   PROVE  FALSE
      BY DEF Coming
    <3>2. /\ i + 1 \in 1..Len(toClient) /\ 1 < i + 1 /\ toClient'[i] = toClient[i+1]
          /\ 1 \in 1..Len(toClient) /\ toClient[1].type = "PUBREL" /\ toClient[1].id = p
      BY <1>1, <1>2, ReadStep
    <3>3. QED
      BY <1>2, <3>1, <3>2 DEF IInv, ReleaseOrder
  <2>7. Finishing'
    BY <1>1, <1>2, <1>3, <2>1, <2>2, <2>6 DEF AckInv, Finishing, InExchange
  <2>8. QED
    BY <2>4, <2>5, <2>7 DEF AckInv
<1>5. ASSUME p # slot.packetid PROVE AckInv'
  <2>1. UNCHANGED <<slot, handled, toBroker>>
    BY <1>2, <1>5 DEF HandlePubrel
  <2>2. Grows
    BY <1>1, <1>2, <2>1 DEF Grows
  <2>3. QED
    BY <1>1, <1>2, <1>3, <2>1, <2>2, QuietStep DEF Sent, Received
<1>6. QED
  BY <1>4, <1>5

LEMMA AckPing ==
  ASSUME IInv, AckInv, PingReq \/ PingRead \/ PingTimeout
  PROVE  AckInv'
<1>1. UNCHANGED <<slot, handled, exchange, session>> /\ Grows
  BY DEF PingReq, PingRead, PingTimeout, brokerVars, Grows
<1>2. (\A t, q : Sent(t, q)' => Sent(t, q)) /\ (\A q : Received(q)' => Received(q))
  <2>1. CASE PingReq
    <3>1. /\ PingPacket("PINGREQ") \in Packet /\ KnownOut(exchange, PingPacket("PINGREQ"))
          /\ \A t, q : PingPacket("PINGREQ") # Ack(t, q)
      BY PacketsTyped DEF PingPacket, KnownOut, Ack
    <3>2. QED
      BY <1>1, <2>1, <3>1, WriteSent DEF PingReq
  <2>2. CASE PingRead \/ PingTimeout
    BY <2>2 DEF PingRead, PingTimeout, Sent, Received
  <2>3. QED
    BY <2>1, <2>2
<1>3. \A q : Coming(q)' => Coming(q)
  <2>1. CASE PingRead
    <3>1. \A i \in 1..Len(toClient') : i + 1 \in 1..Len(toClient) /\ toClient'[i] = toClient[i+1]
      BY <2>1, TailElements DEF PingRead, IInv, TypeInv, TypeOK
    <3>2. QED
      BY <3>1 DEF Coming
  <2>2. CASE PingReq \/ PingTimeout
    BY <2>2 DEF PingReq, PingTimeout, Coming
  <2>3. QED
    BY <2>1, <2>2
<1>4. QED
  BY <1>1, <1>2, <1>3, QuietStep

LEMMA AckForward ==
  ASSUME IInv, AckInv, NEW m \in Message, Forward(m)
  PROVE  AckInv'
<1>1. /\ UNCHANGED <<slot, handled, toBroker>> /\ session' = [session EXCEPT ![m] = epoch]
      /\ epoch # 0 /\ session \in [Message -> Nat]
  BY DEF Forward, clientVars, IInv, TypeInv, TypeOK
<1>2. Grows /\ \A t, q : (Sent(t, q)' <=> Sent(t, q)) /\ (Received(q)' <=> Received(q))
  BY <1>1 DEF Grows, Sent, Received
<1>3. CASE QoS(m) = 0 /\ Send(Publish(m, OtherId)) /\ UNCHANGED exchange
  <2>1. Publish(m, OtherId) \in Packet
    BY PacketsTyped DEF AnyId
  <2>2. \A q : Coming(q)' => Coming(q)
    BY <1>3, <2>1, SendElements DEF IInv, Coming, Publish
  <2>3. QED
    BY <1>1, <1>2, <1>3, <2>2, QuietStep
<1>4. ASSUME NEW p \in PacketId, exchange[p] = Unused, Send(Publish(m, p)),
             exchange' = [exchange EXCEPT ![p] = [phase |-> "pub", msg |-> m]]
      PROVE  AckInv'
  <2>1. Publish(m, p) \in Packet
    BY PacketsTyped DEF AnyId
  <2>2. \A q : q # p /\ Coming(q)' => Coming(q)
    BY <1>4, <2>1, SendElements DEF IInv, Coming, Publish
  <2>3. /\ exchange[p].phase = "unused" /\ exchange'[p] = [phase |-> "pub", msg |-> m]
        /\ \A q \in PacketId \ {p} : exchange'[q] = exchange[q]
    BY <1>4 DEF IInv, TypeInv, TypeOK, Unused
  <2>4. ~Sent("PUBACK", p) /\ ~Sent("PUBCOMP", p) /\ ~Received(p)
    BY <2>3 DEF IInv, TypeInv, ToBrokerKnown, KnownOut, Sent, Received, Ack
  <2>5. \A q \in PacketId :
          exchange[q].phase # "unused" /\ Settled(exchange[q].msg) => Settled(exchange[q].msg)'
    <3>1. \A n \in Message : Settled(n) => (n \in Long => handled'[n] > 0 \/ BufferShared')
      BY <1>2, SettledGrows DEF Settled
    <3>2. SUFFICES ASSUME NEW q \in PacketId, exchange[q].phase # "unused",
                          Settled(exchange[q].msg)
                   PROVE  Settled(exchange[q].msg)'
      OBVIOUS
    <3>3. exchange[q].msg \in Message /\ exchange'[q] = exchange[q]
      BY <2>3, <3>2, MessagesTyped DEF IInv
    <3>4. QED
      BY <3>1, <3>2, <3>3 DEF Settled
  <2>6. AckSettled'
    BY <1>2, <2>3, <2>4, <2>5 DEF AckInv, AckSettled
  <2>7. SlotKept'
    BY <1>1, <1>2, <2>3, <2>4, <2>5 DEF AckInv, SlotKept, InExchange
  <2>8. Finishing'
    BY <1>1, <1>2, <2>2, <2>3, <2>4 DEF AckInv, Finishing, InExchange
  <2>9. QED
    BY <2>6, <2>7, <2>8 DEF AckInv
<1>5. QED
  BY <1>3, <1>4 DEF Forward

LEMMA AckRetransmit ==
  ASSUME IInv, AckInv, NEW p \in PacketId, Retransmit(p)
  PROVE  AckInv'
<1>1. UNCHANGED <<slot, handled, toBroker, exchange, session>>
  BY DEF Retransmit, clientVars
<1>2. Grows /\ \A t, q : (Sent(t, q)' <=> Sent(t, q)) /\ (Received(q)' <=> Received(q))
  BY <1>1 DEF Grows, Sent, Received
<1>3. CASE exchange[p].phase = "rel" /\ Send(Ack("PUBREL", p))
  <2>1. Ack("PUBREL", p) \in Packet
    BY PacketsTyped
  <2>2. \A q : Coming(q)' => Coming(q)
    BY <1>3, <2>1, SendElements DEF IInv, Coming, Ack
  <2>3. QED
    BY <1>1, <1>2, <2>2, QuietStep
<1>4. CASE exchange[p].phase = "pub" /\ Send(Publish(exchange[p].msg, p))
  <2>1. Publish(exchange[p].msg, p) \in Packet
    BY <1>4, PacketsTyped, MessagesTyped DEF IInv, AnyId
  <2>2. \A q : q # p /\ Coming(q)' => Coming(q)
    BY <1>4, <2>1, SendElements DEF IInv, Coming, Publish
  <2>3. ~Sent("PUBCOMP", p)
    BY <1>4 DEF IInv, TypeInv, ToBrokerKnown, KnownOut, Sent, Ack
  <2>4. \A q \in PacketId :
          exchange[q].phase # "unused" /\ Settled(exchange[q].msg) => Settled(exchange[q].msg)'
    BY <1>1, <1>2, SettledGrows, MessagesTyped DEF IInv
  <2>5. AckSettled'
    BY <1>1, <1>2, <2>4 DEF AckInv, AckSettled
  <2>6. SlotKept'
    BY <1>1, <1>2, <2>4 DEF AckInv, SlotKept, InExchange
  <2>7. Finishing'
    BY <1>1, <1>2, <1>4, <2>2, <2>3 DEF AckInv, Finishing, InExchange
  <2>8. QED
    BY <2>5, <2>6, <2>7 DEF AckInv
<1>5. QED
  BY <1>3, <1>4 DEF Retransmit

LEMMA AckBrokerReceive ==
  ASSUME IInv, AckInv, BrokerReceive
  PROVE  AckInv'
<1> DEFINE b == Head(toBroker)
           p == b.id
<1>1. /\ UNCHANGED <<slot, handled, session>> /\ toBroker # << >>
      /\ toBroker' = Tail(toBroker) /\ TypeInv
  BY DEF BrokerReceive, clientVars, IInv
<1>2. Grows /\ b \in Packet /\ KnownOut(exchange, b)
  BY <1>1, BrokerHead DEF Grows
<1>3. /\ \A t, q : Sent(t, q)' => Sent(t, q)
      /\ \A q : Received(q)' => Received(q)
  BY <1>1, BrokerReadSent
<1>4. CASE UNCHANGED <<exchange, toClient>>
  <2>1. \A q : Coming(q)' => Coming(q)
    BY <1>4 DEF Coming
  <2>2. QED
    BY <1>1, <1>2, <1>3, <1>4, <2>1, QuietStep
<1>5. CASE Send(PingPacket("PINGRESP")) /\ UNCHANGED exchange
  <2>1. \A q : Coming(q)' => Coming(q)
    BY <1>1, <1>5, PacketsTyped, SendElements DEF Coming, PingPacket
  <2>2. QED
    BY <1>1, <1>2, <1>3, <1>5, <2>1, QuietStep
<1>6. ASSUME b.type \in {"PUBACK", "PUBREC", "PUBCOMP"}, NEW phase \in {"rel", "done"},
             phase = IF b.type = "PUBREC" THEN "rel" ELSE "done", SetPhase(p, phase),
             \A q : Coming(q)' => Coming(q)
      PROVE  AckInv'
  <2>1. /\ p \in PacketId /\ exchange[p].phase # "unused" /\ b = Ack(b.type, p)
        /\ b.type = "PUBACK" => QoS(exchange[p].msg) = 1
        /\ b.type = "PUBREC" => QoS(exchange[p].msg) = 2
    BY <1>2, <1>6, AckFields DEF KnownOut, Packet, Ack
  <2>2. /\ Sent(b.type, p) /\ (b.type = "PUBREC" => Received(p))
        /\ b.type = "PUBCOMP" => exchange[p].phase \in {"rel", "done"}
    BY <1>1, <1>2, <2>1, BrokerReadSent DEF KnownOut
  <2>3. /\ exchange'[p] = [phase |-> phase, msg |-> exchange[p].msg]
        /\ \A q \in PacketId \ {p} : exchange'[q] = exchange[q]
    BY <1>1, <1>6, <2>1, SetPhaseAdvances
  <2>4. \A q \in PacketId : exchange[q].phase # "unused" =>
          /\ exchange'[q].msg = exchange[q].msg
          /\ Settled(exchange[q].msg) => Settled(exchange[q].msg)'
    <3>1. SUFFICES ASSUME NEW q \in PacketId, exchange[q].phase # "unused"
                   PROVE  /\ exchange'[q].msg = exchange[q].msg
                          /\ Settled(exchange[q].msg) => Settled(exchange[q].msg)'
      OBVIOUS
    <3>2. exchange'[q].msg = exchange[q].msg /\ exchange[q].msg \in Message
      BY <1>1, <2>3, <3>1, MessagesTyped
    <3>3. QED
      BY <1>1, <3>2 DEF Settled, BufferShared
  <2>5. \A q \in PacketId : exchange'[q].phase # "unused" => exchange[q].phase # "unused"
    BY <2>1, <2>3
  <2>6. AckSettled'
    BY <1>3, <1>6, <2>1, <2>2, <2>3, <2>4, <2>5 DEF AckInv, AckSettled
  <2>7. SlotKept'
    BY <1>1, <1>3, <1>6, <2>1, <2>2, <2>3, <2>4, <2>5 DEF AckInv, SlotKept, InExchange
  <2>8. Finishing'
    BY <1>1, <1>3, <1>6, <2>1, <2>2, <2>3, <2>4, <2>5 DEF AckInv, Finishing, InExchange
  <2>9. QED
    BY <2>6, <2>7, <2>8 DEF AckInv
<1>7. CASE b.type \in {"PUBACK", "PUBCOMP"} /\ SetPhase(p, "done") /\ UNCHANGED toClient
  <2>1. \A q : Coming(q)' => Coming(q)
    BY <1>7 DEF Coming
  <2>2. QED
    BY <1>6, <1>7, <2>1
<1>8. CASE b.type = "PUBREC" /\ SetPhase(p, "rel") /\ Send(Ack("PUBREL", p))
  <2>1. p \in PacketId
    BY <1>2, <1>8, AckFields
  <2>2. \A q : Coming(q)' => Coming(q)
    <3>1. Ack("PUBREL", p) \in Packet
      BY <2>1, PacketsTyped
    <3>2. QED
      BY <1>1, <1>8, <3>1, SendElements DEF Coming, Ack
  <2>3. QED
    BY <1>6, <1>8, <2>2
<1>9. QED
  BY <1>4, <1>5, <1>7, <1>8 DEF BrokerReceive

LEMMA AckNext == IInv /\ AckInv /\ [Next]_vars => AckInv'
<1> SUFFICES ASSUME IInv, AckInv, [Next]_vars PROVE AckInv'
  OBVIOUS
<1>1. CASE Reconnect
  <2>1. \A p \in PacketId : exchange'[p].phase = "unused"
    BY <1>1 DEF Reconnect, Unused
  <2>2. QED
    BY <2>1 DEF AckInv, AckSettled, SlotKept, Finishing, InExchange
<1>2. CASE Break
  <2>1. UNCHANGED <<slot, exchange>> /\ Grows
    BY <1>2 DEF Break, clientVars, brokerVars, Grows
  <2>2. PICK n \in 0..Len(toClient) : toClient' = SubSeq(toClient, 1, n)
    BY <1>2 DEF Break
  <2>3. \A i \in 1..Len(toClient') : i \in 1..Len(toClient) /\ toClient'[i] = toClient[i]
    BY <2>2, SubSeqProperties, LenProperties DEF IInv, TypeInv, TypeOK
  <2>4. /\ \A q : Coming(q)' => Coming(q)
        /\ \A t, q : ~Sent(t, q)' /\ ~Received(q)'
    BY <1>2, <2>3 DEF Break, Coming, Sent, Received
  <2>5. QED
    BY <2>1, <2>4, QuietStep
<1>3. CASE UNCHANGED vars
  BY <1>3, QuietStep DEF vars, Grows, Coming, Sent, Received
<1>4. QED
  BY <1>1, <1>2, <1>3, AckPublish0, AckPublish1, AckPublish2, AckPubrel, AckPing,
     AckForward, AckRetransmit, AckBrokerReceive DEF Next, ClientStep, BrokerStep

\* What the broker may forget has been acted on: no message forwarded at QoS 1 or 2 is
\* acknowledged unprocessed (mqtt_pktype_ctl answers PUBREL only for the buffer's message).
THEOREM AcknowledgedIsHandledTheorem == Spec => []AcknowledgedIsHandled
<1>1. AckInv => AcknowledgedIsHandled
  BY DEF AckInv, AckSettled, AcknowledgedIsHandled, Settled
<1>2. QED
  BY <1>1, SafeInit, SafeNext, AckInit, AckNext, PTL DEF Spec

\* A QoS 2 message is acted on only while its own exchange of this session is released:
\* the buffer that a PUBREL finds valid is that exchange's, and after the PUBCOMP it is not.
THEOREM HandledWhenReleasedTheorem == Spec => HandledWhenReleased
<1> DEFINE A == \A m \in Message :
                  QoS(m) = 2 /\ handled'[m] # handled[m] =>
                    \E p \in PacketId : exchange[p] = [phase |-> "rel", msg |-> m]
<1>1. ASSUME IInv, AckInv, [Next]_vars PROVE [A]_vars
  <2>1. SUFFICES ASSUME NEW m \in Message, QoS(m) = 2, handled'[m] # handled[m]
                 PROVE  \E p \in PacketId : exchange[p] = [phase |-> "rel", msg |-> m]
    OBVIOUS
  <2>2. TypeInv
    BY <1>1 DEF IInv
  <2>3. ASSUME NEW s, UserMsgCtl(s), s.msg \in Message PROVE s.msg = m
    BY <2>1, <2>2, <2>3 DEF UserMsgCtl, TypeInv, TypeOK
  <2>4. CASE HandlePubrel
    <3> DEFINE p == Head(toClient).id
    <3>1. slot.valid /\ slot.packetid = p /\ UserMsgCtl(slot)
      BY <2>1, <2>4 DEF HandlePubrel
    <3>2. slot.msg = m
      BY <1>1, <2>3, <3>1 DEF IInv, OnlyForwarded
    <3>3. /\ p \in PacketId /\ exchange[p].phase \in {"rel", "done"}
          /\ QoS(exchange[p].msg) = 2
      BY <1>1, <2>4, ReadStep, AckFields DEF HandlePubrel, brokerVars, KnownIn
    <3>4. exchange[p].msg = m /\ exchange[p].phase = "rel"
      BY <1>1, <3>1, <3>2, <3>3 DEF IInv, SlotMatches, AckInv, Finishing, InExchange
    <3>5. QED
      BY <2>2, <3>3, <3>4 DEF TypeInv, TypeOK, Exchange
  <2>5. CASE HandlePublish0
    <3>1. /\ Reads("PUBLISH") /\ QoS(Head(toClient).msg) = 0 /\ UNCHANGED <<exchange, session>>
          /\ \E id \in AnyId : UserMsgCtl(deliverMessage(Head(toClient).msg, id))
      BY <2>5 DEF HandlePublish0, brokerVars
    <3>2. Head(toClient).msg \in Message
      BY <1>1, <3>1, ReadStep, PublishFields
    <3>3. QED
      BY <2>1, <2>3, <3>1, <3>2 DEF deliverMessage
  <2>6. CASE HandlePublish1
    <3> DEFINE s == deliverMessage(Head(toClient).msg, Head(toClient).id)
    <3>1. /\ Reads("PUBLISH") /\ QoS(Head(toClient).msg) = 1 /\ UNCHANGED <<exchange, session>>
          /\ UserMsgCtl(s)
      BY <2>1, <2>6 DEF HandlePublish1, brokerVars
    <3>2. Head(toClient).msg \in Message /\ s.msg = Head(toClient).msg
      BY <1>1, <3>1, ReadStep, PublishFields DEF deliverMessage
    <3>3. QED
      BY <2>1, <2>3, <3>1, <3>2
  <2>7. CASE HandlePublish2 \/ PingReq \/ PingRead \/ PingTimeout \/ Reconnect \/ BrokerStep
             \/ Break \/ UNCHANGED vars
    BY <2>1, <2>7 DEF HandlePublish2, PingReq, PingRead, PingTimeout, Reconnect, BrokerStep,
       Forward, Retransmit, BrokerReceive, Break, vars, clientVars
  <2>8. QED
    BY <1>1, <2>4, <2>5, <2>6, <2>7 DEF Next, ClientStep
<1>2. QED
  BY <1>1, SafeInit, SafeNext, AckInit, AckNext, PTL DEF Spec, HandledWhenReleased

-----------------------------------------------------------------------------
\* A window of one.  With one message of QoS 1 or 2 outstanding, the identifier in the
\* buffer is, from the PUBREC on, that of the only exchange under way (SlotHeld), as no
\* other PUBLISH comes behind its own (Alone).

OneUnacked == \A p, q \in Unacked : p = q

Alone ==
  \A p \in Unacked :
    \A i, j \in 1..Len(toClient) :
      /\ i < j
      /\ toClient[i].type = "PUBLISH" /\ toClient[i].id = p
      /\ toClient[j].type = "PUBLISH"
      => toClient[j].id = p

SlotHeld ==
  \A p \in Unacked :
    /\ QoS(exchange[p].msg) = 2
    /\ exchange[p].phase = "rel" \/ Received(p)
    => /\ slot.packetid = p
       /\ \A i \in 1..Len(toClient) : toClient[i].type = "PUBLISH" => toClient[i].id = p

WindowInv == OneUnacked /\ Alone /\ SlotHeld

NoQoS0 == \A m \in Message : QoS(m) # 0

LEMMA WindowInit == Init => WindowInv
  BY DEF Init, WindowInv, OneUnacked, Alone, SlotHeld, Unacked, Unused

\* A step that starts no exchange, sends no PUBLISH and leaves the buffer's identifier.
LEMMA WindowStep ==
  ASSUME TypeInv, WindowInv, slot'.packetid = slot.packetid,
         \A p \in Unacked' :
           /\ p \in Unacked /\ exchange'[p].msg = exchange[p].msg
           /\ exchange'[p].phase = "rel" => exchange[p].phase = "rel" \/ Received(p),
         \A p : Received(p)' => Received(p),
         NEW d \in 0..1,
         \A i \in 1..Len(toClient') : toClient'[i].type = "PUBLISH" =>
           i + d \in 1..Len(toClient) /\ toClient'[i] = toClient[i+d]
  PROVE  WindowInv'
<1>1. OneUnacked'
  BY DEF WindowInv, OneUnacked
<1>2. Alone'
  <2>1. SUFFICES ASSUME NEW p \in Unacked',
                        NEW i \in 1..Len(toClient'), NEW j \in 1..Len(toClient'), i < j,
                        toClient'[i].type = "PUBLISH", toClient'[i].id = p,
                        toClient'[j].type = "PUBLISH"
                 PROVE  toClient'[j].id = p
    BY DEF Alone
  <2>2. /\ i + d \in 1..Len(toClient) /\ toClient'[i] = toClient[i+d]
        /\ j + d \in 1..Len(toClient) /\ toClient'[j] = toClient[j+d]
        /\ i + d < j + d /\ p \in Unacked
    BY <2>1
  <2>3. QED
    BY <2>1, <2>2 DEF WindowInv, Alone
<1>3. SlotHeld'
  BY DEF WindowInv, SlotHeld
<1>4. QED
  BY <1>1, <1>2, <1>3 DEF WindowInv

LEMMA ReadAlone ==
  ASSUME IInv, WindowInv, NEW t, Reads(t), UNCHANGED <<exchange, session>>
  PROVE  OneUnacked' /\ Alone'
<1>1. OneUnacked'
  BY DEF WindowInv, OneUnacked, Unacked
<1>2. Alone'
  <2>1. SUFFICES ASSUME NEW p \in Unacked,
                        NEW i \in 1..Len(toClient'), NEW j \in 1..Len(toClient'), i < j,
                        toClient'[i].type = "PUBLISH", toClient'[i].id = p,
                        toClient'[j].type = "PUBLISH"
                 PROVE  toClient'[j].id = p
    BY DEF Alone, Unacked
  <2>2. /\ i + 1 \in 1..Len(toClient) /\ toClient'[i] = toClient[i+1]
        /\ j + 1 \in 1..Len(toClient) /\ toClient'[j] = toClient[j+1]
        /\ i + 1 < j + 1
    BY <2>1, ReadStep
  <2>3. QED
    BY <2>1, <2>2 DEF WindowInv, Alone
<1>3. QED
  BY <1>1, <1>2

\* A message of QoS 1 comes only while no exchange of QoS 2 has been received.
LEMMA WindowPublish1 ==
  ASSUME IInv, WindowInv, HandlePublish1
  PROVE  WindowInv'
<1>1. UNCHANGED <<exchange, session>> /\ Reads("PUBLISH") /\ QoS(Head(toClient).msg) = 1
  BY DEF HandlePublish1, brokerVars
<1>2. PICK p \in PacketId :
        /\ p = Head(toClient).id /\ exchange[p].msg = Head(toClient).msg
        /\ exchange[p].phase # "unused" /\ QoS(exchange[p].msg) = 1
  BY <1>1, ReadStep DEF KnownIn
<1>3. \A q : Received(q)' => Received(q)
  <2>1. CASE Write(Ack("PUBACK", p))
    <3>1. /\ Ack("PUBACK", p) \in Packet /\ KnownOut(exchange, Ack("PUBACK", p))
          /\ \A q : Ack("PUBACK", p) # Ack("PUBREC", q)
      BY <1>2, PacketsTyped DEF KnownOut, Ack
    <3>2. QED
      BY <1>1, <2>1, <3>1, WriteSent
  <2>2. CASE UNCHANGED toBroker
    BY <2>2 DEF Received
  <2>3. QED
    BY <1>2, <2>1, <2>2 DEF HandlePublish1, deliverMessage
<1>4. \A q \in Unacked :
        QoS(exchange[q].msg) = 2 => exchange[q].phase # "rel" /\ ~Received(q)
  BY <1>1, <1>2, ReadStep DEF WindowInv, SlotHeld
<1>5. SlotHeld'
  BY <1>1, <1>3, <1>4 DEF SlotHeld, Unacked
<1>6. OneUnacked' /\ Alone'
  BY <1>1, ReadAlone
<1>7. QED
  BY <1>5, <1>6 DEF WindowInv

\* A message of QoS 2 that fills the buffer is that of the exchange under way.
LEMMA WindowPublish2 ==
  ASSUME IInv, AckInv, WindowInv, HandlePublish2
  PROVE  WindowInv'
<1>1. UNCHANGED <<exchange, session>> /\ Reads("PUBLISH") /\ QoS(Head(toClient).msg) = 2
  BY DEF HandlePublish2, brokerVars
<1>2. PICK p \in PacketId :
        /\ p = Head(toClient).id /\ exchange[p].msg = Head(toClient).msg
        /\ exchange[p].phase # "unused" /\ QoS(exchange[p].msg) = 2
  BY <1>1, ReadStep DEF KnownIn
<1>3. p \in Unacked
  <2>1. Coming(p)
    BY <1>1, <1>2, ReadStep DEF Coming
  <2>2. exchange[p].phase # "done"
    BY <1>2, <2>1 DEF AckInv, Finishing, InExchange
  <2>3. QED
    BY <1>2, <2>2 DEF IInv, TypeInv, TypeOK, Exchange, Unacked
<1>4. slot'.packetid = p
  BY <1>2 DEF HandlePublish2, deliverMessage
<1>5. \A i \in 1..Len(toClient') : toClient'[i].type = "PUBLISH" => toClient'[i].id = p
  <2>1. SUFFICES ASSUME NEW i \in 1..Len(toClient'), toClient'[i].type = "PUBLISH"
                 PROVE  toClient'[i].id = p
    OBVIOUS
  <2>2. /\ i + 1 \in 1..Len(toClient) /\ 1 < i + 1 /\ toClient'[i] = toClient[i+1]
        /\ 1 \in 1..Len(toClient)
        /\ toClient[1].type = "PUBLISH" /\ toClient[1].id = p
    BY <1>1, <1>2, ReadStep
  <2>3. QED
    BY <1>3, <2>1, <2>2 DEF WindowInv, Alone
<1>6. SlotHeld'
  BY <1>1, <1>3, <1>4, <1>5 DEF SlotHeld, WindowInv, OneUnacked, Unacked
<1>7. OneUnacked' /\ Alone'
  BY <1>1, ReadAlone
<1>8. QED
  BY <1>6, <1>7 DEF WindowInv

LEMMA WindowPubrel ==
  ASSUME IInv, WindowInv, HandlePubrel
  PROVE  WindowInv'
<1>1. UNCHANGED <<exchange, session>> /\ Reads("PUBREL")
  BY DEF HandlePubrel, brokerVars
<1>2. slot'.packetid = slot.packetid
  BY DEF HandlePubrel, UserMsgCtl, IInv, TypeInv, TypeOK, Slot
<1>3. \A q : Received(q)' => Received(q)
  <2>1. CASE Head(toClient).id = slot.packetid
    <3>1. PICK p \in PacketId : p = Head(toClient).id /\ exchange[p].phase \in {"rel", "done"}
      BY <1>1, ReadStep, AckFields DEF KnownIn
    <3>2. /\ Ack("PUBCOMP", p) \in Packet /\ KnownOut(exchange, Ack("PUBCOMP", p))
          /\ \A q : Ack("PUBCOMP", p) # Ack("PUBREC", q)
      BY <3>1, PacketsTyped DEF KnownOut, Ack
    <3>3. QED
      BY <1>1, <2>1, <3>1, <3>2, WriteSent DEF HandlePubrel
  <2>2. CASE Head(toClient).id # slot.packetid
    BY <2>2 DEF HandlePubrel, Received
  <2>3. QED
    BY <2>1, <2>2
<1>4. QED
  BY <1>1, <1>2, <1>3, ReadStep, WindowStep DEF IInv, Unacked

LEMMA WindowPing ==
  ASSUME IInv, WindowInv, PingReq \/ PingRead \/ PingTimeout
  PROVE  WindowInv'
<1>1. UNCHANGED <<slot, exchange>>
  BY DEF PingReq, PingRead, PingTimeout, brokerVars
<1>2. \A q : Received(q)' => Received(q)
  <2>1. CASE PingReq
    <3>1. /\ PingPacket("PINGREQ") \in Packet /\ KnownOut(exchange, PingPacket("PINGREQ"))
          /\ \A q : PingPacket("PINGREQ") # Ack("PUBREC", q)
      BY PacketsTyped DEF PingPacket, KnownOut, Ack
    <3>2. QED
      BY <1>1, <2>1, <3>1, WriteSent DEF PingReq
  <2>2. CASE PingRead \/ PingTimeout
    BY <2>2 DEF PingRead, PingTimeout, Received
  <2>3. QED
    BY <2>1, <2>2
<1>3. PICK d \in 0..1 :
        \A i \in 1..Len(toClient') :
          i + d \in 1..Len(toClient) /\ toClient'[i] = toClient[i+d]
  <2>1. CASE PingRead
    <3>1. \A i \in 1..Len(toClient') :
            i + 1 \in 1..Len(toClient) /\ toClient'[i] = toClient[i+1]
      BY <2>1, TailElements DEF PingRead, IInv, TypeInv, TypeOK
    <3>2. QED
      BY <3>1
  <2>2. CASE PingReq \/ PingTimeout
    <3>1. \A i \in 1..Len(toClient') :
            i + 0 \in 1..Len(toClient) /\ toClient'[i] = toClient[i+0]
      BY <2>2 DEF PingReq, PingTimeout
    <3>2. QED
      BY <3>1
  <2>3. QED
    BY <2>1, <2>2
<1>4. QED
  BY <1>1, <1>2, <1>3, WindowStep DEF IInv, Unacked

LEMMA WindowForward ==
  ASSUME IInv, WindowInv, Window = 1, NoQoS0, NEW m \in Message, Forward(m)
  PROVE  WindowInv'
<1>1. /\ UNCHANGED <<slot, toBroker>> /\ Cardinality(Unacked) < 1 /\ TypeInv
      /\ \E p \in PacketId :
           /\ exchange[p] = Unused
           /\ exchange' = [exchange EXCEPT ![p] = [phase |-> "pub", msg |-> m]]
           /\ Send(Publish(m, p))
  BY DEF Forward, clientVars, NoQoS0, IInv
<1>2. Unacked = {}
  <2>1. SUFFICES ASSUME NEW p \in Unacked PROVE FALSE
    OBVIOUS
  <2>2. Unacked = {p}
    BY DEF WindowInv, OneUnacked
  <2>3. QED
    BY <1>1, <2>2, FS_Singleton
<1>3. PICK p \in PacketId :
        /\ exchange[p] = Unused /\ Send(Publish(m, p))
        /\ exchange' = [exchange EXCEPT ![p] = [phase |-> "pub", msg |-> m]]
  BY <1>1
<1>4. exchange[p].phase = "unused" /\ exchange'[p].phase = "pub" /\ Unacked' = {p}
  BY <1>1, <1>2, <1>3 DEF TypeInv, TypeOK, Unused, Unacked
<1>5. ~Received(p)'
  BY <1>1, <1>4 DEF TypeInv, ToBrokerKnown, KnownOut, Received, Ack
<1>6. OneUnacked' /\ SlotHeld'
  BY <1>4, <1>5 DEF OneUnacked, SlotHeld
<1>7. Publish(m, p) \in Packet /\ Publish(m, p).id = p
  BY PacketsTyped DEF AnyId, Publish
<1>8. \A i \in 1..Len(toClient) :
        toClient[i].type = "PUBLISH" => toClient[i].id # p
  BY <1>1, <1>4, MessagesTyped DEF TypeInv, ToClientKnown, KnownIn, NoQoS0
<1>9. Alone'
  <2>1. SUFFICES ASSUME NEW i \in 1..Len(toClient'), NEW j \in 1..Len(toClient'), i < j,
                        toClient'[i].type = "PUBLISH", toClient'[i].id = p
                 PROVE  toClient'[j].id = p
    BY <1>4 DEF Alone
  <2>2. i = Len(toClient) + 1
    BY <1>1, <1>3, <1>7, <1>8, <2>1, SendElements
  <2>3. QED
    BY <1>1, <1>3, <1>7, <2>1, <2>2, SendElements
<1>10. QED
  BY <1>6, <1>9 DEF WindowInv

LEMMA WindowRetransmit ==
  ASSUME IInv, WindowInv, NEW p \in PacketId, Retransmit(p)
  PROVE  WindowInv'
<1>1. UNCHANGED <<slot, toBroker, exchange>> /\ TypeInv
  BY DEF Retransmit, clientVars, IInv
<1>2. UNCHANGED Unacked /\ \A q : Received(q)' <=> Received(q)
  BY <1>1 DEF Unacked, Received
<1>3. PICK k \in Packet :
        /\ Send(k) /\ p \in Unacked
        /\ k.type = "PUBLISH" => k.id = p
  <2>1. CASE exchange[p].phase = "pub" /\ Send(Publish(exchange[p].msg, p))
    BY <1>1, <2>1, PacketsTyped, MessagesTyped DEF AnyId, Publish, Unacked
  <2>2. CASE exchange[p].phase = "rel" /\ Send(Ack("PUBREL", p))
    <3>1. Ack("PUBREL", p) \in Packet /\ Ack("PUBREL", p).type # "PUBLISH"
      BY PacketsTyped DEF Ack
    <3>2. QED
      BY <2>2, <3>1 DEF Unacked
  <2>3. QED
    BY <2>1, <2>2 DEF Retransmit
<1>4. /\ \A i \in 1..Len(toClient') :
           \/ i \in 1..Len(toClient) /\ toClient'[i] = toClient[i]
           \/ i = Len(toClient) + 1 /\ toClient'[i] = k
      /\ Len(toClient) \in Nat
  BY <1>1, <1>3, SendElements
<1>5. OneUnacked' /\ SlotHeld'
  BY <1>1, <1>2, <1>3, <1>4 DEF WindowInv, OneUnacked, SlotHeld
<1>6. Alone'
  <2>1. SUFFICES ASSUME NEW q \in Unacked,
                        NEW i \in 1..Len(toClient'), NEW j \in 1..Len(toClient'), i < j,
                        toClient'[i].type = "PUBLISH", toClient'[i].id = q,
                        toClient'[j].type = "PUBLISH"
                 PROVE  toClient'[j].id = q
    BY <1>2 DEF Alone
  <2>2. q = p /\ i \in 1..Len(toClient)
    BY <1>3, <1>4, <2>1 DEF WindowInv, OneUnacked
  <2>3. QED
    BY <1>3, <1>4, <2>1, <2>2 DEF WindowInv, Alone
<1>7. QED
  BY <1>5, <1>6 DEF WindowInv

LEMMA WindowBrokerReceive ==
  ASSUME IInv, WindowInv, BrokerReceive
  PROVE  WindowInv'
<1> DEFINE b == Head(toBroker)
           p == b.id
<1>1. /\ UNCHANGED slot /\ toBroker # << >> /\ toBroker' = Tail(toBroker) /\ TypeInv
  BY DEF BrokerReceive, clientVars, IInv
<1>2. b \in Packet /\ KnownOut(exchange, b) /\ \A q : Received(q)' => Received(q)
  BY <1>1, BrokerHead, BrokerReadSent
<1>3. ASSUME NEW k \in Packet, Send(k), k.type # "PUBLISH"
      PROVE  \A i \in 1..Len(toClient') : toClient'[i].type = "PUBLISH" =>
               i + 0 \in 1..Len(toClient) /\ toClient'[i] = toClient[i+0]
  BY <1>1, <1>3, SendElements
<1>4. CASE UNCHANGED <<exchange, toClient>>
  <2>1. \A i \in 1..Len(toClient') : i + 0 \in 1..Len(toClient) /\ toClient'[i] = toClient[i+0]
    BY <1>4
  <2>2. QED
    BY <1>1, <1>2, <1>4, <2>1, WindowStep DEF Unacked
<1>5. CASE Send(PingPacket("PINGRESP")) /\ UNCHANGED exchange
  <2>1. PingPacket("PINGRESP") \in Packet /\ PingPacket("PINGRESP").type # "PUBLISH"
    BY PacketsTyped DEF PingPacket
  <2>2. \A i \in 1..Len(toClient') : toClient'[i].type = "PUBLISH" =>
          i + 0 \in 1..Len(toClient) /\ toClient'[i] = toClient[i+0]
    BY <1>3, <1>5, <2>1
  <2>3. QED
    BY <1>1, <1>2, <1>5, <2>2, WindowStep DEF Unacked
<1>6. CASE b.type \in {"PUBACK", "PUBCOMP"} /\ SetPhase(p, "done") /\ UNCHANGED toClient
  <2>1. p \in PacketId /\ exchange[p].phase # "unused"
    BY <1>2, <1>6, AckFields DEF KnownOut
  <2>2. /\ exchange'[p] = [phase |-> "done", msg |-> exchange[p].msg]
        /\ \A q \in PacketId \ {p} : exchange'[q] = exchange[q]
    BY <1>1, <1>6, <2>1, SetPhaseAdvances
  <2>3. \A i \in 1..Len(toClient') : i + 0 \in 1..Len(toClient) /\ toClient'[i] = toClient[i+0]
    BY <1>6
  <2>4. \A q \in Unacked' : q \in Unacked /\ exchange'[q] = exchange[q]
    BY <2>2 DEF Unacked
  <2>5. QED
    BY <1>1, <1>2, <2>3, <2>4, WindowStep
<1>7. CASE /\ b.type = "PUBREC" /\ exchange[p].phase # "done"
           /\ SetPhase(p, "rel") /\ Send(Ack("PUBREL", p))
  <2>1. /\ p \in PacketId /\ exchange[p].phase # "unused" /\ b = Ack("PUBREC", p)
        /\ QoS(exchange[p].msg) = 2
    BY <1>2, <1>7, AckFields DEF KnownOut, Packet, Ack
  <2>2. p \in Unacked /\ Received(p)
    BY <1>1, <1>7, <2>1, BrokerReadSent DEF TypeInv, TypeOK, Exchange, Unacked
  <2>3. /\ exchange'[p] = [phase |-> "rel", msg |-> exchange[p].msg]
        /\ \A q \in PacketId \ {p} : exchange'[q] = exchange[q]
    BY <1>1, <1>7, <2>1, SetPhaseAdvances
  <2>4. Ack("PUBREL", p) \in Packet /\ Ack("PUBREL", p).type # "PUBLISH"
    BY <2>1, PacketsTyped DEF Ack
  <2>5. \A i \in 1..Len(toClient') : toClient'[i].type = "PUBLISH" =>
          i + 0 \in 1..Len(toClient) /\ toClient'[i] = toClient[i+0]
    BY <1>3, <1>7, <2>4
  <2>6. \A q \in Unacked' :
          /\ q \in Unacked /\ exchange'[q].msg = exchange[q].msg
          /\ exchange'[q].phase = "rel" => exchange[q].phase = "rel" \/ Received(q)
    BY <2>2, <2>3 DEF Unacked
  <2>7. QED
    BY <1>1, <1>2, <2>5, <2>6, WindowStep
<1>8. QED
  BY <1>4, <1>5, <1>6, <1>7 DEF BrokerReceive

LEMMA WindowNext ==
  ASSUME Window = 1, NoQoS0, IInv, AckInv, WindowInv, [Next]_vars
  PROVE  WindowInv'
<1>1. CASE HandlePublish0
  <2>1. UNCHANGED <<exchange, session>> /\ Reads("PUBLISH") /\ QoS(Head(toClient).msg) = 0
    BY <1>1 DEF HandlePublish0, brokerVars
  <2>2. Head(toClient).msg \in Message
    BY <2>1, ReadStep, PublishFields
  <2>3. QED
    BY <2>1, <2>2 DEF NoQoS0
<1>2. CASE Reconnect
  <2>1. Unacked' = {}
    BY <1>2 DEF Reconnect, Unused, Unacked
  <2>2. QED
    BY <2>1 DEF WindowInv, OneUnacked, Alone, SlotHeld
<1>3. CASE Break
  <2>1. UNCHANGED <<slot, exchange>> /\ \A q : ~Received(q)'
    BY <1>3 DEF Break, clientVars, brokerVars, Received
  <2>2. PICK n \in 0..Len(toClient) : toClient' = SubSeq(toClient, 1, n)
    BY <1>3 DEF Break
  <2>3. \A i \in 1..Len(toClient') :
          i + 0 \in 1..Len(toClient) /\ toClient'[i] = toClient[i+0]
    BY <2>2, SubSeqProperties, LenProperties DEF IInv, TypeInv, TypeOK
  <2>4. QED
    BY <2>1, <2>3, WindowStep DEF IInv, Unacked
<1>4. CASE UNCHANGED vars
  <2>1. \A i \in 1..Len(toClient') :
          i + 0 \in 1..Len(toClient) /\ toClient'[i] = toClient[i+0]
    BY <1>4 DEF vars
  <2>2. QED
    BY <1>4, <2>1, WindowStep DEF IInv, Unacked, vars, Received
<1>5. QED
  BY <1>1, <1>2, <1>3, <1>4, WindowPublish1, WindowPublish2, WindowPubrel, WindowPing,
     WindowForward, WindowRetransmit, WindowBrokerReceive DEF Next, ClientStep, BrokerStep

\* "PUBREL received, the data must be processed and discarded" (mqttclient.c:432): towards
\* a broker that keeps one message of QoS 1 or 2 outstanding and sends none of QoS 0,
\* every PUBREL leaves its message acted on, whatever is lost, repeated or reconnected.
THEOREM PubrelIsProcessedTheorem ==
  ASSUME Window = 1, NoQoS0
  PROVE  Spec => PubrelIsProcessed
<1>1. ASSUME IInv, AckInv, WindowInv, HandlePubrel
      PROVE  LET m == exchange[Head(toClient).id].msg IN m \in Long => handled'[m] > 0
  <2>1. UNCHANGED <<exchange, session>> /\ Reads("PUBREL")
    BY <1>1 DEF HandlePubrel, brokerVars
  <2>2. PICK p \in PacketId, m \in Message :
          /\ p = Head(toClient).id /\ m = exchange[p].msg
          /\ exchange[p].phase \in {"rel", "done"} /\ QoS(m) = 2
    BY <1>1, <2>1, ReadStep, AckFields, MessagesTyped DEF IInv, KnownIn
  <2>3. ~BufferShared /\ ~BufferShared'
    BY DEF BufferShared, NoQoS0
  <2>4. CASE p = slot.packetid
    BY <1>1, <2>2, <2>3, <2>4, PubrelSettles DEF Settled
  <2>5. CASE p # slot.packetid
    <3>1. exchange[p].phase = "done"
      BY <1>1, <2>2, <2>5 DEF WindowInv, SlotHeld, Unacked
    <3>2. Settled(m)
      BY <1>1, <2>2, <3>1 DEF AckInv, AckSettled
    <3>3. UNCHANGED handled
      BY <1>1, <2>2, <2>5 DEF HandlePubrel
    <3>4. QED
      BY <2>2, <2>3, <3>2, <3>3 DEF Settled
  <2>6. QED
    BY <2>2, <2>4, <2>5
<1>2. QED
  BY <1>1, SafeInit, SafeNext, AckInit, AckNext, WindowInit, WindowNext, PTL
     DEF Spec, PubrelIsProcessed

=============================================================================
