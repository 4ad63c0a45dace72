--------------------------- MODULE MqttSessionProofs ---------------------------
(***************************************************************************)
(* Proofs about MqttSession, for any number of sockets and any bounds: its *)
(* type invariant; that the two copies of the descriptor agree whichever   *)
(* task reconnects; and, until both tasks reconnect at once, that at most  *)
(* one socket is in use and both tasks work in a subscribed session only.  *)
(***************************************************************************)
EXTENDS MqttSession, SequenceTheorems, TLAPS

LEMMA Packets ==
  /\ \A type \in {"CONNECT", "CONNACK", "PINGREQ", "PINGRESP", "PUBLISH", "FIN"} :
       Plain(type) \in Packet
  /\ \A type \in {"SUBSCRIBE", "SUBACK"}, id \in 0..IdModulus - 1 :
       [type |-> type, id |-> id] \in Packet
  BY DEF Packet, Plain

LEMMA AckOfSubscribe ==
  ASSUME NEW k \in Packet, k.type = "SUBSCRIBE"
  PROVE  [k EXCEPT !.type = "SUBACK"] \in Packet
<1>1. k \in [type : {"SUBSCRIBE", "SUBACK"}, id : 0..IdModulus - 1]
  BY DEF Packet
<1>2. [k EXCEPT !.type = "SUBACK"]
        \in [type : {"SUBSCRIBE", "SUBACK"}, id : 0..IdModulus - 1]
  BY <1>1
<1>3. QED
  BY <1>2 DEF Packet

LEMMA SendTyped ==
  ASSUME TypeOK, NEW fd, NEW k \in Packet, Send(fd, k)
  PROVE  outbox' \in [Sock -> Seq(Packet)]
<1>1. CASE Usable(fd)
  <2>1. fd \in Sock /\ Append(outbox[fd], k) \in Seq(Packet)
    BY <1>1, AppendProperties DEF TypeOK, Usable
  <2>2. QED
    BY <1>1, <2>1 DEF TypeOK, Send
<1>2. CASE ~Usable(fd)
  BY <1>2 DEF TypeOK, Send
<1>3. QED
  BY <1>1, <1>2

LEMMA CloseTyped ==
  ASSUME TypeOK, NEW fd, Close(fd)
  PROVE  /\ tcp' \in [Sock -> {"free", "new", "up", "dead"}]
         /\ inbox' \in [Sock -> Seq(Packet)]
         /\ outbox' \in [Sock -> Seq(Packet)]
         /\ login' \in [Sock -> {"none", "accepted", "subscribed"}]
         /\ arg' \in [Task -> Descriptor]
<1>1. << >> \in Seq(Packet)
  BY EmptySeq
<1>2. QED
  BY <1>1 DEF TypeOK, Close, Descriptor

LEMMA ReplyTyped ==
  ASSUME TypeOK, NEW s \in Sock, NEW k \in Packet, Reply(s, k)
  PROVE  inbox' \in [Sock -> Seq(Packet)]
<1>1. Append(inbox[s], k) \in Seq(Packet)
  BY AppendProperties DEF TypeOK
<1>2. QED
  BY <1>1 DEF TypeOK, Reply

LEMMA KillTyped ==
  ASSUME TypeOK, NEW S, Kill(S)
  PROVE  tcp' \in [Sock -> {"free", "new", "up", "dead"}]
  BY DEF TypeOK, Kill

LEMMA TypeInit == Init => TypeOK
<1> SUFFICES ASSUME Init PROVE TypeOK
  OBVIOUS
<1>1. << >> \in Seq(Packet)
  BY EmptySeq
<1>2. 0 \in Sock /\ 0 \in Descriptor /\ -1 \in Descriptor /\ 0 \in 0..IdModulus + 1
  BY SessionAssumption DEF Descriptor, Sock
<1>3. /\ pc \in [Task -> Label]
      /\ want \in [Task -> Purpose]
      /\ arg \in [Task -> Descriptor]
  BY <1>2 DEF Init, Label, Purpose
<1>4. /\ tcp \in [Sock -> {"free", "new", "up", "dead"}]
      /\ inbox \in [Sock -> Seq(Packet)]
      /\ outbox \in [Sock -> Seq(Packet)]
      /\ login \in [Sock -> {"none", "accepted", "subscribed"}]
  BY <1>1 DEF Init
<1>5. QED
  BY <1>2, <1>3, <1>4 DEF Init, TypeOK

\* The steps of a task.
LEMMA TypeTask ==
  ASSUME TypeOK, NEW t \in Task, TaskStep(t)
  PROVE  TypeOK'
<1> USE SessionAssumption
<1> USE DEF GoTo, Await, Label, Purpose, Descriptor, netVars
<1>0. together' \in BOOLEAN
  BY DEF TaskStep, Remember
<1>1. CASE OpenSocket(t)
  BY <1>0, <1>1 DEF TypeOK, OpenSocket
<1>2. CASE StartConnect(t)
  BY <1>0, <1>2 DEF TypeOK, StartConnect
<1>3. CASE Connect(t)
  BY <1>0, <1>3 DEF TypeOK, Connect
<1>4. CASE ConnectFails(t)
  BY <1>0, <1>4 DEF TypeOK, ConnectFails, Loss
<1>5. CASE Refused(t)
  BY <1>0, <1>5, CloseTyped DEF TypeOK, Refused
<1>6. CASE DelayOver(t)
  BY <1>0, <1>6 DEF TypeOK, DelayOver
<1>7. CASE Connected(t)
  BY <1>0, <1>7 DEF TypeOK, Connected
<1>8. CASE Login(t)
  BY <1>0, <1>8, SendTyped, Packets DEF TypeOK, Login
<1>9. CASE Subscribe(t)
  <2>1. PacketID' \in 0..IdModulus + 1
    BY <1>9 DEF TypeOK, Subscribe
  <2>2. PacketID % IdModulus \in 0..IdModulus - 1
    BY DEF TypeOK
  <2>3. outbox' \in [Sock -> Seq(Packet)]
    BY <1>9, <2>2, SendTyped, Packets DEF Subscribe
  <2>4. /\ pc' \in [Task -> Label]
        /\ want' \in [Task -> Purpose]
        /\ arg' \in [Task -> Descriptor]
    <3>1. CASE Usable(mysock)
      <4>1. /\ pc' = [pc EXCEPT ![t] = "select"]
            /\ want' = [want EXCEPT ![t] = "suback"]
            /\ arg' = [arg EXCEPT ![t] = MQTT_Socket]
        BY <1>9, <3>1 DEF Subscribe
      <4>2. QED
        BY <4>1 DEF TypeOK
    <3>2. CASE ~Usable(mysock)
      BY <1>9, <3>2 DEF TypeOK, Subscribe
    <3>3. QED
      BY <3>1, <3>2
  <2>5. UNCHANGED <<mysock, MQTT_Socket, quiet, tcp, inbox, login, losses>>
    BY <1>9 DEF Subscribe
  <2>6. QED
    BY <1>0, <2>1, <2>3, <2>4, <2>5 DEF TypeOK
<1>10. CASE Ping(t)
  BY <1>0, <1>10, SendTyped, Packets DEF TypeOK, Ping
<1>11. CASE SelectReturns(t)
  BY <1>0, <1>11 DEF TypeOK, SelectReturns
<1>12. CASE SelectTimesOut(t)
  BY <1>0, <1>12 DEF TypeOK, SelectTimesOut, Loss
<1>13. CASE CallRecv(t)
  BY <1>0, <1>13 DEF TypeOK, CallRecv
<1>14. CASE RecvPacket(t)
  <2>1. arg[t] \in Sock /\ Tail(inbox[arg[t]]) \in Seq(Packet)
    BY <1>14, HeadTailProperties, EmptySeq DEF TypeOK, RecvPacket
  <2>2. inbox' \in [Sock -> Seq(Packet)]
    BY <1>14, <2>1 DEF TypeOK, RecvPacket
  <2>3. After(t, Head(inbox[arg[t]])) \in Label
    BY DEF TypeOK, After, Home
  <2>4. quiet' \in BOOLEAN
    BY <1>14 DEF TypeOK, RecvPacket
  <2>5. QED
    BY <1>0, <1>14, <2>2, <2>3, <2>4 DEF TypeOK, RecvPacket
<1>15. CASE RecvFails(t)
  BY <1>0, <1>15 DEF TypeOK, RecvFails
<1>16. CASE Shutdown(t)
  BY <1>0, <1>16, SendTyped, Packets DEF TypeOK, Shutdown
<1>17. CASE CloseSocket(t)
  BY <1>0, <1>17, CloseTyped DEF TypeOK, CloseSocket
<1>18. QED
  BY <1>1, <1>2, <1>3, <1>4, <1>5, <1>6, <1>7, <1>8, <1>9, <1>10, <1>11, <1>12,
     <1>13, <1>14, <1>15, <1>16, <1>17 DEF TaskStep

\* The steps of the two loops.
LEMMA TypeLoops ==
  ASSUME TypeOK, RecvLoop \/ SendLoop
  PROVE  TypeOK'
<1> USE SessionAssumption
<1> USE DEF GoTo, Await, Label, Purpose, Descriptor, netVars
<1>0. together' \in BOOLEAN
  BY DEF RecvLoop, SendLoop, Remember
<1>1. CASE LoopReads
  BY <1>0, <1>1 DEF TypeOK, LoopReads
<1>2. CASE LoopIdle
  BY <1>0, <1>2 DEF TypeOK, LoopIdle
<1>3. CASE PingDue
  BY <1>0, <1>3 DEF TypeOK, PingDue
<1>4. CASE PingNotDue
  BY <1>0, <1>4 DEF TypeOK, PingNotDue
<1>5. CASE PublishReading
  <2>1. outbox' \in [Sock -> Seq(Packet)]
    BY <1>5, SendTyped, Packets DEF TypeOK, PublishReading
  <2>2. losses' \in Nat
    BY <1>5 DEF TypeOK, PublishReading, Loss
  <2>3. quiet' \in BOOLEAN
    BY <1>5 DEF TypeOK, PublishReading
  <2>4. QED
    BY <1>0, <1>5, <2>1, <2>2, <2>3 DEF TypeOK, PublishReading
<1>6. CASE SendPingDue
  <2>1. losses' \in Nat
    BY <1>6 DEF TypeOK, SendPingDue, Loss
  <2>2. QED
    BY <1>0, <1>6, <2>1 DEF TypeOK, SendPingDue
<1>7. QED
  BY <1>1, <1>2, <1>3, <1>4, <1>5, <1>6 DEF RecvLoop, SendLoop

\* The steps of the broker and the network.
LEMMA TypeBroker ==
  ASSUME TypeOK, Broker
  PROVE  TypeOK'
<1> USE DEF clientVars
<1>0. together' \in BOOLEAN
  BY DEF Broker, Remember
<1>1. PICK s \in Sock : BrokerReceive(s) \/ BrokerPublish(s) \/ BrokerDrops(s)
  BY DEF Broker
<1>2. CASE BrokerReceive(s)
  <2> DEFINE k == Head(outbox[s])
  <2>1. outbox' \in [Sock -> Seq(Packet)] /\ k \in Packet
    <3>1. Tail(outbox[s]) \in Seq(Packet) /\ k \in Packet
      BY <1>2, HeadTailProperties, EmptySeq DEF TypeOK, BrokerReceive
    <3>2. QED
      BY <1>2, <3>1 DEF TypeOK, BrokerReceive
  <2>2. inbox' \in [Sock -> Seq(Packet)]
    BY <1>2, <2>1, ReplyTyped, Packets, AckOfSubscribe DEF TypeOK, BrokerReceive, Forward
  <2>3. tcp' \in [Sock -> {"free", "new", "up", "dead"}]
    BY <1>2, KillTyped DEF TypeOK, BrokerReceive
  <2>4. login' \in [Sock -> {"none", "accepted", "subscribed"}]
    BY <1>2 DEF TypeOK, BrokerReceive
  <2>5. losses' \in Nat
    BY <1>2 DEF TypeOK, BrokerReceive, Forward, Loss
  <2>6. QED
    BY <1>0, <1>2, <2>1, <2>2, <2>3, <2>4, <2>5 DEF TypeOK, BrokerReceive
<1>3. CASE BrokerPublish(s)
  BY <1>0, <1>3, ReplyTyped, Packets DEF TypeOK, BrokerPublish, Forward, Loss
<1>4. CASE BrokerDrops(s)
  BY <1>0, <1>4, KillTyped DEF TypeOK, BrokerDrops, Loss
<1>5. QED
  BY <1>1, <1>2, <1>3, <1>4

LEMMA TypeNext == TypeOK /\ [Next]_vars => TypeOK'
<1>1. CASE UNCHANGED vars
  BY <1>1 DEF TypeOK, vars, clientVars, netVars
<1>2. QED
  BY <1>1, TypeTask, TypeLoops, TypeBroker DEF Next

\* Type correctness of the two tasks and their connection.
THEOREM SessionTyping == Spec => []TypeOK
  BY TypeInit, TypeNext, PTL DEF Spec

\* Only a task inside the loop around transport_open makes the two descriptors
\* differ, and it leaves the loop only with the descriptor it has just copied.
LEMMA AgreeNext == TypeOK /\ DescriptorsAgree /\ [Next]_vars => DescriptorsAgree'
<1> SUFFICES ASSUME TypeOK, DescriptorsAgree, [Next]_vars PROVE DescriptorsAgree'
  OBVIOUS
<1>1. ASSUME NEW t \in Task, TaskStep(t) PROVE DescriptorsAgree'
  <2> USE DEF TypeOK, DescriptorsAgree, Opening, GoTo, Await, netVars
  <2>1. CASE OpenSocket(t)
    BY <1>1, <2>1 DEF OpenSocket
  <2>2. CASE StartConnect(t)
    BY <1>1, <2>2 DEF StartConnect
  <2>3. CASE Connect(t)
    BY <1>1, <2>3 DEF Connect
  <2>4. CASE ConnectFails(t)
    BY <1>1, <2>4 DEF ConnectFails
  <2>5. CASE Refused(t)
    BY <1>1, <2>5 DEF Refused
  <2>6. CASE DelayOver(t)
    BY <1>1, <2>6 DEF DelayOver
  <2>7. CASE Connected(t)
    BY <1>1, <2>7 DEF Connected
  <2>8. CASE Login(t)
    BY <1>1, <2>8 DEF Login, At
  <2>9. CASE Subscribe(t)
    BY <1>1, <2>9 DEF Subscribe, At
  <2>10. CASE Ping(t)
    BY <1>1, <2>10 DEF Ping, At
  <2>11. CASE SelectReturns(t) \/ SelectTimesOut(t)
    BY <1>1, <2>11 DEF SelectReturns, SelectTimesOut, At
  <2>12. CASE CallRecv(t)
    BY <1>1, <2>12 DEF CallRecv, At
  <2>13. CASE RecvPacket(t)
    BY <1>1, <2>13 DEF RecvPacket, At
  <2>14. CASE RecvFails(t)
    BY <1>1, <2>14 DEF RecvFails, At
  <2>15. CASE Shutdown(t)
    BY <1>1, <2>15 DEF Shutdown, At
  <2>16. CASE CloseSocket(t)
    BY <1>1, <2>16 DEF CloseSocket, At
  <2>17. QED
    BY <1>1, <2>1, <2>2, <2>3, <2>4, <2>5, <2>6, <2>7, <2>8, <2>9, <2>10, <2>11,
       <2>12, <2>13, <2>14, <2>15, <2>16 DEF TaskStep
<1>2. ASSUME RecvLoop \/ SendLoop PROVE DescriptorsAgree'
  BY <1>2 DEF RecvLoop, SendLoop, LoopReads, LoopIdle, PingDue, PingNotDue,
     PublishReading, SendPingDue, At, TypeOK, DescriptorsAgree, Opening, GoTo, Await,
     netVars
<1>3. ASSUME Broker \/ UNCHANGED vars PROVE DescriptorsAgree'
  BY <1>3 DEF Broker, BrokerReceive, BrokerPublish, BrokerDrops, DescriptorsAgree,
     Opening, vars, clientVars
<1>4. QED
  BY <1>1, <1>2, <1>3 DEF Next

\* mysock and MQTT_Socket differ only while a task is opening a connection.
THEOREM DescriptorsAgreeTheorem == Spec => []DescriptorsAgree
<1>1. Init => DescriptorsAgree
  BY DEF Init, DescriptorsAgree
<1>2. QED
  BY <1>1, TypeInit, TypeNext, AgreeNext, PTL DEF Spec

-----------------------------------------------------------------------------
(* Until both tasks reconnect at once *)

\* One of the two tasks is not reconnecting.
NotBoth == \E t \in Task : ~Reconnecting(t)

\* Every socket but mysock is free, and mysock is free too where a task is about
\* to open a connection.
OnlyMySock ==
  /\ \A s \in Sock : s # mysock => tcp[s] = "free"
  /\ (\E t \in Task : pc[t] \in {"open", "delay"}) => \A s \in Sock : tcp[s] = "free"

LEMMA OnlyMySockTask ==
  ASSUME TypeOK, OnlyMySock, NEW t \in Task, TaskStep(t), NotBoth'
  PROVE  OnlyMySock'
<1> USE DEF TypeOK, OnlyMySock, GoTo, Await, At, netVars
<1>1. CASE OpenSocket(t)
  <2>1. pc[t] = "open" /\ pc' = [pc EXCEPT ![t] = "opened"]
    BY <1>1 DEF OpenSocket
  <2>2. \A u \in Task : pc'[u] \notin {"open", "delay"}
    <3>1. PICK u \in Task : ~Reconnecting(u)'
      BY DEF NotBoth
    <3>2. pc'[u] \notin {"open", "opened", "delay"} /\ u # t
      BY <2>1, <3>1 DEF Reconnecting
    <3>3. QED
      BY <2>1, <3>2 DEF Task
  <2>3. \A s \in Sock : s # mysock' => tcp'[s] = "free"
    BY <1>1, <2>1 DEF OpenSocket
  <2>4. QED
    BY <2>2, <2>3
<1>2. CASE StartConnect(t)
  BY <1>2 DEF StartConnect
<1>3. CASE Connect(t)
  BY <1>3 DEF Connect
<1>4. CASE ConnectFails(t)
  BY <1>4 DEF ConnectFails
<1>5. CASE Refused(t)
  <2>1. \A s \in Sock : tcp'[s] = "free"
    BY <1>5 DEF Refused, Close
  <2>2. QED
    BY <2>1
<1>6. CASE DelayOver(t)
  BY <1>6 DEF DelayOver
<1>7. CASE Connected(t)
  BY <1>7 DEF Connected, Sock
<1>8. CASE Login(t)
  BY <1>8 DEF Login
<1>9. CASE Subscribe(t)
  BY <1>9 DEF Subscribe
<1>10. CASE Ping(t)
  BY <1>10 DEF Ping
<1>11. CASE SelectReturns(t) \/ SelectTimesOut(t)
  BY <1>11 DEF SelectReturns, SelectTimesOut
<1>12. CASE CallRecv(t)
  BY <1>12 DEF CallRecv
<1>13. CASE RecvPacket(t)
  <2>1. After(t, Head(inbox[arg[t]])) \notin {"open", "delay"}
    BY DEF After, Home, Purpose
  <2>2. pc' = [pc EXCEPT ![t] = After(t, Head(inbox[arg[t]]))]
    BY <1>13 DEF RecvPacket
  <2>3. UNCHANGED <<mysock, tcp>>
    BY <1>13 DEF RecvPacket
  <2>4. QED
    BY <2>1, <2>2, <2>3
<1>14. CASE RecvFails(t)
  BY <1>14 DEF RecvFails
<1>15. CASE Shutdown(t)
  BY <1>15 DEF Shutdown
<1>16. CASE CloseSocket(t)
  <2>1. \A s \in Sock : tcp'[s] = "free"
    BY <1>16 DEF CloseSocket, Close
  <2>2. QED
    BY <2>1
<1>17. QED
  BY <1>1, <1>2, <1>3, <1>4, <1>5, <1>6, <1>7, <1>8, <1>9, <1>10, <1>11, <1>12,
     <1>13, <1>14, <1>15, <1>16 DEF TaskStep

LEMMA OnlyMySockOthers ==
  ASSUME TypeOK, OnlyMySock, RecvLoop \/ SendLoop \/ Broker
  PROVE  OnlyMySock'
<1>1. ASSUME RecvLoop \/ SendLoop PROVE OnlyMySock'
  BY <1>1 DEF RecvLoop, SendLoop, LoopReads, LoopIdle, PingDue, PingNotDue,
     PublishReading, SendPingDue, At, TypeOK, OnlyMySock, GoTo, Await, netVars
<1>2. ASSUME Broker PROVE OnlyMySock'
  <2>1. PICK s \in Sock : BrokerReceive(s) \/ BrokerPublish(s) \/ BrokerDrops(s)
    BY <1>2 DEF Broker
  <2>2. tcp[s] = "up" /\ UNCHANGED <<pc, mysock>>
    BY <2>1 DEF BrokerReceive, BrokerPublish, BrokerDrops, clientVars
  <2>3. \A u \in Sock : tcp[u] = "free" => tcp'[u] = "free"
    <3>1. CASE UNCHANGED tcp
      BY <3>1
    <3>2. CASE Kill({s})
      BY <2>2, <3>2 DEF Kill
    <3>3. CASE Kill({u \in Sock \ {s} : login[u] # "none" /\ tcp[u] = "up"})
      BY <3>3 DEF Kill
    <3>4. QED
      BY <2>1, <3>1, <3>2, <3>3 DEF BrokerReceive, BrokerPublish, BrokerDrops
  <2>4. QED
    BY <2>2, <2>3 DEF OnlyMySock
<1>3. QED
  BY <1>1, <1>2

-----------------------------------------------------------------------------
(* The session of the one connection *)

Subscribed == Usable(mysock) => login[mysock] = "subscribed"

\* A socket that is not connected has nothing waiting and no session; a SUBACK
\* is under way only in a subscribed session; and such a session there is while
\* neither task reconnects.
LoggedIn ==
  /\ \A s \in Sock : tcp[s] \in {"free", "new"} => inbox[s] = << >> /\ login[s] = "none"
  /\ \A s \in Sock : \A i \in DOMAIN inbox[s] :
       inbox[s][i].type = "SUBACK" => login[s] = "subscribed"
  /\ (\A t \in Task : ~Reconnecting(t)) => Subscribed

LEMMA LoggedInInit == Init => LoggedIn
<1>1. "recv" \in Task
  BY DEF Task
<1>2. DOMAIN << >> = {}
  OBVIOUS
<1>3. QED
  BY <1>1, <1>2 DEF Init, LoggedIn, Reconnecting

\* The sockets keep their part when one is closed.
LEMMA CloseLoggedIn ==
  ASSUME TypeOK, LoggedIn, NEW fd, Close(fd)
  PROVE  /\ \A s \in Sock : tcp'[s] \in {"free", "new"} => inbox'[s] = << >> /\ login'[s] = "none"
         /\ \A s \in Sock : \A i \in DOMAIN inbox'[s] :
              inbox'[s][i].type = "SUBACK" => login'[s] = "subscribed"
<1>1. DOMAIN << >> = {}
  OBVIOUS
<1>2. QED
  BY <1>1 DEF TypeOK, LoggedIn, Close

\* A step that touches no socket leaves a task that is not reconnecting in the
\* session it was in.
LEMMA QuietStep ==
  ASSUME LoggedIn, NEW t \in Task, UNCHANGED <<tcp, inbox, login, mysock>>,
         Reconnecting(t)' \/ ~Reconnecting(t),
         \A u \in Task \ {t} : Reconnecting(u)' = Reconnecting(u)
  PROVE  LoggedIn'
<1>1. (\A u \in Task : ~Reconnecting(u)') => \A u \in Task : ~Reconnecting(u)
  OBVIOUS
<1>2. Subscribed' = Subscribed
  BY DEF Subscribed, Usable
<1>3. QED
  BY <1>1, <1>2 DEF LoggedIn

LEMMA LoggedInTask ==
  ASSUME TypeOK, OnlyMySock, LoggedIn, NEW t \in Task, TaskStep(t)
  PROVE  LoggedIn'
<1> USE DEF TypeOK, GoTo, Await, At, netVars
<1>1. \A u \in Task \ {t} : Reconnecting(u)' = Reconnecting(u)
  <2>1. \A u \in Task \ {t} : pc'[u] = pc[u] /\ want'[u] = want[u]
    BY DEF TaskStep, OpenSocket, StartConnect, Connect, ConnectFails, Refused, DelayOver,
       Connected, Login, Subscribe, Ping, SelectReturns, SelectTimesOut, CallRecv,
       RecvPacket, RecvFails, Shutdown, CloseSocket
  <2>2. QED
    BY <2>1 DEF Reconnecting
<1>2. CASE OpenSocket(t)
  <2>1. Reconnecting(t)'
    BY <1>2 DEF OpenSocket, Reconnecting
  <2>2. QED
    BY <1>2, <2>1 DEF OpenSocket, LoggedIn
<1>3. CASE StartConnect(t) \/ ConnectFails(t) \/ DelayOver(t) \/ Connected(t)
  <2>1. Reconnecting(t)'
    BY <1>3 DEF StartConnect, ConnectFails, DelayOver, Connected, Reconnecting
  <2>2. UNCHANGED <<tcp, inbox, login, mysock>>
    BY <1>3 DEF StartConnect, ConnectFails, DelayOver, Connected
  <2>3. QED
    BY <1>1, <2>1, <2>2, QuietStep
<1>4. CASE Connect(t)
  <2>1. Reconnecting(t)'
    BY <1>4 DEF Connect, Reconnecting
  <2>2. QED
    BY <1>4, <2>1 DEF Connect, LoggedIn
<1>5. CASE Refused(t) \/ CloseSocket(t)
  <2>1. Reconnecting(t)'
    BY <1>5 DEF Refused, CloseSocket, Reconnecting
  <2>2. Close(mysock)
    BY <1>5 DEF Refused, CloseSocket
  <2>3. QED
    BY <2>1, <2>2, CloseLoggedIn DEF LoggedIn
<1>6. CASE Login(t) \/ Subscribe(t) \/ Shutdown(t)
  <2>1. \/ pc'[t] = "close"
        \/ pc'[t] \in {"call", "select"} /\ want'[t] \in {"connack", "suback", "close"}
    BY <1>6 DEF Login, Subscribe, Shutdown
  <2>2. Reconnecting(t)'
    BY <2>1 DEF Reconnecting
  <2>3. UNCHANGED <<tcp, inbox, login, mysock>>
    BY <1>6 DEF Login, Subscribe, Shutdown
  <2>4. QED
    BY <1>1, <2>2, <2>3, QuietStep
<1>7. CASE Ping(t) \/ SelectReturns(t) \/ SelectTimesOut(t) \/ CallRecv(t) \/ RecvFails(t)
  <2>1. UNCHANGED <<tcp, inbox, login, mysock>>
    BY <1>7 DEF Ping, SelectReturns, SelectTimesOut, CallRecv, RecvFails
  <2>2. Reconnecting(t)' \/ ~Reconnecting(t)
    <3>1. CASE Ping(t)
      BY <3>1 DEF Ping, Reconnecting
    <3>2. CASE SelectReturns(t) \/ CallRecv(t)
      BY <3>2 DEF SelectReturns, CallRecv, Reconnecting
    <3>3. CASE SelectTimesOut(t) \/ RecvFails(t)
      <4>1. pc[t] \in {"select", "recv"} /\ want'[t] = want[t]
        BY <3>3 DEF SelectTimesOut, RecvFails
      <4>2. want[t] # "inbound" => pc'[t] \in {"close", "closed"}
        BY <3>3 DEF SelectTimesOut, RecvFails
      <4>3. QED
        BY <4>1, <4>2 DEF Reconnecting
    <3>4. QED
      BY <1>7, <3>1, <3>2, <3>3
  <2>3. QED
    BY <1>1, <2>1, <2>2, QuietStep
<1>8. CASE RecvPacket(t)
  <2> DEFINE a == arg[t]
             k == Head(inbox[a])
  <2>1. a \in Sock /\ inbox[a] # << >> /\ UNCHANGED <<want, mysock, tcp, login>>
    BY <1>8 DEF RecvPacket
  <2>2. a = mysock
    BY <2>1 DEF OnlyMySock, LoggedIn
  <2>3. /\ 1 \in DOMAIN inbox[a] /\ k = inbox[a][1]
        /\ \A i \in DOMAIN Tail(inbox[a]) :
             i + 1 \in DOMAIN inbox[a] /\ Tail(inbox[a])[i] = inbox[a][i + 1]
    <3>1. inbox[a] \in Seq(Packet)
      BY <2>1
    <3>2. QED
      BY <2>1, <3>1, HeadTailProperties, EmptySeq
  <2>4. k.type = "SUBACK" => Subscribed
    BY <2>1, <2>2, <2>3 DEF LoggedIn, Subscribed
  <2>5. pc'[t] = After(t, k) /\ pc[t] = "recv"
    BY <1>8 DEF RecvPacket
  <2>6. Reconnecting(t)' \/ ~Reconnecting(t) \/ k.type = "SUBACK"
    <3>1. CASE want[t] \in {"pingresp", "inbound"}
      BY <2>5, <3>1 DEF Reconnecting
    <3>2. CASE want[t] \in {"connack", "close"}
      <4>1. pc'[t] \in {"subscribe", "close", "closed"}
        BY <2>5, <3>2 DEF After
      <4>2. QED
        BY <4>1 DEF Reconnecting
    <3>3. CASE want[t] = "suback"
      <4>1. pc'[t] = "close" \/ k.type = "SUBACK"
        BY <2>5, <3>3 DEF After
      <4>2. QED
        BY <4>1 DEF Reconnecting
    <3>4. QED
      BY <3>1, <3>2, <3>3 DEF Purpose
  <2>7. Subscribed' = Subscribed
    BY <2>1 DEF Subscribed, Usable
  <2>8. (\A u \in Task : ~Reconnecting(u)') => Subscribed'
    BY <1>1, <2>4, <2>6, <2>7 DEF LoggedIn
  <2>9. \A s \in Sock : \A i \in DOMAIN inbox'[s] :
          inbox'[s][i].type = "SUBACK" => login'[s] = "subscribed"
    <3>1. CASE inbox' = inbox
      BY <2>1, <3>1 DEF LoggedIn
    <3>2. CASE inbox' = [inbox EXCEPT ![a] = Tail(@)]
      BY <2>1, <2>3, <3>2 DEF LoggedIn
    <3>3. QED
      BY <1>8, <3>1, <3>2 DEF RecvPacket
  <2>10. \A s \in Sock : tcp'[s] \in {"free", "new"} => inbox'[s] = << >> /\ login'[s] = "none"
    <3>1. tcp[a] \notin {"free", "new"}
      BY <2>1 DEF LoggedIn
    <3>2. \A s \in Sock : s # a => inbox'[s] = inbox[s]
      BY <1>8 DEF RecvPacket
    <3>3. QED
      BY <2>1, <3>1, <3>2 DEF LoggedIn
  <2>11. QED
    BY <2>8, <2>9, <2>10 DEF LoggedIn
<1>9. QED
  BY <1>2, <1>3, <1>4, <1>5, <1>6, <1>7, <1>8 DEF TaskStep

LEMMA LoggedInLoops ==
  ASSUME TypeOK, LoggedIn, RecvLoop \/ SendLoop
  PROVE  LoggedIn'
<1> USE DEF TypeOK, GoTo, Await, At, netVars
<1>1. UNCHANGED <<tcp, inbox, login, mysock>>
  BY DEF RecvLoop, SendLoop, LoopReads, LoopIdle, PingDue, PingNotDue, PublishReading,
     SendPingDue
<1>2. \A t \in Task : Reconnecting(t)' = Reconnecting(t)
  <2>1. CASE LoopReads \/ LoopIdle \/ PingDue \/ PingNotDue
    <3>1. /\ pc["recv"] \in {"loop", "check"}
          /\ \/ pc'["recv"] \in {"check", "pinging", "loop"}
             \/ pc'["recv"] = "select" /\ want'["recv"] = "inbound"
      BY <2>1 DEF LoopReads, LoopIdle, PingDue, PingNotDue, Task
    <3>2. \A t \in Task : t # "recv" => pc'[t] = pc[t] /\ want'[t] = want[t]
      BY <2>1 DEF LoopReads, LoopIdle, PingDue, PingNotDue
    <3>3. QED
      BY <3>1, <3>2 DEF Reconnecting
  <2>2. CASE PublishReading
    BY <2>2 DEF PublishReading, Reconnecting
  <2>3. CASE SendPingDue
    <3>1. pc["send"] = "queue" /\ pc'["send"] = "pinging"
      BY <2>3 DEF SendPingDue, Task
    <3>2. \A t \in Task : t # "send" => pc'[t] = pc[t] /\ want'[t] = want[t]
      BY <2>3 DEF SendPingDue
    <3>3. QED
      BY <3>1, <3>2 DEF Reconnecting
  <2>4. QED
    BY <2>1, <2>2, <2>3 DEF RecvLoop, SendLoop
<1>3. PICK t \in Task : TRUE
  BY DEF Task
<1>4. QED
  BY <1>1, <1>2, <1>3, QuietStep

LEMMA LoggedInBroker ==
  ASSUME TypeOK, OnlyMySock, LoggedIn, Broker
  PROVE  LoggedIn'
<1>1. PICK s \in Sock : BrokerReceive(s) \/ BrokerPublish(s) \/ BrokerDrops(s)
  BY DEF Broker
<1>2. tcp[s] = "up" /\ s = mysock /\ UNCHANGED <<pc, want, mysock>>
  BY <1>1 DEF BrokerReceive, BrokerPublish, BrokerDrops, clientVars, OnlyMySock
<1>3. \A u \in Sock : /\ tcp'[u] # tcp[u] => tcp[u] = "up" /\ tcp'[u] = "dead"
                      /\ u # s => inbox'[u] = inbox[u] /\ login'[u] \in {login[u], "none"}
  BY <1>1 DEF BrokerReceive, BrokerPublish, BrokerDrops, Forward, Reply, Kill, TypeOK
<1>4. login'[s] = login[s] \/ login[s] = "none" \/ login'[s] = "subscribed"
  BY <1>1 DEF BrokerReceive, BrokerPublish, BrokerDrops, TypeOK
<1>5. \/ inbox'[s] = inbox[s]
      \/ \E k \in Packet : /\ inbox'[s] = Append(inbox[s], k)
                           /\ k.type = "SUBACK" => login'[s] = "subscribed"
  <2>1. CASE UNCHANGED inbox
    BY <2>1
  <2>2. CASE Reply(s, Plain("CONNACK")) \/ Reply(s, Plain("PINGRESP")) \/ Reply(s, Plain("PUBLISH"))
    BY <2>2, Packets DEF Reply, Plain, TypeOK
  <2>3. ASSUME NEW k \in Packet, k.type = "SUBSCRIBE", Reply(s, [k EXCEPT !.type = "SUBACK"]),
               login' = [login EXCEPT ![s] = "subscribed"]
        PROVE  \E j \in Packet : /\ inbox'[s] = Append(inbox[s], j)
                                 /\ j.type = "SUBACK" => login'[s] = "subscribed"
    BY <2>3, AckOfSubscribe DEF Reply, TypeOK
  <2>4. outbox[s] # << >> => Head(outbox[s]) \in Packet
    BY HeadTailProperties, EmptySeq DEF TypeOK
  <2>5. QED
    BY <1>1, <2>1, <2>2, <2>3, <2>4 DEF BrokerReceive, BrokerPublish, BrokerDrops, Forward
<1>6. \A u \in Sock : tcp'[u] \in {"free", "new"} => inbox'[u] = << >> /\ login'[u] = "none"
  BY <1>2, <1>3 DEF LoggedIn
<1>7. \A i \in DOMAIN inbox'[s] : inbox'[s][i].type = "SUBACK" => login'[s] = "subscribed"
  <2>1. CASE inbox'[s] = inbox[s]
    BY <1>4, <2>1 DEF LoggedIn
  <2>2. ASSUME NEW k \in Packet, inbox'[s] = Append(inbox[s], k),
               k.type = "SUBACK" => login'[s] = "subscribed",
               NEW i \in DOMAIN inbox'[s], inbox'[s][i].type = "SUBACK"
        PROVE  login'[s] = "subscribed"
    <3>1. inbox[s] \in Seq(Packet)
      BY DEF TypeOK
    <3>2. (i \in DOMAIN inbox[s] /\ inbox'[s][i] = inbox[s][i]) \/ inbox'[s][i] = k
      BY <2>2, <3>1, AppendProperties
    <3>3. QED
      BY <1>4, <2>2, <3>2 DEF LoggedIn
  <2>3. QED
    BY <1>5, <2>1, <2>2
<1>8. \A u \in Sock : \A i \in DOMAIN inbox'[u] :
        inbox'[u][i].type = "SUBACK" => login'[u] = "subscribed"
  <2>1. \A u \in Sock : u # s => inbox'[u] = << >>
    BY <1>2, <1>3 DEF OnlyMySock, LoggedIn
  <2>2. DOMAIN << >> = {}
    OBVIOUS
  <2>3. QED
    BY <1>7, <2>1, <2>2
<1>9. Subscribed => Subscribed'
  BY <1>2, <1>3, <1>4 DEF Subscribed, Usable
<1>10. \A t \in Task : Reconnecting(t)' = Reconnecting(t)
  BY <1>2 DEF Reconnecting
<1>11. QED
  BY <1>6, <1>8, <1>9, <1>10 DEF LoggedIn

-----------------------------------------------------------------------------
(* Until both tasks reconnect at once, the three hold together. *)
SessionInv == ~together => NotBoth /\ OnlyMySock /\ LoggedIn

LEMMA SessionInvInit == Init => SessionInv
<1> SUFFICES ASSUME Init PROVE SessionInv
  OBVIOUS
<1>1. pc["send"] = "queue" /\ "send" \in Task
  BY DEF Init, Task
<1>2. NotBoth
  BY <1>1 DEF NotBoth, Reconnecting
<1>3. OnlyMySock
  BY DEF Init, OnlyMySock
<1>4. QED
  BY <1>2, <1>3, LoggedInInit DEF SessionInv

LEMMA SessionInvNext == TypeOK /\ SessionInv /\ [Next]_vars => SessionInv'
<1> SUFFICES ASSUME TypeOK, SessionInv, [Next]_vars, ~together' PROVE (NotBoth /\ OnlyMySock /\ LoggedIn)'
  BY DEF SessionInv
<1>1. CASE UNCHANGED vars
  <2>1. ~together
    BY <1>1 DEF vars
  <2>2. QED
    BY <1>1, <2>1 DEF SessionInv, NotBoth, OnlyMySock, LoggedIn, Subscribed, Usable,
       Reconnecting, vars, clientVars, netVars
<1>2. CASE Next
  <2>1. Remember
    BY <1>2 DEF Next, TaskStep, RecvLoop, SendLoop, Broker
  <2>2. ~together /\ NotBoth'
    BY <2>1 DEF Remember, NotBoth
  <2>3. NotBoth /\ OnlyMySock /\ LoggedIn
    BY <2>2 DEF SessionInv
  <2>4. ASSUME NEW t \in Task, TaskStep(t) PROVE (OnlyMySock /\ LoggedIn)'
    BY <2>2, <2>3, <2>4, OnlyMySockTask, LoggedInTask
  <2>5. ASSUME RecvLoop \/ SendLoop PROVE (OnlyMySock /\ LoggedIn)'
    BY <2>3, <2>5, OnlyMySockOthers, LoggedInLoops
  <2>6. ASSUME Broker PROVE (OnlyMySock /\ LoggedIn)'
    BY <2>3, <2>6, OnlyMySockOthers, LoggedInBroker
  <2>7. QED
    BY <1>2, <2>2, <2>4, <2>5, <2>6 DEF Next
<1>3. QED
  BY <1>1, <1>2

\* Reconnecting leaks no socket, whichever task does it, until both do it at once.
THEOREM OneConnectionTheorem == Spec => []OneConnection
<1>1. SessionInv => OneConnection
  BY DEF SessionInv, OnlyMySock, OneConnection, OneSocket, Open
<1>2. QED
  BY <1>1, SessionInvInit, SessionInvNext, TypeInit, TypeNext, PTL DEF Spec

\* Whichever task opened the connection, and whichever read which answer: while
\* neither reconnects, and until both have at once, it is subscribed or gone.
THEOREM InSessionTheorem == Spec => []InSession
<1>1. SessionInv => InSession
  BY DEF SessionInv, LoggedIn, Subscribed, InSession
<1>2. QED
  BY <1>1, SessionInvInit, SessionInvNext, TypeInit, TypeNext, PTL DEF Spec
=============================================================================
