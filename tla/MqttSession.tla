------------------------------ MODULE MqttSession ------------------------------
(***************************************************************************)
(* The two MQTT tasks and the connection they share: mqtt_thread ("recv")  *)
(* and mqtt_send ("send") of User/mqttclient.c, Client_Connect, and the    *)
(* one socket variable mysock of MQTT/transport.c over lwIP's table of     *)
(* sockets.                                                                *)
(*                                                                         *)
(* The scheduler is preemptive with fixed priorities: mqtt_send above      *)
(* mqtt_thread, both above tcpip_thread and the Ethernet task.  So         *)
(* mqtt_thread moves only while mqtt_send waits, and the network only      *)
(* while both do.                                                          *)
(***************************************************************************)
EXTENDS Integers, Sequences, FiniteSets

CONSTANTS
  NumSockets,   \* MEMP_NUM_NETCONN
  IdModulus,    \* packet identifiers on the wire: 2^16
  MaxLosses,    \* bound on broken connections and on requests without answer
  MaxQueue      \* bound on packets under way in one direction

ASSUME SessionAssumption ==
  /\ NumSockets \in Nat \ {0}
  /\ IdModulus \in Nat \ {0}
  /\ MaxLosses \in Nat /\ MaxQueue \in Nat

VARIABLES
  pc,           \* where each task is
  want,         \* what a task in select or recv is waiting for
  arg,          \* the descriptor of the call a task is in
  mysock,       \* transport.c: the socket of the connection
  MQTT_Socket,  \* mqttclient.c: the same, as returned by transport_open
  PacketID,     \* MQTTSubscribe: identifier of the next SUBSCRIBE
  quiet,        \* mqtt_send: no_mqtt_msg_exchange
  tcp,          \* lwIP: state of each socket
  inbox,        \* packets from the broker, per socket
  outbox,       \* packets to the broker, per socket
  login,        \* broker: how far the session of each socket has come
  losses,       \* failures so far
  together      \* history: both tasks were reconnecting at once

clientVars == <<pc, want, arg, mysock, MQTT_Socket, PacketID, quiet>>
netVars == <<tcp, inbox, outbox, login, losses>>
vars == <<clientVars, netVars, together>>

-----------------------------------------------------------------------------
Task == {"recv", "send"}
Sock == 0..NumSockets - 1
Descriptor == Sock \cup {-1}

Label == {"open", "opened", "connecting", "connected", "refused", "delay",
          "login", "subscribe", "loop", "check", "pinging", "select", "call",
          "recv", "close", "closed", "queue"}
Purpose == {"connack", "suback", "pingresp", "inbound", "close"}

Packet ==
  [type : {"CONNECT", "CONNACK", "PINGREQ", "PINGRESP", "PUBLISH", "FIN"}, id : {0}]
    \cup [type : {"SUBSCRIBE", "SUBACK"}, id : 0..IdModulus - 1]
Plain(type) == [type |-> type, id |-> 0]

TypeOK ==
  /\ pc \in [Task -> Label]
  /\ want \in [Task -> Purpose]
  /\ arg \in [Task -> Descriptor]
  /\ mysock \in Descriptor
  /\ MQTT_Socket \in Descriptor
  /\ PacketID \in 0..IdModulus + 1
  /\ quiet \in BOOLEAN
  /\ tcp \in [Sock -> {"free", "new", "up", "dead"}]
  /\ inbox \in [Sock -> Seq(Packet)]
  /\ outbox \in [Sock -> Seq(Packet)]
  /\ login \in [Sock -> {"none", "accepted", "subscribed"}]
  /\ losses \in Nat
  /\ together \in BOOLEAN

Init ==
  /\ pc = [t \in Task |-> IF t = "recv" THEN "open" ELSE "queue"]
  /\ want = [t \in Task |-> "connack"]
  /\ arg = [t \in Task |-> -1]
  /\ mysock = 0
  /\ MQTT_Socket = 0
  /\ PacketID = 0
  /\ quiet = TRUE
  /\ tcp = [s \in Sock |-> "free"]
  /\ inbox = [s \in Sock |-> << >>]
  /\ outbox = [s \in Sock |-> << >>]
  /\ login = [s \in Sock |-> "none"]
  /\ losses = 0
  /\ together = FALSE

-----------------------------------------------------------------------------
(* Sockets (lwIP, as the client uses them) *)

Open(fd) == fd \in Sock /\ tcp[fd] # "free"
Usable(fd) == fd \in Sock /\ tcp[fd] = "up"

\* select returns at once for data, for an error, and, with EBADF and its sets
\* untouched, for a descriptor that is not open.
Readable(fd) ==
  fd \in Sock /\ (tcp[fd] \in {"free", "dead"} \/ inbox[fd] # << >>)

\* recv waits only on a connection that is up and has no data.
RecvWaits(fd) == Usable(fd) /\ inbox[fd] = << >>

\* A small packet is accepted by a connection that is up, refused otherwise.
Send(fd, k) ==
  outbox' = IF Usable(fd) THEN [outbox EXCEPT ![fd] = Append(@, k)] ELSE outbox

\* close: the socket is free again; a call of the other task that is inside the
\* connection loses it.
Close(fd) ==
  /\ tcp' = IF fd \in Sock THEN [tcp EXCEPT ![fd] = "free"] ELSE tcp
  /\ inbox' = IF fd \in Sock THEN [inbox EXCEPT ![fd] = << >>] ELSE inbox
  /\ outbox' = IF fd \in Sock THEN [outbox EXCEPT ![fd] = << >>] ELSE outbox
  /\ login' = IF fd \in Sock THEN [login EXCEPT ![fd] = "none"] ELSE login
  /\ arg' = [t \in Task |->
               IF arg[t] = fd /\ pc[t] \in {"recv", "connecting"} THEN -1 ELSE arg[t]]

Waiting(t) ==
  \/ pc[t] \in {"delay", "queue"}
  \/ pc[t] = "connecting" /\ arg[t] \in Sock /\ tcp[arg[t]] = "new"
  \/ pc[t] = "loop" /\ ~Readable(MQTT_Socket)
  \/ pc[t] = "select" /\ ~Readable(arg[t])
  \/ pc[t] = "recv" /\ RecvWaits(arg[t])

\* t is the task the scheduler runs, and it is at label l.
At(t, l) ==
  /\ pc[t] = l
  /\ \A u \in Task \ {t} : t = "send" \/ Waiting(u)

GoTo(t, l) == pc' = [pc EXCEPT ![t] = l]
Await(t, l, w) == GoTo(t, l) /\ want' = [want EXCEPT ![t] = w]

\* A failure of the network or the broker, while any are left.
Loss == losses < MaxLosses /\ losses' = losses + 1

\* What a task does when all is well.
Home(t) == IF t = "recv" THEN "loop" ELSE "queue"

-----------------------------------------------------------------------------
(* transport_open *)

\* Seeded bug: the end of the table is not noticed.
OpenSocketOnePast(t) ==
  /\ At(t, "open")
  /\ mysock' = Cardinality({s \in Sock : tcp[s] # "free"})
  /\ tcp' = [s \in Sock |-> IF s = mysock' THEN "new" ELSE tcp[s]]
  /\ GoTo(t, "opened")
  /\ UNCHANGED <<want, arg, MQTT_Socket, PacketID, quiet, inbox, outbox, login, losses>>

OpenSocket(t) ==
  /\ At(t, "open")
  /\ LET free == {s \in Sock : tcp[s] = "free"} IN
       \/ /\ free = {}
          /\ mysock' = -1
          /\ UNCHANGED tcp
       \/ \E s \in free :
            /\ \A u \in free : s <= u
            /\ mysock' = s
            /\ tcp' = [tcp EXCEPT ![s] = "new"]
  /\ GoTo(t, "opened")
  /\ UNCHANGED <<want, arg, MQTT_Socket, PacketID, quiet, inbox, outbox, login, losses>>

StartConnect(t) ==
  /\ At(t, "opened")
  /\ arg' = [arg EXCEPT ![t] = mysock]
  /\ GoTo(t, "connecting")
  /\ UNCHANGED <<want, mysock, MQTT_Socket, PacketID, quiet, netVars>>

Connect(t) ==
  /\ At(t, "connecting")
  /\ arg[t] \in Sock /\ tcp[arg[t]] = "new"
  /\ tcp' = [tcp EXCEPT ![arg[t]] = "up"]
  /\ GoTo(t, "connected")
  /\ UNCHANGED <<want, arg, mysock, MQTT_Socket, PacketID, quiet, inbox, outbox, login, losses>>

ConnectFails(t) ==
  /\ At(t, "connecting")
  /\ IF arg[t] \in Sock /\ tcp[arg[t]] = "new" THEN Loss ELSE UNCHANGED losses
  /\ GoTo(t, "refused")
  /\ UNCHANGED <<want, arg, mysock, MQTT_Socket, PacketID, quiet, tcp, inbox, outbox, login>>

\* close(*sock); return -1; and Client_Connect waits three seconds.
Refused(t) ==
  /\ At(t, "refused")
  /\ Close(mysock)
  /\ MQTT_Socket' = -1
  /\ GoTo(t, "delay")
  /\ UNCHANGED <<want, mysock, PacketID, quiet, losses>>

DelayOver(t) ==
  /\ At(t, "delay")
  /\ GoTo(t, "open")
  /\ UNCHANGED <<want, arg, mysock, MQTT_Socket, PacketID, quiet, netVars>>

\* Seeded bug: the new socket is not handed to Client_Connect.
ConnectedKeepsOld(t) ==
  /\ At(t, "connected")
  /\ GoTo(t, IF mysock = -1 THEN "delay" ELSE "login")
  /\ UNCHANGED <<want, arg, mysock, MQTT_Socket, PacketID, quiet, netVars>>

\* return *sock
Connected(t) ==
  /\ At(t, "connected")
  /\ MQTT_Socket' = mysock
  /\ GoTo(t, IF mysock = -1 THEN "delay" ELSE "login")
  /\ UNCHANGED <<want, arg, mysock, PacketID, quiet, netVars>>

-----------------------------------------------------------------------------
(* MQTT_Connect, MQTTSubscribe, MQTT_PingReq: a request and its answer *)

Login(t) ==
  /\ At(t, "login")
  /\ Send(mysock, Plain("CONNECT"))
  /\ Await(t, "call", "connack")
  /\ UNCHANGED <<arg, mysock, MQTT_Socket, PacketID, quiet, tcp, inbox, login, losses>>

\* PacketID is 32 bits wide, the identifier on the wire IdModulus values; from
\* IdModulus + 1 on, the values of PacketID are not told apart.
Subscribe(t) ==
  /\ At(t, "subscribe")
  /\ PacketID' = IF PacketID > IdModulus THEN PacketID ELSE PacketID + 1
  /\ Send(mysock, [type |-> "SUBSCRIBE", id |-> PacketID % IdModulus])
  /\ IF Usable(mysock)
       THEN Await(t, "select", "suback") /\ arg' = [arg EXCEPT ![t] = MQTT_Socket]
       ELSE GoTo(t, "close") /\ UNCHANGED <<want, arg>>
  /\ UNCHANGED <<mysock, MQTT_Socket, quiet, tcp, inbox, login, losses>>

Ping(t) ==
  /\ At(t, "pinging")
  /\ Send(mysock, Plain("PINGREQ"))
  /\ Await(t, "select", "pingresp")
  /\ arg' = [arg EXCEPT ![t] = MQTT_Socket]
  /\ UNCHANGED <<mysock, MQTT_Socket, PacketID, quiet, tcp, inbox, login, losses>>

SelectReturns(t) ==
  /\ At(t, "select")
  /\ Readable(arg[t])
  /\ GoTo(t, "call")
  /\ UNCHANGED <<want, arg, mysock, MQTT_Socket, PacketID, quiet, netVars>>

\* After 2, 5 or 50 seconds.  It is a failure where the broker still has the
\* request before it, and none where the other task took the answer.
SelectTimesOut(t) ==
  /\ At(t, "select")
  /\ ~Readable(arg[t])
  /\ IF Usable(arg[t]) /\ want[t] # "inbound" /\ outbox[arg[t]] # << >>
       THEN Loss ELSE UNCHANGED losses
  /\ GoTo(t, IF want[t] = "inbound" THEN "check" ELSE "close")
  /\ UNCHANGED <<want, arg, mysock, MQTT_Socket, PacketID, quiet, tcp, inbox, outbox, login>>

\* MQTTPacket_read calls transport_getdata, which uses mysock.
CallRecv(t) ==
  /\ At(t, "call")
  /\ arg' = [arg EXCEPT ![t] = mysock]
  /\ GoTo(t, "recv")
  /\ UNCHANGED <<want, mysock, MQTT_Socket, PacketID, quiet, netVars>>

\* Seeded bug: a session without its subscription.
AfterNoSubscribe(t, k) ==
  CASE want[t] = "connack"  -> IF k.type = "CONNACK" THEN Home(t) ELSE "close"
    [] want[t] = "suback"   -> IF k.type = "SUBACK" THEN Home(t) ELSE "close"
    [] want[t] = "pingresp" -> IF k.type = "PINGRESP" THEN Home(t) ELSE "close"
    [] want[t] = "inbound"  -> "loop"
    [] want[t] = "close"    -> "closed"

\* Where a task goes with the packet it has read.
After(t, k) ==
  CASE want[t] = "connack"  -> IF k.type = "CONNACK" THEN "subscribe" ELSE "close"
    [] want[t] = "suback"   -> IF k.type = "SUBACK" /\ k.id = PacketID - 1
                                 THEN Home(t) ELSE "close"
    [] want[t] = "pingresp" -> IF k.type = "PINGRESP" THEN Home(t) ELSE "close"
    [] want[t] = "inbound"  -> "loop"
    [] want[t] = "close"    -> "closed"

RecvPacket(t) ==
  /\ At(t, "recv")
  /\ arg[t] \in Sock /\ inbox[arg[t]] # << >>
  /\ GoTo(t, After(t, Head(inbox[arg[t]])))
  /\ inbox' = IF want[t] = "close" THEN inbox
              ELSE [inbox EXCEPT ![arg[t]] = Tail(@)]
  /\ quiet' = IF t = "send" /\ want[t] = "pingresp" /\ Head(inbox[arg[t]]).type = "PINGRESP"
                THEN FALSE ELSE quiet
  /\ UNCHANGED <<want, arg, mysock, MQTT_Socket, PacketID, tcp, outbox, login, losses>>


RecvFails(t) ==
  /\ At(t, "recv")
  /\ ~RecvWaits(arg[t])
  /\ ~(arg[t] \in Sock /\ inbox[arg[t]] # << >>)
  /\ GoTo(t, CASE want[t] = "inbound" -> "check"
               [] want[t] = "close"   -> "closed"
               [] OTHER               -> "close")
  /\ UNCHANGED <<want, arg, mysock, MQTT_Socket, PacketID, quiet, netVars>>

-----------------------------------------------------------------------------
(* transport_close *)

Shutdown(t) ==
  /\ At(t, "close")
  /\ Send(mysock, Plain("FIN"))
  /\ Await(t, "call", "close")
  /\ UNCHANGED <<arg, mysock, MQTT_Socket, PacketID, quiet, tcp, inbox, login, losses>>

\* Seeded bug: transport_close without close().
CloseSocketLeaks(t) ==
  /\ At(t, "closed")
  /\ GoTo(t, "open")
  /\ UNCHANGED <<want, arg, mysock, MQTT_Socket, PacketID, quiet, netVars>>

CloseSocket(t) ==
  /\ At(t, "closed")
  /\ Close(mysock)
  /\ GoTo(t, "open")
  /\ UNCHANGED <<want, mysock, MQTT_Socket, PacketID, quiet, losses>>

-----------------------------------------------------------------------------
(* The two loops *)

\* mqtt_thread: select for a millisecond, then ReadPacketTimeout.
LoopReads ==
  /\ At("recv", "loop")
  /\ Readable(MQTT_Socket)
  /\ Await("recv", "select", "inbound")
  /\ arg' = [arg EXCEPT !["recv"] = MQTT_Socket]
  /\ UNCHANGED <<mysock, MQTT_Socket, PacketID, quiet, netVars>>

LoopIdle ==
  /\ At("recv", "loop")
  /\ ~Readable(MQTT_Socket)
  /\ GoTo("recv", "check")
  /\ UNCHANGED <<want, arg, mysock, MQTT_Socket, PacketID, quiet, netVars>>

\* KEEPLIVE_TIME/2 seconds since the last packet, or not.
PingDue ==
  /\ At("recv", "check")
  /\ GoTo("recv", "pinging")
  /\ UNCHANGED <<want, arg, mysock, MQTT_Socket, PacketID, quiet, netVars>>

PingNotDue ==
  /\ At("recv", "check")
  /\ GoTo("recv", "loop")
  /\ UNCHANGED <<want, arg, mysock, MQTT_Socket, PacketID, quiet, netVars>>

\* mqtt_send: a reading arrives and is published at QoS 0.  MQTTMsgPublish takes
\* the length from an uninitialised variable; where the packet does not fit the
\* buffer for that reason nothing is sent and nothing changes.  A reading sent
\* before the broker has accepted the CONNECT may end the connection and counts
\* as a failure.
PublishReading ==
  /\ At("send", "queue")
  /\ Usable(mysock) => Len(outbox[mysock]) < MaxQueue
  /\ Send(mysock, Plain("PUBLISH"))
  /\ quiet' = IF Usable(mysock) THEN FALSE ELSE quiet
  /\ IF Usable(mysock) /\ login[mysock] = "none" THEN Loss ELSE UNCHANGED losses
  /\ UNCHANGED <<pc, want, arg, mysock, MQTT_Socket, PacketID, tcp, inbox, login>>

\* mqtt_send: curtick is not initialised, so the first ping comes at any time;
\* no_mqtt_msg_exchange is never set again once it is 0.  A message that waits for
\* mqtt_thread is read in place of the answer and counts as a failure.
SendPingDue ==
  /\ At("send", "queue")
  /\ quiet
  /\ IF Usable(mysock) /\ inbox[mysock] # << >> THEN Loss ELSE UNCHANGED losses
  /\ GoTo("send", "pinging")
  /\ UNCHANGED <<want, arg, mysock, MQTT_Socket, PacketID, quiet, tcp, inbox, outbox, login>>

-----------------------------------------------------------------------------
(* The broker and the network (external) *)

NetworkRuns == \A t \in Task : Waiting(t)

Reply(s, k) == inbox' = [inbox EXCEPT ![s] = Append(@, k)]

\* A message that crosses a request, and is read in place of the answer, counts
\* as a failure.
Forward(s) ==
  /\ Reply(s, Plain("PUBLISH"))
  /\ IF \E t \in Task : pc[t] = "select" THEN Loss ELSE UNCHANGED losses

Kill(S) == tcp' = [s \in Sock |-> IF s \in S THEN "dead" ELSE tcp[s]]

BrokerReceive(s) ==
  /\ NetworkRuns
  /\ tcp[s] = "up" /\ outbox[s] # << >> /\ Len(inbox[s]) < MaxQueue
  /\ outbox' = [outbox EXCEPT ![s] = Tail(@)]
  /\ LET k == Head(outbox[s]) IN
       \* A second connection of the same client ends the first.
       \/ /\ k.type = "CONNECT" /\ login[s] = "none"
          /\ login' = [u \in Sock |-> IF u = s THEN "accepted" ELSE "none"]
          /\ Kill({u \in Sock \ {s} : login[u] # "none" /\ tcp[u] = "up"})
          /\ Reply(s, Plain("CONNACK"))
          /\ UNCHANGED losses
       \/ /\ k.type = "SUBSCRIBE" /\ login[s] # "none"
          /\ login' = [login EXCEPT ![s] = "subscribed"]
          /\ Reply(s, [k EXCEPT !.type = "SUBACK"])
          /\ UNCHANGED <<tcp, losses>>
       \/ /\ k.type = "PINGREQ" /\ login[s] # "none"
          /\ Reply(s, Plain("PINGRESP"))
          /\ UNCHANGED <<tcp, login, losses>>
       \* The client publishes on the topic it subscribes to, at QoS 0: the
       \* broker may send the reading back, and may drop it.
       \/ /\ k.type = "PUBLISH" /\ login[s] # "none"
          /\ \/ login[s] = "subscribed" /\ Forward(s)
             \/ UNCHANGED <<inbox, losses>>
          /\ UNCHANGED <<tcp, login>>
       \* The end of the client's data, anything before CONNECT, a second CONNECT.
       \/ /\ k.type = "FIN" \/ (k.type = "CONNECT") = (login[s] # "none")
          /\ Kill({s})
          /\ UNCHANGED <<inbox, login, losses>>
  /\ UNCHANGED clientVars

\* A message of another client on the topic.
BrokerPublish(s) ==
  /\ NetworkRuns
  /\ tcp[s] = "up" /\ login[s] = "subscribed" /\ Len(inbox[s]) < MaxQueue
  /\ Forward(s)
  /\ UNCHANGED <<clientVars, tcp, outbox, login>>

BrokerDrops(s) ==
  /\ NetworkRuns
  /\ tcp[s] = "up"
  /\ Loss
  /\ Kill({s})
  /\ UNCHANGED <<clientVars, inbox, outbox, login>>

-----------------------------------------------------------------------------
\* From the end of one session to the beginning of the next: transport_close and
\* Client_Connect.
Reconnecting(t) ==
  \/ pc[t] \in {"close", "closed", "open", "opened", "connecting", "connected",
                "refused", "delay", "login", "subscribe"}
  \/ pc[t] \in {"select", "call", "recv"} /\ want[t] \in {"connack", "suback", "close"}

Remember == together' = (together \/ (\A t \in Task : Reconnecting(t))')

TaskStep(t) ==
  /\ \/ OpenSocket(t) \/ StartConnect(t) \/ Connect(t) \/ ConnectFails(t)
     \/ Refused(t) \/ DelayOver(t) \/ Connected(t)
     \/ Login(t) \/ Subscribe(t) \/ Ping(t)
     \/ SelectReturns(t) \/ SelectTimesOut(t) \/ CallRecv(t)
     \/ RecvPacket(t) \/ RecvFails(t) \/ Shutdown(t) \/ CloseSocket(t)
  /\ Remember

RecvLoop == (LoopReads \/ LoopIdle \/ PingDue \/ PingNotDue) /\ Remember
SendLoop == (PublishReading \/ SendPingDue) /\ Remember
Broker ==
  (\E s \in Sock : BrokerReceive(s) \/ BrokerPublish(s) \/ BrokerDrops(s)) /\ Remember

Next == (\E t \in Task : TaskStep(t)) \/ RecvLoop \/ SendLoop \/ Broker

Spec == Init /\ [][Next]_vars

\* Outside a session nothing comes but answers to mqtt_send, and mqtt_send does
\* not ask twice without one: the tick count runs away from curtick and
\* mqtt_thread's ping falls due.
LonelyPing ==
  PingDue /\ Remember /\ ~(Usable(MQTT_Socket) /\ login[MQTT_Socket] = "subscribed")

\* Every task gets the processor.  A broker that is up answers: recv has no
\* timeout, so a broker that does not would keep the client in it.
FairSpec ==
  /\ Spec
  /\ \A t \in Task : WF_vars(TaskStep(t))
  /\ WF_vars(RecvLoop) /\ SF_vars(LonelyPing)
  /\ \A s \in Sock : WF_vars(BrokerReceive(s) /\ Remember)

-----------------------------------------------------------------------------
(* Properties *)

\* Labels of Client_Connect's loop around transport_open.
Opening(t) == pc[t] \in {"open", "opened", "connecting", "connected", "refused", "delay"}

\* The two copies of the descriptor, mysock in transport.c and MQTT_Socket in
\* mqttclient.c, differ only while some task is inside the loop that opens the
\* connection, whichever of the two tasks reconnects and in whatever order.
DescriptorsAgree == (\A t \in Task : ~Opening(t)) => MQTT_Socket = mysock

\* At most one socket of lwIP's table is in use.
OneSocket == \A s, u \in Sock : Open(s) /\ Open(u) => s = u

\* A task that reconnects leaks no socket, even while the other reads, publishes
\* and pings on the connection it replaces: at most one is in use, as long as the
\* two have not both been reconnecting at once.
OneConnection == ~together => OneSocket

\* Until both tasks reconnect at once: while neither does, the connection, as long
\* as it lasts, is one for which the broker has accepted CONNECT and SUBSCRIBE,
\* whichever task opened it and whoever read which answer.
InSession ==
  ~together /\ (\A t \in Task : ~Reconnecting(t)) /\ Usable(mysock)
    => login[mysock] = "subscribed"


\* "Close the connection", then "connect to the server again" (mqttclient.c:635-638
\* and 717-720): one connection at a time.
ReconnectsAfterClosing == OneSocket
=============================================================================
