----------------------------- MODULE MqttKeepAlive -----------------------------
(***************************************************************************)
(* When the MQTT client pings: the tick counts in the loops of mqtt_thread *)
(* and mqtt_send, and the calls in which they block.                       *)
(*                                                                         *)
(* The unit of time is long beside one pass of a loop and short beside     *)
(* KEEPLIVE_TIME: whatever can run has run before time goes on.  The tick  *)
(* count wraps.  Sockets are reduced to one link, which is what there is   *)
(* until both tasks reconnect at once; from there on MqttSession has them. *)
(***************************************************************************)
EXTENDS Integers

CONSTANTS
  Half,          \* KEEPLIVE_TIME/2*1000
  ReadWait,      \* ReadPacketTimeout waits so long for a packet to begin
  PingWait,      \* MQTT_PingReq waits so long for an answer to begin
  QueueWait,     \* mqtt_send waits so long for a reading
  TickModulus    \* 2^32

ASSUME KeepAliveAssumption ==
  /\ {Half, ReadWait, PingWait, QueueWait, TickModulus} \subseteq Nat \ {0}
  /\ PingWait < Half /\ Half < ReadWait
  /\ Half + ReadWait + 2 < TickModulus

Task == {"recv", "send"}       \* mqtt_thread, mqtt_send

VARIABLES
  xTickCount,
  curtick,                \* of each task
  no_mqtt_msg_exchange,   \* of each task
  pc,
  waited,                 \* how long each task has been in its timed call
  link,                   \* the connection: it can fall silent or be reset
  data,                   \* what can be read from it
  silence,                \* history: time since a packet was last sent, or since
                          \* mqtt_thread's login
  idle,                   \* history: and since mqtt_thread last received one
  down,                   \* history: time since the connection failed
  kept                    \* history: whether mqtt_thread's reads have kept it
                          \* waiting, in select or even in recv, since its login

history == <<silence, idle, down, kept>>
vars == <<xTickCount, curtick, no_mqtt_msg_exchange, pc, waited, link, data, history>>

\* Beyond that the times make no difference.
MaxTime == Half + ReadWait + PingWait + 2

Label == {"connect", "login", "wait", "select", "read", "check", "ping", "answer"}

TypeOK ==
  /\ xTickCount \in 0..TickModulus - 1
  /\ curtick \in [Task -> 0..TickModulus - 1]
  /\ no_mqtt_msg_exchange \in [Task -> BOOLEAN]
  /\ pc \in [Task -> Label]
  /\ waited \in [Task -> 0..ReadWait + QueueWait]
  /\ link \in {"none", "up", "silent", "reset"}
  /\ data \in {"nothing", "part", "packet"}
  /\ silence \in 0..MaxTime /\ idle \in 0..MaxTime /\ down \in 0..MaxTime
  /\ kept \in {"no", "select", "recv"}

\* curtick of mqtt_send is not initialised.
Init ==
  /\ xTickCount = 0
  /\ \E c \in 0..TickModulus - 1 : curtick = [t \in Task |-> IF t = "send" THEN c ELSE 0]
  /\ no_mqtt_msg_exchange = [t \in Task |-> TRUE]
  /\ pc = [t \in Task |-> IF t = "recv" THEN "connect" ELSE "wait"]
  /\ waited = [t \in Task |-> 0]
  /\ link = "none" /\ data = "nothing"
  /\ silence = 0 /\ idle = 0 /\ down = 0 /\ kept = "no"

-----------------------------------------------------------------------------
(* Time *)

\* A write fails on a socket that is closed or reset, and select and recv end: on
\* one that was reset at once, on one that the other task closes at any time, since
\* transport_close waits in recv between shutdown and close.
Failed == link \in {"none", "reset"}
Readable == Failed \/ data # "nothing"

\* How long select or the queue lets a task wait.
Limit(t) ==
  CASE pc[t] = "wait"   -> IF t = "recv" THEN 1 ELSE QueueWait
    [] pc[t] = "select" -> ReadWait
    [] pc[t] = "ping"   -> PingWait
    [] OTHER            -> 0

Timed(t) == pc[t] \in {"wait", "select", "ping"}

\* recv has no limit: it ends with the packet it was to read, or with the connection.
MustRun(t) ==
  \/ pc[t] = "check"
  \/ Timed(t) /\ waited[t] = Limit(t)
  \/ pc[t] = "wait" /\ t = "recv" /\ (link = "reset" \/ data # "nothing")
  \/ pc[t] \in {"select", "ping"} /\ (link = "reset" \/ data # "nothing")
  \/ pc[t] \in {"read", "answer"} /\ (link = "reset" \/ data = "packet")

Later(time) == IF time < MaxTime THEN time + 1 ELSE time

Elapse ==
  /\ \A t \in Task : ~MustRun(t)
  /\ waited' = [t \in Task |-> IF Timed(t) THEN waited[t] + 1 ELSE 0]
  /\ silence' = Later(silence) /\ idle' = Later(idle)
  /\ down' = IF link \in {"silent", "reset"} THEN Later(down) ELSE down
  /\ kept' = CASE pc["recv"] \in {"read", "answer"}          -> "recv"
               [] pc["recv"] = "select" /\ kept = "no" -> "select"
               [] OTHER                                -> kept
  /\ UNCHANGED <<curtick, no_mqtt_msg_exchange, pc, link, data>>

\* Seeded bug: the count does not wrap.
TickUnbounded == Elapse /\ xTickCount' = xTickCount + 1

Tick == Elapse /\ xTickCount' = (xTickCount + 1) % TickModulus

\* Seeded bug: two points in time are compared instead of a distance.
OverdueCompare(t) == xTickCount > curtick[t] + Half

Overdue(t) == (xTickCount - curtick[t]) % TickModulus > Half

-----------------------------------------------------------------------------
(* Steps of the tasks *)

GoTo(t, l) == pc' = [pc EXCEPT ![t] = l] /\ waited' = [waited EXCEPT ![t] = 0]

\* A packet was exchanged.
Exchange(t) ==
  /\ no_mqtt_msg_exchange' = [no_mqtt_msg_exchange EXCEPT ![t] = FALSE]
  /\ curtick' = [curtick EXCEPT ![t] = xTickCount]

\* A packet is sent, and leaves unless the socket is dead.
Send == IF Failed THEN UNCHANGED <<silence, idle>> ELSE silence' = 0 /\ idle' = 0

Reconnecting(t) == pc[t] \in {"connect", "login"}
\* Both at once is left to MqttSession.
Alone(t) == \A u \in Task \ {t} : ~Reconnecting(u)

\* Client_Connect: transport_open, and CONNECT is sent.
Open(t) ==
  /\ pc[t] = "connect" /\ Alone(t)
  /\ GoTo(t, "login")
  /\ link' = "up" /\ data' = "nothing"
  /\ silence' = 0 /\ idle' = 0 /\ down' = 0
  /\ UNCHANGED <<xTickCount, curtick, no_mqtt_msg_exchange, kept>>

\* CONNACK and SUBACK have come; in mqtt_thread the loop starts.
LogIn(t) ==
  /\ pc[t] = "login" /\ Alone(t)
  /\ link = "up"
  /\ GoTo(t, "wait")
  /\ IF t = "recv"
       THEN /\ curtick' = [curtick EXCEPT ![t] = xTickCount]
            /\ silence' = 0 /\ idle' = 0 /\ kept' = "no"
       ELSE UNCHANGED <<curtick, silence, idle, kept>>
  /\ UNCHANGED <<xTickCount, no_mqtt_msg_exchange, link, data, down>>

\* transport_close, and Client_Connect from its start.
Close(t) ==
  /\ GoTo(t, "connect")
  /\ link' = "none" /\ data' = "nothing" /\ down' = 0
  /\ UNCHANGED <<xTickCount, curtick, no_mqtt_msg_exchange, silence, idle, kept>>

\* A refusal, or no answer.
LoginFails(t) == pc[t] = "login" /\ Close(t)

\* The first select of mqtt_thread's loop, and the test of its result.
FirstSelect ==
  /\ pc["recv"] = "wait"
  /\ \/ Readable /\ GoTo("recv", "select")
     \/ data = "nothing" /\ waited["recv"] = 1 /\ GoTo("recv", "check")
  /\ no_mqtt_msg_exchange' = [no_mqtt_msg_exchange EXCEPT !["recv"] = TRUE]
  /\ UNCHANGED <<xTickCount, curtick, link, data, history>>

\* The second one, in ReadPacketTimeout: mqtt_send may have read in between.
SecondSelect ==
  /\ pc["recv"] = "select"
  /\ \/ Readable /\ GoTo("recv", "read")
     \/ data = "nothing" /\ waited["recv"] = ReadWait /\ GoTo("recv", "check")
  /\ UNCHANGED <<xTickCount, curtick, no_mqtt_msg_exchange, link, data, history>>

\* A packet, which mqtt_thread may answer.
ReadPacket ==
  /\ pc["recv"] = "read" /\ data = "packet"
  /\ Exchange("recv")
  /\ GoTo("recv", "check")
  /\ data' = "nothing"
  /\ idle' = 0 /\ silence' \in {silence, IF Failed THEN silence ELSE 0}
  /\ UNCHANGED <<xTickCount, link, down, kept>>

\* A socket that is dead; a packet that is too long, or in pieces.
ReadFails ==
  /\ pc["recv"] = "read" /\ Readable
  /\ GoTo("recv", "check")
  /\ data' = "nothing"
  /\ UNCHANGED <<xTickCount, curtick, no_mqtt_msg_exchange, link, history>>

\* mqtt_send has a reading and publishes it.
Publish ==
  /\ pc["send"] = "wait" /\ ~Failed
  /\ Exchange("send")
  /\ GoTo("send", "check")
  /\ Send
  /\ UNCHANGED <<xTickCount, link, data, down, kept>>

\* It has none, or write fails.
NothingPublished ==
  /\ pc["send"] = "wait"
  /\ waited["send"] = QueueWait \/ Failed
  /\ GoTo("send", "check")
  /\ UNCHANGED <<xTickCount, curtick, no_mqtt_msg_exchange, link, data, history>>

\* Not overdue, or something was exchanged.
NoPing(t) ==
  /\ pc[t] = "check"
  /\ ~Overdue(t) \/ ~no_mqtt_msg_exchange[t]
  /\ curtick' = IF Overdue(t) THEN [curtick EXCEPT ![t] = xTickCount] ELSE curtick
  /\ GoTo(t, "wait")
  /\ UNCHANGED <<xTickCount, no_mqtt_msg_exchange, link, data, history>>

Ping(t) ==
  /\ pc[t] = "check"
  /\ Overdue(t) /\ no_mqtt_msg_exchange[t]
  /\ curtick' = [curtick EXCEPT ![t] = xTickCount]
  /\ GoTo(t, "ping")
  /\ Send
  /\ UNCHANGED <<xTickCount, no_mqtt_msg_exchange, link, data, down, kept>>

PingSelect(t) ==
  /\ pc[t] = "ping" /\ Readable
  /\ GoTo(t, "answer")
  /\ UNCHANGED <<xTickCount, curtick, no_mqtt_msg_exchange, link, data, history>>

PingAnswered(t) ==
  /\ pc[t] = "answer" /\ data = "packet"
  /\ no_mqtt_msg_exchange' = [no_mqtt_msg_exchange EXCEPT ![t] = FALSE]
  /\ GoTo(t, "wait")
  /\ data' = "nothing"
  /\ idle' = IF t = "recv" THEN 0 ELSE idle
  /\ UNCHANGED <<xTickCount, curtick, link, silence, down, kept>>

\* Nothing has come in time, or something else than the answer, or the socket is
\* dead.
NoAnswer(t) ==
  \/ pc[t] = "ping" /\ data = "nothing" /\ waited[t] = PingWait
  \/ pc[t] = "answer" /\ Readable

\* Seeded bug: the loop goes on after a ping that failed.
PingFailsGoesOn(t) ==
  /\ NoAnswer(t)
  /\ GoTo(t, "wait")
  /\ UNCHANGED <<xTickCount, curtick, no_mqtt_msg_exchange, link, data, history>>

PingFails(t) == NoAnswer(t) /\ Close(t)

-----------------------------------------------------------------------------
(* The connection (external) *)

Arrive ==
  /\ link = "up" /\ data # "packet"
  /\ data' \in {"part", "packet"} \ {data}
  /\ UNCHANGED <<xTickCount, curtick, no_mqtt_msg_exchange, pc, waited, link, history>>

\* In the middle of a packet or not, and TCP may notice later.
LinkFails ==
  /\ \/ link = "up" /\ link' \in {"silent", "reset"}
     \/ link = "silent" /\ link' = "reset"
  /\ UNCHANGED <<xTickCount, curtick, no_mqtt_msg_exchange, pc, waited, data, history>>

TaskStep(t) ==
  \/ Open(t) \/ LogIn(t) \/ LoginFails(t)
  \/ NoPing(t) \/ Ping(t) \/ PingSelect(t) \/ PingAnswered(t) \/ PingFails(t)

Next ==
  \/ Tick \/ Arrive \/ LinkFails
  \/ FirstSelect \/ SecondSelect \/ ReadPacket \/ ReadFails
  \/ Publish \/ NothingPublished
  \/ \E t \in Task : TaskStep(t)

Spec == Init /\ [][Next]_vars

-----------------------------------------------------------------------------
(* Properties *)

\* As long as no read has kept mqtt_thread inside recv since its login: in a
\* session some packet passes, out or into mqtt_thread, within KEEPLIVE_TIME/2 and
\* one wait of ReadPacketTimeout, across the wrap of the tick count, whatever
\* mqtt_send sends and whichever packets it reads in mqtt_thread's place.
ExchangeInTime ==
  link = "up" /\ ~Reconnecting("recv") /\ kept # "recv" => idle <= Half + 1 + ReadWait

\* Under the same condition mqtt_thread gives up a connection that has failed,
\* noticeably or not, within one wait of ReadPacketTimeout and one for the answer to
\* its ping; on one that was reset it spins until then.
FailureNoticed ==
  ~Reconnecting("recv") /\ kept # "recv" => down <= ReadWait + PingWait


\* The comments at transport_getdata and at the call of ReadPacketTimeout: reading
\* does not block there.
ReadsWithoutBlocking == kept # "recv"
=============================================================================
