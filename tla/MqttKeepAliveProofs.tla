-------------------------- MODULE MqttKeepAliveProofs --------------------------
(***************************************************************************)
(* Proofs about MqttKeepAlive, for any keep-alive interval, any waits and  *)
(* any width of the tick count that holds half of the interval and the     *)
(* longest wait: its types, the bound on the time without an exchange, and *)
(* the bound on the time in which mqtt_thread gives up a connection that   *)
(* has failed.                                                             *)
(***************************************************************************)
EXTENDS MqttKeepAlive, TLAPS

\* The time since mqtt_thread's last exchange, as it sees it.
Age == (xTickCount - curtick["recv"]) % TickModulus

LEMMA Constants ==
  /\ Half \in Nat /\ ReadWait \in Nat /\ PingWait \in Nat /\ QueueWait \in Nat
  /\ TickModulus \in Nat \ {0}
  /\ 1 <= Half /\ 1 <= PingWait /\ 1 <= QueueWait /\ PingWait < Half
  /\ Half + 1 <= ReadWait /\ Half + ReadWait + 2 < TickModulus
  /\ MaxTime \in Nat /\ MaxTime = Half + ReadWait + PingWait + 2
  BY KeepAliveAssumption DEF MaxTime

LEMMA Modulo ==
  ASSUME NEW M \in Nat \ {0}, NEW x \in Int, -M <= x, x < 2 * M
  PROVE  x % M = IF x < 0 THEN x + M ELSE IF x < M THEN x ELSE x - M
<1>1. CASE x < 0
  BY <1>1
<1>2. CASE 0 <= x /\ x < M
  BY <1>2
<1>3. CASE M <= x
  BY <1>3
<1>4. QED
  BY <1>1, <1>2, <1>3

LEMMA Distance ==
  ASSUME NEW x \in 0..TickModulus - 1, NEW c \in 0..TickModulus - 1
  PROVE  (x - c) % TickModulus = IF x < c THEN x - c + TickModulus ELSE x - c
<1>1. x - c \in Int /\ -TickModulus <= x - c /\ x - c < TickModulus /\ x - c < 2 * TickModulus
  BY Constants
<1> DEFINE d == x - c
<1>2. d \in Int /\ -TickModulus <= d /\ d < TickModulus /\ d < 2 * TickModulus
  BY <1>1
<1> HIDE DEF d
<1>3. d % TickModulus = IF d < 0 THEN d + TickModulus ELSE d
  BY <1>2, Modulo, Constants
<1>4. QED
  BY <1>3, Constants DEF d

LEMMA NextTick ==
  ASSUME NEW x \in 0..TickModulus - 1
  PROVE  /\ (x + 1) % TickModulus \in 0..TickModulus - 1
         /\ (x + 1) % TickModulus = IF x = TickModulus - 1 THEN 0 ELSE x + 1
<1> DEFINE y == x + 1
<1>1. y \in Int /\ -TickModulus <= y /\ y < 2 * TickModulus /\ 0 <= y /\ y <= TickModulus
  BY Constants
<1> HIDE DEF y
<1>2. y % TickModulus = IF y < TickModulus THEN y ELSE y - TickModulus
  <2>1. TickModulus \in Nat \ {0} /\ y \in Int /\ -TickModulus <= y /\ y < 2 * TickModulus
    BY <1>1, Constants
  <2>2. y % TickModulus = IF y < 0 THEN y + TickModulus
                          ELSE IF y < TickModulus THEN y ELSE y - TickModulus
    BY <2>1, Modulo
  <2>3. QED
    BY <1>1, <2>2
<1>3. QED
  BY <1>1, <1>2, Constants DEF y

LEMMA AgeIs ==
  ASSUME TypeOK
  PROVE  /\ Age \in Nat
         /\ Age = IF xTickCount < curtick["recv"]
                    THEN xTickCount - curtick["recv"] + TickModulus
                    ELSE xTickCount - curtick["recv"]
<1>1. xTickCount \in 0..TickModulus - 1 /\ curtick["recv"] \in 0..TickModulus - 1
  BY DEF TypeOK, Task
<1>2. QED
  BY <1>1, Distance, Constants DEF Age

\* The distance survives the wrap of the count.
LEMMA AgeTicks ==
  ASSUME TypeOK, TypeOK', xTickCount' = (xTickCount + 1) % TickModulus, curtick' = curtick,
         Age + 1 < TickModulus
  PROVE  Age' = Age + 1
<1>1. /\ xTickCount \in 0..TickModulus - 1 /\ curtick["recv"] \in 0..TickModulus - 1
      /\ xTickCount' = IF xTickCount = TickModulus - 1 THEN 0 ELSE xTickCount + 1
  BY NextTick DEF TypeOK, Task
<1>2. Age' = IF xTickCount' < curtick["recv"]
               THEN xTickCount' - curtick["recv"] + TickModulus
               ELSE xTickCount' - curtick["recv"]
  <2>1. Age' = (xTickCount' - curtick["recv"]) % TickModulus
    BY DEF Age
  <2>2. xTickCount' \in 0..TickModulus - 1
    BY DEF TypeOK
  <2>3. QED
    BY <1>1, <2>1, <2>2, Distance
<1>3. QED
  BY <1>1, <1>2, AgeIs, Constants

LEMMA AgeStarts ==
  ASSUME TypeOK, xTickCount' = xTickCount, curtick'["recv"] = xTickCount
  PROVE  Age' = 0
<1>1. xTickCount \in 0..TickModulus - 1
  BY DEF TypeOK
<1>2. Age' = (xTickCount - xTickCount) % TickModulus
  BY DEF Age
<1>3. QED
  BY <1>1, <1>2, Distance, Constants

-----------------------------------------------------------------------------
(* Types *)

\* No task is late for its next step.
InLimit == \A t \in Task : waited[t] <= Limit(t)

LEMMA Tasks == Task = {"recv", "send"}
  BY DEF Task

LEMMA Limits ==
  ASSUME NEW t \in Task
  PROVE  Limit(t) \in 0..ReadWait + QueueWait
  BY Constants DEF Limit

LEMMA WaitedOn ==
  ASSUME TypeOK, InLimit, Elapse, NEW t \in Task
  PROVE  waited'[t] \in 0..ReadWait + QueueWait /\ waited'[t] <= Limit(t) /\ Limit(t)' = Limit(t)
<1>1. /\ ~MustRun(t) /\ waited[t] <= Limit(t) /\ waited[t] \in Nat
      /\ Limit(t) \in 0..ReadWait + QueueWait
      /\ waited'[t] = IF Timed(t) THEN waited[t] + 1 ELSE 0
      /\ pc' = pc
  BY Limits DEF Elapse, InLimit, TypeOK
<1>2. Limit(t)' = Limit(t)
  BY <1>1 DEF Limit
<1>3. Timed(t) => waited[t] # Limit(t)
  BY <1>1 DEF MustRun
<1>4. QED
  BY <1>1, <1>2, <1>3, Constants

LEMMA Starting ==
  ASSUME TypeOK, NEW t \in Task, NEW l \in Label, GoTo(t, l)
  PROVE  /\ pc' \in [Task -> Label]
         /\ waited' \in [Task -> 0..ReadWait + QueueWait]
         /\ pc'[t] = l /\ waited'[t] = 0
         /\ \A u \in Task \ {t} : pc'[u] = pc[u] /\ waited'[u] = waited[u]
         /\ InLimit => InLimit'
<1>1. /\ pc' \in [Task -> Label]
      /\ waited' \in [Task -> 0..ReadWait + QueueWait]
      /\ pc'[t] = l /\ waited'[t] = 0
      /\ \A u \in Task \ {t} : pc'[u] = pc[u] /\ waited'[u] = waited[u]
  BY Constants DEF TypeOK, GoTo
<1>2. ASSUME InLimit PROVE InLimit'
  <2>1. \A u \in Task \ {t} : Limit(u)' = Limit(u)
    BY <1>1 DEF Limit
  <2>2. 0 <= Limit(t)'
    BY Constants DEF Limit
  <2>3. QED
    BY <1>1, <1>2, <2>1, <2>2 DEF InLimit
<1>3. QED
  BY <1>1, <1>2

LEMMA TypeInit == Init => TypeOK /\ InLimit
<1>1. ASSUME Init PROVE TypeOK
  BY <1>1, Constants DEF Init, TypeOK, Label
<1>2. ASSUME Init PROVE InLimit
  BY <1>2, Constants DEF Init, InLimit, Limit
<1>3. QED
  BY <1>1, <1>2

LEMMA TypeNext == TypeOK /\ InLimit /\ [Next]_vars => TypeOK' /\ InLimit'
<1> SUFFICES ASSUME TypeOK, InLimit, [Next]_vars PROVE TypeOK' /\ InLimit'
  OBVIOUS
<1>1. 0 \in 0..MaxTime /\ "recv" \in Task /\ "send" \in Task
  BY Constants, Tasks
<1>2. CASE Tick
  <2>1. xTickCount' \in 0..TickModulus - 1
    BY <1>2, NextTick DEF Tick, TypeOK
  <2>2. waited' \in [Task -> 0..ReadWait + QueueWait] /\ InLimit'
    <3>1. waited' = [t \in Task |-> waited'[t]]
      BY <1>2 DEF Tick, Elapse
    <3>2. QED
      BY <1>2, <3>1, WaitedOn DEF InLimit, Tick
  <2>3. \A i \in 0..MaxTime : Later(i) \in 0..MaxTime
    BY Constants DEF Later
  <2>4. silence' \in 0..MaxTime /\ idle' \in 0..MaxTime /\ down' \in 0..MaxTime
    BY <1>2, <2>3 DEF Tick, Elapse, TypeOK
  <2>5. kept' \in {"no", "select", "recv"}
    BY <1>2 DEF Tick, Elapse, TypeOK
  <2>6. QED
    BY <1>2, <2>1, <2>2, <2>4, <2>5 DEF Tick, Elapse, TypeOK
<1>3. CASE Arrive \/ LinkFails \/ UNCHANGED vars
  <2>1. TypeOK'
    BY <1>3 DEF Arrive, LinkFails, TypeOK, vars, history
  <2>2. InLimit'
    BY <1>3 DEF Arrive, LinkFails, InLimit, Limit, vars, history
  <2>3. QED
    BY <2>1, <2>2
<1>4. CASE FirstSelect
  BY <1>1, <1>4, Starting DEF FirstSelect, history, TypeOK, Label
<1>5. CASE SecondSelect
  BY <1>1, <1>5, Starting DEF SecondSelect, history, TypeOK, Label
<1>6. CASE ReadPacket
  BY <1>1, <1>6, Starting DEF ReadPacket, Exchange, history, TypeOK, Label
<1>7. CASE ReadFails
  BY <1>1, <1>7, Starting DEF ReadFails, history, TypeOK, Label
<1>8. CASE Publish
  BY <1>1, <1>8, Starting DEF Publish, Exchange, Send, history, TypeOK, Label
<1>9. CASE NothingPublished
  BY <1>1, <1>9, Starting DEF NothingPublished, history, TypeOK, Label
<1>10. ASSUME NEW t \in Task, Open(t) PROVE TypeOK' /\ InLimit'
  BY <1>1, <1>10, Starting DEF Open, history, TypeOK, Label
<1>11. ASSUME NEW t \in Task, LogIn(t) PROVE TypeOK' /\ InLimit'
  BY <1>1, <1>11, Starting DEF LogIn, history, TypeOK, Label
<1>12. ASSUME NEW t \in Task, LoginFails(t) PROVE TypeOK' /\ InLimit'
  BY <1>1, <1>12, Starting DEF LoginFails, Close, history, TypeOK, Label
<1>13. ASSUME NEW t \in Task, NoPing(t) PROVE TypeOK' /\ InLimit'
  BY <1>1, <1>13, Starting DEF NoPing, history, TypeOK, Label
<1>14. ASSUME NEW t \in Task, Ping(t) PROVE TypeOK' /\ InLimit'
  BY <1>1, <1>14, Starting DEF Ping, Send, history, TypeOK, Label
<1>15. ASSUME NEW t \in Task, PingSelect(t) PROVE TypeOK' /\ InLimit'
  BY <1>1, <1>15, Starting DEF PingSelect, history, TypeOK, Label
<1>16. ASSUME NEW t \in Task, PingAnswered(t) PROVE TypeOK' /\ InLimit'
  BY <1>1, <1>16, Starting DEF PingAnswered, history, TypeOK, Label
<1>17. ASSUME NEW t \in Task, PingFails(t) PROVE TypeOK' /\ InLimit'
  BY <1>1, <1>17, Starting DEF PingFails, Close, history, TypeOK, Label
<1>18. QED
  BY <1>2, <1>3, <1>4, <1>5, <1>6, <1>7, <1>8, <1>9,
     <1>10, <1>11, <1>12, <1>13, <1>14, <1>15, <1>16, <1>17 DEF Next, TaskStep

\* Types, and with them the limit on every call that has one.
THEOREM KeepAliveTyping == Spec => []TypeOK
  BY TypeInit, TypeNext, PTL DEF Spec

-----------------------------------------------------------------------------
(* The two bounds *)

\* mqtt_thread looks at the age after each of its waits, and an age of more than Half
\* makes it ping, unless it has just read a packet, and then the age is 0.
Ages ==
  /\ pc["recv"] = "wait" => Age <= Half + waited["recv"]
  /\ pc["recv"] = "select" => Age <= Half + 1 + waited["recv"]
  /\ pc["recv"] = "read" => Age <= Half + 1 + ReadWait
  /\ pc["recv"] \in {"select", "read"} => no_mqtt_msg_exchange["recv"]
  /\ pc["recv"] = "check" =>
       Age <= Half + 1 + ReadWait /\ (no_mqtt_msg_exchange["recv"] \/ Age = 0)
  /\ pc["recv"] = "ping" => Age = waited["recv"]
  /\ pc["recv"] = "answer" => Age <= PingWait

\* A connection has not been down for longer than the age, nor, in ReadPacketTimeout,
\* for longer than mqtt_thread has been in it, unless it is reset, which ends the wait.
Failures ==
  /\ data # "nothing" => down = 0
  /\ pc["recv"] \in {"wait", "select", "read", "check"} => down <= Age
  /\ pc["recv"] = "select" /\ link # "reset" => down <= waited["recv"]
  /\ pc["recv"] \in {"select", "read", "check"} => down <= ReadWait
  /\ pc["recv"] = "ping" => down <= ReadWait + waited["recv"]
  /\ pc["recv"] = "answer" => down <= ReadWait + PingWait

\* The last exchange is no further back than mqtt_thread believes, unless its ping was
\* refused by a socket that is closed or reset.
Recent == link \in {"up", "silent"} => idle <= Age

\* mqtt_thread is in its loop, and recv has not kept it waiting.
InLoop == ~Reconnecting("recv") /\ kept # "recv"

BoundInv ==
  /\ link \in {"up", "none"} => down = 0
  /\ InLoop => Ages /\ Failures /\ Recent

LEMMA Times ==
  ASSUME TypeOK
  PROVE  /\ idle \in Nat /\ down \in Nat /\ Age \in Nat
         /\ waited["recv"] \in Nat /\ pc["recv"] \in Label
  BY AgeIs, Constants, Tasks DEF TypeOK

\* A step of mqtt_send or of the network.
LEMMA OthersKeep ==
  ASSUME TypeOK, TypeOK', BoundInv, xTickCount' = xTickCount,
         pc'["recv"] = pc["recv"], curtick'["recv"] = curtick["recv"],
         no_mqtt_msg_exchange'["recv"] = no_mqtt_msg_exchange["recv"],
         waited'["recv"] = waited["recv"], kept' = kept,
         idle' = 0 \/ (idle' = idle /\ (link \in {"up", "silent"} \/ link' \notin {"up", "silent"})),
         \/ down' = 0
         \/ down' = down /\ (link' = link \/ link' = "reset") /\ data' \in {data, "nothing"}
  PROVE  BoundInv'
<1>1. Age' = Age /\ (InLoop' <=> InLoop)
  BY DEF Age, InLoop, Reconnecting
<1>2. /\ Age \in Nat /\ idle \in Nat /\ down \in Nat /\ waited["recv"] \in Nat
      /\ down' \in Nat /\ down' <= down
  BY Times
<1>3. (link \in {"up", "none"} => down = 0)'
  BY DEF BoundInv
<1>4. ASSUME InLoop PROVE (Ages /\ Failures /\ Recent)'
  <2>1. Ages'
    BY <1>1, <1>4 DEF BoundInv, Ages
  <2>2. Recent'
    BY <1>1, <1>2, <1>4 DEF BoundInv, Recent
  <2>3. Failures'
    <3>1. CASE down' = 0
      BY <1>1, <1>2, <3>1, Constants DEF Failures
    <3>2. CASE down' = down /\ (link' = link \/ link' = "reset") /\ data' \in {data, "nothing"}
      BY <1>1, <1>4, <3>2 DEF BoundInv, Failures
    <3>3. QED
      BY <3>1, <3>2
  <2>4. QED
    BY <2>1, <2>2, <2>3
<1>5. QED
  BY <1>1, <1>3, <1>4 DEF BoundInv

\* Time goes on only where mqtt_thread has nothing to do, or in a recv that keeps it.
LEMMA TickKeeps ==
  ASSUME TypeOK, TypeOK', InLimit, BoundInv, Tick
  PROVE  BoundInv'
<1>1. /\ UNCHANGED <<curtick, no_mqtt_msg_exchange, pc, link, data>>
      /\ xTickCount' = (xTickCount + 1) % TickModulus
      /\ ~MustRun("recv") /\ "recv" \in Task
  BY Tasks DEF Tick, Elapse
<1>2. (link \in {"up", "none"} => down = 0)'
  BY <1>1 DEF Tick, Elapse, BoundInv
<1>3. ASSUME InLoop' PROVE (Ages /\ Failures /\ Recent)'
  <2>1. InLoop /\ pc["recv"] \in {"wait", "select", "ping"}
    <3>1. pc["recv"] \notin {"read", "answer"} /\ kept # "recv"
      BY <1>1, <1>3 DEF Tick, Elapse, InLoop
    <3>2. pc["recv"] \notin {"connect", "login", "check"}
      BY <1>1, <1>3 DEF InLoop, Reconnecting, MustRun
    <3>3. QED
      BY <3>1, <3>2, Times DEF InLoop, Reconnecting, Label
  <2>2. Ages /\ Failures /\ Recent
    BY <2>1 DEF BoundInv
  <2>3. waited'["recv"] = waited["recv"] + 1 /\ waited["recv"] < Limit("recv")
    <3>1. Timed("recv") /\ waited["recv"] # Limit("recv") /\ waited["recv"] <= Limit("recv")
      BY <1>1, <2>1 DEF MustRun, Timed, InLimit
    <3>2. waited'["recv"] = waited["recv"] + 1
      BY <1>1, <3>1 DEF Tick, Elapse
    <3>3. QED
      BY <3>1, <3>2, Times, Limits, Tasks
  <2>4. data = "nothing" /\ link # "reset"
    BY <1>1, <2>1 DEF MustRun
  <2>5. /\ pc["recv"] = "wait" => waited["recv"] = 0
        /\ pc["recv"] = "select" => waited["recv"] < ReadWait
        /\ pc["recv"] = "ping" => waited["recv"] < PingWait
    BY <2>3, Times DEF Limit
  <2>6. Age + 1 < TickModulus
    BY <2>1, <2>2, <2>5, Times, Constants DEF Ages
  <2>7. Age' = Age + 1
    BY <1>1, <2>6, AgeTicks
  <2>8. idle' \in {idle, idle + 1} /\ down' \in {down, down + 1}
    BY DEF Tick, Elapse, Later
  <2>9. Ages'
    BY <1>1, <2>1, <2>2, <2>3, <2>7, Times, Constants DEF Ages
  <2>10. Failures'
    BY <1>1, <2>1, <2>2, <2>3, <2>4, <2>5, <2>7, <2>8, Times, Constants DEF Failures
  <2>11. Recent'
    BY <1>1, <2>2, <2>7, <2>8, Times DEF Recent
  <2>12. QED
    BY <2>9, <2>10, <2>11
<1>4. QED
  BY <1>2, <1>3 DEF BoundInv

\* The steps of mqtt_thread.
LEMMA RecvKeeps ==
  ASSUME TypeOK, TypeOK', InLimit, BoundInv,
         \/ FirstSelect \/ SecondSelect \/ ReadPacket \/ ReadFails \/ TaskStep("recv")
  PROVE  BoundInv'
<1>1. "recv" \in Task
  BY Tasks
<1>2. ASSUME NEW l \in Label, GoTo("recv", l) PROVE pc'["recv"] = l /\ waited'["recv"] = 0
  BY <1>1, <1>2, Starting
<1>3. /\ idle \in Nat /\ down \in Nat /\ Age \in Nat /\ waited["recv"] \in Nat
      /\ waited["recv"] <= Limit("recv")
  BY <1>1, Times DEF InLimit
<1>4. ASSUME pc["recv"] \notin {"connect", "login"}, InLoop' , kept' = kept
      PROVE  Ages /\ Failures /\ Recent
  BY <1>4 DEF BoundInv, InLoop, Reconnecting
<1>5. CASE FirstSelect
  <2>1. /\ pc["recv"] = "wait" /\ waited'["recv"] = 0 /\ no_mqtt_msg_exchange'["recv"]
        /\ \/ pc'["recv"] = "select" /\ (link \in {"none", "reset"} \/ data # "nothing")
           \/ pc'["recv"] = "check"
        /\ UNCHANGED <<xTickCount, curtick, link, data, idle, down, kept>>
    BY <1>1, <1>2, <1>5 DEF FirstSelect, Label, history, TypeOK, Readable, Failed
  <2>2. Age' = Age
    BY <2>1 DEF Age
  <2>3. ASSUME InLoop' PROVE (Ages /\ Failures /\ Recent)'
    <3>1. Ages /\ Failures /\ Recent
      BY <1>4, <2>1, <2>3
    <3>2. Age <= Half + 1 /\ down <= Age
      BY <1>3, <2>1, <3>1, Constants DEF Limit, Ages, Failures
    <3>3. Ages'
      BY <1>3, <2>1, <2>2, <3>2, Constants DEF Ages
    <3>4. link # "reset" /\ pc'["recv"] = "select" => down = 0
      BY <2>1, <3>1 DEF BoundInv, Failures
    <3>5. Failures'
      BY <1>3, <2>1, <2>2, <3>1, <3>2, <3>4, Constants DEF Failures
    <3>6. QED
      BY <2>1, <2>2, <3>1, <3>3, <3>5 DEF Recent
  <2>4. QED
    BY <2>1, <2>3 DEF BoundInv
<1>6. CASE SecondSelect
  <2>1. /\ pc["recv"] = "select"
        /\ \/ pc'["recv"] = "read"
           \/ pc'["recv"] = "check"
        /\ UNCHANGED <<xTickCount, curtick, no_mqtt_msg_exchange, link, data, idle, down, kept>>
    BY <1>2, <1>6 DEF SecondSelect, Label, history
  <2>2. Age' = Age
    BY <2>1 DEF Age
  <2>3. ASSUME InLoop' PROVE (Ages /\ Failures /\ Recent)'
    <3>1. Ages /\ Failures /\ Recent
      BY <1>4, <2>1, <2>3
    <3>2. waited["recv"] <= ReadWait
      BY <1>3, <2>1 DEF Limit
    <3>3. Age <= Half + 1 + ReadWait
      BY <1>3, <2>1, <3>1, <3>2, Constants DEF Ages
    <3>4. Ages'
      BY <2>1, <2>2, <3>1, <3>3 DEF Ages
    <3>5. Failures'
      BY <1>3, <2>1, <2>2, <3>1, Constants DEF Failures
    <3>6. QED
      BY <2>1, <2>2, <3>1, <3>4, <3>5 DEF Recent
  <2>4. QED
    BY <2>1, <2>3 DEF BoundInv
<1>7. CASE ReadPacket
  <2>1. /\ pc["recv"] = "read" /\ pc'["recv"] = "check" /\ data = "packet" /\ data' = "nothing"
        /\ xTickCount' = xTickCount /\ curtick'["recv"] = xTickCount /\ idle' = 0
        /\ UNCHANGED <<link, down, kept>>
    BY <1>1, <1>2, <1>7 DEF ReadPacket, Exchange, Label, TypeOK
  <2>2. Age' = 0
    BY <2>1, AgeStarts
  <2>3. ASSUME InLoop' PROVE (Ages /\ Failures /\ Recent)'
    <3>1. down = 0
      BY <1>4, <2>1, <2>3 DEF Failures
    <3>2. QED
      BY <2>1, <2>2, <3>1, Constants DEF Ages, Failures, Recent
  <2>4. QED
    BY <2>1, <2>3 DEF BoundInv
<1>8. CASE ReadFails
  <2>1. /\ pc["recv"] = "read" /\ pc'["recv"] = "check" /\ data' = "nothing"
        /\ UNCHANGED <<xTickCount, curtick, no_mqtt_msg_exchange, link, idle, down, kept>>
    BY <1>2, <1>8 DEF ReadFails, Label, history
  <2>2. Age' = Age
    BY <2>1 DEF Age
  <2>3. ASSUME InLoop' PROVE (Ages /\ Failures /\ Recent)'
    <3>1. Ages /\ Failures /\ Recent
      BY <1>4, <2>1, <2>3
    <3>2. QED
      BY <2>1, <2>2, <3>1 DEF Ages, Failures, Recent
  <2>4. QED
    BY <2>1, <2>3 DEF BoundInv
<1>9. CASE Open("recv")
  <2>1. pc'["recv"] = "login" /\ down' = 0
    BY <1>2, <1>9 DEF Open, Label
  <2>2. QED
    BY <2>1 DEF BoundInv, InLoop, Reconnecting
<1>10. CASE LogIn("recv")
  <2>1. /\ pc'["recv"] = "wait" /\ waited'["recv"] = 0 /\ idle' = 0
        /\ down = 0 /\ down' = 0
        /\ xTickCount' = xTickCount /\ curtick'["recv"] = xTickCount
    BY <1>1, <1>2, <1>10 DEF LogIn, Label, TypeOK, BoundInv
  <2>2. Age' = 0
    BY <2>1, AgeStarts
  <2>3. QED
    BY <2>1, <2>2, Constants DEF BoundInv, Ages, Failures, Recent
<1>11. CASE LoginFails("recv") \/ PingFails("recv")
  <2>1. pc'["recv"] = "connect" /\ down' = 0
    BY <1>2, <1>11 DEF LoginFails, PingFails, Close, Label
  <2>2. QED
    BY <2>1 DEF BoundInv, InLoop, Reconnecting
<1>12. CASE NoPing("recv")
  <2>1. /\ pc["recv"] = "check" /\ pc'["recv"] = "wait" /\ waited'["recv"] = 0
        /\ UNCHANGED <<xTickCount, link, data, idle, down, kept>>
    BY <1>2, <1>12 DEF NoPing, Label, history
  <2>2. ASSUME InLoop' PROVE (Ages /\ Failures /\ Recent)'
    <3>1. Ages /\ Failures /\ Recent
      BY <1>4, <2>1, <2>2
    <3>2. ~Overdue("recv")
      BY <1>3, <1>12, <2>1, <3>1, Constants DEF NoPing, Ages, Overdue, Age
    <3>3. curtick' = curtick /\ Age <= Half
      BY <1>3, <1>12, <3>2, Constants DEF NoPing, Overdue, Age
    <3>4. Age' = Age
      BY <2>1, <3>3 DEF Age
    <3>5. QED
      BY <1>3, <2>1, <3>1, <3>3, <3>4, Constants DEF Ages, Failures, Recent
  <2>3. QED
    BY <2>1, <2>2 DEF BoundInv
<1>13. CASE Ping("recv")
  <2>1. /\ pc["recv"] = "check" /\ pc'["recv"] = "ping" /\ waited'["recv"] = 0
        /\ UNCHANGED <<xTickCount, link, data, down, kept>> /\ curtick'["recv"] = xTickCount
        /\ link \in {"up", "silent"} => idle' = 0
    BY <1>1, <1>2, <1>13 DEF Ping, Send, Failed, Label, TypeOK
  <2>2. Age' = 0
    BY <2>1, AgeStarts
  <2>3. ASSUME InLoop' PROVE (Ages /\ Failures /\ Recent)'
    <3>1. Failures
      BY <1>4, <2>1, <2>3
    <3>2. Ages' /\ Failures'
      BY <1>3, <2>1, <2>2, <3>1, Constants DEF Ages, Failures
    <3>3. Recent'
      BY <2>1, <2>2 DEF Recent
    <3>4. QED
      BY <3>2, <3>3
  <2>4. QED
    BY <2>1, <2>3 DEF BoundInv
<1>14. CASE PingSelect("recv")
  <2>1. /\ pc["recv"] = "ping" /\ pc'["recv"] = "answer"
        /\ UNCHANGED <<xTickCount, curtick, no_mqtt_msg_exchange, link, data, idle, down, kept>>
    BY <1>2, <1>14 DEF PingSelect, Label, history
  <2>2. Age' = Age
    BY <2>1 DEF Age
  <2>3. ASSUME InLoop' PROVE (Ages /\ Failures /\ Recent)'
    <3>1. Ages /\ Failures /\ Recent
      BY <1>4, <2>1, <2>3
    <3>2. waited["recv"] <= PingWait
      BY <1>3, <2>1 DEF Limit
    <3>3. Ages' /\ Failures'
      BY <1>3, <2>1, <2>2, <3>1, <3>2, Constants DEF Ages, Failures
    <3>4. QED
      BY <2>1, <2>2, <3>1, <3>3 DEF Recent
  <2>4. QED
    BY <2>1, <2>3 DEF BoundInv
<1>15. CASE PingAnswered("recv")
  <2>1. /\ pc["recv"] = "answer" /\ pc'["recv"] = "wait" /\ waited'["recv"] = 0
        /\ data = "packet" /\ data' = "nothing" /\ idle' = 0
        /\ UNCHANGED <<xTickCount, curtick, link, down, kept>>
    BY <1>1, <1>2, <1>15 DEF PingAnswered, Label, TypeOK
  <2>2. Age' = Age
    BY <2>1 DEF Age
  <2>3. ASSUME InLoop' PROVE (Ages /\ Failures /\ Recent)'
    <3>1. Ages /\ Failures
      BY <1>4, <2>1, <2>3
    <3>2. down = 0 /\ Age <= Half
      BY <1>3, <2>1, <3>1, Constants DEF Ages, Failures
    <3>3. QED
      BY <1>3, <2>1, <2>2, <3>2, Constants DEF Ages, Failures, Recent
  <2>4. QED
    BY <2>1, <2>3 DEF BoundInv
<1>16. QED
  BY <1>5, <1>6, <1>7, <1>8, <1>9, <1>10, <1>11, <1>12, <1>13, <1>14, <1>15 DEF TaskStep

\* The steps of mqtt_send and of the network.
LEMMA SendKeeps ==
  ASSUME TypeOK, TypeOK', BoundInv,
         \/ Publish \/ NothingPublished \/ TaskStep("send")
         \/ Arrive \/ LinkFails \/ UNCHANGED vars
  PROVE  BoundInv'
<1>1. "send" \in Task /\ "recv" \in Task \ {"send"}
  BY Tasks
<1>2. ASSUME NEW l \in Label, GoTo("send", l)
      PROVE  pc'["recv"] = pc["recv"] /\ waited'["recv"] = waited["recv"]
  BY <1>1, <1>2, Starting
<1>3. /\ pc'["recv"] = pc["recv"] /\ waited'["recv"] = waited["recv"]
      /\ xTickCount' = xTickCount
  BY <1>2 DEF Publish, NothingPublished, TaskStep, Open, LogIn, LoginFails, Close, NoPing, Ping,
     PingSelect, PingAnswered, PingFails, Arrive, LinkFails, vars, Label
<1>4. /\ curtick'["recv"] = curtick["recv"] /\ kept' = kept
      /\ no_mqtt_msg_exchange'["recv"] = no_mqtt_msg_exchange["recv"]
  BY <1>1 DEF Publish, NothingPublished, TaskStep, Open, LogIn, LoginFails, Close, NoPing, Ping,
     PingSelect, PingAnswered, PingFails, Arrive, LinkFails, vars, history, Exchange, TypeOK
<1>5. idle' = 0 \/ (idle' = idle /\ (link \in {"up", "silent"} \/ link' \notin {"up", "silent"}))
  BY DEF Publish, NothingPublished, TaskStep, Open, LogIn, LoginFails, Close, NoPing, Ping, Send,
     PingSelect, PingAnswered, PingFails, Arrive, LinkFails, vars, history
<1>6. \/ down' = 0
      \/ down' = down /\ (link' = link \/ link' = "reset") /\ data' \in {data, "nothing"}
  BY DEF Publish, NothingPublished, TaskStep, Open, LogIn, LoginFails, Close, NoPing, Ping, BoundInv,
     PingSelect, PingAnswered, PingFails, Arrive, LinkFails, vars, history
<1>7. QED
  BY <1>3, <1>4, <1>5, <1>6, OthersKeep

LEMMA BoundsHold == Spec => [](TypeOK /\ InLimit /\ BoundInv)
<1>1. ASSUME Init PROVE BoundInv
  BY <1>1, Tasks DEF Init, BoundInv, InLoop, Reconnecting
<1>2. ASSUME TypeOK, InLimit, BoundInv, [Next]_vars PROVE BoundInv'
  <2>1. TypeOK'
    BY <1>2, TypeNext
  <2>2. QED
    BY <1>2, <2>1, TickKeeps, RecvKeeps, SendKeeps, Tasks DEF Next
<1>3. QED
  BY <1>1, <1>2, TypeInit, TypeNext, PTL DEF Spec

\* As long as no read keeps mqtt_thread inside recv, a session has an exchange within half
\* of the keep-alive interval and one wait of ReadPacketTimeout, whatever mqtt_send sends
\* and takes and wherever the tick count wraps.
THEOREM ExchangeInTimeTheorem == Spec => []ExchangeInTime
<1>1. ASSUME TypeOK, InLimit, BoundInv PROVE ExchangeInTime
  <2>1. SUFFICES ASSUME link = "up", InLoop PROVE idle <= Half + 1 + ReadWait
    BY DEF ExchangeInTime, InLoop
  <2>2. Ages /\ idle <= Age
    BY <1>1, <2>1 DEF BoundInv, Recent
  <2>3. Age <= Half + 1 + ReadWait
    <3>1. waited["recv"] <= Limit("recv") /\ waited["recv"] \in Nat
      BY <1>1, Tasks, Times DEF InLimit
    <3>2. pc["recv"] \in {"wait", "select", "read", "check", "ping", "answer"}
      BY <1>1, <2>1, Times DEF InLoop, Reconnecting, Label
    <3>3. QED
      BY <1>1, <2>2, <3>1, <3>2, Times, Constants DEF Ages, Limit
  <2>4. QED
    BY <1>1, <2>2, <2>3, Times, Constants
<1>2. QED
  BY <1>1, BoundsHold, PTL

\* Under the same condition a connection that has failed, noticeably or not, is given up
\* within the wait of ReadPacketTimeout and the wait for the answer to the ping.
THEOREM FailureNoticedTheorem == Spec => []FailureNoticed
<1>1. ASSUME TypeOK, InLimit, BoundInv PROVE FailureNoticed
  <2>1. SUFFICES ASSUME InLoop PROVE down <= ReadWait + PingWait
    BY DEF FailureNoticed, InLoop
  <2>2. /\ waited["recv"] <= Limit("recv") /\ waited["recv"] \in Nat
        /\ Age \in Nat /\ down \in Nat
    BY <1>1, Tasks, Times DEF InLimit
  <2>3. Ages /\ Failures
    BY <1>1, <2>1 DEF BoundInv
  <2>4. CASE pc["recv"] = "wait"
    BY <2>2, <2>3, <2>4, Constants DEF Ages, Failures, Limit
  <2>5. CASE pc["recv"] \in {"select", "read", "check", "answer"}
    BY <2>2, <2>3, <2>5, Constants DEF Failures
  <2>6. CASE pc["recv"] = "ping"
    BY <2>2, <2>3, <2>6, Constants DEF Failures, Limit
  <2>7. QED
    BY <1>1, <2>1, <2>4, <2>5, <2>6, Times DEF InLoop, Reconnecting, Label
<1>2. QED
  BY <1>1, BoundsHold, PTL
=============================================================================
