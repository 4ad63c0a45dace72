-------------------------------- MODULE Timeouts --------------------------------
(***************************************************************************)
(* lwIP's timeouts: the list of timeouts.c with its pool of elements, the  *)
(* loop of tcpip_thread that waits for messages and alarms at once, and    *)
(* the other tasks, which enter the stack under the core lock while that   *)
(* loop is blocked.                                                        *)
(*                                                                         *)
(* The list is the sequence of its elements; the count of milliseconds     *)
(* wraps.                                                                  *)
(***************************************************************************)
EXTENDS Integers, Sequences, SequencesExt

CONSTANTS
  lwip_cyclic_timers,   \* without the entry of TCP
  arp_timer,            \* ethernetif's own timer
  tcp_timer,            \* tcpip_tcp_timer
  Interval,             \* of each of them
  PoolSize,             \* MEMP_NUM_SYS_TIMEOUT
  MaxTimeout,           \* LWIP_MAX_TIMEOUT, 2^31 - 1
  MaxDelay              \* how long tcpip_thread may take from being ready to being blocked

Cyclic == ToSet(lwip_cyclic_timers)
Periodic == Cyclic \cup {arp_timer}
Handler == Periodic \cup {tcp_timer}
InitialOrder == Append(lwip_cyclic_timers, arp_timer)

TimeModulus == 2 * (MaxTimeout + 1)
Time == 0..TimeModulus - 1
Alarm == [h : Handler, time : Time]

\* In lwIP: 250 ms for TCP, a second for the others.  What is late and what is not
\* due yet must be told apart.
ASSUME TimeoutsAssumption ==
  /\ lwip_cyclic_timers \in Seq(Cyclic)
  /\ \A i, j \in DOMAIN InitialOrder : InitialOrder[i] = InitialOrder[j] => i = j
  /\ tcp_timer \notin Periodic
  /\ {PoolSize, MaxTimeout, MaxDelay} \subseteq Nat
  /\ Len(InitialOrder) + 1 <= PoolSize
  /\ Interval \in [Handler -> Nat \ {0}]
  /\ \A h \in Handler : Interval[h] <= Interval[arp_timer]
  /\ \A i, j \in DOMAIN InitialOrder : i <= j => Interval[InitialOrder[i]] <= Interval[InitialOrder[j]]
  /\ 2 * Interval[arp_timer] + MaxDelay <= MaxTimeout

VARIABLES
  now,                        \* sys_now()
  timeouts,                   \* the list at next_timeout
  avail,                      \* elements in the pool
  tcpip_tcp_timer_active,
  connected,                  \* tcp_active_pcbs || tcp_tw_pcbs
  pc,                         \* tcpip_thread: where it is
  checked,                    \* now of sys_check_timeouts
  running,                    \* the alarm being handled; its time is current_timeout_due_time
  sleep,                      \* what is left of the wait for a message
  mail,                       \* a message is in tcpip_mbox
  spent                       \* time since tcpip_thread became ready

list == <<timeouts, avail>>
tcp == <<tcpip_tcp_timer_active, connected>>
thread == <<checked, running>>
vars == <<now, timeouts, avail, tcp, thread, pc, sleep, mail, spent>>

Forever == MaxTimeout + 1      \* SYS_TIMEOUTS_SLEEPTIME_INFINITE
Idle == [h |-> "none", time |-> 0]

TypeOK ==
  /\ now \in Time /\ checked \in Time
  /\ timeouts \in Seq(Alarm)
  /\ avail \in 0..PoolSize
  /\ tcpip_tcp_timer_active \in BOOLEAN /\ connected \in BOOLEAN
  /\ pc \in {"loop", "fetch", "check", "handler"}
  /\ IF pc = "handler" THEN running \in Alarm ELSE running = Idle
  /\ sleep \in 0..Forever
  /\ mail \in BOOLEAN
  /\ spent \in 0..MaxDelay

-----------------------------------------------------------------------------
(* The list *)

\* Seeded bug: points in time are compared as numbers.
LessThanPlain(t, u) == t < u

\* TIME_LESS_THAN
LessThan(t, u) == (t - u) % TimeModulus > MaxTimeout

\* Seeded bug: the sum is not cut off at the width of the count.
AfterWide(d) == now + d

After(d) == (now + d) % TimeModulus

Armed == {timeouts[i].h : i \in DOMAIN timeouts}

\* Where sys_timeout_abs puts an element: before the first one that is later.
Place(t) ==
  CHOOSE i \in 1..Len(timeouts) + 1 :
    /\ \A j \in 1..i - 1 : ~LessThan(t, timeouts[j].time)
    /\ i <= Len(timeouts) => LessThan(t, timeouts[i].time)

sys_timeout_abs(t, h) ==
  IF avail > 0
    THEN timeouts' = InsertAt(timeouts, Place(t), [h |-> h, time |-> t]) /\ avail' = avail - 1
    ELSE UNCHANGED list

sys_timeout(h) == sys_timeout_abs(After(Interval[h]), h)

-----------------------------------------------------------------------------
(* The stack *)

\* TCP_REG and tcp_timer_needed: a connection is opened.
Opens ==
  /\ connected' = TRUE
  /\ tcpip_tcp_timer_active' = TRUE
  /\ IF tcpip_tcp_timer_active THEN UNCHANGED list ELSE sys_timeout(tcp_timer)

\* The last connection goes.
Closes ==
  /\ connected' = FALSE
  /\ UNCHANGED <<tcpip_tcp_timer_active, list>>

\* A task opens or closes a socket while tcpip_thread does not hold the core lock.
SocketCall ==
  /\ pc = "fetch"
  /\ Opens \/ Closes
  /\ UNCHANGED <<now, thread, pc, sleep, mail, spent>>

\* Eth_if or another task posts a message.
Post ==
  /\ ~mail
  /\ mail' = TRUE
  /\ UNCHANGED <<now, list, tcp, thread, pc, sleep, spent>>

-----------------------------------------------------------------------------
(* tcpip_thread *)

\* Seeded bug: the wait has no limit.
WaitForever(time) == pc' = "fetch" /\ sleep' = Forever /\ spent' = 0 /\ UNCHANGED checked

\* The core lock is released and the task blocks for as long.
Wait(time) == pc' = "fetch" /\ sleep' = time /\ spent' = 0 /\ UNCHANGED checked

\* sys_check_timeouts begins.
Check == pc' = "check" /\ checked' = now /\ UNCHANGED <<sleep, spent>>

\* Seeded bug: what is overdue waits for the mailbox to run empty.
LoopFetches ==
  /\ pc = "loop"
  /\ IF timeouts = << >> THEN Wait(Forever)
     ELSE IF LessThan(timeouts[1].time, now) THEN Wait(0)
     ELSE Wait((timeouts[1].time - now) % TimeModulus)
  /\ UNCHANGED <<now, list, tcp, running, mail>>

\* tcpip_timeouts_mbox_fetch and sys_timeouts_sleeptime
Loop ==
  /\ pc = "loop"
  /\ IF timeouts = << >> THEN Wait(Forever)
     ELSE IF timeouts[1].time = now \/ LessThan(timeouts[1].time, now) THEN Check
     ELSE Wait((timeouts[1].time - now) % TimeModulus)
  /\ UNCHANGED <<now, list, tcp, running, mail>>

\* A message comes first; handling it may open or close connections.
HandleMessage ==
  /\ pc = "fetch" /\ mail
  /\ mail' = FALSE
  /\ pc' = "loop" /\ sleep' = 0
  /\ Opens \/ Closes \/ UNCHANGED <<tcp, list>>
  /\ UNCHANGED <<now, thread, spent>>

\* SYS_ARCH_TIMEOUT
FetchTimesOut ==
  /\ pc = "fetch" /\ sleep = 0 /\ ~mail
  /\ Check
  /\ UNCHANGED <<now, list, tcp, running, mail>>

\* An alarm that was due when the check began is taken off the list.
Expire ==
  /\ pc = "check"
  /\ timeouts # << >> /\ ~LessThan(checked, timeouts[1].time)
  /\ running' = timeouts[1]
  /\ timeouts' = Tail(timeouts) /\ avail' = avail + 1
  /\ pc' = "handler"
  /\ UNCHANGED <<now, tcp, checked, sleep, mail, spent>>

CheckDone ==
  /\ pc = "check"
  /\ timeouts # << >> => LessThan(checked, timeouts[1].time)
  /\ pc' = "loop" /\ checked' = 0
  /\ UNCHANGED <<now, list, tcp, running, sleep, mail, spent>>

\* lwip_cyclic_timer: an interval after it was due, or from now if that is over.
CyclicTimer ==
  /\ running.h \in Cyclic
  /\ LET next == (running.time + Interval[running.h]) % TimeModulus IN
       sys_timeout_abs(IF LessThan(next, now) THEN After(Interval[running.h]) ELSE next, running.h)
  /\ UNCHANGED tcp

ArpTimer ==
  /\ running.h = arp_timer
  /\ sys_timeout(arp_timer)
  /\ UNCHANGED tcp

\* Seeded bug: the timer stops without saying so.
TcpTimerSilent ==
  /\ running.h = tcp_timer
  /\ connected' \in {connected, FALSE}
  /\ IF connected' THEN sys_timeout(tcp_timer) ELSE UNCHANGED list
  /\ UNCHANGED tcpip_tcp_timer_active

\* tcpip_tcp_timer: tcp_tmr may drop the last connection.
TcpTimer ==
  /\ running.h = tcp_timer
  /\ connected' \in {connected, FALSE}
  /\ IF connected' THEN sys_timeout(tcp_timer) ELSE UNCHANGED list
  /\ tcpip_tcp_timer_active' = connected'

HandlerEnds ==
  /\ pc = "handler"
  /\ CyclicTimer \/ ArpTimer \/ TcpTimer
  /\ pc' = "check" /\ running' = Idle
  /\ UNCHANGED <<now, checked, sleep, mail, spent>>

Thread == Loop \/ HandleMessage \/ FetchTimesOut \/ Expire \/ CheckDone \/ HandlerEnds

-----------------------------------------------------------------------------
(* Time *)

Ready == pc # "fetch" \/ sleep = 0 \/ mail

\* tcpip_thread is slow, or delayed by tasks of higher priority, but not for ever.
Tick ==
  /\ Ready => spent < MaxDelay
  /\ now' = After(1)
  /\ sleep' = IF pc = "fetch" /\ sleep \in 1..MaxTimeout THEN sleep - 1 ELSE sleep
  /\ spent' = IF Ready THEN spent + 1 ELSE 0
  /\ UNCHANGED <<list, tcp, thread, pc, mail>>

\* lwip_init and ethernetif_init set the alarms; tcpip_thread has the core lock.
Init ==
  /\ now = 0
  /\ timeouts = [i \in DOMAIN InitialOrder |->
                   [h |-> InitialOrder[i], time |-> Interval[InitialOrder[i]]]]
  /\ avail = PoolSize - Len(timeouts)
  /\ checked = 0 /\ running = Idle
  /\ tcpip_tcp_timer_active = FALSE /\ connected = FALSE
  /\ pc = "loop" /\ sleep = 0 /\ mail = FALSE /\ spent = 0

Next == Thread \/ SocketCall \/ Post \/ Tick

Spec == Init /\ [][Next]_vars

\* tcpip_thread runs whenever it is ready, and the tick interrupt comes.
FairSpec == Spec /\ WF_vars(Thread) /\ WF_vars(Tick)

-----------------------------------------------------------------------------
(* Properties *)

\* No alarm is lost or set twice, whichever task sets it: those of lwip_init and of
\* ethernetif are always set or being handled, that of TCP exactly while
\* tcpip_tcp_timer_active says so, which it does while there is a connection; and
\* the pool is never found empty.
NothingForgotten ==
  /\ Armed \cup (IF pc = "handler" THEN {running.h} ELSE {})
       = Periodic \cup (IF tcpip_tcp_timer_active THEN {tcp_timer} ELSE {})
  /\ pc = "handler" => running.h \notin Armed
  /\ \A i, j \in DOMAIN timeouts : timeouts[i].h = timeouts[j].h => i = j
  /\ connected => tcpip_tcp_timer_active
  /\ Len(timeouts) + avail = PoolSize

\* Time left to an alarm, across the wrap.
Left(t) == IF LessThan(t, now) THEN -((now - t) % TimeModulus) ELSE (t - now) % TimeModulus

\* An alarm is late by the delay of tcpip_thread at most; that of TCP, which
\* another task may set while tcpip_thread sleeps, by what was left of that sleep too.
NotTooLate ==
  \A i \in DOMAIN timeouts :
    LET h == timeouts[i].h IN
      -Left(timeouts[i].time) <=
        MaxDelay + (IF h = tcp_timer THEN Interval[arp_timer] - Interval[h] ELSE 0)

Left0 == [h \in Armed |-> Left(timeouts[CHOOSE i \in DOMAIN timeouts : timeouts[i].h = h].time)]

Abstract == INSTANCE Alarms WITH left <- Left0

\* To those who set alarms, the list is a set of alarms that sound in the order of
\* their times and never early, whatever the count of milliseconds.
ImplementsAlarms == Abstract!Spec

\* However many messages come, the periodic alarms go on.
PeriodicGoOn == \A h \in Periodic : []<>(pc = "handler" /\ running.h = h)
=============================================================================
