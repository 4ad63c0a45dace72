--------------------------------- MODULE Mailbox ---------------------------------
(***************************************************************************)
(* Mailboxes and semaphores of lwIP: APP/src/sys_arch.c over the queues of *)
(* FreeRTOS/src/queue.c.                                                   *)
(*                                                                         *)
(* One queue, made by sys_mbox_new or by sys_sem_new, the tasks that post  *)
(* to it and fetch from it, the tick interrupt and, for a semaphore, an    *)
(* interrupt handler that gives it.  A step is one critical section of     *)
(* queue.c: between two of them any ready task may run, except while one   *)
(* has the scheduler suspended, and interrupts even then.  Nothing fetches *)
(* from an interrupt, so cRxLock only goes from unlocked to unmodified and *)
(* back, and is left out with the half of prvUnlockQueue that serves it.   *)
(***************************************************************************)
EXTENDS Integers, Sequences, FiniteSets

CONSTANTS
  Poster, Fetcher,   \* the tasks on either side
  Priority,          \* of each of them
  Msg,               \* what is posted to a mailbox
  Signal,            \* what a semaphore holds
  MailboxSize        \* TCPIP_MBOX_SIZE, DEFAULT_TCP_RECVMBOX_SIZE ...

Task == Poster \cup Fetcher

ASSUME MailboxAssumption ==
  /\ IsFiniteSet(Poster) /\ IsFiniteSet(Fetcher) /\ Poster \cap Fetcher = {}
  /\ Priority \in [Task -> Nat]
  /\ Msg # {} /\ << >> \notin Msg \cup {Signal}
  /\ MailboxSize \in Nat \ {0}

VARIABLES
  uxLength, uxItemSize,        \* the fields of Queue_t
  uxMessagesWaiting,
  storage,                     \* the items at pcHead
  pcWriteTo, pcReadFrom,       \* as indices
  cTxLock,
  xTasksWaitingToSend, xTasksWaitingToReceive,
  pc,                          \* where each task is in its call
  xTicksToWait,                \* of each task
  received                     \* the last item received, <<>> before the first

kindVars == <<uxLength, uxItemSize>>
dataVars == <<uxMessagesWaiting, storage, pcWriteTo, pcReadFrom, received>>
waitVars == <<cTxLock, xTasksWaitingToSend, xTasksWaitingToReceive>>
taskVars == <<pc, xTicksToWait>>
vars == <<kindVars, dataVars, waitVars, taskVars>>

-----------------------------------------------------------------------------
IsSemaphore == uxItemSize = 0
queueUNLOCKED == -1

\* Time left to wait: the expiry of a timed wait is "due" before the task sees it.
Ticks == {"none", "timed", "due", "forever"}

TypeOK ==
  /\ uxLength \in 1..MailboxSize
  /\ uxItemSize \in {0, 4}
  /\ uxMessagesWaiting \in 0..uxLength
  /\ storage \in [0..MailboxSize - 1 -> Msg]
  /\ pcWriteTo \in 0..uxLength - 1
  /\ pcReadFrom \in 0..uxLength - 1
  /\ cTxLock \in -1..uxLength
  /\ xTasksWaitingToSend \in SUBSET Poster
  /\ xTasksWaitingToReceive \in SUBSET Fetcher
  /\ pc \in [Task -> {"idle", "try", "lock", "check", "place", "unlock"}]
  /\ xTicksToWait \in [Task -> Ticks]
  /\ received \in Msg \cup {Signal, << >>}

\* xQueueGenericReset leaves pcReadFrom on the last item.
Init ==
  /\ \/ uxLength = MailboxSize /\ uxItemSize = 4
     \/ uxLength = 1 /\ uxItemSize = 0
  /\ uxMessagesWaiting = 0
  /\ \E m \in Msg : storage = [i \in 0..MailboxSize - 1 |-> m]
  /\ pcWriteTo = 0
  /\ pcReadFrom = uxLength - 1
  /\ cTxLock = queueUNLOCKED
  /\ xTasksWaitingToSend = {} /\ xTasksWaitingToReceive = {}
  /\ pc = [t \in Task |-> "idle"]
  /\ xTicksToWait = [t \in Task |-> "none"]
  /\ received = << >>

-----------------------------------------------------------------------------
(* The scheduler *)

\* Between vTaskSuspendAll and xTaskResumeAll.
Suspends(t) == pc[t] \in {"check", "place", "unlock"}

OnEventList(t) == t \in xTasksWaitingToSend \cup xTasksWaitingToReceive

\* A task that has been put on an event list runs again, after it has resumed the
\* scheduler, when something takes it off.
Runs(t, l) ==
  /\ pc[t] = l
  /\ \A u \in Task \ {t} : ~Suspends(u)
  /\ l = "try" => ~OnEventList(t)

GoTo(t, l) == pc' = [pc EXCEPT ![t] = l]

\* The call is over; its locals mean nothing any more.
Return(t) == GoTo(t, "idle") /\ xTicksToWait' = [xTicksToWait EXCEPT ![t] = "none"]

\* xTaskRemoveFromEventList, k times or until the list is empty: the tasks with
\* the highest priorities.
FirstOf(S, k) ==
  {W \in SUBSET S :
     /\ Cardinality(W) = IF k < Cardinality(S) THEN k ELSE Cardinality(S)
     /\ \A t \in W, u \in S \ W : Priority[t] >= Priority[u]}

-----------------------------------------------------------------------------
(* Calls *)

\* sys_mbox_post waits for ever, sys_mbox_trypost and sys_sem_signal do not wait.
Post(t) ==
  /\ t \in Poster /\ Runs(t, "idle")
  /\ \E w \in IF IsSemaphore THEN {"none"} ELSE {"none", "forever"} :
       xTicksToWait' = [xTicksToWait EXCEPT ![t] = w]
  /\ GoTo(t, "try")
  /\ UNCHANGED <<kindVars, dataVars, waitVars>>

\* sys_arch_mbox_fetch and sys_arch_sem_wait: a timeout of 0 is for ever, any other
\* is one tick at least; sys_arch_mbox_tryfetch does not wait.
Fetch(t) ==
  /\ t \in Fetcher /\ Runs(t, "idle")
  /\ \E w \in IF IsSemaphore THEN {"timed", "forever"} ELSE {"none", "timed", "forever"} :
       xTicksToWait' = [xTicksToWait EXCEPT ![t] = w]
  /\ GoTo(t, "try")
  /\ UNCHANGED <<kindVars, dataVars, waitVars>>

-----------------------------------------------------------------------------
(* The first critical section: there is room, there is data, or neither *)

\* The i-th item from the read pointer on, round the storage.
Position(i) == IF pcReadFrom + i >= uxLength THEN pcReadFrom + i - uxLength ELSE pcReadFrom + i

\* Seeded bug: a wrap one item late.
CopyDataToQueueLate ==
  IF IsSemaphore THEN UNCHANGED <<storage, pcWriteTo>>
  ELSE /\ \E m \in Msg : storage' = [storage EXCEPT ![pcWriteTo] = m]
       /\ pcWriteTo' = IF pcWriteTo + 1 > uxLength THEN 0 ELSE pcWriteTo + 1

CopyDataToQueue ==
  IF IsSemaphore THEN UNCHANGED <<storage, pcWriteTo>>
  ELSE /\ \E m \in Msg : storage' = [storage EXCEPT ![pcWriteTo] = m]
       /\ pcWriteTo' = IF pcWriteTo + 1 >= uxLength THEN 0 ELSE pcWriteTo + 1

\* Seeded bug: the item is read before the pointer moves on.
CopyDataFromQueueBefore ==
  IF IsSemaphore THEN received' = Signal /\ UNCHANGED pcReadFrom
  ELSE /\ pcReadFrom' = Position(1)
       /\ received' = storage[pcReadFrom]

CopyDataFromQueue ==
  IF IsSemaphore THEN received' = Signal /\ UNCHANGED pcReadFrom
  ELSE /\ pcReadFrom' = Position(1)
       /\ received' = storage[pcReadFrom']

Send(t) ==
  /\ t \in Poster /\ Runs(t, "try")
  /\ uxMessagesWaiting < uxLength
  /\ CopyDataToQueue
  /\ uxMessagesWaiting' = uxMessagesWaiting + 1
  /\ \E W \in FirstOf(xTasksWaitingToReceive, 1) :
       xTasksWaitingToReceive' = xTasksWaitingToReceive \ W
  /\ Return(t)
  /\ UNCHANGED <<kindVars, pcReadFrom, received, cTxLock, xTasksWaitingToSend>>

\* Seeded bug: a poster is woken only by the fetch from a full queue.
ReceiveWakesIfFull(t) ==
  /\ t \in Fetcher /\ Runs(t, "try")
  /\ uxMessagesWaiting > 0
  /\ CopyDataFromQueue
  /\ uxMessagesWaiting' = uxMessagesWaiting - 1
  /\ \E W \in FirstOf(xTasksWaitingToSend, IF uxMessagesWaiting = uxLength THEN 1 ELSE 0) :
       xTasksWaitingToSend' = xTasksWaitingToSend \ W
  /\ Return(t)
  /\ UNCHANGED <<kindVars, storage, pcWriteTo, cTxLock, xTasksWaitingToReceive>>

Receive(t) ==
  /\ t \in Fetcher /\ Runs(t, "try")
  /\ uxMessagesWaiting > 0
  /\ CopyDataFromQueue
  /\ uxMessagesWaiting' = uxMessagesWaiting - 1
  /\ \E W \in FirstOf(xTasksWaitingToSend, 1) :
       xTasksWaitingToSend' = xTasksWaitingToSend \ W
  /\ Return(t)
  /\ UNCHANGED <<kindVars, storage, pcWriteTo, cTxLock, xTasksWaitingToReceive>>

\* prvIsQueueFull for those who post, prvIsQueueEmpty for those who fetch.
Stuck(t) ==
  IF t \in Poster THEN uxMessagesWaiting = uxLength ELSE uxMessagesWaiting = 0

\* errQUEUE_FULL, errQUEUE_EMPTY where there is no time to wait.
TryFails(t) ==
  /\ Runs(t, "try")
  /\ Stuck(t)
  /\ IF xTicksToWait[t] = "none" THEN Return(t) ELSE GoTo(t, "lock") /\ UNCHANGED xTicksToWait
  /\ UNCHANGED <<kindVars, dataVars, waitVars>>

-----------------------------------------------------------------------------
(* The section in which the scheduler is suspended and the queue locked *)

\* vTaskSuspendAll, prvLockQueue
LockQueue(t) ==
  /\ Runs(t, "lock")
  /\ cTxLock' = IF cTxLock = queueUNLOCKED THEN 0 ELSE cTxLock
  /\ GoTo(t, "check")
  /\ UNCHANGED <<kindVars, dataVars, xTasksWaitingToSend, xTasksWaitingToReceive, xTicksToWait>>

\* xTaskCheckForTimeOut, then a second look at the queue.  A fetch whose time is
\* over tries once more without waiting.
Check(t) ==
  /\ Runs(t, "check")
  /\ xTicksToWait' = [xTicksToWait EXCEPT ![t] = IF @ = "due" THEN "none" ELSE @]
  /\ GoTo(t, IF xTicksToWait[t] # "due" /\ Stuck(t) THEN "place" ELSE "unlock")
  /\ UNCHANGED <<kindVars, dataVars, waitVars>>

\* vTaskPlaceOnEventList
PlaceOnEventList(t) ==
  /\ Runs(t, "place")
  /\ xTasksWaitingToSend' = xTasksWaitingToSend \cup ({t} \cap Poster)
  /\ xTasksWaitingToReceive' = xTasksWaitingToReceive \cup ({t} \cap Fetcher)
  /\ GoTo(t, "unlock")
  /\ UNCHANGED <<kindVars, dataVars, cTxLock, xTicksToWait>>

\* Seeded bug: what came while the queue was locked wakes nobody.
UnlockQueueForgets(t) ==
  /\ Runs(t, "unlock")
  /\ cTxLock' = queueUNLOCKED
  /\ GoTo(t, "try")
  /\ UNCHANGED <<kindVars, dataVars, xTasksWaitingToReceive, xTasksWaitingToSend, xTicksToWait>>

\* prvUnlockQueue, xTaskResumeAll
UnlockQueue(t) ==
  /\ Runs(t, "unlock")
  /\ \E W \in FirstOf(xTasksWaitingToReceive, IF cTxLock > 0 THEN cTxLock ELSE 0) :
       xTasksWaitingToReceive' = xTasksWaitingToReceive \ W
  /\ cTxLock' = queueUNLOCKED
  /\ GoTo(t, "try")
  /\ UNCHANGED <<kindVars, dataVars, xTasksWaitingToSend, xTicksToWait>>

-----------------------------------------------------------------------------
(* Interrupts *)

\* xQueueGiveFromISR
GiveFromISR ==
  /\ IsSemaphore
  /\ uxMessagesWaiting < uxLength
  /\ uxMessagesWaiting' = uxMessagesWaiting + 1
  /\ IF cTxLock = queueUNLOCKED
       THEN /\ \E W \in FirstOf(xTasksWaitingToReceive, 1) :
                 xTasksWaitingToReceive' = xTasksWaitingToReceive \ W
            /\ UNCHANGED cTxLock
       ELSE cTxLock' = cTxLock + 1 /\ UNCHANGED xTasksWaitingToReceive
  /\ UNCHANGED <<kindVars, storage, pcWriteTo, pcReadFrom, received, xTasksWaitingToSend, taskVars>>

\* Seeded bug: a task whose time is over stays on the event list.
TickExpiresOnly(t) ==
  /\ \A u \in Task : ~Suspends(u)
  /\ pc[t] # "idle" /\ xTicksToWait[t] = "timed"
  /\ xTicksToWait' = [xTicksToWait EXCEPT ![t] = "due"]
  /\ UNCHANGED <<kindVars, dataVars, waitVars, pc>>

\* xTaskIncrementTick, when the time of t is over: ticks are held back while the
\* scheduler is suspended.
TickExpires(t) ==
  /\ \A u \in Task : ~Suspends(u)
  /\ pc[t] # "idle" /\ xTicksToWait[t] = "timed"
  /\ xTicksToWait' = [xTicksToWait EXCEPT ![t] = "due"]
  /\ xTasksWaitingToReceive' = xTasksWaitingToReceive \ {t}
  /\ UNCHANGED <<kindVars, dataVars, cTxLock, xTasksWaitingToSend, pc>>

-----------------------------------------------------------------------------
\* xQueueGenericSend, xQueueReceive, xQueueSemaphoreTake after their call.
Continue(t) ==
  \/ Send(t) \/ Receive(t) \/ TryFails(t)
  \/ LockQueue(t) \/ Check(t) \/ PlaceOnEventList(t) \/ UnlockQueue(t)

Next ==
  \/ \E t \in Poster : Post(t)
  \/ \E t \in Fetcher : Fetch(t) \/ TickExpires(t)
  \/ \E t \in Task : Continue(t)
  \/ GiveFromISR

Spec == Init /\ [][Next]_vars

\* A task that is ready runs in the end: a fetch even where others suspend the
\* scheduler again and again.  Time passes.
FairSpec ==
  /\ Spec
  /\ \A t \in Poster : WF_vars(Continue(t))
  /\ \A t \in Fetcher : SF_vars(Continue(t)) /\ SF_vars(TickExpires(t))

-----------------------------------------------------------------------------
(* Properties *)

\* What the queue holds, oldest first.
Contents ==
  [i \in 1..uxMessagesWaiting |->
     IF IsSemaphore THEN Signal ELSE storage[Position(i)]]

\* To those who post and fetch the ring is a bounded queue, whatever they do in
\* between and whoever times out.
Box == INSTANCE Fifo WITH
  Item <- Msg \cup {Signal}, Capacity <- MailboxSize, queue <- Contents, out <- received
ImplementsFifo == Box!Spec

\* Tasks in a fetch, or in a post, that will look at the queue again before they
\* sleep or return.
Awake(S) ==
  {t \in S : pc[t] \in {"try", "lock", "check", "unlock"} /\ ~OnEventList(t)}

\* No wakeup is lost: while a task sleeps in a fetch there are no more messages
\* than tasks on their way to fetch one and gives counted in the lock.
MessagesAttended ==
  xTasksWaitingToReceive # {} =>
    uxMessagesWaiting <= Cardinality(Awake(Fetcher)) + (IF cTxLock > 0 THEN cTxLock ELSE 0)

\* The same for the room in the queue and the tasks that sleep in a post.
RoomAttended ==
  xTasksWaitingToSend # {} =>
    uxLength - uxMessagesWaiting <= Cardinality(Awake(Poster))

\* A fetch or wait with a timeout returns, even if every message it is woken for
\* is taken by another task.
TimedFetchReturns ==
  \A t \in Fetcher :
    (pc[t] # "idle" /\ xTicksToWait[t] \in {"timed", "due", "none"}) ~> (pc[t] = "idle")
=============================================================================
