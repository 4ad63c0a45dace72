------------------------------ MODULE MailboxProofs ------------------------------
(***************************************************************************)
(* Proofs about Mailbox: types, the bounded queue it implements, and that  *)
(* no wakeup is lost, for any number of tasks on either side, any          *)
(* priorities and any size.                                                *)
(***************************************************************************)
EXTENDS Mailbox, FiniteSetTheorems, SequenceTheorems, TLAPS

USE MailboxAssumption DEF Task, Ticks, queueUNLOCKED

\* Only one task is inside the section with the scheduler suspended, the lock counts
\* while it is, and no more than has come.
Locking ==
  /\ \A t, u \in Task : Suspends(t) /\ Suspends(u) => t = u
  /\ cTxLock # queueUNLOCKED <=> \E t \in Task : Suspends(t)
  /\ cTxLock <= uxMessagesWaiting

\* What sys_mbox_new and sys_sem_new make.
Kind ==
  \/ uxLength = MailboxSize /\ uxItemSize = 4
  \/ uxLength = 1 /\ uxItemSize = 0

TypeInv == TypeOK /\ Locking /\ Kind

-----------------------------------------------------------------------------
LEMMA FirstOfIsSubset ==
  ASSUME NEW S, NEW k, NEW W \in FirstOf(S, k)
  PROVE  W \subseteq S
  BY DEF FirstOf

LEMMA TypeInit == Init => TypeInv
  BY DEF Init, TypeInv, TypeOK, Locking, Kind, Suspends

\* A task that changes nothing but where it is, inside or outside the section.
LEMMA LockingKept ==
  ASSUME TypeInv, NEW t \in Task, NEW l, GoTo(t, l),
         l \in {"check", "place", "unlock"} <=> Suspends(t),
         UNCHANGED <<cTxLock, uxMessagesWaiting>>
  PROVE  Locking'
  BY DEF TypeInv, TypeOK, Locking, Suspends, GoTo

\* No task that is outside the section moves while the lock counts.
LEMMA RunsUnlocked ==
  ASSUME TypeInv, NEW t \in Task, NEW l \in {"idle", "try", "lock"}, Runs(t, l)
  PROVE  cTxLock = queueUNLOCKED /\ \A u \in Task : ~Suspends(u)
<1>1. \A u \in Task : ~Suspends(u)
  BY DEF Runs, Suspends
<1>2. QED
  BY <1>1 DEF TypeInv, Locking

LEMMA TypeNext == TypeInv /\ [Next]_vars => TypeInv'
<1> SUFFICES ASSUME TypeInv, [Next]_vars PROVE TypeInv'
  OBVIOUS
<1> USE DEF kindVars, dataVars, waitVars, taskVars
<1>1. ASSUME NEW t \in Poster, Post(t) PROVE TypeInv'
  <2>1. TypeOK' /\ Kind'
    BY <1>1 DEF TypeInv, TypeOK, Kind, Post, GoTo
  <2>2. Locking'
    BY <1>1, LockingKept DEF Post, Runs, Suspends
  <2>3. QED
    BY <2>1, <2>2 DEF TypeInv
<1>2. ASSUME NEW t \in Fetcher, Fetch(t) PROVE TypeInv'
  <2>1. TypeOK' /\ Kind'
    BY <1>2 DEF TypeInv, TypeOK, Kind, Fetch, GoTo
  <2>2. Locking'
    BY <1>2, LockingKept DEF Fetch, Runs, Suspends
  <2>3. QED
    BY <2>1, <2>2 DEF TypeInv
<1>3. ASSUME NEW t \in Fetcher, TickExpires(t) PROVE TypeInv'
  <2>1. TypeOK' /\ Kind'
    BY <1>3 DEF TypeInv, TypeOK, Kind, TickExpires
  <2>2. Locking'
    BY <1>3 DEF TypeInv, Locking, TickExpires, Suspends
  <2>3. QED
    BY <2>1, <2>2 DEF TypeInv
<1>4. ASSUME NEW t \in Task, Send(t) PROVE TypeInv'
  <2>1. cTxLock = queueUNLOCKED /\ \A u \in Task : ~Suspends(u)
    BY <1>4, RunsUnlocked DEF Send
  <2>2. xTasksWaitingToReceive' \in SUBSET Fetcher
    BY <1>4, FirstOfIsSubset DEF TypeInv, TypeOK, Send
  <2>3. storage' \in [0..MailboxSize - 1 -> Msg] /\ pcWriteTo' \in 0..uxLength - 1
    BY <1>4 DEF TypeInv, TypeOK, Kind, Send, CopyDataToQueue
  <2>4. TypeOK' /\ Kind'
    BY <1>4, <2>2, <2>3 DEF TypeInv, TypeOK, Kind, Send, Return, GoTo
  <2>5. Locking'
    BY <1>4, <2>1 DEF TypeInv, TypeOK, Locking, Send, Return, GoTo, Suspends
  <2>6. QED
    BY <2>4, <2>5 DEF TypeInv
<1>5. ASSUME NEW t \in Task, Receive(t) PROVE TypeInv'
  <2>1. cTxLock = queueUNLOCKED /\ \A u \in Task : ~Suspends(u)
    BY <1>5, RunsUnlocked DEF Receive
  <2>2. xTasksWaitingToSend' \in SUBSET Poster
    BY <1>5, FirstOfIsSubset DEF TypeInv, TypeOK, Receive
  <2>3. received' \in Msg \cup {Signal, << >>} /\ pcReadFrom' \in 0..uxLength - 1
    BY <1>5 DEF TypeInv, TypeOK, Kind, Receive, CopyDataFromQueue, Position, IsSemaphore
  <2>4. TypeOK' /\ Kind'
    BY <1>5, <2>2, <2>3 DEF TypeInv, TypeOK, Kind, Receive, Return, GoTo
  <2>5. Locking'
    BY <1>5, <2>1 DEF TypeInv, TypeOK, Locking, Receive, Return, GoTo, Suspends
  <2>6. QED
    BY <2>4, <2>5 DEF TypeInv
<1>6. ASSUME NEW t \in Task, TryFails(t) PROVE TypeInv'
  <2>1. TypeOK' /\ Kind'
    BY <1>6 DEF TypeInv, TypeOK, Kind, TryFails, Return, GoTo
  <2>2. Locking'
    BY <1>6, LockingKept DEF TryFails, Runs, Suspends, Return
  <2>3. QED
    BY <2>1, <2>2 DEF TypeInv
<1>7. ASSUME NEW t \in Task, LockQueue(t) PROVE TypeInv'
  <2>1. cTxLock = queueUNLOCKED /\ \A u \in Task : ~Suspends(u)
    BY <1>7, RunsUnlocked DEF LockQueue
  <2>2. TypeOK' /\ Kind'
    BY <1>7, <2>1 DEF TypeInv, TypeOK, Kind, LockQueue, GoTo
  <2>3. Locking'
    BY <1>7, <2>1 DEF TypeInv, TypeOK, Locking, LockQueue, GoTo, Suspends
  <2>4. QED
    BY <2>2, <2>3 DEF TypeInv
<1>8. ASSUME NEW t \in Task, Check(t) PROVE TypeInv'
  <2>1. TypeOK' /\ Kind'
    BY <1>8 DEF TypeInv, TypeOK, Kind, Check, GoTo
  <2>2. Locking'
    BY <1>8, LockingKept DEF Check, Runs, Suspends
  <2>3. QED
    BY <2>1, <2>2 DEF TypeInv
<1>9. ASSUME NEW t \in Task, PlaceOnEventList(t) PROVE TypeInv'
  <2>1. TypeOK' /\ Kind'
    BY <1>9 DEF TypeInv, TypeOK, Kind, PlaceOnEventList, GoTo
  <2>2. Locking'
    BY <1>9, LockingKept DEF PlaceOnEventList, Runs, Suspends
  <2>3. QED
    BY <2>1, <2>2 DEF TypeInv
<1>10. ASSUME NEW t \in Task, UnlockQueue(t) PROVE TypeInv'
  <2>1. xTasksWaitingToReceive' \in SUBSET Fetcher
    BY <1>10, FirstOfIsSubset DEF TypeInv, TypeOK, UnlockQueue
  <2>2. TypeOK' /\ Kind'
    BY <1>10, <2>1 DEF TypeInv, TypeOK, Kind, UnlockQueue, GoTo
  <2>3. Locking'
    BY <1>10 DEF TypeInv, TypeOK, Locking, UnlockQueue, GoTo, Runs, Suspends
  <2>4. QED
    BY <2>2, <2>3 DEF TypeInv
<1>11. CASE GiveFromISR
  <2>1. xTasksWaitingToReceive' \in SUBSET Fetcher
    BY <1>11, FirstOfIsSubset DEF TypeInv, TypeOK, GiveFromISR
  <2>2. cTxLock' \in -1..uxLength /\ cTxLock' <= uxMessagesWaiting'
          /\ (cTxLock' # queueUNLOCKED <=> cTxLock # queueUNLOCKED)
    BY <1>11 DEF TypeInv, TypeOK, Locking, GiveFromISR
  <2>3. TypeOK' /\ Kind'
    BY <1>11, <2>1, <2>2 DEF TypeInv, TypeOK, Kind, GiveFromISR
  <2>4. Locking'
    BY <1>11, <2>2 DEF TypeInv, Locking, GiveFromISR, Suspends
  <2>5. QED
    BY <2>3, <2>4 DEF TypeInv
<1>12. CASE UNCHANGED vars
  BY <1>12 DEF TypeInv, TypeOK, Locking, Kind, vars, Suspends
<1>13. QED
  BY <1>1, <1>2, <1>3, <1>4, <1>5, <1>6, <1>7, <1>8, <1>9, <1>10, <1>11, <1>12
     DEF Next, Continue

\* Types and ranges of a queue under any tasks: in particular the lock count, eight
\* bits wide in the code, stays within the length of the queue.
THEOREM MailboxTyping == Spec => []TypeOK
<1>1. TypeInv => TypeOK
  BY DEF TypeInv
<1>2. QED
  BY <1>1, TypeInit, TypeNext, PTL DEF Spec

-----------------------------------------------------------------------------
(* The ring implements a bounded queue *)

Item == Msg \cup {Signal}

\* The write pointer is one past the last item, round the ring.
RingInv ==
  ~IsSemaphore =>
    \/ pcWriteTo = pcReadFrom + uxMessagesWaiting + 1
    \/ pcWriteTo = pcReadFrom + uxMessagesWaiting + 1 - uxLength
    \/ pcWriteTo = pcReadFrom + uxMessagesWaiting + 1 - 2 * uxLength

LEMMA ContentsFacts ==
  ASSUME TypeInv
  PROVE  /\ Contents \in Seq(Item)
         /\ Len(Contents) = uxMessagesWaiting
         /\ \A i \in 1..uxMessagesWaiting : Position(i) \in 0..uxLength - 1
         /\ \A i \in 1..uxMessagesWaiting :
              Contents[i] = IF IsSemaphore THEN Signal ELSE storage[Position(i)]
<1>1. \A i \in 1..uxMessagesWaiting : Position(i) \in 0..uxLength - 1
  BY DEF TypeInv, TypeOK, Position
<1>2. 0..uxLength - 1 \subseteq 0..MailboxSize - 1
  BY DEF TypeInv, TypeOK
<1>3. \A i \in 1..uxMessagesWaiting :
        (IF IsSemaphore THEN Signal ELSE storage[Position(i)]) \in Item
  BY <1>1, <1>2 DEF TypeInv, TypeOK, Item
<1>4. uxMessagesWaiting \in Nat
  BY DEF TypeInv, TypeOK
<1>5. Contents \in Seq(Item)
  BY <1>3, <1>4, IsASeq DEF Contents
<1>6. Len(Contents) = uxMessagesWaiting
  BY <1>4, <1>5, LenProperties DEF Contents
<1>7. QED
  BY <1>1, <1>5, <1>6 DEF Contents

\* One more item at the end.
LEMMA ContentsAppend ==
  ASSUME TypeInv, TypeInv', NEW x \in Item,
         uxMessagesWaiting' = uxMessagesWaiting + 1,
         \A i \in 1..uxMessagesWaiting : Contents'[i] = Contents[i],
         Contents'[uxMessagesWaiting + 1] = x
  PROVE  Contents' = Append(Contents, x)
<1>1. /\ Contents \in Seq(Item) /\ Len(Contents) = uxMessagesWaiting
      /\ uxMessagesWaiting \in Nat
  BY ContentsFacts DEF TypeInv, TypeOK
<1>2. Contents' = [i \in 1..uxMessagesWaiting + 1 |-> Contents'[i]]
  BY DEF Contents
<1>3. /\ Append(Contents, x) \in Seq(Item)
      /\ Len(Append(Contents, x)) = uxMessagesWaiting + 1
      /\ \A i \in 1..uxMessagesWaiting : Append(Contents, x)[i] = Contents[i]
      /\ Append(Contents, x)[uxMessagesWaiting + 1] = x
  BY <1>1, AppendProperties
<1>4. Append(Contents, x) \in [1..uxMessagesWaiting + 1 -> Item]
  BY <1>3, LenProperties
<1>5. \A i \in 1..uxMessagesWaiting + 1 : Contents'[i] = Append(Contents, x)[i]
  <2>1. \A i \in 1..uxMessagesWaiting + 1 :
          i \in 1..uxMessagesWaiting \/ i = uxMessagesWaiting + 1
    BY <1>1
  <2>2. QED
    BY <1>3, <2>1
<1>6. QED
  BY <1>2, <1>4, <1>5

LEMMA SendPuts ==
  ASSUME TypeInv, TypeInv', RingInv, NEW t \in Task, Send(t)
  PROVE  RingInv' /\ Box!Put
<1> USE DEF TypeInv, TypeOK, kindVars
<1>1. /\ uxMessagesWaiting < uxLength
      /\ uxMessagesWaiting' = uxMessagesWaiting + 1
      /\ UNCHANGED <<uxLength, uxItemSize, pcReadFrom, received>>
  BY DEF Send
<1>2. IsSemaphore' = IsSemaphore
  BY <1>1 DEF IsSemaphore
<1>3. RingInv'
  BY <1>1, <1>2 DEF RingInv, Send, CopyDataToQueue
<1>4. \A i \in 1..uxMessagesWaiting + 1 : Position(i)' = Position(i)
  BY <1>1 DEF Position
<1>5. \E x \in Item :
        /\ \A i \in 1..uxMessagesWaiting : Contents'[i] = Contents[i]
        /\ Contents'[uxMessagesWaiting + 1] = x
  <2>1. CASE IsSemaphore
    BY <1>1, <1>2, <2>1 DEF Contents, Item
  <2>2. CASE ~IsSemaphore
    <3>1. PICK m \in Msg : storage' = [storage EXCEPT ![pcWriteTo] = m]
      BY <2>2 DEF Send, CopyDataToQueue
    <3>2. \A i \in 1..uxMessagesWaiting :
            Position(i) # pcWriteTo /\ Position(i) \in 0..MailboxSize - 1
      BY <1>1, <2>2 DEF RingInv, Position
    <3>3. Position(uxMessagesWaiting + 1) = pcWriteTo
      BY <1>1, <2>2 DEF RingInv, Position
    <3>4. \A i \in 1..uxMessagesWaiting : storage'[Position(i)] = storage[Position(i)]
      BY <3>1, <3>2
    <3>5. storage'[Position(uxMessagesWaiting + 1)] = m
      BY <3>1, <3>3
    <3>6. \A i \in 1..uxMessagesWaiting : Contents'[i] = Contents[i]
      BY <1>1, <1>2, <1>4, <2>2, <3>4 DEF Contents
    <3>7. Contents'[uxMessagesWaiting + 1] = m
      BY <1>1, <1>2, <1>4, <2>2, <3>5 DEF Contents
    <3>8. QED
      BY <3>6, <3>7 DEF Item
  <2>3. QED
    BY <2>1, <2>2
<1>6. \E x \in Item : Contents' = Append(Contents, x)
  BY <1>1, <1>5, ContentsAppend
<1>7. Len(Contents) < MailboxSize
  BY <1>1, ContentsFacts
<1>8. QED
  BY <1>1, <1>3, <1>6, <1>7 DEF Box!Put, Item

LEMMA GivePuts ==
  ASSUME TypeInv, TypeInv', RingInv, GiveFromISR
  PROVE  RingInv' /\ Box!Put
<1> USE DEF TypeInv, TypeOK, kindVars
<1>1. /\ IsSemaphore /\ IsSemaphore'
      /\ uxMessagesWaiting < uxLength
      /\ uxMessagesWaiting' = uxMessagesWaiting + 1
      /\ UNCHANGED <<uxLength, received>>
  BY DEF GiveFromISR, IsSemaphore
<1>2. Contents' = Append(Contents, Signal)
  BY <1>1, ContentsAppend DEF Contents, Item
<1>3. Len(Contents) < MailboxSize
  BY <1>1, ContentsFacts
<1>4. QED
  BY <1>1, <1>2, <1>3 DEF Box!Put, Item, RingInv

LEMMA ReceiveGets ==
  ASSUME TypeInv, TypeInv', RingInv, NEW t \in Task, Receive(t)
  PROVE  RingInv' /\ Box!Get
<1> USE DEF kindVars
<1>1. /\ uxMessagesWaiting > 0
      /\ uxMessagesWaiting' = uxMessagesWaiting - 1
      /\ UNCHANGED <<uxLength, uxItemSize, pcWriteTo, storage>>
  BY DEF Receive
<1>2. /\ uxLength \in Nat \ {0} /\ uxMessagesWaiting \in 0..uxLength
      /\ pcReadFrom \in 0..uxLength - 1 /\ pcWriteTo \in 0..uxLength - 1
  BY DEF TypeInv, TypeOK
<1>3. IsSemaphore' = IsSemaphore
  BY <1>1 DEF IsSemaphore
<1>4. ~IsSemaphore => pcReadFrom' = Position(1) /\ received' = storage[Position(1)]
  BY DEF Receive, CopyDataFromQueue
<1>5. ~IsSemaphore =>
        pcReadFrom' = IF pcReadFrom + 1 >= uxLength THEN pcReadFrom + 1 - uxLength
                      ELSE pcReadFrom + 1
  BY <1>4 DEF Position
<1>6. IsSemaphore => received' = Signal
  BY DEF Receive, CopyDataFromQueue
<1>7. RingInv'
  <2>1. CASE IsSemaphore
    BY <1>3, <2>1 DEF RingInv
  <2>2. CASE ~IsSemaphore
    <3>1. \/ pcReadFrom' = pcReadFrom + 1
          \/ pcReadFrom' = pcReadFrom + 1 - uxLength
      BY <1>5, <2>2
    <3>2. CASE pcReadFrom' = pcReadFrom + 1
      BY <1>1, <1>2, <2>2, <3>2 DEF RingInv
    <3>3. CASE pcReadFrom' = pcReadFrom + 1 - uxLength
      <4>1. pcReadFrom + 1 >= uxLength
        BY <1>2, <1>5, <2>2, <3>3
      <4>2. QED
        BY <1>1, <1>2, <2>2, <3>3, <4>1 DEF RingInv
    <3>4. QED
      BY <3>1, <3>2, <3>3
  <2>3. QED
    BY <2>1, <2>2
<1>8. ~IsSemaphore =>
        \A i \in 1..uxMessagesWaiting - 1 : Position(i)' = Position(i + 1)
  BY <1>1, <1>2, <1>5 DEF Position
<1>9. /\ Contents \in Seq(Item) /\ Len(Contents) = uxMessagesWaiting
      /\ \A i \in 1..uxMessagesWaiting :
              Contents[i] = IF IsSemaphore THEN Signal ELSE storage[Position(i)]
  BY ContentsFacts
<1>10. Contents # << >> /\ Head(Contents) = Contents[1]
  BY <1>1, <1>9, EmptySeq, HeadTailProperties
<1>11. received' = Head(Contents)
  BY <1>1, <1>4, <1>6, <1>9, <1>10
<1>12. Contents' = Tail(Contents)
  <2>1. Contents' = [i \in 1..uxMessagesWaiting - 1 |->
                       IF IsSemaphore THEN Signal ELSE storage[Position(i + 1)]]
    BY <1>1, <1>3, <1>8 DEF Contents
  <2>2. /\ Tail(Contents) \in Seq(Item) /\ Len(Tail(Contents)) = uxMessagesWaiting - 1
        /\ \A i \in 1..uxMessagesWaiting - 1 : Tail(Contents)[i] = Contents[i + 1]
    BY <1>9, <1>10, HeadTailProperties
  <2>3. Tail(Contents) \in [1..uxMessagesWaiting - 1 -> Item]
    BY <2>2, LenProperties
  <2>4. \A i \in 1..uxMessagesWaiting - 1 : i + 1 \in 1..uxMessagesWaiting
    BY <1>2
  <2>5. \A i \in 1..uxMessagesWaiting - 1 :
          Tail(Contents)[i] = IF IsSemaphore THEN Signal ELSE storage[Position(i + 1)]
    BY <1>9, <2>2, <2>4
  <2>6. QED
    BY <2>1, <2>3, <2>5
<1>13. QED
  BY <1>7, <1>10, <1>11, <1>12 DEF Box!Get

LEMMA RingNext ==
  ASSUME TypeInv, TypeInv', RingInv, [Next]_vars
  PROVE  RingInv' /\ [Box!Next]_(Box!vars)
<1> USE DEF Box!Next, Box!vars, kindVars, dataVars
<1>1. ASSUME NEW t \in Task, Send(t) PROVE RingInv' /\ Box!Put
  BY <1>1, SendPuts
<1>2. ASSUME NEW t \in Task, Receive(t) PROVE RingInv' /\ Box!Get
  BY <1>2, ReceiveGets
<1>3. CASE GiveFromISR
  BY <1>3, GivePuts
<1>4. CASE UNCHANGED <<kindVars, dataVars>>
  <2>1. Contents' = Contents /\ received' = received
    BY <1>4 DEF Contents, Position, IsSemaphore
  <2>2. RingInv'
    BY <1>4 DEF RingInv, IsSemaphore
  <2>3. QED
    BY <2>1, <2>2
<1>5. QED
  BY <1>1, <1>2, <1>3, <1>4
     DEF Next, Continue, Post, Fetch, TickExpires, TryFails, LockQueue, Check,
         PlaceOnEventList, UnlockQueue, vars

\* Every message posted or given is fetched once and in order, whoever times out,
\* sleeps or is woken in between, for any ring and any tasks.
THEOREM MailboxImplementsFifo == Spec => ImplementsFifo
<1>1. Init => TypeInv /\ RingInv
  BY TypeInit DEF Init, RingInv, IsSemaphore
<1>2. Init => Box!Init
  <2>1. ASSUME Init PROVE Contents = << >> /\ received \notin Item
    BY <2>1 DEF Init, Contents, Item
  <2>2. QED
    BY <2>1 DEF Box!Init, Item
<1>3. TypeInv /\ RingInv /\ [Next]_vars
        => (TypeInv /\ RingInv)' /\ [Box!Next]_(Box!vars)
  BY TypeNext, RingNext
<1>4. QED
  BY <1>1, <1>2, <1>3, PTL DEF Spec, Box!Spec, ImplementsFifo

-----------------------------------------------------------------------------
(* No wakeup is lost *)

\* A task on an event list has gone, or is about to go, to sleep.
Listed == \A t \in Task : OnEventList(t) => pc[t] \in {"unlock", "try"}

Count == IF cTxLock > 0 THEN cTxLock ELSE 0
Sleepers == xTasksWaitingToReceive \cup {t \in Fetcher : pc[t] = "place"}

\* A task between its second look at the queue and the event list counts as a sleeper.
Attended == Sleepers # {} => uxMessagesWaiting <= Cardinality(Awake(Fetcher)) + Count

WakeInv == Listed /\ Attended

LEMMA AwakeIs ==
  ASSUME TypeOK
  PROVE  Awake(Fetcher) = {t \in Fetcher : /\ pc[t] \in {"try", "lock", "check", "unlock"}
                                           /\ t \notin xTasksWaitingToReceive}
  BY DEF TypeOK, Awake, OnEventList

LEMMA Sizes ==
  ASSUME NEW X \in SUBSET Fetcher, NEW Y \in SUBSET X
  PROVE  /\ IsFiniteSet(X) /\ Cardinality(X) \in Nat
         /\ IsFiniteSet(Y) /\ Cardinality(Y) \in Nat
         /\ Cardinality(Y) <= Cardinality(X)
  BY FS_Subset, FS_CardinalityType

LEMMA FirstOfOne ==
  ASSUME NEW S, IsFiniteSet(S), S # {}, NEW W \in FirstOf(S, 1)
  PROVE  \E w \in S : W = {w}
<1>1. Cardinality(S) \in Nat /\ Cardinality(S) # 0
  BY FS_CardinalityType, FS_EmptySet
<1>2. Cardinality(W) = 1 /\ W \in SUBSET S
  BY <1>1 DEF FirstOf
<1>3. IsFiniteSet(W)
  BY <1>2, FS_Subset
<1>4. QED
  BY <1>2, <1>3, FS_Singleton

LEMMA FirstOfRest ==
  ASSUME NEW S, IsFiniteSet(S), NEW k \in Nat, NEW W \in FirstOf(S, k), S \ W # {}
  PROVE  Cardinality(W) = k
<1>1. W \in SUBSET S /\ W # S
  BY FirstOfIsSubset
<1>2. Cardinality(S) # Cardinality(W)
  BY <1>1, FS_Subset
<1>3. QED
  BY <1>2 DEF FirstOf

\* A step that wakes nobody and brings nothing.
LEMMA QuietKeeps ==
  ASSUME TypeInv, TypeInv', Attended,
         uxMessagesWaiting' <= uxMessagesWaiting, Count <= Count',
         Sleepers' # {} => Sleepers # {},
         Awake(Fetcher) \subseteq Awake(Fetcher)'
  PROVE  Attended'
<1>1. Awake(Fetcher)' \in SUBSET Fetcher /\ Awake(Fetcher) \in SUBSET Awake(Fetcher)'
  BY DEF Awake
<1>2. /\ Cardinality(Awake(Fetcher)) \in Nat /\ Cardinality(Awake(Fetcher)') \in Nat
      /\ Cardinality(Awake(Fetcher)) <= Cardinality(Awake(Fetcher)')
  BY <1>1, Sizes
<1>3. /\ uxMessagesWaiting \in Nat /\ uxMessagesWaiting' \in Nat
      /\ Count \in Nat /\ Count' \in Nat
  BY DEF TypeInv, TypeOK, Count
<1>4. Cardinality(Awake(Fetcher))' = Cardinality(Awake(Fetcher)')
  OBVIOUS
<1>5. QED
  BY <1>2, <1>3, <1>4 DEF Attended

\* A message or a give outside the section wakes one of those who sleep.
LEMMA WakeOneKeeps ==
  ASSUME TypeInv, TypeInv', WakeInv,
         cTxLock = queueUNLOCKED, UNCHANGED cTxLock,
         uxMessagesWaiting' = uxMessagesWaiting + 1,
         \A t \in Fetcher : pc'[t] = pc[t],
         NEW W \in FirstOf(xTasksWaitingToReceive, 1),
         xTasksWaitingToReceive' = xTasksWaitingToReceive \ W
  PROVE  Attended'
<1>1. \A t \in Task : ~Suspends(t)
  BY DEF TypeInv, Locking
<1>2. CASE xTasksWaitingToReceive = {}
  <2>1. Sleepers' = {}
    BY <1>1, <1>2 DEF Sleepers, Suspends
  <2>2. QED
    BY <2>1 DEF Attended
<1>3. CASE xTasksWaitingToReceive # {}
  <2>1. xTasksWaitingToReceive \in SUBSET Fetcher
    BY DEF TypeInv, TypeOK
  <2>2. IsFiniteSet(xTasksWaitingToReceive)
    BY <2>1, FS_Subset
  <2>3. PICK w \in xTasksWaitingToReceive : W = {w}
    BY <1>3, <2>2, FirstOfOne
  <2>4. pc[w] \in {"unlock", "try"}
    BY <2>1, <2>3 DEF WakeInv, Listed, OnEventList
  <2>5. Awake(Fetcher)' = Awake(Fetcher) \cup {w} /\ w \notin Awake(Fetcher)
    <3>1. Awake(Fetcher)' = {t \in Fetcher : /\ pc'[t] \in {"try", "lock", "check", "unlock"}
                                             /\ t \notin xTasksWaitingToReceive'}
      BY DEF TypeInv, TypeOK, Awake, OnEventList
    <3>2. QED
      BY <2>1, <2>3, <2>4, <3>1, AwakeIs DEF TypeInv
  <2>6. Awake(Fetcher) \in SUBSET Fetcher
    BY DEF Awake
  <2>7. /\ Cardinality(Awake(Fetcher)) \in Nat
        /\ Cardinality(Awake(Fetcher)') = Cardinality(Awake(Fetcher)) + 1
    BY <2>5, <2>6, Sizes, FS_AddElement
  <2>8. uxMessagesWaiting <= Cardinality(Awake(Fetcher)) + Count
    BY <1>3 DEF WakeInv, Attended, Sleepers
  <2>9. uxMessagesWaiting \in Nat /\ Count \in Nat /\ Count' = Count
    BY DEF TypeInv, TypeOK, Count
  <2>10. QED
    BY <2>7, <2>8, <2>9 DEF Attended
<1>4. QED
  BY <1>2, <1>3

\* Leaving the section hands out what the lock has counted.
LEMMA UnlockKeeps ==
  ASSUME TypeInv, TypeInv', WakeInv, NEW t \in Task, UnlockQueue(t)
  PROVE  Attended'
<1>1. PICK W \in FirstOf(xTasksWaitingToReceive, Count) :
        xTasksWaitingToReceive' = xTasksWaitingToReceive \ W
  BY DEF UnlockQueue, Count
<1>2. /\ pc[t] = "unlock" /\ pc' = [pc EXCEPT ![t] = "try"]
      /\ cTxLock' = queueUNLOCKED
      /\ UNCHANGED <<uxMessagesWaiting, xTasksWaitingToSend>>
      /\ \A u \in Task \ {t} : ~Suspends(u)
  BY DEF UnlockQueue, Runs, GoTo, dataVars
<1>3. CASE xTasksWaitingToReceive' = {}
  <2>1. Sleepers' = {}
    BY <1>2, <1>3 DEF Sleepers, Suspends, TypeInv, TypeOK
  <2>2. QED
    BY <2>1 DEF Attended
<1>4. CASE xTasksWaitingToReceive' # {}
  <2>1. /\ xTasksWaitingToReceive \in SUBSET Fetcher /\ W \in SUBSET xTasksWaitingToReceive
        /\ Count \in Nat
    BY FirstOfIsSubset DEF TypeInv, TypeOK, Count
  <2>2. IsFiniteSet(xTasksWaitingToReceive) /\ IsFiniteSet(W)
    BY <2>1, Sizes, FS_Subset
  <2>3. Cardinality(W) = Count
    BY <1>1, <1>4, <2>1, <2>2, FirstOfRest
  <2>4. \A w \in W : pc[w] \in {"unlock", "try"}
    BY <2>1 DEF WakeInv, Listed, OnEventList
  <2>5. Awake(Fetcher)' = Awake(Fetcher) \cup W /\ Awake(Fetcher) \cap W = {}
    <3>1. Awake(Fetcher)' = {u \in Fetcher : /\ pc'[u] \in {"try", "lock", "check", "unlock"}
                                             /\ u \notin xTasksWaitingToReceive'}
      BY DEF TypeInv, TypeOK, Awake, OnEventList
    <3>2. \A u \in Fetcher : pc'[u] \in {"try", "lock", "check", "unlock"}
                               <=> pc[u] \in {"try", "lock", "check", "unlock"}
      BY <1>2 DEF TypeInv, TypeOK
    <3>3. QED
      BY <1>1, <2>1, <2>4, <3>1, <3>2, AwakeIs DEF TypeInv
  <2>6. Awake(Fetcher) \in SUBSET Fetcher
    BY DEF Awake
  <2>7. /\ Cardinality(Awake(Fetcher)) \in Nat
        /\ Cardinality(Awake(Fetcher) \cup W) = Cardinality(Awake(Fetcher)) + Count
    <3>1. IsFiniteSet(Awake(Fetcher)) /\ Cardinality(Awake(Fetcher)) \in Nat
      BY <2>6, Sizes
    <3>2. Cardinality(Awake(Fetcher) \cap W) = 0
      BY <2>5, FS_EmptySet
    <3>3. Cardinality(Awake(Fetcher) \cup W)
            = Cardinality(Awake(Fetcher)) + Cardinality(W) - Cardinality(Awake(Fetcher) \cap W)
      <4> DEFINE A == Awake(Fetcher)
      <4>1. IsFiniteSet(A) /\ IsFiniteSet(W)
        BY <2>2, <3>1
      <4> HIDE DEF A
      <4>2. Cardinality(A \cup W) = Cardinality(A) + Cardinality(W) - Cardinality(A \cap W)
        BY <4>1, FS_Union
      <4>3. QED
        BY <4>2 DEF A
    <3>4. QED
      BY <2>1, <2>3, <3>1, <3>2, <3>3
  <2>8. uxMessagesWaiting <= Cardinality(Awake(Fetcher)) + Count
    BY <1>1, <1>4 DEF WakeInv, Attended, Sleepers
  <2>9. Cardinality(Awake(Fetcher)') = Cardinality(Awake(Fetcher)) + Count
    BY <2>5, <2>7
  <2>10. uxMessagesWaiting \in Nat /\ Count' = 0
    BY <1>2 DEF TypeInv, TypeOK, Count
  <2>11. QED
    BY <1>2, <2>1, <2>7, <2>8, <2>9, <2>10 DEF Attended
<1>5. QED
  BY <1>3, <1>4

\* A fetch takes its own message and leaves.
LEMMA ReceiveKeeps ==
  ASSUME TypeInv, TypeInv', WakeInv, NEW t \in Task, Receive(t)
  PROVE  Attended'
<1>1. /\ t \in Fetcher /\ pc[t] = "try" /\ t \notin xTasksWaitingToReceive
      /\ pc' = [pc EXCEPT ![t] = "idle"]
      /\ uxMessagesWaiting' = uxMessagesWaiting - 1
      /\ UNCHANGED <<xTasksWaitingToReceive, cTxLock>>
  BY DEF Receive, Runs, OnEventList, Return, GoTo
<1>2. Sleepers' = Sleepers
  BY <1>1 DEF Sleepers, TypeInv, TypeOK
<1>3. Awake(Fetcher)' = Awake(Fetcher) \ {t} /\ t \in Awake(Fetcher)
  <2>1. Awake(Fetcher)' = {u \in Fetcher : /\ pc'[u] \in {"try", "lock", "check", "unlock"}
                                           /\ u \notin xTasksWaitingToReceive'}
    BY DEF TypeInv, TypeOK, Awake, OnEventList
  <2>2. \A u \in Fetcher : pc'[u] = IF u = t THEN "idle" ELSE pc[u]
    BY <1>1 DEF TypeInv, TypeOK
  <2>3. QED
    BY <1>1, <2>1, <2>2, AwakeIs DEF TypeInv
<1>4. Awake(Fetcher) \in SUBSET Fetcher
  BY DEF Awake
<1>5. /\ Cardinality(Awake(Fetcher)) \in Nat
      /\ Cardinality(Awake(Fetcher)') = Cardinality(Awake(Fetcher)) - 1
  BY <1>3, <1>4, Sizes, FS_RemoveElement
<1>6. uxMessagesWaiting \in Nat /\ Count \in Nat /\ Count' = Count
  BY <1>1 DEF TypeInv, TypeOK, Count
<1>7. QED
  BY <1>1, <1>2, <1>5, <1>6 DEF WakeInv, Attended

\* Where the queue is empty nobody sleeps beside a message.
LEMMA EmptyKeeps ==
  ASSUME TypeInv', uxMessagesWaiting' = 0
  PROVE  Attended'
<1>1. Awake(Fetcher)' \in SUBSET Fetcher
  BY DEF Awake
<1>2. Cardinality(Awake(Fetcher)') \in Nat /\ Count' \in Nat
  BY <1>1, Sizes DEF TypeInv, TypeOK, Count
<1>3. QED
  BY <1>2 DEF Attended

LEMMA ListedNext ==
  ASSUME TypeInv, Listed, [Next]_vars
  PROVE  Listed'
<1> USE DEF TypeInv, TypeOK, Listed, OnEventList, Runs, GoTo, Return
<1>1. ASSUME NEW t \in Task, Send(t) PROVE Listed'
  BY <1>1, FirstOfIsSubset DEF Send
<1>2. ASSUME NEW t \in Task, Receive(t) PROVE Listed'
  BY <1>2, FirstOfIsSubset DEF Receive
<1>3. ASSUME NEW t \in Task, UnlockQueue(t) PROVE Listed'
  BY <1>3, FirstOfIsSubset DEF UnlockQueue
<1>4. CASE GiveFromISR
  BY <1>4, FirstOfIsSubset DEF GiveFromISR, taskVars
<1>5. ASSUME NEW t \in Poster, Post(t) PROVE Listed'
  BY <1>5 DEF Post, waitVars
<1>6. ASSUME NEW t \in Fetcher, Fetch(t) \/ TickExpires(t) PROVE Listed'
  BY <1>6 DEF Fetch, TickExpires, waitVars
<1>7. ASSUME NEW t \in Task, TryFails(t) \/ LockQueue(t) \/ Check(t) PROVE Listed'
  BY <1>7 DEF TryFails, LockQueue, Check, waitVars
<1>8. ASSUME NEW t \in Task, PlaceOnEventList(t) PROVE Listed'
  BY <1>8 DEF PlaceOnEventList
<1>9. CASE UNCHANGED vars
  BY <1>9 DEF vars, waitVars, taskVars
<1>10. QED
  BY <1>1, <1>2, <1>3, <1>4, <1>5, <1>6, <1>7, <1>8, <1>9 DEF Next, Continue

LEMMA AttendedNext ==
  ASSUME TypeInv, TypeInv', WakeInv, [Next]_vars
  PROVE  Attended'
<1> USE DEF kindVars, dataVars, waitVars, taskVars
<1>1. ASSUME NEW t \in Task, Send(t) PROVE Attended'
  <2>1. cTxLock = queueUNLOCKED
    BY <1>1, RunsUnlocked DEF Send
  <2>2. PICK W \in FirstOf(xTasksWaitingToReceive, 1) :
          xTasksWaitingToReceive' = xTasksWaitingToReceive \ W
    BY <1>1 DEF Send
  <2>3. \A u \in Fetcher : pc'[u] = pc[u]
    BY <1>1 DEF Send, Return, GoTo, TypeInv, TypeOK
  <2>4. QED
    BY <1>1, <2>1, <2>2, <2>3, WakeOneKeeps DEF Send
<1>2. ASSUME NEW t \in Task, Receive(t) PROVE Attended'
  BY <1>2, ReceiveKeeps
<1>3. ASSUME NEW t \in Task, UnlockQueue(t) PROVE Attended'
  BY <1>3, UnlockKeeps
<1>4. CASE GiveFromISR
  <2>1. CASE cTxLock = queueUNLOCKED
    BY <1>4, <2>1, WakeOneKeeps DEF GiveFromISR
  <2>2. CASE cTxLock # queueUNLOCKED
    <3>1. cTxLock \in Nat /\ cTxLock' = cTxLock + 1
            /\ uxMessagesWaiting' = uxMessagesWaiting + 1 /\ uxMessagesWaiting \in Nat
            /\ UNCHANGED <<pc, xTasksWaitingToReceive, xTasksWaitingToSend>>
      BY <1>4, <2>2 DEF GiveFromISR, TypeInv, TypeOK
    <3>2. Sleepers' = Sleepers /\ Awake(Fetcher)' = Awake(Fetcher)
      BY <3>1 DEF Sleepers, Awake, OnEventList
    <3>3. Cardinality(Awake(Fetcher)) \in Nat
      BY Sizes DEF Awake
    <3>4. Count' = Count + 1 /\ Count \in Nat
      BY <3>1 DEF Count
    <3>5. QED
      BY <3>1, <3>2, <3>3, <3>4 DEF WakeInv, Attended
  <2>3. QED
    BY <2>1, <2>2
<1>5. ASSUME NEW t \in Task, \/ t \in Poster /\ Post(t)
                             \/ t \in Fetcher /\ Fetch(t)
                             \/ LockQueue(t)
                             \/ UNCHANGED vars
      PROVE Attended'
  <2>1. UNCHANGED <<uxMessagesWaiting, xTasksWaitingToReceive, xTasksWaitingToSend>>
          /\ (cTxLock' = cTxLock \/ cTxLock' = 0)
    BY <1>5 DEF Post, Fetch, LockQueue, vars
  <2>2. Count <= Count' /\ uxMessagesWaiting' <= uxMessagesWaiting
    <3>1. cTxLock' = 0 => cTxLock \in {queueUNLOCKED, 0} \/ cTxLock' = cTxLock
      BY <1>5 DEF Post, Fetch, LockQueue, vars
    <3>2. QED
      BY <2>1, <3>1 DEF Count, TypeInv, TypeOK
  <2>3. /\ \A u \in Fetcher : pc'[u] = "place" => pc[u] = "place"
        /\ \A u \in Fetcher : pc[u] \in {"try", "lock", "check", "unlock"}
                                => pc'[u] \in {"try", "lock", "check", "unlock"}
    BY <1>5 DEF Post, Fetch, LockQueue, vars, GoTo, Runs, TypeInv, TypeOK
  <2>4. Sleepers' # {} => Sleepers # {}
    BY <2>1, <2>3 DEF Sleepers
  <2>5. Awake(Fetcher) \subseteq Awake(Fetcher)'
    BY <2>1, <2>3 DEF Awake, OnEventList
  <2>6. QED
    BY <2>2, <2>4, <2>5, QuietKeeps DEF WakeInv
<1>6. ASSUME NEW t \in Fetcher, TickExpires(t) PROVE Attended'
  <2>1. /\ UNCHANGED <<uxMessagesWaiting, xTasksWaitingToSend, pc, cTxLock>>
        /\ xTasksWaitingToReceive' = xTasksWaitingToReceive \ {t}
    BY <1>6 DEF TickExpires
  <2>2. Sleepers' # {} => Sleepers # {}
    BY <2>1 DEF Sleepers
  <2>3. Awake(Fetcher) \subseteq Awake(Fetcher)'
    BY <2>1 DEF Awake, OnEventList
  <2>4. Count <= Count' /\ uxMessagesWaiting' <= uxMessagesWaiting
    BY <2>1 DEF Count, TypeInv, TypeOK
  <2>5. QED
    BY <2>2, <2>3, <2>4, QuietKeeps DEF WakeInv
<1>7. ASSUME NEW t \in Task, TryFails(t) \/ Check(t) PROVE Attended'
  <2>1. UNCHANGED <<uxMessagesWaiting, xTasksWaitingToSend, xTasksWaitingToReceive, cTxLock>>
    BY <1>7 DEF TryFails, Check
  <2>2. CASE uxMessagesWaiting = 0
    BY <2>1, <2>2, EmptyKeeps
  <2>3. CASE uxMessagesWaiting # 0
    <3>1. \A u \in Fetcher : pc'[u] = pc[u] \/ (pc[u] = "check" /\ pc'[u] = "unlock")
      BY <1>7, <2>3 DEF TryFails, Check, Stuck, Runs, Return, GoTo, TypeInv, TypeOK
    <3>2. Sleepers' # {} => Sleepers # {}
      BY <2>1, <3>1 DEF Sleepers
    <3>3. Awake(Fetcher) \subseteq Awake(Fetcher)'
      BY <2>1, <3>1 DEF Awake, OnEventList
    <3>4. Count <= Count' /\ uxMessagesWaiting' <= uxMessagesWaiting
      BY <2>1 DEF Count, TypeInv, TypeOK
    <3>5. QED
      BY <3>2, <3>3, <3>4, QuietKeeps DEF WakeInv
  <2>4. QED
    BY <2>2, <2>3
<1>8. ASSUME NEW t \in Task, PlaceOnEventList(t) PROVE Attended'
  <2>1. /\ UNCHANGED <<uxMessagesWaiting, cTxLock>>
        /\ xTasksWaitingToReceive' = xTasksWaitingToReceive \cup ({t} \cap Fetcher)
        /\ xTasksWaitingToSend' = xTasksWaitingToSend \cup ({t} \cap Poster)
        /\ pc[t] = "place" /\ pc' = [pc EXCEPT ![t] = "unlock"]
    BY <1>8 DEF PlaceOnEventList, Runs, GoTo
  <2>2. Sleepers' # {} => Sleepers # {}
    BY <2>1 DEF Sleepers, TypeInv, TypeOK
  <2>3. Awake(Fetcher) \subseteq Awake(Fetcher)'
    BY <2>1 DEF Awake, OnEventList, TypeInv, TypeOK
  <2>4. Count <= Count' /\ uxMessagesWaiting' <= uxMessagesWaiting
    BY <2>1 DEF Count, TypeInv, TypeOK
  <2>5. QED
    BY <2>2, <2>3, <2>4, QuietKeeps DEF WakeInv
<1>9. CASE UNCHANGED vars
  <2>1. /\ UNCHANGED <<uxMessagesWaiting, cTxLock>>
        /\ Sleepers' = Sleepers /\ Awake(Fetcher)' = Awake(Fetcher)
    BY <1>9 DEF vars, Sleepers, Awake, OnEventList
  <2>2. QED
    BY <2>1 DEF WakeInv, Attended, Count
<1>10. QED
  BY <1>1, <1>2, <1>3, <1>4, <1>5, <1>6, <1>7, <1>8, <1>9 DEF Next, Continue

\* No task sleeps in a fetch or a wait beside a message nobody is coming for: not where
\* an interrupt gives the semaphore between a task's look at it and its sleep, not where
\* the task that was woken finds the message taken, not where its time is over.
THEOREM MessagesAttendedTheorem == Spec => []MessagesAttended
<1>1. Init => TypeInv /\ WakeInv
  <2>1. ASSUME Init PROVE Sleepers = {} /\ Listed
    BY <2>1 DEF Init, Sleepers, Listed, OnEventList
  <2>2. QED
    BY <2>1, TypeInit DEF WakeInv, Attended
<1>2. TypeInv /\ WakeInv /\ [Next]_vars => (TypeInv /\ WakeInv)'
  BY TypeNext, ListedNext, AttendedNext DEF WakeInv
<1>3. WakeInv => MessagesAttended
  BY DEF WakeInv, Attended, Sleepers, Count, MessagesAttended
<1>4. QED
  BY <1>1, <1>2, <1>3, PTL DEF Spec
-----------------------------------------------------------------------------
(* The same for those who post *)

Room == uxLength - uxMessagesWaiting
RoomSleepers == xTasksWaitingToSend \cup {t \in Poster : pc[t] = "place"}

\* No interrupt takes anything out of the queue, so the lock counts nothing here.
RoomLeft == RoomSleepers # {} => Room <= Cardinality(Awake(Poster))

LEMMA AwakePosters ==
  ASSUME TypeOK
  PROVE  Awake(Poster) = {t \in Poster : /\ pc[t] \in {"try", "lock", "check", "unlock"}
                                         /\ t \notin xTasksWaitingToSend}
  BY DEF TypeOK, Awake, OnEventList

LEMMA PosterSizes ==
  ASSUME NEW X \in SUBSET Poster, NEW Y \in SUBSET X
  PROVE  /\ IsFiniteSet(X) /\ Cardinality(X) \in Nat
         /\ IsFiniteSet(Y) /\ Cardinality(Y) \in Nat
         /\ Cardinality(Y) <= Cardinality(X)
  BY FS_Subset, FS_CardinalityType

\* A step that wakes no poster and makes no room.
LEMMA RoomQuietKeeps ==
  ASSUME TypeInv, TypeInv', RoomLeft, Room' <= Room,
         RoomSleepers' # {} => RoomSleepers # {},
         Awake(Poster) \subseteq Awake(Poster)'
  PROVE  RoomLeft'
<1>1. Awake(Poster)' \in SUBSET Poster /\ Awake(Poster) \in SUBSET Awake(Poster)'
  BY DEF Awake
<1>2. /\ Cardinality(Awake(Poster)) \in Nat /\ Cardinality(Awake(Poster)') \in Nat
      /\ Cardinality(Awake(Poster)) <= Cardinality(Awake(Poster)')
  BY <1>1, PosterSizes
<1>3. Room \in Int /\ Room' \in Int
  BY DEF TypeInv, TypeOK, Room
<1>4. Cardinality(Awake(Poster))' = Cardinality(Awake(Poster)')
  OBVIOUS
<1>5. QED
  BY <1>2, <1>3, <1>4 DEF RoomLeft

\* Where the queue is full nobody sleeps beside room.
LEMMA FullKeeps ==
  ASSUME TypeInv', Room' <= 0
  PROVE  RoomLeft'
<1>1. Awake(Poster)' \in SUBSET Poster
  BY DEF Awake
<1>2. Cardinality(Awake(Poster)') \in Nat /\ Room' \in Int
  BY <1>1, PosterSizes DEF TypeInv, TypeOK, Room
<1>3. QED
  BY <1>2 DEF RoomLeft

\* A post fills its own place and leaves.
LEMMA SendRoom ==
  ASSUME TypeInv, TypeInv', RoomLeft, NEW t \in Task, Send(t)
  PROVE  RoomLeft'
<1>1. /\ t \in Poster /\ pc[t] = "try" /\ t \notin xTasksWaitingToSend
      /\ pc' = [pc EXCEPT ![t] = "idle"]
      /\ uxMessagesWaiting' = uxMessagesWaiting + 1
      /\ UNCHANGED <<uxLength, xTasksWaitingToSend>>
  BY DEF Send, Runs, OnEventList, Return, GoTo, kindVars
<1>2. RoomSleepers' = RoomSleepers
  BY <1>1 DEF RoomSleepers, TypeInv, TypeOK
<1>3. Awake(Poster)' = Awake(Poster) \ {t} /\ t \in Awake(Poster)
  <2>1. Awake(Poster)' = {u \in Poster : /\ pc'[u] \in {"try", "lock", "check", "unlock"}
                                         /\ u \notin xTasksWaitingToSend'}
    BY DEF TypeInv, TypeOK, Awake, OnEventList
  <2>2. \A u \in Poster : pc'[u] = IF u = t THEN "idle" ELSE pc[u]
    BY <1>1 DEF TypeInv, TypeOK
  <2>3. QED
    BY <1>1, <2>1, <2>2, AwakePosters DEF TypeInv
<1>4. Awake(Poster) \in SUBSET Poster
  BY DEF Awake
<1>5. /\ Cardinality(Awake(Poster)) \in Nat
      /\ Cardinality(Awake(Poster)') = Cardinality(Awake(Poster)) - 1
  BY <1>3, <1>4, PosterSizes, FS_RemoveElement
<1>6. Room' = Room - 1 /\ Room \in Int
  BY <1>1 DEF Room, TypeInv, TypeOK
<1>7. QED
  BY <1>2, <1>5, <1>6 DEF RoomLeft

\* A fetch makes room for one and wakes one of those who wait for it.
LEMMA ReceiveRoom ==
  ASSUME TypeInv, TypeInv', Listed, RoomLeft, NEW t \in Task, Receive(t)
  PROVE  RoomLeft'
<1>1. /\ t \in Fetcher /\ pc' = [pc EXCEPT ![t] = "idle"]
      /\ uxMessagesWaiting' = uxMessagesWaiting - 1
      /\ uxLength' = uxLength
  BY DEF Receive, Return, GoTo, kindVars
<1>2. \A u \in Poster : pc'[u] = pc[u] /\ ~Suspends(u)
  BY <1>1, RunsUnlocked DEF Receive, TypeInv, TypeOK
<1>3. PICK W \in FirstOf(xTasksWaitingToSend, 1) :
        xTasksWaitingToSend' = xTasksWaitingToSend \ W
  BY DEF Receive
<1>4. CASE xTasksWaitingToSend = {}
  <2>1. RoomSleepers' = {}
    BY <1>2, <1>3, <1>4 DEF RoomSleepers, Suspends
  <2>2. QED
    BY <2>1 DEF RoomLeft
<1>5. CASE xTasksWaitingToSend # {}
  <2>1. xTasksWaitingToSend \in SUBSET Poster
    BY DEF TypeInv, TypeOK
  <2>2. IsFiniteSet(xTasksWaitingToSend)
    BY <2>1, FS_Subset
  <2>3. PICK w \in xTasksWaitingToSend : W = {w}
    BY <1>3, <1>5, <2>2, FirstOfOne
  <2>4. pc[w] \in {"unlock", "try"}
    BY <2>1, <2>3 DEF Listed, OnEventList
  <2>5. Awake(Poster)' = Awake(Poster) \cup {w} /\ w \notin Awake(Poster)
    <3>1. Awake(Poster)' = {u \in Poster : /\ pc'[u] \in {"try", "lock", "check", "unlock"}
                                           /\ u \notin xTasksWaitingToSend'}
      BY DEF TypeInv, TypeOK, Awake, OnEventList
    <3>2. QED
      BY <1>2, <1>3, <2>1, <2>3, <2>4, <3>1, AwakePosters DEF TypeInv
  <2>6. Awake(Poster) \in SUBSET Poster
    BY DEF Awake
  <2>7. /\ Cardinality(Awake(Poster)) \in Nat
        /\ Cardinality(Awake(Poster)') = Cardinality(Awake(Poster)) + 1
    BY <2>5, <2>6, PosterSizes, FS_AddElement
  <2>8. Room <= Cardinality(Awake(Poster))
    BY <1>5 DEF RoomLeft, RoomSleepers
  <2>9. Room' = Room + 1 /\ Room \in Int
    BY <1>1 DEF Room, TypeInv, TypeOK
  <2>10. QED
    BY <2>7, <2>8, <2>9 DEF RoomLeft
<1>6. QED
  BY <1>4, <1>5

LEMMA RoomNext ==
  ASSUME TypeInv, TypeInv', Listed, RoomLeft, [Next]_vars
  PROVE  RoomLeft'
<1> USE DEF kindVars, dataVars, waitVars, taskVars
<1>1. ASSUME NEW t \in Task, Send(t) PROVE RoomLeft'
  BY <1>1, SendRoom
<1>2. ASSUME NEW t \in Task, Receive(t) PROVE RoomLeft'
  BY <1>2, ReceiveRoom
<1>3. ASSUME UNCHANGED <<uxLength, xTasksWaitingToSend>>,
             uxMessagesWaiting' = uxMessagesWaiting \/ uxMessagesWaiting' = uxMessagesWaiting + 1,
             \A u \in Poster : pc'[u] = "place" => pc[u] = "place",
             \A u \in Poster : pc[u] \in {"try", "lock", "check", "unlock"}
                                 => pc'[u] \in {"try", "lock", "check", "unlock"}
      PROVE  RoomLeft'
  <2>1. Room' <= Room
    <3>1. uxLength \in Int /\ uxMessagesWaiting \in Int
      BY DEF TypeInv, TypeOK
    <3>2. uxLength' = uxLength /\ uxMessagesWaiting' \in {uxMessagesWaiting, uxMessagesWaiting + 1}
      BY <1>3
    <3>3. CASE uxMessagesWaiting' = uxMessagesWaiting
      BY <3>1, <3>2, <3>3 DEF Room
    <3>4. CASE uxMessagesWaiting' = uxMessagesWaiting + 1
      BY <3>1, <3>2, <3>4 DEF Room
    <3>5. QED
      BY <3>2, <3>3, <3>4
  <2>2. RoomSleepers' # {} => RoomSleepers # {}
    BY <1>3 DEF RoomSleepers
  <2>3. Awake(Poster) \subseteq Awake(Poster)'
    <3>1. Awake(Poster)' = {u \in Poster : /\ pc'[u] \in {"try", "lock", "check", "unlock"}
                                           /\ u \notin xTasksWaitingToSend'}
      BY DEF TypeInv, TypeOK, Awake, OnEventList
    <3>2. QED
      BY <1>3, <3>1, AwakePosters DEF TypeInv
  <2>4. QED
    BY <2>1, <2>2, <2>3, RoomQuietKeeps
<1>4. CASE GiveFromISR
  BY <1>3, <1>4 DEF GiveFromISR
<1>5. ASSUME NEW t \in Task, \/ t \in Poster /\ Post(t)
                             \/ t \in Fetcher /\ (Fetch(t) \/ TickExpires(t))
                             \/ LockQueue(t) \/ UnlockQueue(t)
                             \/ UNCHANGED vars
      PROVE RoomLeft'
  <2>1. UNCHANGED <<uxLength, uxMessagesWaiting, xTasksWaitingToSend>>
    BY <1>5 DEF Post, Fetch, TickExpires, LockQueue, UnlockQueue, vars
  <2>2. /\ \A u \in Poster : pc'[u] = "place" => pc[u] = "place"
        /\ \A u \in Poster : pc[u] \in {"try", "lock", "check", "unlock"}
                               => pc'[u] \in {"try", "lock", "check", "unlock"}
    BY <1>5 DEF Post, Fetch, TickExpires, LockQueue, UnlockQueue, vars, GoTo, Runs, TypeInv, TypeOK
  <2>3. QED
    BY <1>3, <2>1, <2>2
<1>6. ASSUME NEW t \in Task, TryFails(t) \/ Check(t) PROVE RoomLeft'
  <2>1. UNCHANGED <<uxLength, uxMessagesWaiting, xTasksWaitingToSend>>
    BY <1>6 DEF TryFails, Check
  <2>2. CASE uxMessagesWaiting = uxLength
    <3>1. Room' <= 0
      BY <2>1, <2>2 DEF Room, TypeInv, TypeOK
    <3>2. QED
      BY <3>1, FullKeeps
  <2>3. CASE uxMessagesWaiting # uxLength
    <3>1. \A u \in Poster : pc'[u] = pc[u] \/ (pc[u] = "check" /\ pc'[u] = "unlock")
      BY <1>6, <2>3 DEF TryFails, Check, Stuck, Runs, Return, GoTo, TypeInv, TypeOK
    <3>2. QED
      BY <1>3, <2>1, <3>1
  <2>4. QED
    BY <2>2, <2>3
<1>7. ASSUME NEW t \in Task, PlaceOnEventList(t) PROVE RoomLeft'
  <2>1. /\ UNCHANGED <<uxLength, uxMessagesWaiting>>
        /\ xTasksWaitingToSend' = xTasksWaitingToSend \cup ({t} \cap Poster)
        /\ pc[t] = "place" /\ pc' = [pc EXCEPT ![t] = "unlock"]
    BY <1>7 DEF PlaceOnEventList, Runs, GoTo
  <2>2. RoomSleepers' # {} => RoomSleepers # {}
    BY <2>1 DEF RoomSleepers, TypeInv, TypeOK
  <2>3. Awake(Poster) \subseteq Awake(Poster)'
    <3>1. Awake(Poster)' = {u \in Poster : /\ pc'[u] \in {"try", "lock", "check", "unlock"}
                                           /\ u \notin xTasksWaitingToSend'}
      BY DEF TypeInv, TypeOK, Awake, OnEventList
    <3>2. QED
      BY <2>1, <3>1, AwakePosters DEF TypeInv, TypeOK
  <2>4. Room' <= Room
    BY <2>1 DEF Room, TypeInv, TypeOK
  <2>5. QED
    BY <2>2, <2>3, <2>4, RoomQuietKeeps
<1>8. CASE UNCHANGED vars
  BY <1>3, <1>8 DEF vars
<1>9. QED
  BY <1>1, <1>2, <1>4, <1>5, <1>6, <1>7, <1>8 DEF Next, Continue

\* No task sleeps in a post beside room that nobody is coming for, however fetches
\* and posts overtake each other.
THEOREM RoomAttendedTheorem == Spec => []RoomAttended
<1>1. Init => TypeInv /\ Listed /\ RoomLeft
  <2>1. ASSUME Init PROVE RoomSleepers = {} /\ Listed
    BY <2>1 DEF Init, RoomSleepers, Listed, OnEventList
  <2>2. QED
    BY <2>1, TypeInit DEF RoomLeft
<1>2. TypeInv /\ Listed /\ RoomLeft /\ [Next]_vars => (TypeInv /\ Listed /\ RoomLeft)'
  BY TypeNext, ListedNext, RoomNext
<1>3. RoomLeft => RoomAttended
  BY DEF RoomLeft, RoomSleepers, Room, RoomAttended
<1>4. QED
  BY <1>1, <1>2, <1>3, PTL DEF Spec
=============================================================================
