------------------------------ MODULE EthRxProofs ------------------------------
(***************************************************************************)
(* Proofs about EthRx, for rings and mailboxes of any size and any number  *)
(* of frames: its type invariant, that no wakeup is lost and that the      *)
(* frames go up in order, each once.                                       *)
(***************************************************************************)
EXTENDS EthRx, FiniteSetTheorems, SequenceTheorems, TLAPS

LEMMA PosInDesc == \A k \in Nat : Pos(k) \in Desc
  BY EthRxAssumption DEF Pos, Desc

LEMMA MailboxTail ==
  ASSUME NEW s \in Seq(Nat), s # << >>
  PROVE  /\ Tail(s) \in Seq(Nat) /\ Head(s) \in Nat
         /\ Len(s) \in Nat \ {0} /\ Len(Tail(s)) = Len(s) - 1
         /\ Head(s) = s[1]
         /\ \A i \in 1..Len(Tail(s)) : i + 1 \in 1..Len(s) /\ Tail(s)[i] = s[i+1]
  BY HeadTailProperties, EmptySeq, LenProperties

LEMMA MailboxAppend ==
  ASSUME NEW s \in Seq(Nat), NEW e \in Nat
  PROVE  /\ Append(s, e) \in Seq(Nat)
         /\ Len(s) \in Nat /\ Len(Append(s, e)) = Len(s) + 1
         /\ \A i \in 1..Len(s) : Append(s, e)[i] = s[i]
         /\ Append(s, e)[Len(s) + 1] = e
  BY AppendProperties, LenProperties

LEMMA FrameFields ==
  /\ \A i \in Desc \cup {NULL}, n \in Nat : [descriptor |-> i, p |-> n] \in Frame
  /\ \A f \in Frame : f.descriptor \in Desc \cup {NULL} /\ f.p \in Nat
  /\ \A f \in Frame, n \in Nat :
       /\ [f EXCEPT !.p = n] \in Frame
       /\ [f EXCEPT !.p = n].p = n
       /\ [f EXCEPT !.p = n].descriptor = f.descriptor
  BY DEF Frame

\* A task copies only out of a descriptor it has taken.
CopiesTaken == pc = "copy" => frame.descriptor \in Desc
TypeInv == TypeOK /\ CopiesTaken

LEMMA TypeInit == Init => TypeInv
<1>1. Init => TypeOK
  <2>1. 0 \in Desc /\ NULL \in Desc \cup {NULL} /\ << >> \in Seq(Nat)
    BY EthRxAssumption, EmptySeq DEF Desc
  <2>2. [descriptor |-> NULL, p |-> 0] \in Frame
    BY <2>1, FrameFields
  <2>3. SUFFICES ASSUME Init PROVE TypeOK
    OBVIOUS
  <2>4. frame \in Frame /\ mailbox \in Seq(Nat)
    BY <2>1, <2>2, <2>3 DEF Init
  <2>5. own \in [Desc -> BOOLEAN] /\ buffer \in [Desc -> Nat] /\ FS_Rx_Desc \in Desc
    BY <2>1, <2>3 DEF Init
  <2>6. QED
    BY <2>3, <2>4, <2>5 DEF Init, TypeOK
<1>2. QED
  BY <1>1 DEF Init, TypeInv, CopiesTaken

LEMMA TypeNext == TypeInv /\ [Next]_vars => TypeInv'
<1> SUFFICES ASSUME TypeInv, [Next]_vars PROVE TypeInv'
  OBVIOUS
<1> USE DEF TypeInv, CopiesTaken, ring, infos, signal, eth_if, upper
<1>1. CASE Arrive
  <2>1. Pos(dma) \in Desc /\ dma + 1 \in Nat /\ arrived + 1 \in Nat
    BY PosInDesc DEF TypeOK
  <2>2. /\ own' \in [Desc -> BOOLEAN]
        /\ buffer' \in [Desc -> Nat]
        /\ dma' \in Nat /\ flagR' \in BOOLEAN
    BY <1>1, <2>1 DEF TypeOK, Arrive
  <2>3. QED
    BY <1>1, <2>1, <2>2 DEF TypeOK, Arrive
<1>2. CASE IrqGive
  BY <1>2 DEF TypeOK, IrqGive
<1>3. CASE IrqClear
  BY <1>3 DEF TypeOK, IrqClear
<1>4. CASE Take
  BY <1>4 DEF TypeOK, Take, GoTo
<1>5. CASE Scan
  <2>1. Pos(toGet) \in Desc
    BY PosInDesc DEF TypeOK
  <2>2. FS_Rx_Desc' \in Desc /\ Seg_Count' \in Nat /\ toGet' \in Nat
    BY <1>5, <2>1 DEF TypeOK, Scan
  <2>3. CASE own[Pos(toGet)]
    <3>1. frame' = [descriptor |-> NULL, p |-> 0]
      BY <1>5, <2>3 DEF Scan
    <3>2. frame' \in Frame
      BY <3>1, FrameFields DEF TypeOK
    <3>3. QED
      BY <1>5, <2>2, <2>3, <3>2 DEF TypeOK, Scan, GoTo
  <2>4. CASE ~own[Pos(toGet)]
    <3>1. frame' = [descriptor |-> FS_Rx_Desc', p |-> 0]
      BY <1>5, <2>4 DEF Scan
    <3>2. frame' \in Frame
      BY <2>2, <3>1, FrameFields DEF TypeOK
    <3>3. frame'.descriptor \in Desc
      BY <2>2, <3>1 DEF TypeOK
    <3>4. QED
      BY <1>5, <2>2, <2>4, <3>1, <3>2, <3>3 DEF TypeOK, Scan, GoTo
  <2>5. QED
    BY <2>3, <2>4
<1>6. CASE Copy
  <2>1. buffer[frame.descriptor] \in Nat /\ frame \in Frame
    BY <1>6 DEF TypeOK, Copy
  <2>2. frame' \in Frame
    <3>1. frame \in Frame
      BY <1>6 DEF TypeOK
    <3>2. \A n \in Nat : [frame EXCEPT !.p = n] \in Frame
      BY <3>1, FrameFields
    <3>3. \/ frame' = [frame EXCEPT !.p = buffer[frame.descriptor]]
          \/ frame' = frame
      BY <1>6 DEF Copy
    <3>4. QED
      BY <2>1, <3>1, <3>2, <3>3
  <2>3. refused' \in BOOLEAN
    BY <1>6 DEF TypeOK, Copy
  <2>5. pc' \in {"take", "scan", "copy", "release", "input"}
          /\ pc' = "release"
    BY <1>6 DEF TypeOK, Copy, GoTo
  <2>6. QED
    BY <1>6, <2>2, <2>3, <2>5 DEF TypeOK, Copy
<1>7. CASE Release
  BY <1>7 DEF TypeOK, Release, GoTo
<1>8. CASE Input
  <2>1. frame.p \in Nat
    BY FrameFields DEF TypeOK
  <2>2. mailbox' \in Seq(Nat)
    BY <1>8, <2>1, MailboxAppend DEF TypeOK, Input
  <2>3. QED
    BY <1>8, <2>2 DEF TypeOK, Input, GoTo
<1>9. CASE Process
  BY <1>9, MailboxTail DEF TypeOK, Process
<1>10. CASE UNCHANGED vars
  BY <1>10 DEF TypeOK, vars
<1>11. QED
  BY <1>1, <1>2, <1>3, <1>4, <1>5, <1>6, <1>7, <1>8, <1>9, <1>10 DEF Next, DriverStep

\* Type correctness of the ring, the interrupt, the task and the mailbox.
THEOREM EthRxTyping == Spec => []TypeOK
<1>1. TypeInv => TypeOK
  BY DEF TypeInv
<1>2. QED
  BY <1>1, TypeInit, TypeNext, PTL DEF Spec

-----------------------------------------------------------------------------
(* The ring and the task *)

\* The task has taken a descriptor out of the ring and not given it back.
Held == pc \in {"copy", "release"} /\ frame.descriptor # NULL

\* The descriptors the CPU owns are those of Window: from the oldest one not
\* given back to the one before the DMA's.
Window == (IF Held THEN toGet - 1 ELSE toGet)..dma - 1

Counting ==
  /\ Seg_Count = IF Held THEN 1 ELSE 0
  /\ Held => toGet > 0 /\ frame.descriptor = Pos(toGet - 1)
  /\ toGet <= dma

Owned ==
  /\ \A k \in Window : ~own[Pos(k)]
  /\ \A i \in Desc : ~own[i] => \E k \in Window : i = Pos(k)

\* Frames in the ring are newer than those above, and in order.
RingOrder ==
  /\ \A k \in Window : delivered < buffer[Pos(k)] /\ buffer[Pos(k)] <= arrived
  /\ \A k, l \in Window : k < l => buffer[Pos(k)] < buffer[Pos(l)]

MailOrder ==
  /\ delivered <= arrived
  /\ \A i \in 1..Len(mailbox) : delivered < mailbox[i] /\ mailbox[i] <= arrived
  /\ \A i, j \in 1..Len(mailbox) : i < j => mailbox[i] < mailbox[j]
  /\ \A i \in 1..Len(mailbox), k \in Window : mailbox[i] < buffer[Pos(k)]

\* The pbuf between the ring and the mailbox.
InHand ==
  /\ pc = "copy" => frame.p = 0
  /\ pc = "release" /\ ~Held => frame.p = 0
  /\ pc = "release" /\ Held =>
       IF frame.p = 0 THEN refused ELSE frame.p = buffer[Pos(toGet - 1)]
  /\ pc = "input" =>
       /\ delivered < frame.p /\ frame.p <= arrived
       /\ \A i \in 1..Len(mailbox) : mailbox[i] < frame.p
       /\ \A k \in Window : frame.p < buffer[Pos(k)]

\* Somebody is on the way to the frames the task has not looked at.
Awake ==
  /\ irq => sem
  /\ toGet < dma =>
       \/ refused \/ flagR \/ sem
       \/ pc \in {"scan", "copy", "input"}
       \/ pc = "release" /\ frame.p # 0

RxInv ==
  Counting /\ Owned /\ RingOrder /\ MailOrder /\ InHand /\ Awake

LEMMA PosOfDesc == \A i \in Desc : Pos(i) = i
  BY EthRxAssumption DEF Pos, Desc

LEMMA WindowFacts ==
  ASSUME TypeInv, Counting, NEW k \in Window
  PROVE  /\ k \in Nat /\ k < dma /\ (k = toGet - 1 \/ toGet <= k)
         /\ Pos(k) \in Desc /\ buffer[Pos(k)] \in Nat
<1>1. k \in Nat /\ k < dma /\ (k = toGet - 1 \/ toGet <= k)
  BY DEF TypeInv, TypeOK, Counting, Window
<1>2. QED
  BY <1>1, PosInDesc DEF TypeInv, TypeOK

\* A step that leaves the ring and the descriptor in hand alone leaves what is
\* said of the ring true, if the last frame delivered stays older.
LEMMA RingKept ==
  ASSUME TypeInv, RxInv,
         UNCHANGED <<own, buffer, dma, toGet, arrived>>, Held' = Held
  PROVE  /\ Window' = Window
         /\ Owned'
         /\ delivered' = delivered => RingOrder'
         /\ delivered' = delivered /\ mailbox' = mailbox => MailOrder'
<1>1. Window' = Window
  BY DEF Window
<1>2. QED
  BY <1>1 DEF RxInv, Owned, RingOrder, MailOrder

LEMMA RxInit ==
  ASSUME Init
  PROVE  RxInv
<1>1. pc = "take" /\ frame = [descriptor |-> NULL, p |-> 0] /\ ~Held
  BY DEF Init, Held
<1>2. Window = {}
  BY <1>1 DEF Init, Window
<1>3. mailbox = << >> /\ Len(mailbox) = 0
  BY DEF Init
<1>4. Counting /\ InHand /\ Awake
  BY <1>1 DEF Init, Counting, InHand, Awake
<1>5. Owned
  BY <1>2 DEF Init, Owned
<1>6. RingOrder /\ MailOrder
  BY <1>2, <1>3 DEF Init, RingOrder, MailOrder
<1>7. QED
  BY <1>4, <1>5, <1>6 DEF RxInv

\* A frame enters the ring at the DMA's descriptor, or is lost.
LEMMA RxArrive ==
  ASSUME TypeInv, RxInv, Arrive
  PROVE  RxInv'
<1> USE DEF TypeInv, TypeOK, RxInv
<1>1. /\ UNCHANGED <<toGet, FS_Rx_Desc, Seg_Count, irq, sem, pc, frame, mailbox>>
      /\ UNCHANGED <<delivered, handed, refused>>
      /\ arrived' = arrived + 1 /\ (Held' <=> Held)
  BY DEF Arrive, infos, eth_if, upper, Held
<1>2. \A i \in 1..Len(mailbox) : mailbox[i] \in Nat
  OBVIOUS
<1>3. frame \in Frame /\ frame.p \in Nat
  BY FrameFields
<1>4. CASE ~own[Pos(dma)]
  <2>1. UNCHANGED <<own, buffer, dma, flagR>>
    BY <1>4 DEF Arrive, ring
  <2>2. Window' = Window
    BY <1>1, <2>1 DEF Window
  <2>3. RingOrder'
    BY <1>1, <2>1, <2>2, WindowFacts DEF RingOrder
  <2>4. MailOrder'
    BY <1>1, <1>2, <2>1, <2>2 DEF MailOrder
  <2>5. InHand'
    BY <1>1, <1>3, <2>1, <2>2 DEF InHand
  <2>6. QED
    BY <1>1, <2>1, <2>2, <2>3, <2>4, <2>5 DEF Counting, Owned, Awake
<1>5. CASE own[Pos(dma)]
  <2>1. /\ own' = [own EXCEPT ![Pos(dma)] = FALSE]
        /\ buffer' = [buffer EXCEPT ![Pos(dma)] = arrived + 1]
        /\ dma' = dma + 1 /\ flagR' = TRUE
    BY <1>5 DEF Arrive
  <2>2. Window' = Window \cup {dma} /\ dma \notin Window
    BY <1>1, <2>1 DEF Window, Counting
  <2>3. \A k \in Window :
          /\ k \in Nat /\ k < dma /\ Pos(k) \in Desc /\ Pos(k) # Pos(dma)
          /\ own'[Pos(k)] = own[Pos(k)] /\ buffer'[Pos(k)] = buffer[Pos(k)]
          /\ buffer[Pos(k)] \in Nat
    BY <1>5, <2>1, WindowFacts DEF Owned
  <2>4. Pos(dma) \in Desc /\ ~own'[Pos(dma)] /\ buffer'[Pos(dma)] = arrived + 1
    BY <2>1, PosInDesc
  <2>5. \A i \in Desc \ {Pos(dma)} : own'[i] = own[i]
    BY <2>1
  <2>6. Counting'
    BY <1>1, <2>1 DEF Counting
  <2>7. Owned'
    BY <2>2, <2>3, <2>4, <2>5 DEF Owned
  <2>8. RingOrder'
    BY <1>1, <2>2, <2>3, <2>4 DEF RingOrder, MailOrder
  <2>9. MailOrder'
    <3>1. /\ delivered <= arrived
          /\ \A i \in 1..Len(mailbox) : delivered < mailbox[i] /\ mailbox[i] <= arrived
          /\ \A i, j \in 1..Len(mailbox) : i < j => mailbox[i] < mailbox[j]
      BY DEF MailOrder
    <3>2. \A i \in 1..Len(mailbox) : mailbox[i] < arrived + 1 /\ mailbox[i] <= arrived + 1
      BY <1>2, <3>1
    <3>3. \A i \in 1..Len(mailbox), k \in Window' : mailbox[i] < buffer'[Pos(k)]
      BY <2>2, <2>3, <2>4, <3>2 DEF MailOrder
    <3>4. QED
      BY <1>1, <3>1, <3>2, <3>3 DEF MailOrder
  <2>10. InHand'
    <3>1. Held => toGet - 1 \in Window
      BY DEF Held, Window, Counting
    <3>2. pc = "input" => ~Held
      BY DEF Held
    <3>3. QED
      BY <1>1, <1>3, <2>2, <2>3, <2>4, <3>1 DEF InHand
  <2>11. Awake'
    BY <1>1, <2>1 DEF Awake
  <2>12. QED
    BY <2>6, <2>7, <2>8, <2>9, <2>10, <2>11
<1>6. QED
  BY <1>4, <1>5

\* The interrupt and the semaphore.
LEMMA RxSignal ==
  ASSUME TypeInv, RxInv,
         IrqGive \/ IrqClear \/ Take \/ UNCHANGED vars
  PROVE  RxInv'
<1> USE DEF RxInv, ring, infos, signal, eth_if, upper
<1>1. /\ UNCHANGED <<arrived, own, buffer, dma, toGet, Seg_Count, frame, refused>>
      /\ UNCHANGED <<mailbox, delivered>>
  BY DEF IrqGive, IrqClear, Take, vars
<1>2. \/ pc' = pc
      \/ pc = "take" /\ pc' = "scan" /\ Take
  BY DEF IrqGive, IrqClear, Take, GoTo, vars, TypeInv, TypeOK
<1>3. Held' = Held
  BY <1>1, <1>2 DEF Held
<1>4. Window' = Window /\ Owned' /\ RingOrder' /\ MailOrder'
  BY <1>1, <1>3, RingKept
<1>5. Counting'
  BY <1>1, <1>2, <1>3 DEF Counting
<1>6. InHand'
  BY <1>1, <1>2, <1>3, <1>4 DEF InHand
<1>7. Awake'
  <2>1. CASE IrqGive
    BY <1>1, <2>1 DEF Awake, IrqGive
  <2>2. CASE IrqClear
    BY <1>1, <2>2 DEF Awake, IrqClear
  <2>3. CASE Take
    BY <1>1, <2>3 DEF Awake, Take, GoTo, TypeInv, TypeOK
  <2>4. CASE UNCHANGED vars
    BY <2>4 DEF Awake, vars
  <2>5. QED
    BY <2>1, <2>2, <2>3, <2>4
<1>8. QED
  BY <1>4, <1>5, <1>6, <1>7

LEMMA RxScan ==
  ASSUME TypeInv, RxInv, Scan
  PROVE  RxInv'
<1> USE DEF TypeInv, TypeOK, RxInv
<1>1. /\ UNCHANGED <<arrived, own, buffer, dma, flagR, irq, sem, mailbox>>
      /\ UNCHANGED <<delivered, handed, refused>>
      /\ pc = "scan" /\ ~irq /\ ~Held
  BY DEF Scan, ring, signal, upper, Held
<1>2. Window = toGet..dma - 1 /\ toGet \in Nat /\ Pos(toGet) \in Desc
  BY <1>1, PosInDesc DEF Window
<1>3. CASE own[Pos(toGet)]
  <2>1. /\ UNCHANGED <<toGet, Seg_Count>>
        /\ pc' = "release" /\ frame' = [descriptor |-> NULL, p |-> 0]
    BY <1>3 DEF Scan, infos, GoTo
  <2>2. Held' = Held
    BY <1>1, <2>1 DEF Held
  <2>3. Window' = Window /\ Owned' /\ RingOrder' /\ MailOrder'
    BY <1>1, <2>1, <2>2, RingKept
  <2>4. toGet >= dma
    BY <1>2, <1>3 DEF Owned
  <2>5. Counting' /\ InHand' /\ Awake'
    BY <1>1, <2>1, <2>2, <2>4 DEF Counting, InHand, Awake
  <2>6. QED
    BY <2>3, <2>5
<1>4. CASE ~own[Pos(toGet)]
  <2>1. Seg_Count = 0
    BY <1>1 DEF Counting
  <2>2. /\ toGet' = toGet + 1 /\ Seg_Count' = 1 /\ pc' = "copy"
        /\ frame' = [descriptor |-> Pos(toGet), p |-> 0]
    BY <1>4, <2>1 DEF Scan, GoTo
  <2>3. Held' /\ toGet' - 1 = toGet
    BY <1>2, <2>2, EthRxAssumption DEF Held, Desc, NULL
  <2>4. Window' = Window
    BY <1>1, <1>2, <2>3 DEF Window
  <2>5. toGet < dma
    BY <1>2, <1>4 DEF Owned
  <2>6. Counting'
    BY <1>1, <2>2, <2>3, <2>5 DEF Counting
  <2>7. Owned' /\ RingOrder' /\ MailOrder'
    BY <1>1, <2>4 DEF Owned, RingOrder, MailOrder
  <2>8. InHand' /\ Awake'
    BY <1>1, <2>2 DEF InHand, Awake
  <2>9. QED
    BY <2>6, <2>7, <2>8
<1>5. QED
  BY <1>3, <1>4

LEMMA RxCopy ==
  ASSUME TypeInv, RxInv, Copy
  PROVE  RxInv'
<1> USE DEF TypeInv, TypeOK, RxInv
<1>1. /\ UNCHANGED <<arrived, own, buffer, dma, flagR, irq, sem, mailbox>>
      /\ UNCHANGED <<toGet, Seg_Count, delivered, handed>>
      /\ pc = "copy" /\ pc' = "release" /\ frame.p = 0
  BY DEF Copy, ring, infos, signal, upper, GoTo, InHand
<1>2. frame.descriptor \in Desc /\ Held
  BY <1>1, EthRxAssumption DEF CopiesTaken, Held, Desc, NULL
<1>3. /\ frame.descriptor = Pos(toGet - 1)
      /\ toGet - 1 \in Window
  BY <1>2 DEF Counting, Window
<1>4. frame \in Frame /\ buffer[frame.descriptor] \in Nat
  BY <1>2
<1>5. /\ frame'.descriptor = frame.descriptor
      /\ \/ frame'.p = buffer[Pos(toGet - 1)] /\ refused' = refused
         \/ frame'.p = 0 /\ refused'
  <2>1. CASE frame' = frame /\ refused' = TRUE
    BY <1>1, <2>1
  <2>2. CASE /\ frame' = [frame EXCEPT !.p = buffer[frame.descriptor]]
             /\ refused' = refused
    <3>2. /\ frame'.p = buffer[frame.descriptor]
          /\ frame'.descriptor = frame.descriptor
      BY <1>4, <2>2, FrameFields
    <3>3. QED
      BY <1>3, <2>2, <3>2
  <2>3. QED
    BY <2>1, <2>2 DEF Copy
<1>6. Held' /\ Held' = Held
  BY <1>1, <1>2, <1>5 DEF Held
<1>7. Window' = Window /\ Owned' /\ RingOrder' /\ MailOrder'
  <2>1. UNCHANGED <<own, buffer, dma, toGet, arrived>>
    BY <1>1
  <2>2. QED
    BY <1>1, <1>6, <2>1, RingKept
<1>8. buffer[Pos(toGet - 1)] \in Nat /\ buffer[Pos(toGet - 1)] > 0
  BY <1>3, WindowFacts DEF RingOrder
<1>9. Counting'
  BY <1>1, <1>2, <1>5, <1>6 DEF Counting
<1>10. InHand'
  BY <1>1, <1>5, <1>6, <1>8 DEF InHand
<1>11. Awake'
  BY <1>1, <1>5, <1>8 DEF Awake
<1>12. QED
  BY <1>7, <1>9, <1>10, <1>11

\* The descriptor in hand goes back to the DMA, and no other.
LEMMA RxRelease ==
  ASSUME TypeInv, RxInv, Release
  PROVE  RxInv'
<1> USE DEF TypeInv, TypeOK, RxInv
<1>1. /\ UNCHANGED <<arrived, buffer, dma, toGet, flagR, irq, sem, frame, mailbox>>
      /\ UNCHANGED <<delivered, handed, refused>>
      /\ pc = "release" /\ Seg_Count' = 0
  BY DEF Release, signal, upper
<1>2. pc' = IF frame.p # 0 THEN "input" ELSE "take"
  BY <1>1 DEF Release, GoTo, Counting, Held
<1>3. ~Held'
  BY <1>2 DEF Held
<1>4. Window' = toGet..dma - 1
  BY <1>1, <1>3 DEF Window
<1>5. Window' \subseteq Window
  <2>1. Window = toGet..dma - 1 \/ Window = toGet - 1..dma - 1
    BY DEF Window
  <2>2. QED
    BY <1>4, <2>1
<1>6. /\ \A k \in Window' : ~own'[Pos(k)]
      /\ \A i \in Desc : ~own'[i] => \E k \in Window' : i = Pos(k)
  <2>1. CASE ~Held
    <3>1. own' = own
      BY <1>1, <2>1 DEF Release, Counting, Held
    <3>2. Window' = Window
      BY <1>4, <2>1 DEF Window
    <3>3. QED
      BY <3>1, <3>2 DEF Owned
  <2>2. CASE Held
    <3>1. /\ Seg_Count = 1 /\ frame.descriptor = Pos(toGet - 1)
          /\ frame.descriptor # NULL /\ toGet - 1 \in Nat
          /\ Window = Window' \cup {toGet - 1}
      <4>1. toGet \in Nat /\ dma \in Nat /\ toGet > 0 /\ toGet <= dma
        BY <2>2 DEF Counting
      <4>2. Window = toGet - 1..dma - 1
        BY <2>2 DEF Window
      <4>3. Window = Window' \cup {toGet - 1}
        BY <1>4, <4>1, <4>2
      <4>4. frame.descriptor # NULL
        BY <2>2 DEF Held
      <4>5. QED
        BY <2>2, <4>1, <4>3, <4>4 DEF Counting
    <3>2. Pos(toGet - 1) \in Desc /\ Pos(Pos(toGet - 1)) = Pos(toGet - 1)
      BY <3>1, PosInDesc, PosOfDesc
    <3>3. \A i \in Desc : own'[i] <=> own[i] \/ i = Pos(toGet - 1)
      <4>1. \A i \in Desc : own'[i] <=> own[i] \/ \E k \in 1..1 :
                                 i = Pos(Pos(toGet - 1) + k - 1)
        BY <3>1 DEF Release
      <4>2. Pos(toGet - 1) + 1 - 1 = Pos(toGet - 1)
        BY <3>2 DEF Desc
      <4>3. QED
        BY <3>2, <4>1, <4>2
    <3>4. \A k \in Window' : Pos(k) \in Desc /\ Pos(k) # Pos(toGet - 1)
      <4>1. \A k \in Window' : k \in Window /\ k > toGet - 1
        BY <1>4, <1>5
      <4>2. toGet - 1 \in Window
        BY <3>1
      <4>3. \A k \in Window' : buffer[Pos(toGet - 1)] < buffer[Pos(k)]
        BY <4>1, <4>2 DEF RingOrder
      <4>4. QED
        BY <4>1, <4>2, <4>3, WindowFacts
    <3>5. QED
      BY <3>1, <3>3, <3>4 DEF Owned
  <2>3. QED
    BY <2>1, <2>2
<1>7. Owned' /\ RingOrder' /\ MailOrder'
  BY <1>1, <1>5, <1>6 DEF Owned, RingOrder, MailOrder
<1>8. Counting'
  BY <1>1, <1>2, <1>3 DEF Counting
<1>9. InHand'
  <2>1. SUFFICES ASSUME pc' = "input"
                 PROVE  /\ delivered < frame.p /\ frame.p <= arrived
                        /\ \A i \in 1..Len(mailbox) : mailbox[i] < frame.p
                        /\ \A k \in Window' : frame.p < buffer[Pos(k)]
    BY <1>1, <1>2 DEF InHand
  <2>2. frame.p # 0 /\ Held /\ frame.p = buffer[Pos(toGet - 1)]
    BY <1>1, <1>2, <2>1 DEF InHand
  <2>3. toGet - 1 \in Window
    BY <2>2 DEF Counting, Window
  <2>4. \A k \in Window' : k \in Window /\ k > toGet - 1
    BY <1>4, <1>5
  <2>5. QED
    BY <2>2, <2>3, <2>4 DEF RingOrder, MailOrder
<1>10. Awake'
  BY <1>1, <1>2 DEF Awake
<1>11. QED
  BY <1>7, <1>8, <1>9, <1>10

LEMMA RxInput ==
  ASSUME TypeInv, RxInv, Input
  PROVE  RxInv'
<1> USE DEF TypeInv, TypeOK, RxInv
<1>1. /\ UNCHANGED <<arrived, own, buffer, dma, toGet, Seg_Count, flagR, irq, sem>>
      /\ UNCHANGED <<frame, delivered, handed>>
      /\ pc = "input" /\ ~Held
  BY DEF Input, ring, infos, signal, Held
<1>2. /\ pc' \in {"scan", "take"}
      /\ pc' = "take" => refused'
      /\ refused => refused'
      /\ mailbox' = mailbox \/ mailbox' = Append(mailbox, frame.p)
  BY <1>1 DEF Input, GoTo
<1>3. Held' = Held
  BY <1>1, <1>2 DEF Held
<1>4. Window' = Window /\ Owned' /\ RingOrder'
  <2>1. UNCHANGED <<own, buffer, dma, toGet, arrived>>
    BY <1>1
  <2>2. QED
    BY <1>1, <1>3, <2>1, RingKept
<1>5. MailOrder'
  <2>1. CASE mailbox' = mailbox
    BY <1>1, <1>4, <2>1 DEF MailOrder
  <2>2. CASE mailbox' = Append(mailbox, frame.p)
    <3>1. frame.p \in Nat
      BY FrameFields
    <3>2. /\ Len(mailbox') = Len(mailbox) + 1 /\ Len(mailbox) \in Nat
          /\ mailbox'[Len(mailbox) + 1] = frame.p
          /\ \A i \in 1..Len(mailbox) : mailbox'[i] = mailbox[i]
      BY <2>2, <3>1, MailboxAppend
    <3>3. \A i \in 1..Len(mailbox') : i \in 1..Len(mailbox) \/ i = Len(mailbox) + 1
      BY <3>2
    <3>4. /\ \A i \in 1..Len(mailbox') : delivered < mailbox'[i] /\ mailbox'[i] <= arrived
          /\ \A i \in 1..Len(mailbox'), k \in Window : mailbox'[i] < buffer[Pos(k)]
      BY <1>1, <3>2, <3>3 DEF MailOrder, InHand
    <3>5. \A i, j \in 1..Len(mailbox') : i < j => mailbox'[i] < mailbox'[j]
      <4>1. TAKE i, j \in 1..Len(mailbox')
      <4>2. HAVE i < j
      <4>3. i \in 1..Len(mailbox)
        BY <3>2, <4>2
      <4>4. QED
        BY <1>1, <3>2, <3>3, <4>2, <4>3 DEF MailOrder, InHand
    <3>6. QED
      BY <1>1, <1>4, <3>4, <3>5 DEF MailOrder
  <2>3. QED
    BY <1>2, <2>1, <2>2
<1>6. Counting' /\ InHand' /\ Awake'
  BY <1>1, <1>2, <1>3 DEF Counting, InHand, Awake
<1>7. QED
  BY <1>4, <1>5, <1>6

LEMMA RxProcess ==
  ASSUME TypeInv, RxInv, Process
  PROVE  RxInv' /\ delivered < delivered' /\ delivered' <= arrived
<1> USE DEF TypeInv, TypeOK, RxInv
<1>1. /\ UNCHANGED <<arrived, own, buffer, dma, toGet, Seg_Count, flagR, irq, sem>>
      /\ UNCHANGED <<pc, frame, refused>>
      /\ mailbox # << >> /\ delivered' = Head(mailbox) /\ mailbox' = Tail(mailbox)
  BY DEF Process, ring, infos, signal, eth_if
<1>2. Held' = Held
  BY <1>1 DEF Held
<1>3. Window' = Window /\ Owned'
  <2>1. UNCHANGED <<own, buffer, dma, toGet, arrived>>
    BY <1>1
  <2>2. QED
    BY <1>2, <2>1, RingKept
<1>4. /\ mailbox' \in Seq(Nat) /\ Len(mailbox) \in Nat \ {0}
      /\ delivered' = mailbox[1] /\ 1 \in 1..Len(mailbox)
      /\ \A i \in 1..Len(mailbox') : i + 1 \in 1..Len(mailbox)
                                     /\ mailbox'[i] = mailbox[i + 1] /\ i \in Nat
  BY <1>1, MailboxTail
<1>5. delivered < delivered' /\ delivered' <= arrived
  BY <1>4 DEF MailOrder
<1>6. RingOrder'
  BY <1>1, <1>3, <1>4 DEF RingOrder, MailOrder
<1>7. MailOrder'
  <2>1. \A i \in 1..Len(mailbox') : delivered' < mailbox'[i] /\ mailbox'[i] <= arrived'
    <3>1. TAKE i \in 1..Len(mailbox')
    <3>2. i + 1 \in 1..Len(mailbox) /\ 1 < i + 1 /\ mailbox'[i] = mailbox[i + 1]
      BY <1>4
    <3>3. QED
      BY <1>1, <1>4, <3>2 DEF MailOrder
  <2>2. \A i, j \in 1..Len(mailbox') : i < j => mailbox'[i] < mailbox'[j]
    BY <1>4 DEF MailOrder
  <2>3. QED
    BY <1>1, <1>3, <1>4, <1>5, <2>1, <2>2 DEF MailOrder
<1>8. InHand'
  BY <1>1, <1>2, <1>3, <1>4 DEF InHand
<1>9. Counting' /\ Awake'
  BY <1>1, <1>2 DEF Counting, Awake
<1>10. QED
  BY <1>3, <1>5, <1>6, <1>7, <1>8, <1>9

LEMMA RxNext ==
  ASSUME TypeInv, RxInv, [Next]_vars
  PROVE  RxInv'
<1>1. \/ Arrive \/ IrqGive \/ IrqClear \/ Process \/ UNCHANGED vars
      \/ Take \/ Scan \/ Copy \/ Release \/ Input
  BY DEF Next, DriverStep
<1>2. QED
  BY <1>1, RxArrive, RxSignal, RxScan, RxCopy, RxRelease,
     RxInput, RxProcess

LEMMA RxAlways == Spec => [](TypeInv /\ RxInv)
<1>1. Init => TypeInv /\ RxInv
  BY TypeInit, RxInit
<1>2. TypeInv /\ RxInv /\ [Next]_vars => (TypeInv /\ RxInv)'
  BY TypeNext, RxNext
<1>3. QED
  BY <1>1, <1>2, PTL DEF Spec

\* No wakeup is lost, for rings of any size and
\* any interleaving of arrivals, the two steps of the handler and the task.
THEOREM DrainedTheorem == Spec => []Drained
<1>1. TypeInv /\ RxInv => Drained
  <2>1. SUFFICES ASSUME TypeInv, RxInv, NEW i \in Desc, ~own[i],
                        pc = "take", ~refused
                 PROVE  flagR \/ sem
    BY DEF Drained
  <2>2. PICK k \in Window : i = Pos(k)
    BY <2>1 DEF RxInv, Owned
  <2>3. toGet < dma
    BY <2>1, <2>2 DEF Window, Held, TypeInv, TypeOK
  <2>4. QED
    BY <2>1, <2>3 DEF RxInv, Awake
<1>2. QED
  BY <1>1, RxAlways, PTL

\* Every behaviour is one of EthStream: lwIP sees
\* each frame at most once and in the order of arrival.
THEOREM InOrderTheorem == Spec => InOrder
<1>1. Init => Stream!Init
  BY DEF Init, Stream!Init
<1>2. TypeInv /\ RxInv /\ [Next]_vars => [Stream!Next]_(Stream!vars)
  <2> SUFFICES ASSUME TypeInv, RxInv, [Next]_vars
               PROVE  [Stream!Next]_(Stream!vars)
    OBVIOUS
  <2> USE DEF Stream!Next, Stream!vars, upper
  <2>1. CASE Arrive
    BY <2>1 DEF Arrive, Stream!Arrive
  <2>2. CASE Process
    BY <2>2, RxProcess, TypeNext
       DEF Process, Stream!Deliver, TypeInv, TypeOK
  <2>3. CASE IrqGive \/ IrqClear \/ UNCHANGED vars
    BY <2>3 DEF IrqGive, IrqClear, vars
  <2>4. ASSUME DriverStep PROVE [Stream!Next]_(Stream!vars)
    BY <2>4 DEF DriverStep, Take, Scan, Copy, Release, Input
  <2>5. QED
    BY <2>1, <2>2, <2>3, <2>4 DEF Next
<1>3. QED
  BY <1>1, <1>2, RxAlways, PTL DEF Spec, Stream!Spec, InOrder
=============================================================================
