------------------------------ MODULE EthTxProofs ------------------------------
(***************************************************************************)
(* Proofs about EthTx, for any number of senders and of descriptors: types,*)
(* exclusion of the senders, and that the ring implements a bounded queue. *)
(***************************************************************************)
EXTENDS EthTx, FiniteSetTheorems, SequenceTheorems, TLAPS

LEMMA PosInDesc == \A k \in Nat : Pos(k) \in Desc
  BY EthTxAssumption DEF Pos, Desc

\* No more than NumDesc numbers have different descriptors.
LEMMA PosPigeonHole ==
  ASSUME NEW a \in Nat, NEW b \in Nat,
         \A k, l \in a..b : Pos(k) = Pos(l) => k = l
  PROVE  b - a < NumDesc
<1>1. SUFFICES ASSUME b - a >= NumDesc PROVE FALSE
  BY EthTxAssumption
<1>2. IsFiniteSet(a..b) /\ Cardinality(a..b) = b - a + 1
  BY <1>1, EthTxAssumption, FS_Interval
<1>3. IsFiniteSet(Desc) /\ Cardinality(Desc) = NumDesc
  <2>1. 0 \in Int /\ NumDesc - 1 \in Int /\ ~(0 > NumDesc - 1)
    BY EthTxAssumption
  <2>2. QED
    BY <2>1, EthTxAssumption, FS_Interval DEF Desc
<1>4. Cardinality(Desc) < Cardinality(a..b)
  BY <1>1, <1>2, <1>3, EthTxAssumption
<1> DEFINE f == [k \in a..b |-> Pos(k)]
<1>5. f \in [a..b -> Desc]
  BY PosInDesc
<1>6. \A k \in a..b : f[k] = Pos(k)
  OBVIOUS
<1> HIDE DEF f
<1>7. \E k, l \in a..b : k # l /\ f[k] = f[l]
  BY <1>2, <1>3, <1>4, <1>5, FS_PigeonHole
<1>8. QED
  BY <1>6, <1>7

-----------------------------------------------------------------------------
(* Exclusion *)

\* A caller has a frame, and the semaphore is there unless somebody is inside.
Calling ==
  /\ \A s \in Sender : pc[s] # "idle" => p[s] \in Frame
  /\ \A s \in Sender : Inside(s) => ~xTxSemaphore
  /\ OneInside

TypeInv == TypeOK /\ Calling

LEMMA TypeInit == Init => TypeInv
  BY EthTxAssumption DEF Init, TypeInv, TypeOK, Calling, OneInside, Inside, Desc, Frame

LEMMA TypeNext == TypeInv /\ [Next]_vars => TypeInv'
<1> SUFFICES ASSUME TypeInv, [Next]_vars PROVE TypeInv'
  OBVIOUS
<1> USE EthTxAssumption DEF TypeInv, TypeOK, callers, ring, GoTo
<1>1. ASSUME NEW s \in Sender, Call(s) PROVE TypeInv'
  <2>1. calls + 1 \in Frame /\ calls + 1 \in 0..MaxFrames
    BY <1>1 DEF Call, Frame
  <2>2. TypeOK'
    BY <1>1, <2>1 DEF Call
  <2>3. Calling'
    BY <1>1, <2>1 DEF Call, Calling, OneInside, Inside
  <2>4. QED
    BY <2>2, <2>3
<1>2. ASSUME NEW s \in Sender, Output(s) PROVE TypeInv'
  <2>1. Pos(toSet) \in Desc
    BY PosInDesc
  <2>2. CASE Take(s)
    BY <2>2 DEF Take, Calling, OneInside, Inside
  <2>3. CASE TakeTimesOut(s)
    BY <2>3 DEF TakeTimesOut, Calling, OneInside, Inside
  <2>4. CASE Check(s)
    BY <2>4 DEF Check, Calling, OneInside, Inside
  <2>5. CASE Copy(s)
    BY <2>1, <2>5 DEF Copy, Calling, OneInside, Inside
  <2>6. CASE Prepare(s)
    BY <2>1, <2>6 DEF Prepare, Calling, OneInside, Inside
  <2>7. CASE Resume(s)
    BY <2>7 DEF Resume, Calling, OneInside, Inside
  <2>8. CASE Give(s)
    BY <2>8 DEF Give, Calling, OneInside, Inside
  <2>9. QED
    BY <1>2, <2>2, <2>3, <2>4, <2>5, <2>6, <2>7, <2>8 DEF Output
<1>3. CASE Transmit
  BY <1>3, PosInDesc DEF Transmit, Calling, OneInside, Inside
<1>4. CASE Suspend
  BY <1>4 DEF Suspend, Calling, OneInside, Inside
<1>5. CASE UNCHANGED vars
  BY <1>5 DEF vars, Calling, OneInside, Inside
<1>6. QED
  BY <1>1, <1>2, <1>3, <1>4, <1>5 DEF Next

\* Type correctness of the callers and of the ring.
THEOREM EthTxTyping == Spec => []TypeOK
<1>1. TypeInv => TypeOK
  BY DEF TypeInv
<1>2. QED
  BY <1>1, TypeInit, TypeNext, PTL DEF Spec

\* No two senders are between their take and their give, however many there are
\* and however often the guard time runs out.
THEOREM OneInsideTheorem == Spec => []OneInside
<1>1. TypeInv => OneInside
  BY DEF TypeInv, Calling
<1>2. QED
  BY <1>1, TypeInit, TypeNext, PTL DEF Spec

-----------------------------------------------------------------------------
(* The ring as a queue *)

\* The DMA's descriptors are those of Window, from its own pointer up to the one
\* before DMATxDescToSet, and they are all different.
Window == dma..toSet - 1

Owned ==
  /\ dma <= toSet
  /\ \A i \in Desc : own[i] <=> \E k \in Window : i = Pos(k)
  /\ \A k, l \in Window : Pos(k) = Pos(l) => k = l
  /\ \A k \in Window : buffer[Pos(k)] \in Frame

\* Who is about to fill or to hand over a descriptor has the CPU's next one.
Filling ==
  /\ \A s \in Sender : pc[s] \in {"copy", "own"} => ~own[Pos(toSet)]
  /\ \A s \in Sender : pc[s] = "own" => buffer[Pos(toSet)] = p[s]

QueueInv == Owned /\ Filling

LEMMA WindowFacts ==
  ASSUME TypeInv, NEW k \in Window
  PROVE  k \in Nat /\ dma <= k /\ k < toSet /\ Pos(k) \in Desc
<1>1. k \in Nat /\ dma <= k /\ k < toSet
  BY DEF TypeInv, TypeOK, Window
<1>2. QED
  BY <1>1, PosInDesc

LEMMA QueueInit == Init => QueueInv
  BY EthTxAssumption DEF Init, QueueInv, Owned, Filling, Window, Desc

\* The sequence of the frames in the ring.
LEMMA WaitingFacts ==
  ASSUME TypeInv, Owned
  PROVE  /\ toSet - dma \in Nat
         /\ Waiting \in Seq(Frame) /\ Len(Waiting) = toSet - dma
         /\ \A i \in 1..toSet - dma : Waiting[i] = buffer[Pos(dma + i - 1)]
<1>1. toSet - dma \in Nat
  BY DEF TypeInv, TypeOK, Owned
<1>2. \A i \in 1..toSet - dma : dma + i - 1 \in Window
  BY <1>1 DEF TypeInv, TypeOK, Window
<1>3. \A i \in 1..toSet - dma : buffer[Pos(dma + i - 1)] \in Frame
  BY <1>2 DEF Owned
<1>4. Waiting \in [1..toSet - dma -> Frame]
  BY <1>3 DEF Waiting
<1>5. Waiting \in Seq(Frame)
  BY <1>1, <1>4, SeqDef
<1>6. DOMAIN Waiting = 1..toSet - dma /\ DOMAIN Waiting = 1..Len(Waiting)
  BY <1>4, <1>5, LenProperties
<1>7. Len(Waiting) = toSet - dma
  BY <1>1, <1>5, <1>6, LenProperties
<1>8. QED
  BY <1>1, <1>5, <1>7 DEF Waiting

\* A step that leaves the ring's descriptors alone leaves the queue alone.
LEMMA RingKept ==
  ASSUME Owned, UNCHANGED <<toSet, own, buffer, dma>>
  PROVE  Owned' /\ Waiting' = Waiting
  BY DEF Owned, Window, Waiting

\* The copy goes into a descriptor outside Window.
LEMMA CopyKeeps ==
  ASSUME TypeInv, QueueInv, NEW s \in Sender, Copy(s)
  PROVE  QueueInv' /\ Waiting' = Waiting
<1> USE DEF TypeInv, TypeOK, QueueInv
<1>1. /\ UNCHANGED <<toSet, own, dma, p>> /\ Pos(toSet) \in Desc
      /\ buffer' = [buffer EXCEPT ![Pos(toSet)] = p[s]]
      /\ pc' = [pc EXCEPT ![s] = "own"] /\ pc[s] = "copy"
  BY PosInDesc DEF Copy, GoTo
<1>2. ~own[Pos(toSet)]
  BY <1>1 DEF Filling
<1>3. Window' = Window
  BY <1>1 DEF Window
<1>4. \A k \in Window : Pos(k) # Pos(toSet) /\ buffer'[Pos(k)] = buffer[Pos(k)]
  BY <1>1, <1>2, WindowFacts DEF Owned
<1>5. Owned'
  BY <1>1, <1>3, <1>4 DEF Owned
<1>6. Filling'
  <2>1. \A u \in Sender \ {s} : pc[u] \notin {"copy", "own"}
    BY <1>1 DEF Calling, OneInside, Inside
  <2>2. buffer'[Pos(toSet)] = p[s]
    BY <1>1
  <2>3. QED
    BY <1>1, <1>2, <2>1, <2>2 DEF Filling
<1>7. \A i \in 1..toSet - dma : dma + i - 1 \in Window
  BY DEF Window
<1>8. Waiting' = Waiting
  BY <1>1, <1>4, <1>7 DEF Waiting
<1>9. QED
  BY <1>5, <1>6, <1>8

\* The descriptor that was filled joins the queue, which was not full.
LEMMA PreparePuts ==
  ASSUME TypeInv, QueueInv, NEW s \in Sender, Prepare(s)
  PROVE  QueueInv' /\ Waiting' = Append(Waiting, p[s])
                   /\ Len(Waiting) < NumDesc /\ p[s] \in Frame
<1> USE DEF TypeInv, TypeOK, QueueInv
<1>1. /\ UNCHANGED <<buffer, dma, p>> /\ Pos(toSet) \in Desc /\ pc[s] = "own"
      /\ ~own[Pos(toSet)] /\ buffer[Pos(toSet)] = p[s] /\ p[s] \in Frame
  BY PosInDesc DEF Prepare, Filling, Calling
<1>2. /\ own' = [own EXCEPT ![Pos(toSet)] = TRUE]
      /\ toSet' = toSet + 1
      /\ pc' = [pc EXCEPT ![s] = "resume"]
  BY <1>1 DEF Prepare, GoTo
<1>3. Window' = Window \cup {toSet}
  BY <1>1, <1>2 DEF Window, Owned
<1>4. \A k \in Window : Pos(k) # Pos(toSet)
  BY <1>1 DEF Owned
<1>5. Owned'
  <2>1. \A i \in Desc : own'[i] <=> own[i] \/ i = Pos(toSet)
    BY <1>1, <1>2
  <2>2. \A i \in Desc : own'[i] <=> \E k \in Window' : i = Pos(k)
    BY <1>3, <2>1 DEF Owned
  <2>3. \A k, l \in Window' : Pos(k) = Pos(l) => k = l
    BY <1>3, <1>4 DEF Owned
  <2>4. \A k \in Window' : buffer'[Pos(k)] \in Frame
    BY <1>1, <1>3 DEF Owned
  <2>5. dma' <= toSet'
    BY <1>1, <1>2 DEF Owned
  <2>6. QED
    BY <2>2, <2>3, <2>4, <2>5 DEF Owned
<1>6. Filling'
  <2>1. \A u \in Sender \ {s} : pc[u] \notin {"copy", "own"}
    BY <1>1 DEF Calling, OneInside, Inside
  <2>2. QED
    BY <1>2, <2>1 DEF Filling
<1>7. Len(Waiting) < NumDesc
  <2>1. toSet - dma \in Nat /\ Len(Waiting) = toSet - dma
    BY WaitingFacts
  <2>2. dma..toSet = Window \cup {toSet}
    BY <2>1 DEF Window
  <2>3. \A k, l \in dma..toSet : Pos(k) = Pos(l) => k = l
    BY <1>4, <2>2 DEF Owned
  <2>4. QED
    BY <2>1, <2>3, PosPigeonHole
<1>8. Waiting' = Append(Waiting, p[s])
  <2>1. /\ toSet - dma \in Nat /\ Waiting \in Seq(Frame)
        /\ Len(Waiting) = toSet - dma
        /\ \A i \in 1..toSet - dma : Waiting[i] = buffer[Pos(dma + i - 1)]
    BY WaitingFacts
  <2>2. Waiting' = [i \in 1..toSet - dma + 1 |-> buffer[Pos(dma + i - 1)]]
    <3>1. toSet' - dma' = toSet - dma + 1
      BY <1>1, <1>2
    <3>2. QED
      BY <1>1, <3>1 DEF Waiting
  <2>3. Append(Waiting, p[s]) =
          [i \in 1..toSet - dma + 1 |->
             IF i \in 1..toSet - dma THEN Waiting[i] ELSE p[s]]
    <3>1. \A i \in 1..toSet - dma + 1 :
            Append(Waiting, p[s])[i] = IF i \in 1..toSet - dma THEN Waiting[i] ELSE p[s]
      BY <1>1, <2>1, AppendProperties
    <3>2. Append(Waiting, p[s]) \in Seq(Frame)
            /\ Len(Append(Waiting, p[s])) = toSet - dma + 1
      BY <1>1, <2>1, AppendProperties
    <3>3. Append(Waiting, p[s]) \in [1..toSet - dma + 1 -> Frame]
      BY <3>2, LenProperties
    <3>4. QED
      BY <3>1, <3>3
  <2>4. \A i \in 1..toSet - dma + 1 : buffer[Pos(dma + i - 1)] =
          IF i \in 1..toSet - dma THEN Waiting[i] ELSE p[s]
    <3>1. \A i \in 1..toSet - dma + 1 :
            i \in 1..toSet - dma \/ (i = toSet - dma + 1 /\ dma + i - 1 = toSet)
      BY <2>1
    <3>2. QED
      BY <1>1, <2>1, <3>1
  <2>5. QED
    BY <2>2, <2>3, <2>4
<1>9. QED
  BY <1>1, <1>5, <1>6, <1>7, <1>8

\* The oldest descriptor leaves the queue.
LEMMA TransmitGets ==
  ASSUME TypeInv, QueueInv, Transmit
  PROVE  QueueInv' /\ Waiting # << >>
                   /\ wire' = Head(Waiting) /\ Waiting' = Tail(Waiting)
<1> USE DEF TypeInv, TypeOK, QueueInv
<1>1. /\ UNCHANGED <<toSet, buffer, pc, p>> /\ Pos(dma) \in Desc /\ own[Pos(dma)]
      /\ own' = [own EXCEPT ![Pos(dma)] = FALSE]
      /\ dma' = dma + 1 /\ wire' = buffer[Pos(dma)]
  BY PosInDesc DEF Transmit, callers
<1>2. dma < toSet
  BY <1>1, WindowFacts DEF Owned
<1>3. Window = Window' \cup {dma} /\ dma \notin Window' /\ dma \in Window
  BY <1>1, <1>2 DEF Window
<1>4. \A k \in Window' : k \in Window /\ Pos(k) # Pos(dma)
  BY <1>3 DEF Owned
<1>5. Owned'
  <2>1. \A i \in Desc : own'[i] <=> own[i] /\ i # Pos(dma)
    BY <1>1
  <2>2. \A i \in Desc : own'[i] <=> \E k \in Window' : i = Pos(k)
    BY <1>3, <1>4, <2>1 DEF Owned
  <2>3. dma' <= toSet'
    BY <1>1, <1>2
  <2>4. QED
    BY <1>1, <1>4, <2>2, <2>3 DEF Owned
<1>6. Filling'
  BY <1>1, PosInDesc DEF Filling
<1>7. /\ toSet - dma \in Nat /\ Waiting \in Seq(Frame)
      /\ Len(Waiting) = toSet - dma /\ toSet - dma > 0
      /\ \A i \in 1..toSet - dma : Waiting[i] = buffer[Pos(dma + i - 1)]
  BY <1>2, WaitingFacts
<1>8. Waiting # << >> /\ Head(Waiting) = Waiting[1]
  BY <1>7, EmptySeq, HeadTailProperties
<1>9. Waiting[1] = buffer[Pos(dma)]
  <2>1. dma + 1 - 1 = dma /\ 1 \in 1..toSet - dma
    BY <1>7
  <2>2. QED
    BY <1>7, <2>1
<1>10. Waiting' = Tail(Waiting)
  <2>1. Waiting' = [i \in 1..toSet - dma - 1 |-> buffer[Pos(dma + 1 + i - 1)]]
    <3>1. toSet' - dma' = toSet - dma - 1
      BY <1>1
    <3>2. QED
      BY <1>1, <3>1 DEF Waiting
  <2>2. /\ Tail(Waiting) \in Seq(Frame) /\ Len(Tail(Waiting)) = toSet - dma - 1
        /\ \A i \in 1..toSet - dma - 1 : Tail(Waiting)[i] = Waiting[i + 1]
    BY <1>7, <1>8, HeadTailProperties
  <2>3. Tail(Waiting) \in [1..toSet - dma - 1 -> Frame]
    BY <2>2, LenProperties
  <2>4. \A i \in 1..toSet - dma - 1 :
          /\ i + 1 \in 1..toSet - dma
          /\ dma + (i + 1) - 1 = dma + 1 + i - 1
    BY <1>7
  <2>5. \A i \in 1..toSet - dma - 1 :
          Waiting[i + 1] = buffer[Pos(dma + 1 + i - 1)]
    BY <1>7, <2>4
  <2>6. QED
    BY <2>1, <2>2, <2>3, <2>5
<1>11. QED
  BY <1>1, <1>5, <1>6, <1>8, <1>9, <1>10

\* Every other step leaves the queue and the last frame out as they are.
LEMMA OthersKeep ==
  ASSUME TypeInv, QueueInv,
         \/ \E s \in Sender : \/ Call(s) \/ Take(s) \/ TakeTimesOut(s) \/ Check(s)
                              \/ Resume(s) \/ Give(s)
         \/ Suspend \/ UNCHANGED vars
  PROVE  QueueInv' /\ UNCHANGED <<Waiting, wire>>
<1> USE DEF TypeInv, TypeOK, QueueInv, callers, ring, vars
<1>1. UNCHANGED <<toSet, own, buffer, dma, wire>>
  BY DEF Call, Take, TakeTimesOut, Check, Resume, Give, Suspend
<1>2. Owned' /\ Waiting' = Waiting
  BY <1>1, RingKept
<1>3. \A u \in Sender :
        /\ pc'[u] = "own" => pc[u] = "own" /\ p'[u] = p[u]
        /\ pc'[u] = "copy" => pc[u] = "copy" \/ ~own[Pos(toSet)]
  BY DEF Call, Take, TakeTimesOut, Check, Resume, Give, Suspend, GoTo
<1>4. Filling'
  BY <1>1, <1>3 DEF Filling
<1>5. QED
  BY <1>1, <1>2, <1>4

LEMMA QueueNext ==
  ASSUME TypeInv, QueueInv, [Next]_vars
  PROVE  QueueInv' /\ [Queue!Next]_(Queue!vars)
<1> USE DEF Queue!Next, Queue!vars, Queue!Put, Queue!Get
<1>1. ASSUME NEW s \in Sender, Copy(s) PROVE QueueInv' /\ [Queue!Next]_(Queue!vars)
  BY <1>1, CopyKeeps DEF Copy
<1>2. ASSUME NEW s \in Sender, Prepare(s) PROVE QueueInv' /\ [Queue!Next]_(Queue!vars)
  BY <1>2, PreparePuts DEF Prepare
<1>3. CASE Transmit
  BY <1>3, TransmitGets
<1>4. CASE \/ \E s \in Sender : \/ Call(s) \/ Take(s) \/ TakeTimesOut(s) \/ Check(s)
                                \/ Resume(s) \/ Give(s)
           \/ Suspend \/ UNCHANGED vars
  BY <1>4, OthersKeep
<1>5. QED
  BY <1>1, <1>2, <1>3, <1>4 DEF Next, Output

\* The ring of descriptors implements a queue of NumDesc frames: frames go out
\* whole, once, and in the order in which they were prepared.
THEOREM ImplementsFifoTheorem == Spec => ImplementsFifo
<1>1. Init => TypeInv /\ QueueInv
  BY TypeInit, QueueInit
<1>2. Init => Queue!Init
  <2>1. ASSUME Init PROVE Waiting = << >> /\ wire \notin Frame
    BY <2>1 DEF Init, Waiting, Frame
  <2>2. QED
    BY <2>1 DEF Queue!Init
<1>3. TypeInv /\ QueueInv /\ [Next]_vars
        => (TypeInv /\ QueueInv)' /\ [Queue!Next]_(Queue!vars)
  BY TypeNext, QueueNext
<1>4. QED
  BY <1>1, <1>2, <1>3, PTL DEF Spec, Queue!Spec, ImplementsFifo
=============================================================================
