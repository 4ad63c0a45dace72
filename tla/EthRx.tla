--------------------------------- MODULE EthRx ---------------------------------
(***************************************************************************)
(* Reception of Ethernet frames: the MAC's DMA and its ring of descriptors,*)
(* ETH_IRQHandler, the task Eth_if (ethernetif_input, low_level_input), and*)
(* the mailbox of tcpip_thread.                                            *)
(*                                                                         *)
(* A receive buffer holds a whole frame (ETH_RX_BUF_SIZE is                *)
(* ETH_MAX_PACKET_SIZE), so a frame takes one descriptor.  A frame is its  *)
(* number in the order of arrival.                                         *)
(***************************************************************************)
EXTENDS Integers, Sequences, FiniteSets

CONSTANTS
  NumDesc,      \* ETH_RXBUFNB
  MailboxSize,  \* TCPIP_MBOX_SIZE, as many as MEMP_NUM_TCPIP_MSG_INPKT
  PbufsRunOut,  \* whether pbuf_alloc can fail
  MaxFrames     \* bound on the frames that arrive

ASSUME EthRxAssumption ==
  /\ NumDesc \in Nat \ {0}
  /\ MailboxSize \in Nat /\ MaxFrames \in Nat
  /\ PbufsRunOut \in BOOLEAN

VARIABLES
  arrived,    \* frames that have arrived so far
  own,        \* per descriptor: ETH_DMARxDesc_OWN, the DMA owns it
  buffer,     \* per descriptor: the frame in its buffer, 0 for none
  dma,        \* how often the DMA's own descriptor pointer has advanced
  toGet,      \* the same of DMARxDescToGet
  FS_Rx_Desc, Seg_Count,  \* DMA_RX_FRAME_infos
  flagR,      \* ETH_DMA_FLAG_R, the receive interrupt
  irq,        \* whether ETH_IRQHandler is between its give and its clear
  sem,        \* s_xSemaphore
  pc,         \* where Eth_if is
  frame,      \* its local variables frame.descriptor and p
  mailbox,    \* frames posted to tcpip_thread and not yet processed
  delivered,  \* the last frame tcpip_thread has processed
  handed,     \* how many it has processed
  refused     \* whether a frame was dropped for want of memory or room

ring == <<own, buffer, dma>>
infos == <<toGet, FS_Rx_Desc, Seg_Count>>
signal == <<flagR, irq, sem>>
eth_if == <<pc, frame>>
upper == <<mailbox, delivered, handed>>
vars == <<arrived, ring, infos, signal, eth_if, upper, refused>>

-----------------------------------------------------------------------------
Desc == 0..NumDesc - 1
NULL == NumDesc
Pos(k) == k % NumDesc
Frame == [descriptor : Desc \cup {NULL}, p : Nat]

TypeOK ==
  /\ arrived \in Nat
  /\ own \in [Desc -> BOOLEAN]
  /\ buffer \in [Desc -> Nat]
  /\ dma \in Nat /\ toGet \in Nat
  /\ FS_Rx_Desc \in Desc
  /\ Seg_Count \in Nat
  /\ flagR \in BOOLEAN /\ irq \in BOOLEAN /\ sem \in BOOLEAN
  /\ pc \in {"take", "scan", "copy", "release", "input"}
  /\ frame \in Frame
  /\ mailbox \in Seq(Nat)
  /\ delivered \in Nat /\ handed \in Nat
  /\ refused \in BOOLEAN

Init ==
  /\ arrived = 0
  /\ own = [i \in Desc |-> TRUE]
  /\ buffer = [i \in Desc |-> 0]
  /\ dma = 0 /\ toGet = 0
  /\ FS_Rx_Desc = 0 /\ Seg_Count = 0
  /\ flagR = FALSE /\ irq = FALSE /\ sem = FALSE
  /\ pc = "take"
  /\ frame = [descriptor |-> NULL, p |-> 0]
  /\ mailbox = << >>
  /\ delivered = 0 /\ handed = 0
  /\ refused = FALSE

GoTo(l) == pc' = l

-----------------------------------------------------------------------------
(* The MAC (external): a frame whose descriptor the CPU still owns is lost. *)
(* A suspended DMA looks at its descriptor again when the next frame comes, *)
(* so its resumption in low_level_input needs no step of its own.           *)

Arrive ==
  /\ arrived < MaxFrames
  /\ arrived' = arrived + 1
  /\ \/ /\ own[Pos(dma)]
        /\ own' = [own EXCEPT ![Pos(dma)] = FALSE]
        /\ buffer' = [buffer EXCEPT ![Pos(dma)] = arrived + 1]
        /\ dma' = dma + 1
        /\ flagR' = TRUE
     \/ /\ ~own[Pos(dma)]
        /\ UNCHANGED <<ring, flagR>>
  /\ UNCHANGED <<infos, irq, sem, eth_if, upper, refused>>

-----------------------------------------------------------------------------
(* ETH_IRQHandler *)

IrqGive ==
  /\ flagR /\ ~irq
  /\ irq' = TRUE
  /\ sem' = TRUE
  /\ UNCHANGED <<arrived, ring, infos, flagR, eth_if, upper, refused>>

IrqClear ==
  /\ irq
  /\ irq' = FALSE
  /\ flagR' = FALSE
  /\ UNCHANGED <<arrived, ring, infos, sem, eth_if, upper, refused>>

-----------------------------------------------------------------------------
(* ethernetif_input, in Eth_if alone: no other task scans the ring, so that *)
(* nothing sees the fields of DMA_RX_FRAME_infos between two stores, and a *)
(* call is one step here.  A task does not run during the interrupt handler.*)

Take ==
  /\ ~irq
  /\ pc = "take" /\ sem
  /\ sem' = FALSE
  /\ GoTo("scan")
  /\ UNCHANGED <<arrived, ring, infos, flagR, irq, frame, upper, refused>>

\* Seeded bug: the chain of descriptors is not closed.
ScanNoWrap ==
  /\ ~irq
  /\ pc = "scan"
  /\ \/ /\ own[Pos(toGet)]
        /\ frame' = [descriptor |-> NULL, p |-> 0]
        /\ GoTo("release")
        /\ UNCHANGED infos
     \/ /\ ~own[Pos(toGet)]
        /\ Seg_Count' = Seg_Count + 1
        /\ FS_Rx_Desc' = toGet
        /\ frame' = [descriptor |-> toGet, p |-> 0]
        /\ toGet' = toGet + 1
        /\ GoTo("copy")
  /\ UNCHANGED <<arrived, ring, signal, upper, refused>>

\* ETH_Get_Received_Frame_interrupt
Scan ==
  /\ ~irq
  /\ pc = "scan"
  /\ \/ /\ own[Pos(toGet)]
        /\ frame' = [descriptor |-> NULL, p |-> 0]
        /\ GoTo("release")
        /\ UNCHANGED infos
     \/ /\ ~own[Pos(toGet)]
        /\ Seg_Count' = Seg_Count + 1
        /\ FS_Rx_Desc' = IF Seg_Count' = 1 THEN Pos(toGet) ELSE FS_Rx_Desc
        /\ frame' = [descriptor |-> FS_Rx_Desc', p |-> 0]
        /\ toGet' = toGet + 1
        /\ GoTo("copy")
  /\ UNCHANGED <<arrived, ring, signal, upper, refused>>

\* pbuf_alloc and the copy into the pbuf.
Copy ==
  /\ ~irq
  /\ pc = "copy"
  /\ \/ /\ frame' = [frame EXCEPT !.p = buffer[frame.descriptor]]
        /\ UNCHANGED refused
     \/ /\ PbufsRunOut
        /\ refused' = TRUE
        /\ UNCHANGED frame
  /\ GoTo("release")
  /\ UNCHANGED <<arrived, ring, infos, signal, upper>>

\* Seeded bug: Seg_Count is not cleared.
ReleaseKeepsCount ==
  /\ ~irq
  /\ pc = "release"
  /\ own' = [i \in Desc |->
               own[i] \/ /\ frame.descriptor # NULL
                         /\ \E k \in 1..Seg_Count :
                              i = Pos(frame.descriptor + k - 1)]
  /\ GoTo(IF frame.p # 0 THEN "input" ELSE "take")
  /\ UNCHANGED <<arrived, buffer, dma, infos, signal, frame, upper, refused>>

\* Seg_Count descriptors from frame.descriptor on go back to the DMA.
Release ==
  /\ ~irq
  /\ pc = "release"
  /\ own' = [i \in Desc |->
               own[i] \/ /\ frame.descriptor # NULL
                         /\ \E k \in 1..Seg_Count :
                              i = Pos(frame.descriptor + k - 1)]
  /\ Seg_Count' = 0
  /\ GoTo(IF frame.p # 0 THEN "input" ELSE "take")
  /\ UNCHANGED <<arrived, buffer, dma, toGet, FS_Rx_Desc, signal, frame, upper,
                 refused>>

\* Seeded bug: one frame for each interrupt.
InputOnce ==
  /\ ~irq
  /\ pc = "input"
  /\ Len(mailbox) < MailboxSize
  /\ mailbox' = Append(mailbox, frame.p)
  /\ GoTo("take")
  /\ UNCHANGED <<arrived, ring, infos, signal, frame, delivered, handed, refused>>

\* s_pxNetIf->input: tcpip_inpkt posts the pbuf, or refuses it.
Input ==
  /\ ~irq
  /\ pc = "input"
  /\ \/ /\ Len(mailbox) < MailboxSize
        /\ mailbox' = Append(mailbox, frame.p)
        /\ GoTo("scan")
        /\ UNCHANGED refused
     \/ /\ Len(mailbox) >= MailboxSize
        /\ refused' = TRUE
        /\ GoTo("take")
        /\ UNCHANGED mailbox
  /\ UNCHANGED <<arrived, ring, infos, signal, frame, delivered, handed>>

\* tcpip_thread: a message keeps its place until it is processed, as the pool of
\* messages is as large as the mailbox.
Process ==
  /\ ~irq
  /\ mailbox # << >>
  /\ delivered' = Head(mailbox)
  /\ handed' = handed + 1
  /\ mailbox' = Tail(mailbox)
  /\ UNCHANGED <<arrived, ring, infos, signal, eth_if, refused>>

-----------------------------------------------------------------------------
DriverStep == Take \/ Scan \/ Copy \/ Release \/ Input

Next == Arrive \/ IrqGive \/ IrqClear \/ DriverStep \/ Process

Spec == Init /\ [][Next]_vars

\* Interrupts are enabled and every task gets the processor.
FairSpec ==
  /\ Spec
  /\ WF_vars(IrqGive) /\ WF_vars(IrqClear) /\ WF_vars(Process)
  /\ SF_vars(DriverStep)

-----------------------------------------------------------------------------
(* Properties *)

\* tcpip_thread sees each frame at most once and in the order of arrival, as
\* netif->input's callers rely on.
Stream == INSTANCE EthStream
InOrder == Stream!Spec

\* No wakeup is lost: while a frame waits in the ring, either the interrupt, the
\* binary semaphore or the task is on its way to it, however frames fall between
\* the handler's steps and the task's, unless an earlier frame was dropped.
Drained ==
  (\E i \in Desc : ~own[i]) =>
     refused \/ flagR \/ sem \/ pc # "take"

\* As long as no frame is dropped for want of memory or room, every frame that
\* is ready in the ring is taken out of it.
TakenUnlessRefused == \A i \in Desc : ~own[i] ~> own[i] \/ refused
=============================================================================
