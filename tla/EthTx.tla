---------------------------------- MODULE EthTx ----------------------------------
(***************************************************************************)
(* Transmission of Ethernet frames: low_level_output of                    *)
(* APP/src/ethernetif.c, ETH_Prepare_Transmit_Descriptors and the ring the *)
(* MAC's DMA reads.                                                        *)
(*                                                                         *)
(* A transmit buffer holds a whole frame (ETH_TX_BUF_SIZE is               *)
(* ETH_MAX_PACKET_SIZE), so a frame takes one descriptor and the loops over*)
(* segments run once.  Those who send hold lwIP's core lock, except        *)
(* TCPIP_task inside netif_set_up: so there may be two.  The semaphore is  *)
(* made by the announcement main sends before the scheduler starts, and    *)
(* stays.                                                                  *)
(***************************************************************************)
EXTENDS Integers, Sequences, FiniteSets

CONSTANTS
  Sender,      \* the tasks that call low_level_output
  NumDesc,     \* ETH_TXBUFNB
  MaxFrames    \* bound on the calls of low_level_output

ASSUME EthTxAssumption == NumDesc \in Nat \ {0} /\ MaxFrames \in Nat

VARIABLES
  calls,       \* calls of low_level_output so far
  pc,          \* where each of its callers is
  p,           \* the frame it was called with, by number; 0 for none
  xTxSemaphore,
  toSet,       \* how often DMATxDescToSet has advanced
  own,         \* per descriptor: ETH_DMATxDesc_OWN, the DMA owns it
  buffer,      \* per descriptor: the frame in its buffer
  dma,         \* how often the DMA's own descriptor pointer has advanced
  TBUS,        \* transmit buffer unavailable: the DMA is suspended
  wire         \* the last frame that was transmitted, 0 before the first

callers == <<calls, pc, p, xTxSemaphore>>
ring == <<toSet, own, buffer, dma, TBUS, wire>>
vars == <<callers, ring>>

-----------------------------------------------------------------------------
Desc == 0..NumDesc - 1
Pos(k) == k % NumDesc
Frame == 1..MaxFrames

TypeOK ==
  /\ calls \in 0..MaxFrames
  /\ pc \in [Sender -> {"idle", "take", "check", "copy", "own", "resume", "give"}]
  /\ p \in [Sender -> Frame \cup {0}]
  /\ xTxSemaphore \in BOOLEAN
  /\ toSet \in Nat /\ dma \in Nat
  /\ own \in [Desc -> BOOLEAN]
  /\ buffer \in [Desc -> Frame \cup {0}]
  /\ TBUS \in BOOLEAN
  /\ wire \in Frame \cup {0}

Init ==
  /\ calls = 0
  /\ pc = [s \in Sender |-> "idle"]
  /\ p = [s \in Sender |-> 0]
  /\ xTxSemaphore = TRUE
  /\ toSet = 0 /\ dma = 0
  /\ own = [i \in Desc |-> FALSE]
  /\ buffer = [i \in Desc |-> 0]
  /\ TBUS \in BOOLEAN
  /\ wire = 0

GoTo(s, l) == pc' = [pc EXCEPT ![s] = l]

-----------------------------------------------------------------------------
(* low_level_output *)

Call(s) ==
  /\ pc[s] = "idle" /\ calls < MaxFrames
  /\ calls' = calls + 1
  /\ p' = [p EXCEPT ![s] = calls + 1]
  /\ GoTo(s, "take")
  /\ UNCHANGED <<xTxSemaphore, ring>>

Take(s) ==
  /\ pc[s] = "take" /\ xTxSemaphore
  /\ xTxSemaphore' = FALSE
  /\ GoTo(s, "check")
  /\ UNCHANGED <<calls, p, ring>>

\* Seeded bug: the semaphore is given although it was not taken.
TakeTimesOutGives(s) ==
  /\ pc[s] = "take" /\ ~xTxSemaphore
  /\ GoTo(s, "give")
  /\ UNCHANGED <<calls, p, xTxSemaphore, ring>>

\* After netifGUARD_BLOCK_TIME: return ERR_OK.
TakeTimesOut(s) ==
  /\ pc[s] = "take" /\ ~xTxSemaphore
  /\ GoTo(s, "idle")
  /\ UNCHANGED <<calls, p, xTxSemaphore, ring>>

\* Seeded bug: return in place of goto error.
CheckReturns(s) ==
  /\ pc[s] = "check"
  /\ GoTo(s, IF own[Pos(toSet)] THEN "idle" ELSE "copy")
  /\ UNCHANGED <<calls, p, xTxSemaphore, ring>>

\* Seeded bug: the descriptor's owner is not looked at.
CheckSkipped(s) ==
  /\ pc[s] = "check"
  /\ GoTo(s, "copy")
  /\ UNCHANGED <<calls, p, xTxSemaphore, ring>>

Check(s) ==
  /\ pc[s] = "check"
  /\ GoTo(s, IF own[Pos(toSet)] THEN "give" ELSE "copy")
  /\ UNCHANGED <<calls, p, xTxSemaphore, ring>>

Copy(s) ==
  /\ pc[s] = "copy"
  /\ buffer' = [buffer EXCEPT ![Pos(toSet)] = p[s]]
  /\ GoTo(s, "own")
  /\ UNCHANGED <<calls, p, xTxSemaphore, toSet, own, dma, TBUS, wire>>

\* Seeded bug: DMATxDescToSet runs past the end of the table.
PrepareNoWrap(s) ==
  /\ pc[s] = "own"
  /\ own' = [i \in Desc \cup {toSet} |-> i = toSet \/ own[i]]
  /\ toSet' = toSet + 1
  /\ GoTo(s, "resume")
  /\ UNCHANGED <<calls, p, xTxSemaphore, buffer, dma, TBUS, wire>>

\* ETH_Prepare_Transmit_Descriptors: a descriptor of the DMA's is refused, any
\* other becomes the DMA's.
Prepare(s) ==
  /\ pc[s] = "own"
  /\ own' = [own EXCEPT ![Pos(toSet)] = TRUE]
  /\ toSet' = IF own[Pos(toSet)] THEN toSet ELSE toSet + 1
  /\ GoTo(s, IF own[Pos(toSet)] THEN "give" ELSE "resume")
  /\ UNCHANGED <<calls, p, xTxSemaphore, buffer, dma, TBUS, wire>>

\* Seeded bug: a suspended DMA is not told.
ResumeForgotten(s) ==
  /\ pc[s] = "resume"
  /\ GoTo(s, "give")
  /\ UNCHANGED <<calls, p, xTxSemaphore, ring>>

Resume(s) ==
  /\ pc[s] = "resume"
  /\ TBUS' = FALSE
  /\ GoTo(s, "give")
  /\ UNCHANGED <<calls, p, xTxSemaphore, toSet, own, buffer, dma, wire>>

Give(s) ==
  /\ pc[s] = "give"
  /\ xTxSemaphore' = TRUE
  /\ GoTo(s, "idle")
  /\ UNCHANGED <<calls, p, ring>>

-----------------------------------------------------------------------------
(* The DMA (external): in order, and suspended when the next descriptor is *)
(* not its own.                                                            *)

Transmit ==
  /\ ~TBUS /\ own[Pos(dma)]
  /\ own' = [own EXCEPT ![Pos(dma)] = FALSE]
  /\ wire' = buffer[Pos(dma)]
  /\ dma' = dma + 1
  /\ UNCHANGED <<callers, toSet, buffer, TBUS>>

Suspend ==
  /\ ~TBUS /\ ~own[Pos(dma)]
  /\ TBUS' = TRUE
  /\ UNCHANGED <<callers, toSet, own, buffer, dma, wire>>

-----------------------------------------------------------------------------
Output(s) ==
  \/ Take(s) \/ TakeTimesOut(s) \/ Check(s) \/ Copy(s) \/ Prepare(s)
  \/ Resume(s) \/ Give(s)

Next == (\E s \in Sender : Call(s) \/ Output(s)) \/ Transmit \/ Suspend

Spec == Init /\ [][Next]_vars

\* Every task gets the processor, and the DMA works while it is not suspended.
FairSpec == Spec /\ WF_vars(Transmit) /\ \A s \in Sender : WF_vars(Output(s))

-----------------------------------------------------------------------------
(* Properties *)

\* The ring is a bounded queue: frames go out whole, each once, and in the order
\* in which their senders prepared them, whatever the DMA and the other sender
\* do in between.
Waiting == [i \in 1..toSet - dma |-> buffer[Pos(dma + i - 1)]]
Queue == INSTANCE Fifo WITH Item <- Frame, Capacity <- NumDesc,
                            queue <- Waiting, out <- wire
ImplementsFifo == Queue!Spec

\* One sender at a time is between its take and its give, also when others have
\* run into the guard time.
Inside(s) == pc[s] \in {"check", "copy", "own", "resume", "give"}
OneInside == \A s, u \in Sender : Inside(s) /\ Inside(u) => s = u

\* Every frame that was handed to the DMA is transmitted, even if the DMA
\* suspends itself at that moment.
Transmitted == \A i \in Desc : own[i] ~> ~own[i]

\* The semaphore comes back on every path out of low_level_output.
SemaphoreComesBack == ~xTxSemaphore ~> xTxSemaphore
=============================================================================
