------------------------------ MODULE PacketStream ------------------------------
(***************************************************************************)
(* What the MQTT client needs of its transport: packets come out whole and *)
(* in the order in which the broker sent them.  When that fails it is lost *)
(* until the next connection.                                              *)
(***************************************************************************)
EXTENDS Naturals, Sequences

CONSTANT Packet

VARIABLES
  queue,    \* packets sent and not read
  out,      \* the last packet read on this connection
  lost      \* the reader no longer knows where a packet starts

vars == <<queue, out, lost>>

Init == queue = << >> /\ out \notin Packet /\ ~lost

Put ==
  /\ ~lost
  /\ \E p \in Packet : queue' = Append(queue, p)
  /\ UNCHANGED <<out, lost>>

Get ==
  /\ ~lost
  /\ queue # << >>
  /\ out' = Head(queue)
  /\ queue' = Tail(queue)
  /\ UNCHANGED lost

\* The connection is lost, and with it the last packets.
Drop ==
  /\ ~lost
  /\ \E n \in 0..Len(queue) : queue' = SubSeq(queue, 1, n)
  /\ UNCHANGED <<out, lost>>

Lose == lost' /\ queue' = << >> /\ out' \notin Packet

Restart == ~lost' /\ queue' = << >> /\ out' \notin Packet

Next == Put \/ Get \/ Drop \/ Lose \/ Restart

Spec == Init /\ [][Next]_vars
=============================================================================
