---------------------------------- MODULE Fifo ----------------------------------
(***************************************************************************)
(* A bounded queue: what the ring of transmit descriptors is to those who  *)
(* send, and what a mailbox is to those who post.  Items leave in the      *)
(* order in which they came, each once, and never more than Capacity wait. *)
(***************************************************************************)
EXTENDS Naturals, Sequences

CONSTANTS Item, Capacity

VARIABLES
  queue,    \* the items that wait
  out       \* the last item that left

vars == <<queue, out>>

Init == queue = << >> /\ out \notin Item

Put ==
  /\ Len(queue) < Capacity
  /\ \E x \in Item : queue' = Append(queue, x)
  /\ UNCHANGED out

Get ==
  /\ queue # << >>
  /\ out' = Head(queue)
  /\ queue' = Tail(queue)

Next == Put \/ Get

Spec == Init /\ [][Next]_vars
=============================================================================
