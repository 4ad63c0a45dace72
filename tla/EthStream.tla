------------------------------- MODULE EthStream -------------------------------
(***************************************************************************)
(* What lwIP sees of the wire: frames arrive, numbered 1, 2, 3, ..., and   *)
(* some of them are handed to ethernet_input, each at most once and in the *)
(* order of their arrival.                                                 *)
(***************************************************************************)
EXTENDS Naturals

VARIABLES
  arrived,     \* how many frames have arrived
  delivered,   \* the last frame handed to ethernet_input, 0 before the first
  handed       \* how many frames have been handed to it

vars == <<arrived, delivered, handed>>

Init == arrived = 0 /\ delivered = 0 /\ handed = 0

Arrive == arrived' = arrived + 1 /\ UNCHANGED <<delivered, handed>>

Deliver ==
  /\ delivered' \in Nat
  /\ delivered < delivered' /\ delivered' <= arrived
  /\ handed' = handed + 1
  /\ UNCHANGED arrived

Next == Arrive \/ Deliver

Spec == Init /\ [][Next]_vars
=============================================================================
