--------------------------------- MODULE Alarms ---------------------------------
(***************************************************************************)
(* What lwIP's timeouts promise: an alarm sounds after its time and not    *)
(* before, the earliest first, and each at most once for each time that it *)
(* is set.                                                                 *)
(***************************************************************************)
EXTENDS Integers

CONSTANTS
  Handler,     \* what can be called
  Interval     \* of each handler

VARIABLE left  \* the time left to each alarm that is set, below zero when it is late

Init == \E H \in SUBSET Handler : left = [h \in H |-> Interval[h]]

\* Time passes.
Pass == left' = [h \in DOMAIN left |-> left[h] - 1]

\* At most an interval from now.
Set ==
  \E h \in Handler \ DOMAIN left : \E d \in 0..Interval[h] :
    left' = [g \in DOMAIN left \cup {h} |-> IF g = h THEN d ELSE left[g]]

Sound ==
  \E h \in DOMAIN left :
    /\ left[h] <= 0
    /\ \A g \in DOMAIN left : left[h] <= left[g]
    /\ left' = [g \in DOMAIN left \ {h} |-> left[g]]

Next == Pass \/ Set \/ Sound

Spec == Init /\ [][Next]_left
=============================================================================
