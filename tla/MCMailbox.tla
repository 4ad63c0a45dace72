-------------------------------- MODULE MCMailbox --------------------------------
(* Two tasks that post and two that fetch, one of each above the others. *)
EXTENDS Mailbox

CONSTANTS p1, p2, f1, f2, a, b

Posters == {p1, p2}
Fetchers == {f1, f2}
Priorities == [t \in {p1, p2, f1, f2} |-> IF t \in {p1, f1} THEN 2 ELSE 1]
Messages == {a, b}
=============================================================================
