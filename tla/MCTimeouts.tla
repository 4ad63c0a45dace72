------------------------------- MODULE MCTimeouts -------------------------------
(* Instances of Timeouts for TLC. *)
EXTENDS Timeouts

TwoCyclic == <<"ip_reass_tmr", "etharp_tmr">>
Intervals == [h \in Handler |-> IF h = "tcp_tmr" THEN 1 ELSE 2]
=============================================================================
