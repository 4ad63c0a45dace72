-------------------------------- MODULE MCEthRx --------------------------------
(* A ring of three: it wraps, and it fills up. *)
EXTENDS EthRx
=============================================================================
