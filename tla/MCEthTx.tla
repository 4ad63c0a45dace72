-------------------------------- MODULE MCEthTx --------------------------------
(* Instances of EthTx for TLC. *)
EXTENDS EthTx

TwoSenders == {"lwip", "TCPIP_task"}
=============================================================================
