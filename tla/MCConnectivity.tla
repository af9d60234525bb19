---------------------------- MODULE MCConnectivity ----------------------------
(* An instance of Connectivity for TLC. *)
EXTENDS Connectivity

Commands == {"get_smr", "send_devregid", "down", "up"}
===============================================================================
