---------------------------- MODULE MCBusTransport ----------------------------
(***************************************************************************)
(* Small instances of BusTransport for TLC.  Requests are interchangeable, *)
(* so the runs without liveness may use the symmetry of their identities.  *)
(***************************************************************************)
EXTENDS BusTransport

RequestSymmetry == Permutations(Requests)
===============================================================================
