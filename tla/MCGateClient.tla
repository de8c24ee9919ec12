---------------------------- MODULE MCGateClient ----------------------------
(* Finite instances of GateClient.                                         *)
EXTENDS GateClient
=============================================================================
