---------------------------- MODULE MCCatchPortal ----------------------------
(* Finite instances of CatchPortal.                                        *)
EXTENDS CatchPortal
=============================================================================
