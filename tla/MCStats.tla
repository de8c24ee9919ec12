------------------------------ MODULE MCStats ------------------------------
(* Finite instances of Stats: one order of each plan.                      *)
EXTENDS Stats

OwnPlan == [o \in Orders |-> o]
=============================================================================
