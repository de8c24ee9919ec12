---------------------------- MODULE MCPulseSweep ----------------------------
(* Finite instances of PulseSweep.                                         *)
EXTENDS PulseSweep

(* What a killed process leaves of other jobs touches no monitor.          *)
LeftOfPulse == [j \in OtherJobs \cup {"PULSE"} |-> IF j = "PULSE" THEN 1 ELSE 0]
=============================================================================
