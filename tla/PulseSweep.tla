----------------------------- MODULE PulseSweep -----------------------------
(***************************************************************************)
(* PULSE and the worker that closes its lapsed monitors: two processes and *)
(* one table.  The monitor is one of many, so a batch may be filled by     *)
(* older rows; the other jobs of the worker answer whatever they like.     *)
(***************************************************************************)
EXTENDS PulseMonitor

CONSTANTS
  OtherJobs, \* the jobs the worker runs beside PULSE
  MaxBatches, \* of one job in one cycle
  MaxLeft    \* bound: sweeps of each job left behind by killed processes

ASSUME SweepAssumption == MaxBatches \in Nat \ {0}

VARIABLES open, batch, left, phase

Worker == INSTANCE ExpiryWorker WITH Jobs <- OtherJobs \cup {"PULSE"}

worker == <<open, batch, left, phase>>

SweepInit == Init /\ Worker!Init

(* for update skip locked, oldest first: a row that is due is missed when   *)
(* a request holds it or a hundred older ones fill the batch.               *)
SweepsMonitor == ExpireDue /\ \E full \in BOOLEAN : Worker!BatchDone("PULSE", full)

SweepsOthers ==
  /\ \E j \in OtherJobs \cup {"PULSE"}, full \in BOOLEAN : Worker!BatchDone(j, full)
  /\ UNCHANGED vars

SweepFails == (\E j \in OtherJobs \cup {"PULSE"} : Worker!BatchFails(j)) /\ UNCHANGED vars

(* The transaction of a killed process is rolled back, has other rows, or  *)
(* had sent its commit.                                                    *)
LeftSweeps ==
  \E j \in OtherJobs \cup {"PULSE"} :
    Worker!LeftEnds(j) /\ (UNCHANGED vars \/ (j = "PULSE" /\ ExpireDue))

SweepNext ==
  \/ (Handle \/ Lapse) /\ UNCHANGED worker
  \/ SweepsMonitor \/ SweepsOthers \/ SweepFails \/ LeftSweeps
  \/ Worker!Process /\ UNCHANGED vars

SweepSpec == SweepInit /\ [][SweepNext]_<<vars, worker>>

(* The timer ticks, statements end, the container is restarted; a statement *)
(* that fails or a row that is missed is not so every time.                 *)
FairSweep ==
  /\ SweepSpec
  /\ WF_<<vars, worker>>((Worker!Tick \/ Worker!Close \/ Worker!Restart) /\ UNCHANGED vars)
  /\ \A j \in OtherJobs \cup {"PULSE"} :
       WF_<<vars, worker>>(/\ Worker!BatchFails(j) \/ Worker!BatchDone(j, FALSE)
                           /\ UNCHANGED vars)
  /\ SF_<<vars, worker>>(SweepsMonitor)
-----------------------------------------------------------------------------

OneSweepPerJob == Worker!OneSweepPerJob
ClosedIsQuiet == Worker!ClosedIsQuiet

(* A lapsed monitor loses its tokens although nobody asks for it, whatever  *)
(* the other jobs of the cycle do and however often the worker is stopped   *)
(* or killed.                                                              *)
LapsedIsClosed == lapsed ~> ~row.owner
=============================================================================
