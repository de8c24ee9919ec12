---------------------------- MODULE ExpiryWorker ----------------------------
(***************************************************************************)
(* The worker process: every interval a cycle drains all jobs at once, each *)
(* in batches one after the other, at most MaxBatches of them; a cycle that *)
(* is still active swallows the ticks of the timer.  A signal stops it, and *)
(* the container comes back.  What a killed process had sent to the        *)
(* database goes on there without it.                                      *)
(***************************************************************************)
EXTENDS Naturals

CONSTANTS
  Jobs,       \* the sweeps: CATCH, WHISPER, PULSE, GATE
  MaxBatches, \* maxBatchesPerCycle
  MaxLeft     \* bound: sweeps of each job left behind by killed processes

VARIABLES
  open,  \* the batches of each job that the process is waiting for
  batch, \* the loop counter of each job's drain
  left,  \* the batches of killed processes that the database still executes
  phase  \* "running", "stopping" (stop awaits the cycle), "closed", "killed"

vars == <<open, batch, left, phase>>

ActiveRun == \E j \in Jobs : open[j] > 0
-----------------------------------------------------------------------------
(* Faults that the runs must notice: mutated forms of definitions below.   *)

BeginsAnyway == phase = "running"
WithoutWaiting == TRUE
-----------------------------------------------------------------------------
(* startExpiryWorker runs the first cycle at once.                         *)
BeginCycle ==
  /\ open' = [j \in Jobs |-> IF phase = "running" THEN open[j] + 1 ELSE 1]
  /\ batch' = [j \in Jobs |-> 0]

Init ==
  /\ open = [j \in Jobs |-> 1]
  /\ batch = [j \in Jobs |-> 0]
  /\ left = [j \in Jobs |-> 0]
  /\ phase = "running"

MayBegin == phase = "running" /\ ~ActiveRun

Tick == MayBegin /\ BeginCycle /\ UNCHANGED <<left, phase>>

(* A full batch asks for another one, in the same turn of the event loop.  *)
Continues(j, full) == full /\ phase = "running" /\ batch[j] + 1 < MaxBatches

Ends(j) ==
  /\ open' = [open EXCEPT ![j] = @ - 1]
  /\ batch' = [batch EXCEPT ![j] = 0]

BatchDone(j, full) ==
  /\ open[j] > 0
  /\ \/ /\ Continues(j, full)
        /\ batch' = [batch EXCEPT ![j] = @ + 1]
        /\ UNCHANGED open
     \/ ~Continues(j, full) /\ Ends(j)
  /\ UNCHANGED <<left, phase>>

(* The error is logged and ends this job's drain, no other job's.          *)
BatchFails(j) == open[j] > 0 /\ Ends(j) /\ UNCHANGED <<left, phase>>

Stop == phase = "running" /\ phase' = "stopping" /\ UNCHANGED <<open, batch, left>>

(* await activeRun, then the database connection is closed.                *)
Drained == ~ActiveRun

Close == phase = "stopping" /\ Drained /\ phase' = "closed" /\ UNCHANGED <<open, batch, left>>

(* The process is gone at once.  The database goes on with what it was     *)
(* executing, but for the jobs whose statement had just ended.             *)
Kill ==
  /\ phase \in {"running", "stopping"}
  /\ phase' = "killed"
  /\ \E ended \in SUBSET Jobs :
       left' = [j \in Jobs |-> IF j \in ended THEN left[j] ELSE left[j] + open[j]]
  /\ \A j \in Jobs : left'[j] <= MaxLeft[j]
  /\ open' = [j \in Jobs |-> 0]
  /\ batch' = [j \in Jobs |-> 0]

LeftEnds(j) ==
  /\ left[j] > 0
  /\ left' = [left EXCEPT ![j] = @ - 1]
  /\ UNCHANGED <<open, batch, phase>>

Restart ==
  /\ phase \in {"closed", "killed"}
  /\ phase' = "running"
  /\ BeginCycle
  /\ UNCHANGED left

Process == Tick \/ Stop \/ Close \/ Kill \/ Restart

Next ==
  \/ Process
  \/ \E j \in Jobs :
       BatchFails(j) \/ LeftEnds(j) \/ \E full \in BOOLEAN : BatchDone(j, full)

Spec == Init /\ [][Next]_vars
-----------------------------------------------------------------------------
(* Every variable has its type.                                            *)
TypeOK ==
  /\ {open, left} \subseteq [Jobs -> Nat]
  /\ batch \in [Jobs -> 0 .. MaxBatches - 1]
  /\ phase \in {"running", "stopping", "closed", "killed"}

(* Cycles do not overlap, however much longer than the interval one takes: *)
(* a process has one sweep of each job under way at most, so the database  *)
(* executes a second one only beside what a killed process left there.     *)
OneSweepPerJob == \A j \in Jobs : open[j] <= 1

(* A worker that was stopped, and not killed, closes its database only     *)
(* when no sweep it waits for is under way any more.                       *)
ClosedIsQuiet == phase = "closed" => ~ActiveRun

=============================================================================
