------------------------- MODULE PulseMonitorProofs -------------------------
(***************************************************************************)
(* PULSE, for every number of concurrent requests, every heartbeat limit   *)
(* and every set of texts: the type invariant, what the status says about  *)
(* tokens, count and settings, and that a monitor is a metered capability. *)
(* Then the same under the expiry worker, for any other jobs and any       *)
(* number of batches: cycles do not overlap, and the database is closed    *)
(* only when it is quiet.                                                  *)
(***************************************************************************)
EXTENDS PulseSweep, TLAPS

(* A request that presents a token is of a kind that has one.              *)
KindsWithToken == {"heartbeat", "get", "patch", "destroy"}
PresentsToken == \A r \in Requests : pc[r] = "credentials" => job[r].kind \in KindsWithToken

(* The inductive invariant.  Of the requests it says nothing but their     *)
(* types and kinds: every transaction locks the row and judges it again.   *)
IInv ==
  /\ TypeOK
  /\ PresentsToken
  /\ TokensFollowTheCount
  /\ ExpiryIsFinal
  /\ beats = row.count

LEMMA InitIInv == Init => IInv
<1> SUFFICES ASSUME Init PROVE IInv
  OBVIOUS
<1>1. Untitled \in Settings /\ NoJob \in [kind: Kinds, body: Body, merged: Settings]
  BY DEF Untitled, Settings, NoJob, NothingSet, Kinds, Body
<1>2. TypeOK
  BY <1>1 DEF Init, TypeOK
<1>3. PresentsToken
  BY DEF Init, PresentsToken
<1>4. TokensFollowTheCount
  BY PulseAssumption DEF Init, TokensFollowTheCount, IsExpirable
<1> QED
  BY <1>2, <1>3, <1>4 DEF Init, IInv, ExpiryIsFinal

(* What becomes of the row: it stays, it expires, it takes a heartbeat, it *)
(* takes settings or it is destroyed.  The clock moves alone.              *)
Expires == MustExpire /\ ExpireLocked /\ UNCHANGED <<lapsed, beats>>
TakesHeartbeat ==
  /\ ~lapsed /\ row.status = "active"
  /\ row' = IF Exhausts(row.count) THEN Exhausted(Beaten(row)) ELSE Beaten(row)
  /\ beats' = beats + 1 /\ UNCHANGED lapsed
TakesSettings ==
  /\ IsExpirable(row.status)
  /\ \E s \in Settings : row' = [row EXCEPT !.settings = s]
  /\ UNCHANGED <<lapsed, beats>>
IsDestroyed ==
  /\ ~lapsed /\ IsExpirable(row.status)
  /\ row' = [row EXCEPT !.status = "manually_destroyed", !.owner = FALSE, !.ping = FALSE]
  /\ UNCHANGED <<lapsed, beats>>
ClockPasses == ~lapsed /\ lapsed' = TRUE /\ UNCHANGED <<row, beats>>

RowStep ==
  \/ Expires \/ TakesHeartbeat \/ TakesSettings \/ IsDestroyed \/ ClockPasses
  \/ UNCHANGED <<row, lapsed, beats>>

(* Merging a body into settings gives settings.                            *)
LEMMA MergeIsSettings ==
  ASSUME NEW current \in Settings, NEW body \in Body
  PROVE  Merge(current, body) \in Settings
<1>1. DOMAIN current = {"text", "sharing"}
  BY DEF Settings
<1>2. Merge(current, body) =
        [f \in {"text", "sharing"} |-> IF body[f] = Unset THEN current[f] ELSE body[f]]
  BY <1>1 DEF Merge
<1>3. (IF body.text = Unset THEN current.text ELSE body.text)
        \in Texts \cup {"untitled", "expired"}
  BY DEF Settings, Body
<1>4. (IF body.sharing = Unset THEN current.sharing ELSE body.sharing) \in BOOLEAN
  BY DEF Settings, Body
<1> QED
  BY <1>2, <1>3, <1>4 DEF Settings

(* Every step of the system does one of these to the row.                  *)
LEMMA StepIsRowStep ==
  ASSUME TypeOK, [Next]_vars
  PROVE  RowStep
<1> USE DEF RowStep
<1>1. ASSUME NEW r \in Requests, ExpiresFirst(r)
      PROVE  RowStep
  BY <1>1 DEF ExpiresFirst, Expires
<1>2. ASSUME NEW r \in Requests, GetCredentialHashes(r)
      PROVE  RowStep
  BY <1>1, <1>2 DEF GetCredentialHashes
<1>3. ASSUME NEW r \in Requests, AcceptHeartbeat(r)
      PROVE  RowStep
  BY <1>1, <1>3 DEF AcceptHeartbeat, TakesHeartbeat, MustExpire, IsExpirable
<1>4. ASSUME NEW r \in Requests, GetResource(r)
      PROVE  RowStep
  BY <1>1, <1>4 DEF GetResource
<1>5. ASSUME NEW r \in Requests, UpdateSettings(r)
      PROVE  RowStep
  <2>1. job[r].merged \in Settings
    BY DEF TypeOK
  <2> QED
    BY <1>1, <1>5, <2>1 DEF UpdateSettings, TakesSettings, Updatable
<1>6. ASSUME NEW r \in Requests, Destroy(r)
      PROVE  RowStep
  BY <1>1, <1>6 DEF Destroy, IsDestroyed, MustExpire
<1>7. ASSUME NEW r \in Requests, GetPublicResource(r)
      PROVE  RowStep
  BY <1>1, <1>7 DEF GetPublicResource
<1>8. ASSUME NEW r \in Requests, Fail(r)
      PROVE  RowStep
  BY <1>8 DEF Fail
<1>9. ASSUME NEW r \in Requests, NEW kind, NEW body, NEW step, Begin(r, kind, body, step)
      PROVE  RowStep
  BY <1>9 DEF Begin
<1>10. CASE ExpireDue
  BY <1>10 DEF ExpireDue, Expires, Due, MustExpire
<1>11. CASE Lapse
  BY <1>11 DEF Lapse, ClockPasses
<1>12. CASE UNCHANGED vars
  BY <1>12 DEF vars
<1> QED
  BY <1>2, <1>3, <1>4, <1>5, <1>6, <1>7, <1>8, <1>9, <1>10, <1>11, <1>12
     DEF Next, Handle, Serve, Heartbeat, Visit, Manage, Patch

(* The type of the requests' own state, which the row does not touch.      *)
LEMMA RequestTypes ==
  ASSUME TypeOK, PresentsToken, [Next]_vars
  PROVE  /\ PresentsToken'
         /\ pc' \in [Requests -> {"idle", "credentials", "heartbeat", "get", "patch",
                                  "update", "destroy", "public"}]
         /\ job' \in [Requests -> [kind: Kinds, body: Body, merged: Settings]]
<1> DEFINE Steps == {"idle", "credentials", "heartbeat", "get", "patch",
                     "update", "destroy", "public"}
           Jobs == [kind: Kinds, body: Body, merged: Settings]
           Good == /\ pc' \in [Requests -> Steps] /\ job' \in [Requests -> Jobs]
                   /\ PresentsToken'
<1>1. pc \in [Requests -> Steps] /\ job \in [Requests -> Jobs]
  BY DEF TypeOK
<1>2. NoJob \in Jobs
  BY DEF NoJob, NothingSet, Untitled, Kinds, Body, Settings
<1>3. ASSUME NEW r \in Requests, Done(r)
      PROVE  Good
  BY <1>1, <1>2, <1>3 DEF Done, Goto, PresentsToken
<1>4. ASSUME NEW r \in Requests, NEW step \in Steps \ {"credentials"}, Continue(r, step)
      PROVE  Good
  BY <1>1, <1>4 DEF Continue, Goto, PresentsToken
<1>5. ASSUME NEW r \in Requests, NEW kind \in Kinds, NEW body \in Body,
             NEW step \in Steps, Begin(r, kind, body, step),
             step = "credentials" => kind \in KindsWithToken
      PROVE  Good
  <2>1. [NoJob EXCEPT !.kind = kind, !.body = body] \in Jobs
    BY <1>2 DEF NoJob
  <2> QED
    BY <1>1, <1>5, <2>1 DEF Begin, Goto, PresentsToken, NoJob
<1>6. ASSUME NEW r \in Requests, GetCredentialHashes(r)
      PROVE  Good
  <2>1. CASE Done(r)
    BY <2>1, <1>3
  <2>2. CASE Continue(r, job[r].kind)
    <3>1. job[r].kind \in Steps \ {"credentials"}
      BY <1>6 DEF GetCredentialHashes, PresentsToken, KindsWithToken
    <3> QED
      BY <1>4, <2>2, <3>1
  <2> QED
    BY <1>6, <2>1, <2>2 DEF GetCredentialHashes, ExpiresFirst
<1>7. ASSUME NEW r \in Requests, GetResource(r)
      PROVE  Good
  <2>1. CASE Done(r)
    BY <2>1, <1>3
  <2>2. CASE /\ Goto(r, "update")
             /\ job' = [job EXCEPT ![r] = [NoJob EXCEPT
                         !.kind = "patch", !.merged = Merge(row.settings, job[r].body)]]
    <3>1. PICK merged \in Settings : merged = Merge(row.settings, job[r].body)
      BY MergeIsSettings DEF TypeOK
    <3>2. [NoJob EXCEPT !.kind = "patch", !.merged = merged] \in Jobs
      BY <1>2 DEF NoJob, Kinds
    <3> QED
      BY <1>1, <2>2, <3>1, <3>2 DEF Goto, PresentsToken
  <2> QED
    BY <1>7, <2>1, <2>2 DEF GetResource, ExpiresFirst
<1>8. ASSUME NEW r \in Requests,
             AcceptHeartbeat(r) \/ UpdateSettings(r) \/ Destroy(r)
               \/ GetPublicResource(r) \/ Fail(r)
      PROVE  Good
  BY <1>3, <1>8 DEF AcceptHeartbeat, UpdateSettings, Destroy, GetPublicResource,
                    Fail, ExpiresFirst
<1>9. CASE ExpireDue \/ Lapse \/ UNCHANGED vars
  BY <1>1, <1>9 DEF ExpireDue, Lapse, vars, PresentsToken
<1>10. ASSUME NEW r \in Requests,
              Heartbeat(r) \/ Visit(r) \/ (\E kind \in {"get", "destroy"} : Manage(r, kind))
                \/ (\E body \in Body : Patch(r, body))
       PROVE  Good
  <2>1. NothingSet \in Body
    BY DEF NothingSet, Body
  <2> QED
    BY <1>5, <1>10, <2>1 DEF Heartbeat, Visit, Manage, Patch, Kinds,
                                  KindsWithToken
<1> QED
  BY <1>6, <1>7, <1>8, <1>9, <1>10 DEF Next, Handle, Serve
-----------------------------------------------------------------------------
(* Every step of a row, whichever request or sweep takes it, keeps IInv.    *)
LEMMA RowStepIInv ==
  ASSUME TypeOK, TokensFollowTheCount, ExpiryIsFinal, beats = row.count, RowStep
  PROVE  /\ row' \in [status: {"active", "exhausted", "expired", "manually_destroyed"},
                      owner: BOOLEAN, ping: BOOLEAN, count: Nat,
                      settings: Settings, pinged: BOOLEAN]
         /\ lapsed' \in BOOLEAN /\ beats' \in Nat
         /\ TokensFollowTheCount' /\ ExpiryIsFinal' /\ beats' = row'.count
<1> USE PulseAssumption DEF TypeOK, TokensFollowTheCount, ExpiryIsFinal, IsExpirable
<1>1. CASE Expires
  <2>1. [text |-> "expired", sharing |-> FALSE] \in Settings
    BY DEF Settings
  <2> QED
    BY <1>1, <2>1 DEF Expires, ExpireLocked
<1>2. CASE TakesHeartbeat
  <2>1. row.count < HeartbeatLimit
    BY <1>2 DEF TakesHeartbeat
  <2> DEFINE Rows == [status: {"active", "exhausted", "expired", "manually_destroyed"},
                      owner: BOOLEAN, ping: BOOLEAN, count: Nat,
                      settings: Settings, pinged: BOOLEAN]
  <2>2. Beaten(row) \in Rows /\ Exhausted(Beaten(row)) \in Rows
    <3>1. Beaten(row) \in Rows
      <4>1. row \in Rows /\ row.count + 1 \in Nat
        OBVIOUS
      <4> HIDE DEF TypeOK, TokensFollowTheCount, ExpiryIsFinal, IsExpirable
      <4>2. [row EXCEPT !.count = row.count + 1] \in Rows
        BY <4>1
      <4> QED
        BY <4>2 DEF Beaten
    <3>2. ASSUME NEW record \in Rows
          PROVE  Exhausted(record) \in Rows
      BY DEF Exhausted
    <3> QED
      BY <3>1, <3>2
  <2>3. row' \in Rows
    BY <1>2, <2>2 DEF TakesHeartbeat
  <2>4. /\ row'.count = row.count + 1 /\ row'.owner = row.owner
        /\ row'.settings = row.settings /\ row'.pinged = TRUE
    BY <1>2 DEF TakesHeartbeat, Exhausted, Beaten
  <2>5. CASE Exhausts(row.count)
    <3>1. row.count + 1 = HeartbeatLimit
      BY <2>1, <2>5 DEF Exhausts
    <3>2. row'.status = "exhausted" /\ ~row'.ping
      BY <1>2, <2>5 DEF TakesHeartbeat, Exhausted, Beaten
    <3> QED
      BY <1>2, <2>3, <2>4, <3>1, <3>2 DEF TakesHeartbeat
  <2>6. CASE ~Exhausts(row.count)
    <3>1. row.count + 1 < HeartbeatLimit
      BY <2>6 DEF Exhausts
    <3>2. row'.status = "active" /\ row'.ping
      BY <1>2, <2>6 DEF TakesHeartbeat, Beaten
    <3> QED
      BY <1>2, <2>3, <2>4, <3>1, <3>2 DEF TakesHeartbeat
  <2> QED
    BY <2>5, <2>6
<1>3. CASE TakesSettings
  BY <1>3 DEF TakesSettings
<1>4. CASE IsDestroyed
  BY <1>4 DEF IsDestroyed
<1>5. CASE ClockPasses
  BY <1>5 DEF ClockPasses
<1>6. CASE UNCHANGED <<row, lapsed, beats>>
  BY <1>6
<1> QED
  BY <1>1, <1>2, <1>3, <1>4, <1>5, <1>6 DEF RowStep

(* The invariant holds in every reachable state.                           *)
THEOREM Inductive == Spec => []IInv
<1>1. IInv /\ [Next]_vars => IInv'
  <2> SUFFICES ASSUME IInv, [Next]_vars
               PROVE  IInv'
    OBVIOUS
  <2>1. TypeOK /\ PresentsToken /\ TokensFollowTheCount /\ ExpiryIsFinal /\ beats = row.count
    BY DEF IInv
  <2>2. RowStep
    BY <2>1, StepIsRowStep
  <2> HIDE DEF RowStep
  <2> QED
    BY <2>1, <2>2, RowStepIInv, RequestTypes DEF IInv, TypeOK
<1> QED
  BY <1>1, InitIInv, PTL DEF Spec

(* Every variable keeps its type.                                          *)
THEOREM TypeCorrect == Spec => []TypeOK
<1>1. IInv => TypeOK
  BY DEF IInv
<1> QED
  BY <1>1, Inductive, PTL

(* A ping token is left exactly while the monitor is active with heartbeats *)
(* to go, and an owner's token exactly until expiry or destruction          *)
(* (acceptHeartbeat, expireLockedResource, destroy).                        *)
THEOREM TokensAlwaysFollow == Spec => []TokensFollowTheCount
<1>1. IInv => TokensFollowTheCount
  BY DEF IInv
<1> QED
  BY <1>1, Inductive, PTL

(* No PATCH, heartbeat or sweep changes a row that has expired or was       *)
(* destroyed, whenever it read it (updateSettings, acceptHeartbeat,         *)
(* destroy, expireDue), and what has expired keeps no settings.             *)
THEOREM ExpiryStaysFinal == Spec => []ExpiryIsFinal /\ EndIsFinal
<1>1. IInv => ExpiryIsFinal
  BY DEF IInv
<1>2. IInv /\ [Next]_vars => [~IsExpirable(row.status) => UNCHANGED row]_vars
  <2> SUFFICES ASSUME IInv, [Next]_vars, ~IsExpirable(row.status)
               PROVE  UNCHANGED row
    OBVIOUS
  <2>1. RowStep
    BY StepIsRowStep DEF IInv
  <2> QED
    BY <2>1 DEF RowStep, Expires, MustExpire, TakesHeartbeat, TakesSettings,
                IsDestroyed, ClockPasses, IsExpirable
<1> QED
  BY <1>1, <1>2, Inductive, PTL DEF Spec, EndIsFinal
-----------------------------------------------------------------------------
(* A monitor implements the metered capability: a heartbeat is a use, the   *)
(* clock or the owner ends it, and the expiry of an active row exhausts     *)
(* what the clock has already ended.                                        *)
LEMMA RowStepIsMetered ==
  ASSUME IInv, RowStep
  PROVE  [Quota!Next]_(Quota!vars)
<1> USE DEF IInv, TypeOK, TokensFollowTheCount, IsExpirable, Quota!vars, Quota!Next
<1>1. CASE Expires
  <2>1. row'.status = "expired" /\ lapsed /\ lapsed' = lapsed /\ beats' = beats
    BY <1>1 DEF Expires, ExpireLocked, MustExpire
  <2>2. CASE row.status = "active"
    BY <2>1, <2>2 DEF Quota!Exhaust
  <2>3. CASE row.status # "active"
    BY <2>1, <2>3
  <2> QED
    BY <2>2, <2>3
<1>2. CASE TakesHeartbeat
  <2>1. ~lapsed /\ ~lapsed' /\ row.status = "active" /\ beats' = beats + 1
    BY <1>2 DEF TakesHeartbeat
  <2>2. row'.status \in {"active", "exhausted"}
    BY <1>2 DEF TakesHeartbeat, Exhausted, Beaten
  <2>3. beats' = HeartbeatLimit => row'.status = "exhausted"
    BY <1>2, PulseAssumption DEF TakesHeartbeat, Exhausted, Beaten, Exhausts
  <2>4. beats < HeartbeatLimit
    BY <2>1
  <2> QED
    BY <2>1, <2>2, <2>3, <2>4 DEF Quota!Use
<1>3. CASE TakesSettings
  BY <1>3 DEF TakesSettings
<1>4. CASE IsDestroyed
  BY <1>4 DEF IsDestroyed, Quota!End
<1>5. CASE ClockPasses
  BY <1>5 DEF ClockPasses, Quota!End
<1>6. CASE UNCHANGED <<row, lapsed, beats>>
  BY <1>6
<1> QED
  BY <1>1, <1>2, <1>3, <1>4, <1>5, <1>6 DEF RowStep

(* Every heartbeat that was answered is counted once, at most as many as    *)
(* were bought, and none after exhaustion, expiry or destruction.           *)
THEOREM MonitorImplementsMetered == Spec => MonitorIsMetered
<1>1. Init => Quota!Init
  BY DEF Init, Quota!Init, IsExpirable
<1>2. IInv /\ [Next]_vars => [Quota!Next]_(Quota!vars)
  BY StepIsRowStep, RowStepIsMetered DEF IInv
<1> QED
  BY <1>1, <1>2, Inductive, PTL DEF Spec, MonitorIsMetered, Quota!Spec
-----------------------------------------------------------------------------
(* The worker.                                                             *)

Jobs == OtherJobs \cup {"PULSE"}

(* One drain for each job at most, within its batches, and none once the   *)
(* process is closed; what is left of killed processes only ends.          *)
WorkerInv ==
  /\ open \in [Jobs -> {0, 1}]
  /\ batch \in [Jobs -> 0 .. MaxBatches - 1]
  /\ left \in [Jobs -> Nat]
  /\ phase \in {"running", "stopping", "closed", "killed"}
  /\ phase \in {"closed", "killed"} => ~Worker!ActiveRun

LEMMA InitWorkerInv == SweepInit => WorkerInv
<1>1. 0 \in 0 .. MaxBatches - 1
  BY SweepAssumption
<1> QED
  BY <1>1 DEF SweepInit, Worker!Init, WorkerInv, Jobs

(* A drain that ends, by its last batch or by an error.                    *)
LEMMA EndsKeeps ==
  ASSUME WorkerInv, NEW j \in Jobs, open[j] > 0, Worker!Ends(j), UNCHANGED <<left, phase>>
  PROVE  WorkerInv'
<1>1. open[j] = 1 /\ open' = [open EXCEPT ![j] = open[j] - 1]
  BY DEF WorkerInv, Worker!Ends
<1>2. open' \in [Jobs -> {0, 1}] /\ \A k \in Jobs : open'[k] > 0 => open[k] > 0
  BY <1>1 DEF WorkerInv
<1>3. batch' \in [Jobs -> 0 .. MaxBatches - 1]
  BY SweepAssumption DEF WorkerInv, Worker!Ends
<1> QED
  BY <1>2, <1>3 DEF WorkerInv, Worker!ActiveRun, Jobs

LEMMA DrainKeeps ==
  ASSUME WorkerInv, NEW j \in Jobs,
         Worker!BatchFails(j) \/ \E full \in BOOLEAN : Worker!BatchDone(j, full)
  PROVE  WorkerInv'
<1>1. /\ open[j] > 0 /\ UNCHANGED <<left, phase>>
      /\ \/ Worker!Ends(j)
         \/ /\ UNCHANGED open /\ batch[j] + 1 < MaxBatches
            /\ batch' = [batch EXCEPT ![j] = @ + 1]
  BY DEF Worker!BatchFails, Worker!BatchDone, Worker!Continues
<1>2. CASE /\ UNCHANGED <<open, left, phase>> /\ batch[j] + 1 < MaxBatches
           /\ batch' = [batch EXCEPT ![j] = @ + 1]
  <2>1. batch[j] + 1 \in 0 .. MaxBatches - 1
    BY <1>2, SweepAssumption DEF WorkerInv
  <2>2. batch' \in [Jobs -> 0 .. MaxBatches - 1]
    BY <1>2, <2>1 DEF WorkerInv
  <2> QED
    BY <1>2, <2>2 DEF WorkerInv, Worker!ActiveRun
<1> QED
  BY <1>1, <1>2, EndsKeeps

LEMMA ProcessKeeps ==
  ASSUME WorkerInv, Worker!Process
  PROVE  WorkerInv'
<1> USE DEF WorkerInv, Worker!ActiveRun, Jobs
<1>0. 0 \in 0 .. MaxBatches - 1
  BY SweepAssumption
<1>1. CASE Worker!Tick
  <2>1. phase = "running" /\ \A j \in Jobs : open[j] = 0
    BY <1>1 DEF Worker!Tick, Worker!MayBegin
  <2>2. open' = [j \in Jobs |-> open[j] + 1] /\ UNCHANGED <<left, phase>>
    BY <1>1, <2>1 DEF Worker!Tick, Worker!BeginCycle
  <2>3. open' = [j \in Jobs |-> 1]
    BY <2>1, <2>2
  <2>4. batch' = [j \in Jobs |-> 0]
    BY <1>1 DEF Worker!Tick, Worker!BeginCycle
  <2> QED
    BY <1>0, <2>1, <2>2, <2>3, <2>4
<1>2. CASE Worker!Stop
  BY <1>2 DEF Worker!Stop
<1>3. CASE Worker!Close
  BY <1>3 DEF Worker!Close, Worker!Drained
<1>4. CASE Worker!Kill
  <2>1. PICK ended \in SUBSET Jobs :
          left' = [j \in Jobs |-> IF j \in ended THEN left[j] ELSE left[j] + open[j]]
    BY <1>4 DEF Worker!Kill
  <2>2. left' \in [Jobs -> Nat]
    BY <2>1
  <2>3. /\ open' = [j \in Jobs |-> 0] /\ batch' = [j \in Jobs |-> 0]
        /\ phase' = "killed"
    BY <1>4 DEF Worker!Kill
  <2> QED
    BY <1>0, <2>2, <2>3
<1>5. CASE Worker!Restart
  <2>1. /\ open' = [j \in Jobs |-> 1] /\ phase' = "running"
        /\ batch' = [j \in Jobs |-> 0] /\ UNCHANGED left
    BY <1>5 DEF Worker!Restart, Worker!BeginCycle
  <2> QED
    BY <1>0, <2>1
<1> QED
  BY <1>1, <1>2, <1>3, <1>4, <1>5 DEF Worker!Process

LEMMA StepKeepsWorkerInv ==
  ASSUME WorkerInv, [SweepNext]_<<vars, worker>>
  PROVE  WorkerInv'
<1>1. CASE UNCHANGED worker
  BY <1>1 DEF worker, WorkerInv, Worker!ActiveRun
<1>2. CASE SweepsMonitor
  <2>1. "PULSE" \in Jobs
    BY DEF Jobs
  <2> QED
    BY <1>2, <2>1, DrainKeeps DEF SweepsMonitor
<1>3. CASE SweepsOthers \/ SweepFails
  BY <1>3, DrainKeeps DEF SweepsOthers, SweepFails, Jobs
<1>4. CASE Worker!Process
  BY <1>4, ProcessKeeps
<1>5. CASE LeftSweeps
  <2>1. PICK j \in Jobs : Worker!LeftEnds(j)
    BY <1>5 DEF LeftSweeps, Jobs
  <2>2. left' \in [Jobs -> Nat]
    BY <2>1 DEF Worker!LeftEnds, WorkerInv
  <2> QED
    BY <2>1, <2>2 DEF Worker!LeftEnds, WorkerInv, Worker!ActiveRun
<1> QED
  BY <1>1, <1>2, <1>3, <1>4, <1>5 DEF SweepNext

LEMMA WorkerInvariant == SweepSpec => []WorkerInv
<1>1. SweepInit => WorkerInv
  BY InitWorkerInv
<1>2. WorkerInv /\ [SweepNext]_<<vars, worker>> => WorkerInv'
  BY StepKeepsWorkerInv
<1> QED
  BY <1>1, <1>2, PTL DEF SweepSpec

(* A cycle that outlasts the interval, a failing job, a stop and a restart *)
(* never let a process have two sweeps of one job under way (run).  A      *)
(* killed process may leave one more in the database, which is `left`.     *)
THEOREM CyclesNeverOverlap == SweepSpec => []OneSweepPerJob
<1>1. WorkerInv => OneSweepPerJob
  BY DEF WorkerInv, OneSweepPerJob, Worker!OneSweepPerJob, Jobs
<1> QED
  BY <1>1, WorkerInvariant, PTL

(* stop closes the database only when every drain has ended.               *)
THEOREM ClosedIsAlwaysQuiet == SweepSpec => []ClosedIsQuiet
<1>1. WorkerInv => ClosedIsQuiet
  BY DEF WorkerInv, ClosedIsQuiet, Worker!ClosedIsQuiet
<1> QED
  BY <1>1, WorkerInvariant, PTL

(* Every variable of the worker keeps its type: no drain goes beyond its   *)
(* batches, however often cycles begin, stop and begin again.              *)
THEOREM WorkerTypesAreKept == SweepSpec => []Worker!TypeOK
<1>1. WorkerInv => Worker!TypeOK
  BY DEF WorkerInv, Worker!TypeOK, Jobs
<1> QED
  BY <1>1, WorkerInvariant, PTL

(* Whatever the worker does, the monitor behaves as PulseMonitor says: a   *)
(* sweep is its own ExpireDue, and no other batch touches it.              *)
THEOREM SweepUsesMonitor == SweepSpec => Spec
<1>1. SweepInit => Init
  BY DEF SweepInit
<1>2. [SweepNext]_<<vars, worker>> => [Next]_vars
  BY DEF SweepNext, SweepsMonitor, SweepsOthers, SweepFails, LeftSweeps, Next
<1> QED
  BY <1>1, <1>2, PTL DEF SweepSpec, Spec
=============================================================================
