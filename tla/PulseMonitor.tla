---------------------------- MODULE PulseMonitor ----------------------------
(***************************************************************************)
(* PULSE: one heartbeat monitor from its dispensing to its end.  A ping is *)
(* two transactions, an owner's PATCH three: credentials, the row its body *)
(* is merged into, and the update that writes every setting back.  Each    *)
(* locks the row, reads the clock with it and expires a row that is due.   *)
(***************************************************************************)
EXTENDS Naturals

CONSTANTS
  Requests,       \* HTTP request slots, reused after each response
  HeartbeatLimit, \* heartbeats of the plan
  Texts,          \* names, descriptions and schedules an owner may set
  Unset           \* a setting that a PATCH body leaves out

ASSUME PulseAssumption ==
  /\ HeartbeatLimit \in Nat \ {0}
  /\ {"untitled", "expired"} \cap Texts = {}
  /\ Unset \notin Texts \cup BOOLEAN

VARIABLES
  row,     \* pulse_resources
  lapsed,  \* the database clock is past expires_at
  pc,      \* the next step of each request
  job,     \* its kind and, for a PATCH, its body and the merged settings
  beats    \* history: heartbeats that were answered 204

vars == <<row, lapsed, pc, job, beats>>
-----------------------------------------------------------------------------
Settings == [text: Texts \cup {"untitled", "expired"}, sharing: BOOLEAN]
Body == [text: Texts \cup {Unset}, sharing: BOOLEAN \cup {Unset}]
Kinds == {"none", "heartbeat", "get", "patch", "destroy", "visit"}

Untitled == [text |-> "untitled", sharing |-> FALSE]
NothingSet == [text |-> Unset, sharing |-> Unset]
NoJob == [kind |-> "none", body |-> NothingSet, merged |-> Untitled]

Init ==
  /\ row = [status |-> "active", owner |-> TRUE, ping |-> TRUE, count |-> 0,
            settings |-> Untitled, pinged |-> FALSE]
  /\ lapsed = FALSE
  /\ pc = [r \in Requests |-> "idle"]
  /\ job = [r \in Requests |-> NoJob]
  /\ beats = 0
-----------------------------------------------------------------------------
(* Faults that the runs must notice: mutated forms of definitions below.   *)

OneTooMany(count) == count >= HeartbeatLimit
AnyStatus(status) == status # "manually_destroyed"
ActiveOnly == lapsed /\ row.status = "active"
KeepThePingToken(record) == [record EXCEPT !.status = "exhausted"]
-----------------------------------------------------------------------------
Goto(r, step) == pc' = [pc EXCEPT ![r] = step]
Done(r) ==
  /\ Goto(r, "idle")
  /\ job' = [job EXCEPT ![r] = NoJob]
Continue(r, step) == Goto(r, step) /\ UNCHANGED job

Begin(r, kind, body, step) ==
  /\ pc[r] = "idle"
  /\ Goto(r, step)
  /\ job' = [job EXCEPT ![r] = [NoJob EXCEPT !.kind = kind, !.body = body]]
  /\ UNCHANGED <<row, lapsed, beats>>

Heartbeat(r) == Begin(r, "heartbeat", NothingSet, "credentials")
Manage(r, kind) == Begin(r, kind, NothingSet, "credentials")
Patch(r, body) == body # NothingSet /\ Begin(r, "patch", body, "credentials")
Visit(r) == Begin(r, "visit", NothingSet, "public")

IsExpirable(status) == status \in {"active", "exhausted"}
MustExpire == lapsed /\ IsExpirable(row.status)
ExpireLocked ==
  row' = [row EXCEPT !.status = "expired", !.owner = FALSE, !.ping = FALSE,
                     !.settings = [text |-> "expired", sharing |-> FALSE],
                     !.pinged = FALSE]

(* What every operation does first; none of them counts as a heartbeat.    *)
ExpiresFirst(r) == MustExpire /\ ExpireLocked /\ Done(r) /\ UNCHANGED <<lapsed, beats>>

Token(kind) == IF kind = "heartbeat" THEN row.ping ELSE row.owner

GetCredentialHashes(r) ==
  /\ pc[r] = "credentials"
  /\ \/ ExpiresFirst(r)
     \/ /\ ~MustExpire
        /\ IF Token(job[r].kind) THEN Continue(r, job[r].kind) ELSE Done(r)
        /\ UNCHANGED <<row, lapsed, beats>>

Exhausts(count) == count + 1 >= HeartbeatLimit
Exhausted(record) == [record EXCEPT !.status = "exhausted", !.ping = FALSE]
Beaten(record) == [record EXCEPT !.count = @ + 1, !.pinged = TRUE]

AcceptHeartbeat(r) ==
  /\ pc[r] = "heartbeat"
  /\ \/ ExpiresFirst(r)
     \/ /\ ~MustExpire /\ row.status = "active"
        /\ row' = IF Exhausts(row.count) THEN Exhausted(Beaten(row)) ELSE Beaten(row)
        /\ beats' = beats + 1
        /\ Done(r) /\ UNCHANGED lapsed
     \/ /\ ~MustExpire /\ row.status # "active"
        /\ Done(r) /\ UNCHANGED <<row, lapsed, beats>>

(* parsePulseSettings: a setting the body leaves out is the current one;   *)
(* an invalid body is answered 400, which is Fail.                         *)
Merge(current, body) ==
  [f \in DOMAIN current |-> IF body[f] = Unset THEN current[f] ELSE body[f]]

(* getResource returns a destroyed row as well.                            *)
GetResource(r) ==
  \/ /\ pc[r] \in {"get", "patch"}
     /\ ExpiresFirst(r)
  \/ /\ pc[r] = "get" /\ ~MustExpire
     /\ Done(r) /\ UNCHANGED <<row, lapsed, beats>>
  \/ /\ pc[r] = "patch" /\ ~MustExpire
     /\ Goto(r, "update")
     /\ job' = [job EXCEPT ![r] = [NoJob EXCEPT
                 !.kind = "patch", !.merged = Merge(row.settings, job[r].body)]]
     /\ UNCHANGED <<row, lapsed, beats>>

Updatable(status) == IsExpirable(status)

UpdateSettings(r) ==
  /\ pc[r] = "update"
  /\ \/ ExpiresFirst(r)
     \/ /\ ~MustExpire
        /\ row' = IF Updatable(row.status) THEN [row EXCEPT !.settings = job[r].merged]
                                           ELSE row
        /\ Done(r) /\ UNCHANGED <<lapsed, beats>>

(* The settings and the last ping stay in the row.                         *)
Destroy(r) ==
  /\ pc[r] = "destroy"
  /\ \/ ExpiresFirst(r)
     \/ /\ ~MustExpire
        /\ row' = IF IsExpirable(row.status)
                  THEN [row EXCEPT !.status = "manually_destroyed",
                                   !.owner = FALSE, !.ping = FALSE]
                  ELSE row
        /\ Done(r) /\ UNCHANGED <<lapsed, beats>>

(* The public page: anyone's visit may expire the row.                     *)
GetPublicResource(r) ==
  /\ pc[r] = "public"
  /\ \/ ExpiresFirst(r)
     \/ ~MustExpire /\ Done(r) /\ UNCHANGED <<row, lapsed, beats>>
-----------------------------------------------------------------------------
(* The worker, the clock, and requests that end or die between steps.      *)

Due == lapsed /\ IsExpirable(row.status)

ExpireDue == Due /\ ExpireLocked /\ UNCHANGED <<lapsed, pc, job, beats>>

Lapse == ~lapsed /\ lapsed' = TRUE /\ UNCHANGED <<row, pc, job, beats>>

Fail(r) == pc[r] # "idle" /\ Done(r) /\ UNCHANGED <<row, lapsed, beats>>

Serve(r) ==
  \/ GetCredentialHashes(r) \/ AcceptHeartbeat(r) \/ GetResource(r)
  \/ UpdateSettings(r) \/ Destroy(r) \/ GetPublicResource(r)

Handle ==
  \E r \in Requests :
    \/ Heartbeat(r) \/ Visit(r) \/ Serve(r) \/ Fail(r)
    \/ \E kind \in {"get", "destroy"} : Manage(r, kind)
    \/ \E body \in Body : Patch(r, body)

Next == Handle \/ ExpireDue \/ Lapse

Spec == Init /\ [][Next]_vars
-----------------------------------------------------------------------------
(* Every variable has its type.                                            *)
TypeOK ==
  /\ row \in [status: {"active", "exhausted", "expired", "manually_destroyed"},
              owner: BOOLEAN, ping: BOOLEAN, count: Nat,
              settings: Settings, pinged: BOOLEAN]
  /\ lapsed \in BOOLEAN
  /\ pc \in [Requests -> {"idle", "credentials", "heartbeat", "get", "patch",
                          "update", "destroy", "public"}]
  /\ job \in [Requests -> [kind: Kinds, body: Body, merged: Settings]]
  /\ beats \in Nat

(* No transaction runs into the CHECK of the table: the tokens that are    *)
(* left follow from the status and the count, whatever pings had already   *)
(* passed their token check when the last heartbeat was taken.             *)
TokensFollowTheCount ==
  /\ row.owner <=> IsExpirable(row.status)
  /\ row.ping <=> row.status = "active"
  /\ row.status = "active" => row.count < HeartbeatLimit
  /\ row.status = "exhausted" => row.count = HeartbeatLimit

(* What has expired keeps no name, no sharing and no last ping, whatever   *)
(* PATCH had read the row before.                                          *)
ExpiryIsFinal ==
  row.status = "expired" =>
    row.settings = [text |-> "expired", sharing |-> FALSE] /\ ~row.pinged

(* And nothing changes a row that has expired or was destroyed.            *)
EndIsFinal == [][~IsExpirable(row.status) => UNCHANGED row]_vars

(* A monitor is a metered capability: each heartbeat that was answered is  *)
(* counted once, none after the quota, the expiry or the destruction.      *)
Quota == INSTANCE Metered WITH
  Limit <- HeartbeatLimit, used <- beats,
  spent <- row.status # "active", ended <- lapsed \/ ~IsExpirable(row.status)
MonitorIsMetered == Quota!Spec
=============================================================================
