---------------------------- MODULE WhisperVault ----------------------------
(***************************************************************************)
(* WHISPER: from the order of an encrypted handoff to its last read.  The  *)
(* schedule is computed from the order's creation when the order is        *)
(* dispensed, possibly much later; the row is then read by concurrent      *)
(* GET /w/:publicId requests, each three queries of its own, while the     *)
(* expiry worker sweeps.                                                   *)
(***************************************************************************)
EXTENDS Naturals, Sequences

CONSTANTS
  Whispers,    \* an order and the row it is dispensed into are one value
  Readers,     \* GET request slots, reused after each response
  ReadLimits,  \* read allowances on sale
  Duration,    \* life of the plan, from the order's creation
  Usable,      \* one hour: what a scheduled reveal leaves before expiry
  Tolerance,   \* 60 s: how far in the past a requested reveal may lie
  Slack,       \* 1 s: the clock slack of whispers_reveal_window_check
  MaxTime,     \* bounds the clock
  Immediately, \* no requested reveal date
  NoWhisper, NoReader

ASSUME WhisperAssumption ==
  /\ {Duration, Usable, Tolerance, Slack, MaxTime} \subseteq Nat
  /\ ReadLimits \subseteq Nat \ {0}
  /\ Usable > Slack
  /\ Immediately \notin Nat
  /\ NoWhisper \notin Whispers /\ NoReader \notin Readers

VARIABLES
  order,     \* payment_orders of WHISPERs
  row,       \* whispers
  lock,      \* the consume transaction that holds a row
  now,       \* the clock of the server, the worker and the database
  pc,        \* the next step of each GET
  target,    \* the whisper each GET asks for, with its read token
  openedAt,  \* when a GET's transaction took the row it is about to read
  opened,    \* history: when each committed read took its row
  handed     \* history: ciphertexts that reached a reader

local == <<pc, target, openedAt>>
vars == <<order, row, lock, now, local, opened, handed>>
-----------------------------------------------------------------------------
Times == 0 .. (MaxTime + Duration)
Requests == Times \cup {Immediately}
OrderRow == [status: {"absent", "accepted", "created", "paid", "dispensed"},
             createdAt: Times, revealAt: Requests, limit: Nat]
Row == [status: {"absent", "active", "consumed", "expired"}, ciphertext: BOOLEAN,
        createdAt: Times, revealAt: Times, expiresAt: Times,
        reads: Nat, limit: Nat]

NoOrder == [status |-> "absent", createdAt |-> 0, revealAt |-> Immediately,
            limit |-> 0]
NoRow == [status |-> "absent", ciphertext |-> FALSE, createdAt |-> 0,
          revealAt |-> 0, expiresAt |-> 0, reads |-> 0, limit |-> 0]

Init ==
  /\ order = [w \in Whispers |-> NoOrder]
  /\ row = [w \in Whispers |-> NoRow]
  /\ lock = [w \in Whispers |-> NoReader]
  /\ now = 0
  /\ pc = [r \in Readers |-> "idle"]
  /\ target = [r \in Readers |-> NoWhisper]
  /\ openedAt = [r \in Readers |-> 0]
  /\ opened = [w \in Whispers |-> <<>>]
  /\ handed = [w \in Whispers |-> 0]
-----------------------------------------------------------------------------
(* Faults that the runs must notice: mutated forms of definitions below.   *)

WithoutRowLock(w) == TRUE
RevealedAlready(w) == TRUE
WindowWithoutLowerBound(created, reveal, expires) ==
  reveal <= created + Slack \/ reveal + Usable <= expires
ClosedButKept(record, status) == [record EXCEPT !.status = status]
-----------------------------------------------------------------------------
(* The order: calculateWhisperSchedule, at POST and again at dispensing.   *)

RevealAt(purchasedAt, requested) ==
  IF requested = Immediately \/ requested < purchasedAt THEN purchasedAt
                                                        ELSE requested
Schedulable(purchasedAt, requested) ==
  /\ requested # Immediately => requested + Tolerance >= purchasedAt
  /\ RevealAt(purchasedAt, requested) + Usable <= purchasedAt + Duration

(* POST /api/payments/whisper checks a requested date against its own      *)
(* clock; the row it goes on to insert is stamped later (CreateOrder).     *)
AcceptOrder(w, requested, limit) ==
  /\ order[w].status = "absent"
  /\ row[w].status = "absent"
  /\ requested # Immediately => Schedulable(now, requested)
  /\ order' = [order EXCEPT ![w] = [status |-> "accepted", createdAt |-> 0,
                                    revealAt |-> requested, limit |-> limit]]
  /\ UNCHANGED <<row, lock, now, local, opened, handed>>

CreateOrder(w) ==
  /\ order[w].status = "accepted"
  /\ order' = [order EXCEPT ![w].status = "created", ![w].createdAt = now]
  /\ UNCHANGED <<row, lock, now, local, opened, handed>>

Pay(w) ==
  /\ order[w].status = "created"
  /\ order' = [order EXCEPT ![w].status = "paid"]
  /\ UNCHANGED <<row, lock, now, local, opened, handed>>

(* whispers_reveal_window_check.                                           *)
RevealWindow(created, reveal, expires) ==
  /\ reveal + Slack >= created
  /\ reveal <= created + Slack \/ reveal + Usable <= expires

(* The row is stamped by the database when it is inserted; either CHECK of *)
(* the table may refuse it.                                                *)
Insertable(reveal, expires) == expires > now /\ RevealWindow(now, reveal, expires)

InsertWhisper(w, reveal, expires, limit) ==
  /\ Insertable(reveal, expires)
  /\ row' = [row EXCEPT ![w] =
       [status |-> "active", ciphertext |-> TRUE, createdAt |-> now,
        revealAt |-> reveal, expiresAt |-> expires, reads |-> 0, limit |-> limit]]
  /\ UNCHANGED <<lock, now, local, opened, handed>>

(* The dispensing transaction; when it throws it is rolled back, and the   *)
(* order stays paid.                                                       *)
Dispense(w) ==
  LET o == order[w] IN
  /\ o.status = "paid"
  /\ Schedulable(o.createdAt, o.revealAt)
  /\ InsertWhisper(w, RevealAt(o.createdAt, o.revealAt), o.createdAt + Duration,
                   o.limit)
  /\ order' = [order EXCEPT ![w].status = "dispensed"]

DispenseFails(w) ==
  LET o == order[w] IN
  /\ o.status = "paid"
  /\ ~ (Schedulable(o.createdAt, o.revealAt)
          /\ Insertable(RevealAt(o.createdAt, o.revealAt), o.createdAt + Duration))
  /\ UNCHANGED vars

(* POST /internal/whisper/provision: no order, the schedule starts when    *)
(* the handler read its clock.                                             *)
Provision(w, at, limit) ==
  /\ order[w].status = "absent"
  /\ row[w].status = "absent"
  /\ at <= now
  /\ Schedulable(at, Immediately)
  /\ InsertWhisper(w, RevealAt(at, Immediately), at + Duration, limit)
  /\ UNCHANGED order
-----------------------------------------------------------------------------
(* GET /w/:publicId: getCredentialHash, getAvailability, consume.          *)

Unlocked(w) == lock[w] = NoReader
Live(w) == row[w].status = "active" /\ now < row[w].expiresAt
Revealed(w) == now >= row[w].revealAt

Goto(r, step) ==
  /\ pc' = [pc EXCEPT ![r] = step]
  /\ UNCHANGED <<order, row, lock, now, target, openedAt, opened, handed>>

(* The response (404, 425 or 500) or the death of the request: a row lock  *)
(* it holds goes with its transaction.                                     *)
Leave(r) ==
  /\ pc' = [pc EXCEPT ![r] = "idle"]
  /\ target' = [target EXCEPT ![r] = NoWhisper]
  /\ openedAt' = [openedAt EXCEPT ![r] = 0]
  /\ lock' = [w \in Whispers |-> IF lock[w] = r THEN NoReader ELSE lock[w]]

GiveUp(r) == Leave(r) /\ UNCHANGED <<order, row, now, opened, handed>>

Get(r, w) ==
  /\ pc[r] = "idle"
  /\ row[w].status # "absent"
  /\ pc' = [pc EXCEPT ![r] = "credential"]
  /\ target' = [target EXCEPT ![r] = w]
  /\ UNCHANGED <<order, row, lock, now, openedAt, opened, handed>>

GetCredentialHash(r) ==
  /\ pc[r] = "credential"
  /\ IF Live(target[r]) THEN Goto(r, "availability") ELSE GiveUp(r)

GetAvailability(r) ==
  /\ pc[r] = "availability"
  /\ IF Live(target[r]) /\ Revealed(target[r]) THEN Goto(r, "select")
                                               ELSE GiveUp(r)

Expires(w) == now >= row[w].expiresAt
Closed(record, status) ==
  [record EXCEPT !.status = status, !.ciphertext = FALSE]
Burnt(record) == [Closed(record, "consumed") EXCEPT !.reads = record.limit]
Read(record) == [record EXCEPT !.reads = @ + 1]

(* select ... for update, and the expiry found under the lock.             *)
SelectForUpdate(r) ==
  LET w == target[r] IN
  /\ pc[r] = "select"
  /\ Unlocked(w)
  /\ \/ /\ ~(row[w].status = "active" /\ Revealed(w))
        /\ GiveUp(r)
     \/ /\ row[w].status = "active"
        /\ Revealed(w)
        /\ Expires(w)
        /\ row' = [row EXCEPT ![w] = Closed(@, "expired")]
        /\ Leave(r)
        /\ UNCHANGED <<order, now, opened, handed>>
     \/ /\ row[w].status = "active"
        /\ Revealed(w)
        /\ ~Expires(w)
        /\ lock' = [lock EXCEPT ![w] = r]
        /\ openedAt' = [openedAt EXCEPT ![r] = now]
        /\ pc' = [pc EXCEPT ![r] = "commit"]
        /\ UNCHANGED <<order, row, now, target, opened, handed>>

FinalRead(w) == row[w].reads + 1 >= row[w].limit

(* The read is counted and committed before the ciphertext is sent.        *)
CommitRead(r) ==
  LET w == target[r] IN
  /\ pc[r] = "commit"
  /\ row' = [row EXCEPT ![w] = IF FinalRead(w) THEN Burnt(@) ELSE Read(@)]
  /\ opened' = [opened EXCEPT ![w] = Append(@, openedAt[r])]
  /\ lock' = [lock EXCEPT ![w] = NoReader]
  /\ pc' = [pc EXCEPT ![r] = "reply"]
  /\ UNCHANGED <<order, now, target, openedAt, handed>>

Reply(r) ==
  /\ pc[r] = "reply"
  /\ handed' = [handed EXCEPT ![target[r]] = @ + 1]
  /\ Leave(r)
  /\ UNCHANGED <<order, row, now, opened>>

(* A crash or a lost connection; a read already committed is spent.        *)
Fail(r) == pc[r] # "idle" /\ GiveUp(r)
-----------------------------------------------------------------------------
(* The expiry worker (it skips locked rows) and the clock.                 *)

ExpireDue(w) ==
  /\ row[w].status = "active"
  /\ Expires(w)
  /\ Unlocked(w)
  /\ row' = [row EXCEPT ![w] = Closed(@, "expired")]
  /\ UNCHANGED <<order, lock, now, local, opened, handed>>

Tick ==
  /\ now < MaxTime
  /\ now' = now + 1
  /\ UNCHANGED <<order, row, lock, local, opened, handed>>
-----------------------------------------------------------------------------
Sell(w) ==
  \/ \E requested \in Requests, limit \in ReadLimits : AcceptOrder(w, requested, limit)
  \/ CreateOrder(w) \/ Pay(w) \/ Dispense(w) \/ DispenseFails(w)
  \/ \E at \in 0 .. now, limit \in ReadLimits : Provision(w, at, limit)

Serve(r) ==
  \/ GetCredentialHash(r) \/ GetAvailability(r) \/ SelectForUpdate(r)
  \/ CommitRead(r) \/ Reply(r)

Next ==
  \/ \E w \in Whispers : Sell(w) \/ ExpireDue(w)
  \/ \E r \in Readers : Serve(r) \/ Fail(r) \/ \E w \in Whispers : Get(r, w)
  \/ Tick

Spec == Init /\ [][Next]_vars
-----------------------------------------------------------------------------
(* Safety.                                                                 *)

(* Every variable has its type.                                            *)
TypeOK ==
  /\ order \in [Whispers -> OrderRow]
  /\ row \in [Whispers -> Row]
  /\ lock \in [Whispers -> Readers \cup {NoReader}]
  /\ now \in 0 .. MaxTime
  /\ pc \in [Readers -> {"idle", "credential", "availability", "select",
                         "commit", "reply"}]
  /\ target \in [Readers -> Whispers \cup {NoWhisper}]
  /\ openedAt \in [Readers -> Times]
  /\ opened \in [Whispers -> Seq(Times)]
  /\ handed \in [Whispers -> Nat]

(* The allowance is exact under concurrent reads and crashes: an active    *)
(* whisper has given fewer ciphertexts than its limit and counted each, a  *)
(* consumed one has given exactly its limit and holds nothing any more.    *)
AllowanceIsExact ==
  \A w \in Whispers :
    /\ handed[w] <= Len(opened[w])
    /\ row[w].status = "active" => Len(opened[w]) = row[w].reads
                                     /\ row[w].reads < row[w].limit
    /\ row[w].status = "consumed" => Len(opened[w]) = row[w].limit
                                       /\ ~row[w].ciphertext
    /\ row[w].status = "expired" => Len(opened[w]) < row[w].limit
                                      /\ ~row[w].ciphertext

(* No ciphertext leaves before its reveal or after its expiry, whatever a  *)
(* GET found in its earlier queries.                                       *)
ReadsWithinWindow ==
  \A w \in Whispers : \A n \in 1 .. Len(opened[w]) :
    row[w].revealAt <= opened[w][n] /\ opened[w][n] < row[w].expiresAt

(* However late the payment, a dispensed whisper can be read for an hour   *)
(* (less the database's clock slack) from the later of its reveal and its  *)
(* dispensing.                                                             *)
LeavesAnHour ==
  \A w \in Whispers : row[w].status # "absent" =>
    /\ row[w].revealAt + Usable <= row[w].expiresAt
    /\ row[w].createdAt + Usable <= row[w].expiresAt + Slack

(* What was bought as an immediate handoff (README.md:56) and is paid can  *)
(* be dispensed as long as an hour of its life is left.                    *)
ImmediateIsDispensable ==
  \A w \in Whispers :
    LET o == order[w] IN
    (o.status = "paid" /\ o.revealAt = Immediately
       /\ now + Usable <= o.createdAt + Duration)
      => Insertable(RevealAt(o.createdAt, o.revealAt), o.createdAt + Duration)
-----------------------------------------------------------------------------
(* Liveness: the worker runs and requests are scheduled.                   *)

Fairness ==
  /\ \A w \in Whispers : WF_vars(ExpireDue(w))
  /\ \A r \in Readers : WF_vars(Serve(r))

FairSpec == Spec /\ Fairness

(* A ciphertext past its expiry is erased, although the worker skips rows  *)
(* that are being read.                                                    *)
DueIsErased ==
  \A w \in Whispers :
    (row[w].status = "active" /\ Expires(w)) ~> ~row[w].ciphertext
=============================================================================
