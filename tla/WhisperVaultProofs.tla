------------------------- MODULE WhisperVaultProofs -------------------------
(***************************************************************************)
(* WHISPER, for every number of orders and readers, every schedule and     *)
(* every read allowance: the types, the allowance, the window of the reads *)
(* and the hour a dispensed whisper leaves.                                *)
(***************************************************************************)
EXTENDS WhisperVault, FiniteSetTheorems, TLAPS

(* Readers whose read is committed and whose response is not yet sent.     *)
Replying(w) == {r \in Readers : pc[r] = "reply" /\ target[r] = w}

(* An order that can still be dispensed has no row, a row that does not    *)
(* exist has given nothing, and every committed read is handed out, about  *)
(* to be, or lost.                                                         *)
WhisperInv(w) ==
  /\ order[w].status \in {"accepted", "created", "paid"} =>
       row[w].status = "absent" /\ order[w].limit \in ReadLimits
  /\ order[w].createdAt <= now
  /\ row[w].status = "absent" => opened[w] = <<>>
  /\ IsFiniteSet(Replying(w))
  /\ handed[w] + Cardinality(Replying(w)) <= Len(opened[w])

(* What the row says: how much was read, when, and how long it lives.      *)
RowInv(w) ==
  /\ row[w].status = "active" =>
       Len(opened[w]) = row[w].reads /\ row[w].reads < row[w].limit
  /\ row[w].status = "consumed" =>
       Len(opened[w]) = row[w].limit /\ ~row[w].ciphertext
  /\ row[w].status = "expired" =>
       Len(opened[w]) < row[w].limit /\ ~row[w].ciphertext
  /\ \A n \in 1 .. Len(opened[w]) :
       row[w].revealAt <= opened[w][n] /\ opened[w][n] < row[w].expiresAt
  /\ row[w].status # "absent" =>
       /\ row[w].revealAt + Usable <= row[w].expiresAt
       /\ row[w].createdAt + Usable <= row[w].expiresAt + Slack

(* What a reader relies on when it commits: the row it locked is still     *)
(* active, and the moment it took it lies in the window.                   *)
ReaderInv(r) ==
  /\ pc[r] # "idle" => target[r] \in Whispers
  /\ pc[r] = "commit" =>
       /\ lock[target[r]] = r
       /\ row[target[r]].status = "active"
       /\ row[target[r]].revealAt <= openedAt[r]
       /\ openedAt[r] < row[target[r]].expiresAt

IInv ==
  /\ TypeOK
  /\ \A w \in Whispers : WhisperInv(w) /\ RowInv(w)
  /\ \A r \in Readers : ReaderInv(r)

LEMMA Assumptions ==
  /\ Duration \in Nat /\ Usable \in Nat /\ Tolerance \in Nat /\ Slack \in Nat
  /\ MaxTime \in Nat /\ ReadLimits \subseteq Nat /\ 0 \notin ReadLimits
  /\ Usable > Slack /\ Immediately \notin Nat
  /\ NoWhisper \notin Whispers /\ NoReader \notin Readers
BY WhisperAssumption

LEMMA InitIInv == Init => IInv
<1> SUFFICES ASSUME Init PROVE IInv
  OBVIOUS
<1>1. NoOrder \in OrderRow /\ NoRow \in Row
  BY Assumptions DEF NoOrder, OrderRow, NoRow, Row, Times, Requests
<1>2. TypeOK
  <2> HIDE DEF NoOrder, NoRow
  <2>1. <<>> \in Seq(Times) /\ 0 \in Times /\ 0 \in 0 .. MaxTime
    BY Assumptions DEF Times
  <2> QED
    BY <1>1, <2>1 DEF Init, TypeOK
<1>3. ASSUME NEW w \in Whispers PROVE WhisperInv(w)
  <2>1. Replying(w) = {}
    BY DEF Init, Replying
  <2>2. IsFiniteSet(Replying(w)) /\ Cardinality(Replying(w)) = 0
    BY <2>1, FS_EmptySet
  <2>3. /\ order[w].status = "absent" /\ order[w].createdAt = 0 /\ now = 0
        /\ opened[w] = <<>> /\ handed[w] = 0 /\ Len(opened[w]) = 0
    BY DEF Init, NoOrder
  <2> QED
    BY <2>2, <2>3 DEF WhisperInv
<1>4. ASSUME NEW r \in Readers PROVE ReaderInv(r)
  BY DEF Init, ReaderInv
<1>5. \A w \in Whispers : row[w].status = "absent" /\ Len(opened[w]) = 0
  BY DEF Init, NoRow
<1>6. ASSUME NEW w \in Whispers PROVE RowInv(w)
  <2>1. 1 .. Len(opened[w]) = {}
    BY <1>5
  <2> QED
    BY <1>5, <2>1 DEF RowInv
<1> QED
  BY <1>2, <1>3, <1>4, <1>6 DEF IInv
-----------------------------------------------------------------------------
LEMMA ReplyingIsHanded ==
  ASSUME TypeOK, NEW w \in Whispers, WhisperInv(w)
  PROVE  /\ Cardinality(Replying(w)) \in Nat /\ handed[w] \in Nat
         /\ opened[w] \in Seq(Times) /\ Len(opened[w]) \in Nat
BY FS_CardinalityType DEF TypeOK, WhisperInv
-----------------------------------------------------------------------------
(* Selling.  Only the order and, at the dispensing, the row change.        *)
Insert(w, reveal, expires, limit) ==
  /\ reveal \in Times /\ expires \in Times /\ limit \in ReadLimits
  /\ row[w].status = "absent"
  /\ reveal + Usable <= expires
  /\ InsertWhisper(w, reveal, expires, limit)

LEMMA InsertKeepsRows ==
  ASSUME IInv, NEW w \in Whispers, NEW reveal, NEW expires, NEW limit,
         Insert(w, reveal, expires, limit)
  PROVE  /\ row' \in [Whispers -> Row]
         /\ \A v \in Whispers : RowInv(v)'
         /\ row'[w].status = "active"
         /\ \A v \in Whispers \ {w} : row'[v] = row[v]
<1> DEFINE new == [status |-> "active", ciphertext |-> TRUE, createdAt |-> now,
                   revealAt |-> reveal, expiresAt |-> expires, reads |-> 0,
                   limit |-> limit]
<1>1. row' = [row EXCEPT ![w] = new] /\ UNCHANGED <<now, opened, handed>>
  BY DEF Insert, InsertWhisper
<1>2. now \in Times /\ now \in Nat
  BY Assumptions DEF IInv, TypeOK, Times
<1>3. new \in Row
  BY <1>2, Assumptions DEF Insert, Row
<1>4. row \in [Whispers -> Row]
  BY DEF IInv, TypeOK
<1>5. RowInv(w)'
  <2>1. row'[w] = new
    BY <1>1, <1>4
  <2>2. opened'[w] = <<>> /\ Len(opened'[w]) = 0
    BY <1>1 DEF IInv, WhisperInv, Insert
  <2>4. limit \in Nat /\ 0 < limit
    BY Assumptions DEF Insert
  <2>5. reveal + Slack >= now /\ reveal \in Nat /\ expires \in Nat
    BY Assumptions DEF Insert, InsertWhisper, Insertable, RevealWindow, Times
  <2>6. now + Usable <= expires + Slack
    BY <2>5, <1>2, Assumptions DEF Insert
  <2> QED
    BY <2>1, <2>2, <2>4, <2>6 DEF RowInv, Insert
<1>6. ASSUME NEW v \in Whispers \ {w} PROVE RowInv(v)' /\ row'[v] = row[v]
  <2>1. row'[v] = row[v]
    BY <1>1, <1>4, <1>6
  <2>2. RowInv(v)
    BY DEF IInv
  <2> QED
    BY <2>1, <2>2, <1>1 DEF RowInv
<1> HIDE DEF new
<1>7. row'[w] = new
  BY <1>1, <1>4
<1>8. row'[w].status = "active"
  BY <1>7 DEF new
<1> QED
  BY <1>1, <1>3, <1>4, <1>5, <1>6, <1>8

(* Dispensing and provisioning insert a row with a schedule.               *)
LEMMA DispenseInserts ==
  ASSUME IInv, NEW w \in Whispers, Dispense(w)
  PROVE  \E reveal, expires, limit : Insert(w, reveal, expires, limit)
<1> DEFINE o == order[w]
           reveal == RevealAt(o.createdAt, o.revealAt)
<1>1. /\ o.createdAt \in Nat /\ o.createdAt <= now /\ now <= MaxTime /\ now \in Nat
      /\ o.revealAt \in Times \cup {Immediately}
      /\ o.limit \in ReadLimits /\ row[w].status = "absent"
  BY Assumptions DEF IInv, TypeOK, OrderRow, Requests, Times, WhisperInv, Dispense
<1>2. reveal \in Times /\ o.createdAt + Duration \in Times
  BY <1>1, Assumptions DEF RevealAt, Times
<1>3. /\ reveal + Usable <= o.createdAt + Duration
      /\ InsertWhisper(w, reveal, o.createdAt + Duration, o.limit)
  BY DEF Dispense, Schedulable
<1> QED
  BY <1>1, <1>2, <1>3 DEF Insert

LEMMA ProvisionInserts ==
  ASSUME IInv, NEW w \in Whispers, NEW at \in 0 .. now, NEW limit \in ReadLimits,
         Provision(w, at, limit)
  PROVE  \E reveal, expires : Insert(w, reveal, expires, limit)
<1>1. at \in Nat /\ at <= now /\ now <= MaxTime /\ now \in Nat
  BY Assumptions DEF IInv, TypeOK
<1>2. RevealAt(at, Immediately) \in Times /\ at + Duration \in Times
  BY <1>1, Assumptions DEF RevealAt, Times
<1>3. /\ row[w].status = "absent"
      /\ RevealAt(at, Immediately) + Usable <= at + Duration
      /\ InsertWhisper(w, RevealAt(at, Immediately), at + Duration, limit)
  BY DEF Provision, Schedulable
<1> QED
  BY <1>2, <1>3 DEF Insert

(* The order as a sale leaves it.                                          *)
Ordered(w) ==
  /\ order' \in [Whispers -> OrderRow]
  /\ \A v \in Whispers \ {w} : order'[v] = order[v]
  /\ order'[w].createdAt <= now
  /\ UNCHANGED <<lock, now, local, opened, handed>>

LEMMA SellIsOrdered ==
  ASSUME IInv, NEW w \in Whispers, Sell(w)
  PROVE  /\ Ordered(w) \/ UNCHANGED vars
         /\ \/ /\ UNCHANGED row
               /\ order'[w].status \in {"accepted", "created", "paid"} =>
                    row[w].status = "absent" /\ order'[w].limit \in ReadLimits
            \/ /\ \E reveal, expires, limit : Insert(w, reveal, expires, limit)
               /\ order'[w].status \notin {"accepted", "created", "paid"}
<1> USE Assumptions
<1>1. /\ order \in [Whispers -> OrderRow] /\ order[w] \in OrderRow
      /\ now \in Times /\ now \in Nat /\ 0 <= now
      /\ order[w].status \in {"accepted", "created", "paid"} =>
           row[w].status = "absent" /\ order[w].limit \in ReadLimits
      /\ order[w].createdAt <= now
  BY DEF IInv, TypeOK, WhisperInv, Times
<1>2. ASSUME NEW requested \in Requests, NEW limit \in ReadLimits,
             AcceptOrder(w, requested, limit)
      PROVE  /\ Ordered(w) /\ UNCHANGED row
             /\ row[w].status = "absent" /\ order'[w].limit \in ReadLimits
  <2> DEFINE new == [status |-> "accepted", createdAt |-> 0,
                     revealAt |-> requested, limit |-> limit]
  <2>1. new \in OrderRow
    BY DEF OrderRow, Times
  <2>2. order' = [order EXCEPT ![w] = new] /\ UNCHANGED <<row, lock, now, local, opened, handed>>
    BY <1>2 DEF AcceptOrder
  <2>3. new.createdAt = 0 /\ new.limit = limit
    OBVIOUS
  <2> HIDE DEF new
  <2>4. order'[w] = new /\ order' \in [Whispers -> OrderRow]
    BY <1>1, <2>1, <2>2
  <2> QED
    BY <1>1, <1>2, <2>2, <2>3, <2>4 DEF Ordered, AcceptOrder
<1>3. CASE CreateOrder(w)
  <2>1. order'[w] = [order[w] EXCEPT !.status = "created", !.createdAt = now]
    BY <1>1, <1>3 DEF CreateOrder
  <2>2. order'[w] \in OrderRow /\ order'[w].createdAt = now /\ order'[w].limit = order[w].limit
    BY <1>1, <2>1 DEF OrderRow
  <2>3. order' \in [Whispers -> OrderRow] /\ \A v \in Whispers \ {w} : order'[v] = order[v]
    BY <1>1, <1>3, <2>2 DEF CreateOrder
  <2> QED
    BY <1>1, <1>3, <2>2, <2>3 DEF CreateOrder, Ordered
<1>4. CASE Pay(w)
  <2>1. order'[w] = [order[w] EXCEPT !.status = "paid"]
    BY <1>1, <1>4 DEF Pay
  <2>2. /\ order'[w] \in OrderRow /\ order'[w].createdAt = order[w].createdAt
        /\ order'[w].limit = order[w].limit
    BY <1>1, <2>1 DEF OrderRow
  <2>3. order' \in [Whispers -> OrderRow] /\ \A v \in Whispers \ {w} : order'[v] = order[v]
    BY <1>1, <1>4, <2>2 DEF Pay
  <2> QED
    BY <1>1, <1>4, <2>2, <2>3 DEF Pay, Ordered
<1>5. CASE Dispense(w)
  <2>1. order'[w] = [order[w] EXCEPT !.status = "dispensed"]
    BY <1>1, <1>5 DEF Dispense
  <2>2. /\ order'[w] \in OrderRow /\ order'[w].createdAt = order[w].createdAt
        /\ order'[w].status = "dispensed"
    BY <1>1, <2>1 DEF OrderRow
  <2>3. order' \in [Whispers -> OrderRow] /\ \A v \in Whispers \ {w} : order'[v] = order[v]
    BY <1>1, <1>5, <2>2 DEF Dispense
  <2>4. UNCHANGED <<lock, now, local, opened, handed>>
    BY <1>5 DEF Dispense, InsertWhisper
  <2> QED
    BY <1>1, <1>5, <2>2, <2>3, <2>4, DispenseInserts DEF Ordered
<1>6. CASE DispenseFails(w)
  BY <1>1, <1>6 DEF DispenseFails, vars
<1>7. ASSUME NEW at \in 0 .. now, NEW limit \in ReadLimits, Provision(w, at, limit)
      PROVE  /\ Ordered(w)
             /\ \E reveal, expires : Insert(w, reveal, expires, limit)
             /\ order'[w].status = "absent"
  <2>1. UNCHANGED <<order, lock, now, local, opened, handed>> /\ order[w].status = "absent"
    BY <1>7 DEF Provision, InsertWhisper
  <2> QED
    BY <1>1, <1>7, <2>1, ProvisionInserts DEF Ordered
<1> QED
  BY <1>2, <1>3, <1>4, <1>5, <1>6, <1>7, <1>1 DEF Sell, CreateOrder, Pay, Ordered

LEMMA SellKeepsIInv ==
  ASSUME IInv, NEW w \in Whispers, Sell(w)
  PROVE  IInv'
<1>1. CASE UNCHANGED vars
  <2>1. \A v \in Whispers : Replying(v)' = Replying(v)
    BY <1>1 DEF vars, local, Replying
  <2> QED
    BY <1>1, <2>1 DEF vars, local, IInv, TypeOK, WhisperInv, ReaderInv, RowInv
<1>2. CASE Ordered(w)
  <2>1. UNCHANGED <<lock, now, pc, target, openedAt, opened, handed>>
    BY <1>2 DEF Ordered, local
  <2>2. \A v \in Whispers : Replying(v)' = Replying(v)
    BY <2>1 DEF Replying
  <2>3. /\ row' \in [Whispers -> Row]
        /\ \A v \in Whispers : RowInv(v)'
        /\ \A v \in Whispers \ {w} : row'[v] = row[v]
        /\ \/ /\ row'[w] = row[w]
              /\ order'[w].status \in {"accepted", "created", "paid"} =>
                   row[w].status = "absent" /\ order'[w].limit \in ReadLimits
           \/ /\ row'[w].status = "active" /\ row[w].status = "absent"
              /\ order'[w].status \notin {"accepted", "created", "paid"}
    <3>1. CASE \E reveal, expires, limit : Insert(w, reveal, expires, limit)
      <4>1. row[w].status = "absent"
        BY <3>1 DEF Insert
      <4>2. CASE order'[w].status \notin {"accepted", "created", "paid"}
        BY <3>1, <4>1, <4>2, InsertKeepsRows
      <4>3. CASE UNCHANGED row
        <5>1. row'[w].status = "active"
          BY <3>1, InsertKeepsRows
        <5> QED
          BY <4>1, <4>3, <5>1
      <4> QED
        BY <4>2, <4>3, SellIsOrdered
    <3>2. CASE UNCHANGED row /\ (order'[w].status \in {"accepted", "created", "paid"} =>
                    row[w].status = "absent" /\ order'[w].limit \in ReadLimits)
      <4>1. \A v \in Whispers : RowInv(v)
        BY DEF IInv
      <4>2. \A v \in Whispers : RowInv(v)'
        BY <2>1, <3>2, <4>1 DEF RowInv
      <4> QED
        BY <3>2, <4>2 DEF IInv, TypeOK
    <3> QED
      BY <3>1, <3>2, SellIsOrdered
  <2>4. TypeOK'
    BY <1>2, <2>1, <2>3 DEF IInv, TypeOK, Ordered
  <2>5. ASSUME NEW v \in Whispers PROVE WhisperInv(v)'
    <3>1. WhisperInv(v)
      BY DEF IInv
    <3>2. CASE v = w
      BY <1>2, <2>1, <2>2, <2>3, <3>1, <3>2 DEF WhisperInv, Ordered
    <3>3. CASE v # w
      <4>1. order'[v] = order[v] /\ row'[v] = row[v]
        BY <1>2, <2>3, <3>3 DEF Ordered
      <4> QED
        BY <2>1, <2>2, <3>1, <4>1 DEF WhisperInv
    <3> QED
      BY <3>2, <3>3
  <2>6. ASSUME NEW r \in Readers PROVE ReaderInv(r)'
    <3>1. ReaderInv(r)
      BY DEF IInv
    <3>2. pc[r] = "commit" => target[r] # w \/ row'[w] = row[w]
      BY <2>3, <3>1 DEF ReaderInv
    <3>3. pc[r] = "commit" => row'[target[r]] = row[target[r]]
      BY <2>3, <3>1, <3>2 DEF ReaderInv
    <3> QED
      BY <2>1, <3>1, <3>3 DEF ReaderInv
  <2> QED
    BY <2>3, <2>4, <2>5, <2>6 DEF IInv
<1> QED
  BY <1>1, <1>2, SellIsOrdered
-----------------------------------------------------------------------------
(* Reading.  A step of a reader, of the worker or of the clock leaves the  *)
(* orders alone; what it does to rows and readers is one of these.         *)

(* A row that nobody holds is closed, or no row is.                        *)
Closes ==
  \/ UNCHANGED row
  \/ \E w \in Whispers : /\ row[w].status = "active" /\ Unlocked(w)
                         /\ row' = [row EXCEPT ![w] = Closed(@, "expired")]

(* The fields of a row that is closed, and of one that is read.            *)
SameTerms(x, y) ==
  /\ y.createdAt = x.createdAt /\ y.revealAt = x.revealAt
  /\ y.expiresAt = x.expiresAt /\ y.limit = x.limit

LEMMA ClosedRow ==
  ASSUME NEW x \in Row, NEW s \in {"absent", "active", "consumed", "expired"},
         NEW y, y = Closed(x, s)
  PROVE  y \in Row /\ y.status = s /\ ~y.ciphertext /\ y.reads = x.reads
         /\ SameTerms(x, y)
<1> DEFINE S == {"absent", "active", "consumed", "expired"}
           SRow == [status: S, ciphertext: BOOLEAN, createdAt: Times, revealAt: Times,
                    expiresAt: Times, reads: Nat, limit: Nat]
<1>1. x \in SRow /\ s \in S /\ y = [x EXCEPT !.status = s, !.ciphertext = FALSE]
  BY DEF Row, Closed
<1> SUFFICES y \in SRow /\ y.status = s /\ ~y.ciphertext /\ y.reads = x.reads
             /\ SameTerms(x, y)
  BY DEF Row
<1> HIDE DEF S
<1> QED
  BY <1>1 DEF SameTerms

LEMMA CountedRow ==
  ASSUME NEW x \in Row, NEW n \in Nat, NEW y, y = [x EXCEPT !.reads = n]
  PROVE  y \in Row /\ y.status = x.status /\ y.ciphertext = x.ciphertext
         /\ y.reads = n /\ SameTerms(x, y)
<1> DEFINE S == {"absent", "active", "consumed", "expired"}
           SRow == [status: S, ciphertext: BOOLEAN, createdAt: Times, revealAt: Times,
                    expiresAt: Times, reads: Nat, limit: Nat]
<1>1. x \in SRow
  BY DEF Row
<1> SUFFICES y \in SRow /\ y.status = x.status /\ y.ciphertext = x.ciphertext
             /\ y.reads = n /\ SameTerms(x, y)
  BY DEF Row
<1> HIDE DEF S
<1> QED
  BY <1>1 DEF SameTerms

LEMMA ClosingKeepsRows ==
  ASSUME IInv, Closes, UNCHANGED opened
  PROVE  /\ row' \in [Whispers -> Row]
         /\ \A w \in Whispers : /\ RowInv(w)'
                                /\ row'[w].status = "absent" <=> row[w].status = "absent"
         /\ \A r \in Readers : pc[r] = "commit" => row'[target[r]] = row[target[r]]
<1>1. row \in [Whispers -> Row] /\ \A w \in Whispers : RowInv(w)
  BY DEF IInv, TypeOK
<1>2. CASE UNCHANGED row
  BY <1>1, <1>2 DEF RowInv
<1>3. ASSUME NEW w \in Whispers, row[w].status = "active", Unlocked(w),
             row' = [row EXCEPT ![w] = Closed(@, "expired")]
      PROVE  /\ row' \in [Whispers -> Row]
             /\ \A v \in Whispers : /\ RowInv(v)'
                                    /\ row'[v].status = "absent" <=> row[v].status = "absent"
             /\ \A r \in Readers : pc[r] = "commit" => row'[target[r]] = row[target[r]]
  <2>1. row'[w] = Closed(row[w], "expired")
    BY <1>1, <1>3
  <2>9. row[w] \in Row
    BY <1>1
  <2>2. /\ row'[w] \in Row /\ row'[w].status = "expired" /\ ~row'[w].ciphertext
        /\ row'[w].reads = row[w].reads /\ SameTerms(row[w], row'[w])
    BY <2>1, <2>9, ClosedRow
  <2>3. \A v \in Whispers \ {w} : row'[v] = row[v]
    BY <1>1, <1>3
  <2>4. row' \in [Whispers -> Row]
    BY <1>1, <1>3, <2>2
  <2>5. RowInv(w)'
    BY <1>1, <1>3, <2>2 DEF RowInv, SameTerms
  <2>6. \A v \in Whispers \ {w} : RowInv(v)'
    BY <1>1, <2>3 DEF RowInv
  <2>7. ASSUME NEW r \in Readers, pc[r] = "commit" PROVE target[r] \in Whispers \ {w}
    BY <1>3, <2>7, Assumptions DEF IInv, ReaderInv, Unlocked
  <2> QED
    BY <1>3, <2>2, <2>3, <2>4, <2>5, <2>6, <2>7
<1> QED
  BY <1>2, <1>3 DEF Closes

(* The worker and the clock leave the readers alone.                       *)
LEMMA SweepKeepsIInv ==
  ASSUME IInv, Closes, now' \in 0 .. MaxTime, now <= now',
         UNCHANGED <<order, lock, local, opened, handed>>
  PROVE  IInv'
<1>1. \A w \in Whispers : Replying(w)' = Replying(w)
  BY DEF Replying, local
<1>2. TypeOK'
  BY ClosingKeepsRows DEF IInv, TypeOK, local
<1>3. ASSUME NEW w \in Whispers PROVE WhisperInv(w)'
  <2>1. /\ order[w].createdAt \in Nat /\ now \in Nat /\ now' \in Nat
    BY Assumptions DEF IInv, TypeOK, OrderRow, Times
  <2> QED
    BY <1>1, <2>1, ClosingKeepsRows DEF IInv, WhisperInv
<1>4. ASSUME NEW r \in Readers PROVE ReaderInv(r)'
  BY ClosingKeepsRows DEF IInv, ReaderInv, local
<1> QED
  BY <1>2, <1>3, <1>4, ClosingKeepsRows DEF IInv

(* The reader leaves: its lock goes, and so does its claim to a response,  *)
(* which the ciphertext may have reached.                                  *)
LEMMA LeaveKeepsIInv ==
  ASSUME IInv, NEW r \in Readers, Leave(r), Closes, UNCHANGED <<order, now, opened>>,
         \/ UNCHANGED handed
         \/ pc[r] = "reply" /\ handed' = [handed EXCEPT ![target[r]] = @ + 1]
  PROVE  IInv'
<1>1. /\ pc' \in [Readers -> {"idle", "credential", "availability", "select",
                              "commit", "reply"}]
      /\ pc'[r] = "idle" /\ \A q \in Readers \ {r} : pc'[q] = pc[q]
  BY DEF IInv, TypeOK, Leave
<1>2. /\ target' \in [Readers -> Whispers \cup {NoWhisper}]
      /\ \A q \in Readers \ {r} : target'[q] = target[q]
  BY DEF IInv, TypeOK, Leave
<1>3. /\ openedAt' \in [Readers -> Times]
      /\ \A q \in Readers \ {r} : openedAt'[q] = openedAt[q]
  <2>1. 0 \in Times
    BY Assumptions DEF Times
  <2> QED
    BY <2>1 DEF IInv, TypeOK, Leave
<1>4. /\ lock' \in [Whispers -> Readers \cup {NoReader}]
      /\ \A w \in Whispers : lock[w] # r => lock'[w] = lock[w]
  BY DEF IInv, TypeOK, Leave
<1>5. /\ handed' \in [Whispers -> Nat]
      /\ \A w \in Whispers : \/ handed'[w] = handed[w]
                             \/ handed'[w] = handed[w] + 1 /\ r \in Replying(w)
  <2>1. handed \in [Whispers -> Nat]
    BY DEF IInv, TypeOK
  <2> QED
    BY <2>1 DEF Replying, IInv, ReaderInv
<1>6. TypeOK'
  BY <1>1, <1>2, <1>3, <1>4, <1>5, ClosingKeepsRows DEF IInv, TypeOK
<1>7. ASSUME NEW w \in Whispers PROVE WhisperInv(w)'
  <2>1. Replying(w)' = Replying(w) \ {r}
    BY <1>1, <1>2 DEF Replying
  <2>2. IsFiniteSet(Replying(w)) /\ handed[w] + Cardinality(Replying(w)) <= Len(opened[w])
    BY DEF IInv, WhisperInv
  <2>3. /\ IsFiniteSet(Replying(w)')
        /\ Cardinality(Replying(w)') =
             IF r \in Replying(w) THEN Cardinality(Replying(w)) - 1
                                  ELSE Cardinality(Replying(w))
    BY <2>1, <2>2, FS_RemoveElement
  <2>4. /\ Cardinality(Replying(w)) \in Nat /\ handed[w] \in Nat
        /\ Len(opened[w]) \in Nat
    BY ReplyingIsHanded DEF IInv
  <2>5. handed'[w] + Cardinality(Replying(w)') <= Len(opened'[w])
    BY <1>5, <2>2, <2>3, <2>4
  <2> QED
    BY <2>3, <2>5, ClosingKeepsRows DEF IInv, WhisperInv
<1>8. ASSUME NEW q \in Readers PROVE ReaderInv(q)'
  <2>1. CASE q = r
    BY <1>1, <2>1 DEF ReaderInv
  <2>2. CASE q # r
    BY <1>1, <1>2, <1>3, <1>4, <2>2, ClosingKeepsRows DEF IInv, ReaderInv
  <2> QED
    BY <2>1, <2>2
<1> QED
  BY <1>6, <1>7, <1>8, ClosingKeepsRows DEF IInv

(* A committed read: the row counts it, and at the last one is burnt.      *)
LEMMA CommitKeepsRow ==
  ASSUME IInv, NEW r \in Readers, CommitRead(r), NEW w, w = target[r]
  PROVE  /\ w \in Whispers /\ row' \in [Whispers -> Row]
         /\ \A v \in Whispers \ {w} : row'[v] = row[v]
         /\ row'[w].status # "absent" /\ row[w].status = "active"
         /\ opened[w] \in Seq(Times) /\ openedAt[r] \in Times
         /\ opened' = [opened EXCEPT ![w] = Append(opened[w], openedAt[r])]
         /\ row'[w].status \in {"active", "consumed"} /\ row'[w].limit = row[w].limit
         /\ RowInv(w)'
<1>1. /\ w \in Whispers /\ row \in [Whispers -> Row] /\ row[w] \in Row
      /\ opened \in [Whispers -> Seq(Times)] /\ opened[w] \in Seq(Times)
      /\ openedAt[r] \in Times /\ row[w].status = "active"
      /\ row[w].revealAt <= openedAt[r] /\ openedAt[r] < row[w].expiresAt
      /\ RowInv(w)
  BY DEF IInv, TypeOK, ReaderInv, CommitRead
<1>2. /\ row' = [row EXCEPT ![w] = IF FinalRead(w) THEN Burnt(row[w]) ELSE Read(row[w])]
      /\ opened' = [opened EXCEPT ![w] = Append(opened[w], openedAt[r])]
  BY DEF CommitRead
<1>3. /\ row[w].reads \in Nat /\ row[w].limit \in Nat
      /\ Len(opened[w]) = row[w].reads /\ row[w].reads < row[w].limit
  BY <1>1 DEF Row, RowInv
<1>4. /\ row'[w] \in Row /\ SameTerms(row[w], row'[w])
      /\ IF FinalRead(w)
           THEN row'[w].status = "consumed" /\ ~row'[w].ciphertext
           ELSE row'[w].status = "active" /\ row'[w].reads = row[w].reads + 1
  <2>1. CASE FinalRead(w)
    <3> DEFINE c == Closed(row[w], "consumed")
    <3>1. /\ c \in Row /\ c.status = "consumed" /\ ~c.ciphertext
          /\ SameTerms(row[w], c)
      BY <1>1, ClosedRow
    <3>2. row'[w] = [c EXCEPT !.reads = row[w].limit]
      BY <1>1, <1>2, <2>1 DEF Burnt
    <3> HIDE DEF c
    <3>3. /\ row'[w] \in Row /\ row'[w].status = c.status
          /\ row'[w].ciphertext = c.ciphertext /\ SameTerms(c, row'[w])
      BY <1>3, <3>1, <3>2, CountedRow
    <3> QED
      BY <2>1, <3>1, <3>3 DEF SameTerms
  <2>2. CASE ~FinalRead(w)
    <3>1. row'[w] = [row[w] EXCEPT !.reads = row[w].reads + 1]
      BY <1>1, <1>2, <2>2 DEF Read
    <3>2. row[w].reads + 1 \in Nat
      BY <1>3
    <3> QED
      BY <1>1, <2>2, <3>1, <3>2, CountedRow
  <2> QED
    BY <2>1, <2>2
<1>5. row' \in [Whispers -> Row] /\ \A v \in Whispers \ {w} : row'[v] = row[v]
  BY <1>1, <1>2, <1>4
<1>6. /\ opened'[w] = Append(opened[w], openedAt[r])
      /\ Len(opened'[w]) = Len(opened[w]) + 1
      /\ \A n \in 1 .. Len(opened'[w]) :
           opened'[w][n] = IF n <= Len(opened[w]) THEN opened[w][n] ELSE openedAt[r]
  <2>1. opened'[w] = Append(opened[w], openedAt[r])
    BY <1>1, <1>2
  <2> QED
    BY <1>1, <2>1
<1>7. \A n \in 1 .. Len(opened'[w]) :
        row'[w].revealAt <= opened'[w][n] /\ opened'[w][n] < row'[w].expiresAt
  <2>1. \A n \in 1 .. Len(opened[w]) :
          row[w].revealAt <= opened[w][n] /\ opened[w][n] < row[w].expiresAt
    BY <1>1 DEF RowInv
  <2>2. row'[w].revealAt = row[w].revealAt /\ row'[w].expiresAt = row[w].expiresAt
    BY <1>4 DEF SameTerms
  <2> QED
    BY <1>1, <1>3, <1>6, <2>1, <2>2
<1>8. RowInv(w)'
  BY <1>1, <1>3, <1>4, <1>6, <1>7 DEF RowInv, SameTerms, FinalRead
<1> QED
  BY <1>1, <1>2, <1>4, <1>5, <1>8 DEF SameTerms

LEMMA CommitKeepsIInv ==
  ASSUME IInv, NEW r \in Readers, CommitRead(r)
  PROVE  IInv'
<1>0. PICK w : w = target[r]
  OBVIOUS
<1>1. /\ w \in Whispers /\ row' \in [Whispers -> Row]
      /\ \A v \in Whispers \ {w} : row'[v] = row[v]
      /\ row'[w].status # "absent" /\ row[w].status = "active"
      /\ opened[w] \in Seq(Times) /\ openedAt[r] \in Times
      /\ opened' = [opened EXCEPT ![w] = Append(opened[w], openedAt[r])]
      /\ RowInv(w)'
  BY <1>0, CommitKeepsRow
<1>2. /\ pc[r] = "commit" /\ pc' = [pc EXCEPT ![r] = "reply"]
      /\ lock' = [lock EXCEPT ![w] = NoReader]
      /\ UNCHANGED <<order, now, target, openedAt, handed>>
  BY <1>0 DEF CommitRead
<1>3. opened' \in [Whispers -> Seq(Times)] /\ \A v \in Whispers \ {w} : opened'[v] = opened[v]
  <2>1. Append(opened[w], openedAt[r]) \in Seq(Times)
    BY <1>1
  <2> QED
    BY <1>1, <2>1 DEF IInv, TypeOK
<1>4. TypeOK'
  BY <1>1, <1>2, <1>3 DEF IInv, TypeOK
<1>5. \A v \in Whispers : RowInv(v)'
  <2>1. \A v \in Whispers \ {w} : RowInv(v)'
    BY <1>1, <1>3 DEF IInv, RowInv
  <2> QED
    BY <1>1, <2>1
<1>6. ASSUME NEW v \in Whispers PROVE WhisperInv(v)'
  <2>1. CASE v = w
    <3>1. Replying(w)' = Replying(w) \cup {r} /\ r \notin Replying(w)
      BY <1>0, <1>2 DEF Replying, IInv, TypeOK
    <3>2. IsFiniteSet(Replying(w)) /\ handed[w] + Cardinality(Replying(w)) <= Len(opened[w])
      BY <1>1 DEF IInv, WhisperInv
    <3>3. /\ IsFiniteSet(Replying(w)')
          /\ Cardinality(Replying(w)') = Cardinality(Replying(w)) + 1
      BY <3>1, <3>2, FS_AddElement
    <3>4. /\ Cardinality(Replying(w)) \in Nat /\ handed[w] \in Nat
          /\ Len(opened[w]) \in Nat
      BY <1>1, ReplyingIsHanded DEF IInv
    <3>5. Len(opened'[w]) = Len(opened[w]) + 1
      BY <1>1 DEF IInv, TypeOK
    <3>6. handed'[w] + Cardinality(Replying(w)') <= Len(opened'[w])
      BY <1>2, <3>2, <3>3, <3>4, <3>5
    <3>7. order'[w].status \notin {"accepted", "created", "paid"} /\ order'[w].createdAt <= now'
      BY <1>1, <1>2 DEF IInv, WhisperInv
    <3> QED
      BY <1>1, <2>1, <3>3, <3>6, <3>7 DEF WhisperInv
  <2>2. CASE v # w
    <3>1. Replying(v)' = Replying(v)
      BY <1>0, <1>2, <2>2 DEF Replying, IInv, TypeOK
    <3> QED
      BY <1>1, <1>2, <1>3, <2>2, <3>1 DEF IInv, WhisperInv
  <2> QED
    BY <2>1, <2>2
<1>7. ASSUME NEW q \in Readers PROVE ReaderInv(q)'
  <2>1. CASE q = r
    BY <1>1, <1>2, <2>1 DEF IInv, TypeOK, ReaderInv
  <2>2. CASE q # r
    <3>1. pc'[q] = pc[q]
      BY <1>2, <2>2 DEF IInv, TypeOK
    <3>2. pc[q] = "commit" => target[q] \in Whispers \ {w}
      BY <1>0, <1>2, <2>2 DEF IInv, ReaderInv
    <3> QED
      BY <1>1, <1>2, <3>1, <3>2 DEF IInv, TypeOK, ReaderInv
  <2> QED
    BY <2>1, <2>2
<1> QED
  BY <1>4, <1>5, <1>6, <1>7 DEF IInv

(* A reader asks for a whisper, or goes on to its next query, or takes the *)
(* row: only its own place changes, and nothing is committed yet.          *)
LEMMA AdvanceKeepsIInv ==
  ASSUME IInv, NEW r \in Readers, NEW step \in {"credential", "availability", "select",
                                               "commit"},
         pc' = [pc EXCEPT ![r] = step], pc[r] # "reply", pc[r] # "commit",
         target' \in [Readers -> Whispers \cup {NoWhisper}], target'[r] \in Whispers,
         \A q \in Readers \ {r} : target'[q] = target[q] /\ openedAt'[q] = openedAt[q],
         openedAt' \in [Readers -> Times],
         lock' \in [Whispers -> Readers \cup {NoReader}],
         \A w \in Whispers : lock'[w] = lock[w] \/ lock[w] = NoReader,
         step = "commit" =>
           /\ lock'[target'[r]] = r /\ row[target'[r]].status = "active"
           /\ row[target'[r]].revealAt <= openedAt'[r]
           /\ openedAt'[r] < row[target'[r]].expiresAt,
         UNCHANGED <<order, row, now, opened, handed>>
  PROVE  IInv'
<1>1. pc \in [Readers -> {"idle", "credential", "availability", "select",
                          "commit", "reply"}]
  BY DEF IInv, TypeOK
<1>2. /\ pc' \in [Readers -> {"idle", "credential", "availability", "select",
                              "commit", "reply"}]
      /\ pc'[r] = step /\ \A q \in Readers \ {r} : pc'[q] = pc[q]
  BY <1>1
<1>3. TypeOK'
  BY <1>2 DEF IInv, TypeOK
<1>4. ASSUME NEW w \in Whispers PROVE WhisperInv(w)' /\ RowInv(w)'
  <2>1. Replying(w)' = Replying(w)
    BY <1>2 DEF Replying
  <2> QED
    BY <2>1 DEF IInv, WhisperInv, RowInv
<1>5. ASSUME NEW q \in Readers PROVE ReaderInv(q)'
  <2>1. CASE q = r
    BY <1>2, <2>1 DEF ReaderInv
  <2>2. CASE q # r
    <3>1. pc[q] = "commit" => lock'[target[q]] = lock[target[q]]
      BY <2>2, Assumptions DEF IInv, ReaderInv
    <3> QED
      BY <1>2, <2>2, <3>1 DEF IInv, ReaderInv
  <2> QED
    BY <2>1, <2>2
<1> QED
  BY <1>3, <1>4, <1>5 DEF IInv

LEMMA GiveUpKeepsIInv ==
  ASSUME IInv, NEW r \in Readers, GiveUp(r)
  PROVE  IInv'
BY LeaveKeepsIInv DEF GiveUp, Closes

LEMMA GotoKeepsIInv ==
  ASSUME IInv, NEW r \in Readers, NEW step \in {"availability", "select"},
         pc[r] \in {"credential", "availability"}, Goto(r, step)
  PROVE  IInv'
<1>1. /\ target \in [Readers -> Whispers \cup {NoWhisper}] /\ target[r] \in Whispers
      /\ openedAt \in [Readers -> Times]
      /\ lock \in [Whispers -> Readers \cup {NoReader}]
  BY DEF IInv, TypeOK, ReaderInv
<1> QED
  BY <1>1, AdvanceKeepsIInv DEF Goto

LEMMA GetKeepsIInv ==
  ASSUME IInv, NEW r \in Readers, NEW w \in Whispers, Get(r, w)
  PROVE  IInv'
<1>1. /\ target \in [Readers -> Whispers \cup {NoWhisper}]
      /\ openedAt \in [Readers -> Times]
      /\ lock \in [Whispers -> Readers \cup {NoReader}]
  BY DEF IInv, TypeOK
<1>2. /\ target' \in [Readers -> Whispers \cup {NoWhisper}] /\ target'[r] \in Whispers
      /\ \A q \in Readers \ {r} : target'[q] = target[q]
  BY <1>1 DEF Get
<1> QED
  BY <1>1, <1>2, AdvanceKeepsIInv DEF Get

LEMMA SelectKeepsIInv ==
  ASSUME IInv, NEW r \in Readers, SelectForUpdate(r)
  PROVE  IInv'
<1> DEFINE w == target[r]
<1>1. /\ w \in Whispers /\ pc[r] = "select" /\ Unlocked(w)
      /\ target \in [Readers -> Whispers \cup {NoWhisper}]
      /\ openedAt \in [Readers -> Times]
      /\ lock \in [Whispers -> Readers \cup {NoReader}]
      /\ now \in Times /\ now \in Nat /\ row[w] \in Row
  BY Assumptions DEF IInv, TypeOK, ReaderInv, SelectForUpdate, Times
<1>2. CASE GiveUp(r)
  BY <1>2, GiveUpKeepsIInv
<1>3. CASE /\ row[w].status = "active"
           /\ row' = [row EXCEPT ![w] = Closed(@, "expired")]
           /\ Leave(r)
           /\ UNCHANGED <<order, now, opened, handed>>
  <2>1. Closes
    BY <1>1, <1>3 DEF Closes
  <2> QED
    BY <1>3, <2>1, LeaveKeepsIInv
<1>4. CASE /\ row[w].status = "active"
           /\ Revealed(w)
           /\ ~Expires(w)
           /\ lock' = [lock EXCEPT ![w] = r]
           /\ openedAt' = [openedAt EXCEPT ![r] = now]
           /\ pc' = [pc EXCEPT ![r] = "commit"]
           /\ UNCHANGED <<order, row, now, target, opened, handed>>
  <2>1. /\ lock' \in [Whispers -> Readers \cup {NoReader}] /\ lock'[w] = r
        /\ \A v \in Whispers : lock'[v] = lock[v] \/ lock[v] = NoReader
    BY <1>1, <1>4 DEF Unlocked
  <2>2. /\ openedAt' \in [Readers -> Times] /\ openedAt'[r] = now
        /\ \A q \in Readers \ {r} : openedAt'[q] = openedAt[q]
    BY <1>1, <1>4
  <2>3. row[w].revealAt <= now /\ now < row[w].expiresAt
    BY <1>1, <1>4, Assumptions DEF Revealed, Expires, Row, Times
  <2> QED
    BY <1>1, <1>4, <2>1, <2>2, <2>3, AdvanceKeepsIInv
<1> QED
  BY <1>2, <1>3, <1>4 DEF SelectForUpdate

LEMMA Inductive ==
  ASSUME IInv, [Next]_vars
  PROVE  IInv'
<1>1. now \in Nat /\ now \in 0 .. MaxTime /\ MaxTime \in Nat
  BY Assumptions DEF IInv, TypeOK
<1>2. ASSUME NEW w \in Whispers, Sell(w) PROVE IInv'
  BY <1>2, SellKeepsIInv
<1>3. ASSUME NEW w \in Whispers, ExpireDue(w) PROVE IInv'
  <2>1. Closes
    BY <1>3 DEF ExpireDue, Closes
  <2>2. /\ now' = now /\ UNCHANGED <<order, lock, local, opened, handed>>
    BY <1>3 DEF ExpireDue
  <2> QED
    BY <1>1, <2>1, <2>2, SweepKeepsIInv
<1>4. ASSUME NEW r \in Readers, Serve(r) PROVE IInv'
  <2>1. CASE GetCredentialHash(r)
    BY <2>1, GotoKeepsIInv, GiveUpKeepsIInv DEF GetCredentialHash
  <2>2. CASE GetAvailability(r)
    BY <2>2, GotoKeepsIInv, GiveUpKeepsIInv DEF GetAvailability
  <2>3. CASE SelectForUpdate(r)
    BY <2>3, SelectKeepsIInv
  <2>4. CASE CommitRead(r)
    BY <2>4, CommitKeepsIInv
  <2>5. CASE Reply(r)
    BY <2>5, LeaveKeepsIInv DEF Reply, Closes
  <2> QED
    BY <1>4, <2>1, <2>2, <2>3, <2>4, <2>5 DEF Serve
<1>5. ASSUME NEW r \in Readers, Fail(r) PROVE IInv'
  BY <1>5, GiveUpKeepsIInv DEF Fail
<1>6. ASSUME NEW r \in Readers, NEW w \in Whispers, Get(r, w) PROVE IInv'
  BY <1>6, GetKeepsIInv
<1>7. CASE Tick
  BY <1>1, <1>7, SweepKeepsIInv DEF Tick, Closes
<1>8. CASE UNCHANGED vars
  BY <1>1, <1>8, SweepKeepsIInv DEF vars, Closes
<1> QED
  BY <1>2, <1>3, <1>4, <1>5, <1>6, <1>7, <1>8 DEF Next
-----------------------------------------------------------------------------
LEMMA Invariant == Spec => []IInv
<1>1. Init => IInv
  BY InitIInv
<1>2. IInv /\ [Next]_vars => IInv'
  BY Inductive
<1> QED
  BY <1>1, <1>2, PTL DEF Spec

(* Whatever readers, payments and crashes do, every variable has its type. *)
THEOREM TypesAreKept == Spec => []TypeOK
<1>1. IInv => TypeOK
  BY DEF IInv
<1> QED
  BY <1>1, Invariant, PTL

(* Concurrent reads, a reader that dies between the commit and the         *)
(* response, and the worker never give a ciphertext more often than was    *)
(* paid for, and each read that is committed is counted.                   *)
THEOREM AllowanceAlwaysExact == Spec => []AllowanceIsExact
<1>1. IInv => AllowanceIsExact
  <2> SUFFICES ASSUME IInv, NEW w \in Whispers
               PROVE  /\ handed[w] <= Len(opened[w])
                      /\ RowInv(w)
    BY DEF AllowanceIsExact, RowInv
  <2>1. /\ handed[w] + Cardinality(Replying(w)) <= Len(opened[w])
        /\ Cardinality(Replying(w)) \in Nat /\ handed[w] \in Nat
        /\ Len(opened[w]) \in Nat
    BY ReplyingIsHanded DEF IInv, WhisperInv
  <2> QED
    BY <2>1 DEF IInv
<1> QED
  BY <1>1, Invariant, PTL

(* No ciphertext is taken before its reveal or after its expiry.           *)
THEOREM ReadsAlwaysInWindow == Spec => []ReadsWithinWindow
<1>1. IInv => ReadsWithinWindow
  BY DEF IInv, RowInv, ReadsWithinWindow
<1> QED
  BY <1>1, Invariant, PTL

(* A whisper that is dispensed leaves an hour to read it.                  *)
THEOREM HourIsAlwaysLeft == Spec => []LeavesAnHour
<1>1. IInv => LeavesAnHour
  BY DEF IInv, RowInv, LeavesAnHour
<1> QED
  BY <1>1, Invariant, PTL
-----------------------------------------------------------------------------
(* What a step does to a whisper, whoever takes it: nothing, it is sold,   *)
(* it expires, or a read of it is committed.                               *)
Stays(w) == UNCHANGED <<row[w], opened[w]>>
IsSold(w) ==
  /\ row[w].status = "absent" /\ row'[w].status = "active" /\ UNCHANGED opened[w]
IsExpired(w) ==
  /\ row[w].status = "active" /\ row'[w].status = "expired"
  /\ row'[w].limit = row[w].limit /\ UNCHANGED opened[w]
IsRead(w) ==
  /\ row[w].status = "active" /\ row'[w].status \in {"active", "consumed"}
  /\ row'[w].limit = row[w].limit /\ Len(opened'[w]) = Len(opened[w]) + 1

LifeStep(w) == Stays(w) \/ IsSold(w) \/ IsExpired(w) \/ IsRead(w)

LEMMA ClosesIsLifeStep ==
  ASSUME IInv, Closes, UNCHANGED opened, NEW w \in Whispers
  PROVE  LifeStep(w)
<1>1. row \in [Whispers -> Row] /\ row[w] \in Row
  BY DEF IInv, TypeOK
<1>2. CASE UNCHANGED row
  BY <1>2 DEF LifeStep, Stays
<1>3. ASSUME NEW v \in Whispers, row[v].status = "active",
             row' = [row EXCEPT ![v] = Closed(@, "expired")]
      PROVE  LifeStep(w)
  <2>1. CASE v # w
    BY <1>1, <1>3, <2>1 DEF LifeStep, Stays
  <2>2. CASE v = w
    <3>1. row'[w] = Closed(row[w], "expired")
      BY <1>1, <1>3, <2>2
    <3>2. row'[w].status = "expired" /\ row'[w].limit = row[w].limit
      BY <1>1, <3>1, ClosedRow DEF SameTerms
    <3> QED
      BY <1>3, <2>2, <3>2 DEF LifeStep, IsExpired
  <2> QED
    BY <2>1, <2>2
<1> QED
  BY <1>2, <1>3 DEF Closes

LEMMA StepIsLifeStep ==
  ASSUME IInv, [Next]_vars, NEW w \in Whispers
  PROVE  LifeStep(w)
<1>1. ASSUME NEW v \in Whispers, Sell(v) PROVE LifeStep(w)
  <2>1. UNCHANGED opened
    BY <1>1, SellIsOrdered DEF Ordered, vars
  <2>2. CASE UNCHANGED row
    BY <2>1, <2>2 DEF LifeStep, Stays
  <2>3. ASSUME NEW reveal, NEW expires, NEW limit, Insert(v, reveal, expires, limit)
        PROVE  LifeStep(w)
    <3>1. row'[v].status = "active" /\ row[v].status = "absent"
          /\ \A u \in Whispers \ {v} : row'[u] = row[u]
      BY <2>3, InsertKeepsRows DEF Insert
    <3> QED
      BY <2>1, <3>1 DEF LifeStep, IsSold, Stays
  <2> QED
    BY <1>1, <2>2, <2>3, SellIsOrdered
<1>2. ASSUME NEW v \in Whispers, ExpireDue(v) PROVE LifeStep(w)
  BY <1>2, ClosesIsLifeStep DEF ExpireDue, Closes
<1>3. ASSUME NEW r \in Readers, CommitRead(r) PROVE LifeStep(w)
  <2>1. PICK v : v = target[r]
    OBVIOUS
  <2>2. /\ v \in Whispers /\ \A u \in Whispers \ {v} : row'[u] = row[u]
        /\ row[v].status = "active"
        /\ opened[v] \in Seq(Times) /\ openedAt[r] \in Times
        /\ opened' = [opened EXCEPT ![v] = Append(opened[v], openedAt[r])]
    BY <1>3, <2>1, CommitKeepsRow
  <2>3. CASE v # w
    BY <2>2, <2>3 DEF LifeStep, Stays
  <2>4. CASE v = w
    <3>1. Len(opened'[w]) = Len(opened[w]) + 1
      BY <2>2, <2>4 DEF IInv, TypeOK
    <3>2. row'[w].status \in {"active", "consumed"} /\ row'[w].limit = row[w].limit
      BY <1>3, <2>1, <2>4, CommitKeepsRow
    <3> QED
      BY <2>2, <2>4, <3>1, <3>2 DEF LifeStep, IsRead
  <2> QED
    BY <2>3, <2>4
<1>4. ASSUME NEW r \in Readers, SelectForUpdate(r) PROVE LifeStep(w)
  <2>1. target[r] \in Whispers
    BY <1>4 DEF SelectForUpdate, IInv, ReaderInv
  <2>2. Closes /\ UNCHANGED opened
    BY <1>4, <2>1 DEF SelectForUpdate, GiveUp, Closes
  <2> QED
    BY <2>2, ClosesIsLifeStep
<1>5. ASSUME NEW r \in Readers,
             GetCredentialHash(r) \/ GetAvailability(r) \/ Reply(r) \/ Fail(r)
               \/ \E v \in Whispers : Get(r, v)
      PROVE  LifeStep(w)
  BY <1>5 DEF GetCredentialHash, GetAvailability, Reply, Fail, Get, Goto, GiveUp,
              LifeStep, Stays
<1>6. CASE Tick \/ UNCHANGED vars
  BY <1>6 DEF Tick, vars, LifeStep, Stays
<1> QED
  BY <1>1, <1>2, <1>3, <1>4, <1>5, <1>6 DEF Next, Serve

(* A WHISPER is a metered capability: one that is sold with an allowance   *)
(* gives one read after the other, never one more, and none once it has    *)
(* expired, whichever readers were on their way at that moment.            *)
Handoff(w, limit) == INSTANCE Metered WITH
  Limit <- limit, used <- Len(opened[w]),
  spent <- row[w].status = "consumed", ended <- row[w].status = "expired"

Allows(w, limit) == row[w].status # "absent" => row[w].limit = limit

LEMMA LifeStepIsMetered ==
  ASSUME NEW w \in Whispers, NEW limit \in ReadLimits, IInv, IInv',
         Allows(w, limit), Allows(w, limit)', LifeStep(w)
  PROVE  [Handoff(w, limit)!Next]_(Handoff(w, limit)!vars)
<1> USE DEF Handoff!vars, Handoff!Next
<1>1. RowInv(w) /\ RowInv(w)' /\ Len(opened[w]) \in Nat /\ Len(opened'[w]) \in Nat
  BY DEF IInv, TypeOK
<1>2. CASE Stays(w)
  BY <1>2 DEF Stays
<1>3. CASE IsSold(w)
  BY <1>3 DEF IsSold
<1>4. CASE IsExpired(w)
  BY <1>4 DEF IsExpired, Handoff!End
<1>5. CASE IsRead(w)
  <2>1. /\ row[w].status = "active" /\ row'[w].status \in {"active", "consumed"}
        /\ row[w].limit = limit /\ row'[w].limit = limit
        /\ Len(opened'[w]) = Len(opened[w]) + 1
    BY <1>5 DEF IsRead, Allows
  <2>2. Len(opened[w]) < limit
    BY <1>1, <2>1 DEF RowInv
  <2>3. Len(opened'[w]) = limit => row'[w].status = "consumed"
    <3>1. ASSUME row'[w].status = "active" PROVE Len(opened'[w]) < limit
      BY <1>1, <2>1, <3>1 DEF RowInv
    <3> QED
      BY <1>1, <2>1, <3>1, Assumptions
  <2>4. (row[w].status = "consumed")'
          \in (IF Len(opened'[w]) = limit THEN {TRUE} ELSE BOOLEAN)
    BY <2>3
  <2> QED
    BY <2>1, <2>2, <2>4 DEF Handoff!Use
<1> QED
  BY <1>2, <1>3, <1>4, <1>5 DEF LifeStep

(* For every whisper and the allowance it was sold with.                   *)
THEOREM WhisperIsMetered ==
  \A w \in Whispers, limit \in ReadLimits :
    Spec /\ []Allows(w, limit) => Handoff(w, limit)!Spec
<1> SUFFICES ASSUME NEW w \in Whispers, NEW limit \in ReadLimits
             PROVE  Spec /\ []Allows(w, limit) => Handoff(w, limit)!Spec
  OBVIOUS
<1>1. Init => Handoff(w, limit)!Init
  BY DEF Init, NoRow, Handoff!Init
<1>2. IInv /\ IInv' /\ Allows(w, limit) /\ Allows(w, limit)' /\ [Next]_vars
        => [Handoff(w, limit)!Next]_(Handoff(w, limit)!vars)
  BY StepIsLifeStep, LifeStepIsMetered
<1> QED
  BY <1>1, <1>2, Invariant, PTL DEF Spec, Handoff!Spec
=============================================================================
