-------------------------- MODULE CatchInboxProofs --------------------------
(***************************************************************************)
(* CATCH, for every number of concurrent requests, all limits of a plan    *)
(* and all sizes of bodies and locations: nothing outlives the inbox, an   *)
(* active one has room, and an inbox is a metered capability.  Then its    *)
(* portal, for every length of a page and every history of pages: it only  *)
(* asks what CatchInbox answers, and its paging misses nothing.            *)
(***************************************************************************)
EXTENDS CatchPortal, SumProofs

(* The types the proofs need.  That the byte counter never becomes         *)
(* negative follows from StorageIsExact, further down.                     *)
Statuses == {"active", "exhausted", "suspended", "expired",
             "manually_destroyed", "deleted"}
Steps == {"idle", "credentials", "ingest", "locate", "status", "list",
          "delete", "destroy", "answered"}
Kinds == {"ingest", "status", "list", "delete", "destroy"}
Rows == [status: Statuses, keys: BOOLEAN, count: Nat, stored: Int]
RowOK == row \in Rows
EventsOK == /\ DOMAIN events \subseteq Numbers
            /\ \A n \in DOMAIN events : events[n] \in Event
JobsOK == /\ pc \in [Requests -> Steps]
          /\ job \in [Requests -> Job]
          /\ answer \in [Requests -> Page]
          /\ \A r \in Requests :
               /\ pc[r] = "credentials" => job[r].kind # "none"
               /\ pc[r] \in Kinds => job[r].kind = pc[r]
               /\ pc[r] = "credentials" /\ job[r].kind = "ingest" => job[r].body \in Bodies
               /\ pc[r] = "ingest" => job[r].body \in Bodies

(* The inductive invariant.  The status tells what credentials, events and *)
(* counters are left, and the counter of the row is the history of what    *)
(* was accepted.                                                           *)
IInv ==
  /\ RowOK /\ EventsOK /\ JobsOK
  /\ lapsed \in BOOLEAN
  /\ NothingOutlivesTheInbox
  /\ ActiveHasRoom
  /\ accepted = row.count /\ row.count <= RequestLimit

LEMMA Limits ==
  /\ RequestLimit \in Nat /\ RequestLimit >= 1
  /\ StorageLimit \in Nat /\ StorageLimit >= 1
  /\ PageSize \in Nat /\ PageSize >= 1
  /\ Bodies \subseteq Nat /\ Locations \subseteq Nat /\ NoEvent \notin Nat
BY CatchAssumption

LEMMA InitIInv == Init => IInv
<1> SUFFICES ASSUME Init PROVE IInv
  OBVIOUS
<1>1. RowOK /\ EventsOK
  BY DEF Init, RowOK, Rows, Statuses, EventsOK
<1>2. JobsOK
  BY DEF Init, JobsOK, Job, NoJob, Page, NoPage, Steps, Kinds
<1>3. NothingOutlivesTheInbox /\ ActiveHasRoom
  BY Limits DEF Init, NothingOutlivesTheInbox, ActiveHasRoom, Live
<1>4. accepted = row.count /\ row.count <= RequestLimit
  BY Limits DEF Init
<1>5. lapsed \in BOOLEAN
  BY DEF Init
<1> QED
  BY <1>1, <1>2, <1>3, <1>4, <1>5 DEF IInv

(* What becomes of the inbox, whichever request or sweep does it.          *)
Expires == lapsed /\ ExpireLocked /\ UNCHANGED lapsed
Accepts ==
  /\ \E body \in Bodies : Open(body) /\ ~Overflows(body) /\ Store(body)
  /\ UNCHANGED lapsed
Exhausts ==
  /\ row.status = "active" /\ ~lapsed
  /\ row' = [row EXCEPT !.status = "exhausted"]
  /\ UNCHANGED <<events, accepted, lapsed>>
Locates ==
  /\ \E bytes \in Locations, n \in DOMAIN events :
       LET stored == row.stored + bytes - events[n].location IN
       /\ Live(row) /\ stored <= StorageLimit
       /\ events' = [events EXCEPT ![n].location = bytes]
       /\ row' = [row EXCEPT !.stored = stored,
            !.status = IF @ = "active" /\ stored >= StorageLimit THEN "exhausted" ELSE @]
  /\ UNCHANGED <<accepted, lapsed>>
LosesEvent ==
  /\ \E n \in DOMAIN events :
       /\ Live(row)
       /\ row' = [row EXCEPT !.stored = IF StoredBytes(events[n]) > @ THEN 0
                                        ELSE @ - StoredBytes(events[n])]
       /\ events' = [m \in DOMAIN events \ {n} |-> events[m]]
  /\ UNCHANGED <<accepted, lapsed>>
IsDestroyed ==
  /\ Live(row)
  /\ row' = [row EXCEPT !.keys = FALSE, !.stored = 0,
       !.status = IF @ = "active" THEN "manually_destroyed" ELSE "deleted"]
  /\ events' = <<>>
  /\ UNCHANGED <<accepted, lapsed>>
ClockPasses == ~lapsed /\ lapsed' = TRUE /\ UNCHANGED inbox

RowStep ==
  \/ Expires \/ Accepts \/ Exhausts \/ Locates \/ LosesEvent \/ IsDestroyed
  \/ ClockPasses \/ UNCHANGED <<inbox, lapsed>>

(* Every step of the system does one of these to the inbox.                *)
LEMMA StepIsRowStep ==
  ASSUME IInv, [Next]_vars
  PROVE  RowStep
<1> USE DEF RowStep, inbox
<1>1. ASSUME NEW r \in Requests, GetCredentialHashes(r) PROVE RowStep
  BY <1>1 DEF GetCredentialHashes, Expires
<1>2. ASSUME NEW r \in Requests, AcceptEvent(r) PROVE RowStep
  <2> job[r].body \in Bodies
    BY <1>2 DEF AcceptEvent, IInv, JobsOK
  <2> QED
    BY <1>2 DEF AcceptEvent, Expires, Accepts, Exhausts, Open
<1>3. ASSUME NEW r \in Requests, GetResource(r) \/ Fail(r) \/ Receive(r) PROVE RowStep
  BY <1>3 DEF GetResource, Fail, Receive
<1>4. ASSUME NEW r \in Requests, ListEvents(r) PROVE RowStep
  BY <1>4 DEF ListEvents, Expires
<1>5. ASSUME NEW r \in Requests, DeleteEvent(r) PROVE RowStep
  BY <1>5 DEF DeleteEvent, LosesEvent
<1>6. ASSUME NEW r \in Requests, Destroy(r) PROVE RowStep
  BY <1>6 DEF Destroy, IsDestroyed
<1>7. ASSUME NEW r \in Requests, NEW bytes \in Locations, SetEventIpLocation(r, bytes)
      PROVE  RowStep
  BY <1>7 DEF SetEventIpLocation, Locates
<1>8. ASSUME NEW r \in Requests, NEW kind, NEW body, NEW n, Ask(r, kind, body, n)
      PROVE  RowStep
  BY <1>8 DEF Ask
<1>9. CASE ExpireDueResources
  BY <1>9 DEF ExpireDueResources, Due, Expires
<1>10. CASE Lapse
  BY <1>10 DEF Lapse, ClockPasses
<1>11. CASE UNCHANGED vars
  BY <1>11 DEF vars
<1> QED
  BY <1>1, <1>2, <1>3, <1>4, <1>5, <1>6, <1>7, <1>8, <1>9, <1>10, <1>11
     DEF Next, Inbox, Serve, Ingest, Manage, Delete, List

(* A step on the inbox keeps the types of the row and its events, and what *)
(* the status says about them.                                             *)
StatusTells ==
  /\ row.keys <=> Live(row)
  /\ ~Live(row) => events = <<>> /\ row.stored = 0
  /\ row.status = "active" => row.count < RequestLimit /\ row.stored < StorageLimit
  /\ accepted = row.count /\ row.count <= RequestLimit

LEMMA ErasedIsRow ==
  ASSUME NEW x \in Rows, NEW s \in Statuses, NEW y,
         \/ y = [x EXCEPT !.status = s, !.keys = FALSE, !.stored = 0]
         \/ y = [x EXCEPT !.keys = FALSE, !.stored = 0, !.status = s]
  PROVE  y \in Rows
<1>1. y = [status |-> s, keys |-> FALSE, count |-> x.count, stored |-> 0]
  BY DEF Rows
<1> QED
  BY <1>1 DEF Rows

LEMMA FilledIsRow ==
  ASSUME NEW x \in Rows, NEW s \in Statuses, NEW c \in Nat, NEW b \in Int, NEW y,
         y = [x EXCEPT !.count = c, !.stored = b, !.status = s]
  PROVE  y \in Rows
BY DEF Rows

LEMMA RowStepKeepsRow ==
  ASSUME RowOK, EventsOK, lapsed \in BOOLEAN, StatusTells, RowStep
  PROVE  RowOK' /\ EventsOK' /\ lapsed' \in BOOLEAN /\ StatusTells'
<1> USE Limits DEF RowOK, Rows, EventsOK, Event, Numbers, StatusTells, Live
<1>0. /\ "active" \in Statuses /\ "exhausted" \in Statuses /\ "expired" \in Statuses
      /\ "manually_destroyed" \in Statuses /\ "deleted" \in Statuses
  BY DEF Statuses
<1>1. CASE Expires
  <2>1. CASE row.status \in {"active", "exhausted", "suspended"}
    <3>1. /\ row'.status = "expired" /\ ~row'.keys
          /\ row'.count = row.count /\ row'.stored = 0
      BY <1>1, <2>1 DEF Expires, ExpireLocked, Erased
    <3>3. row' \in Rows
      <4> HIDE DEF Rows
      <4> QED
        BY <1>0, <1>1, <2>1, ErasedIsRow DEF Expires, ExpireLocked, Erased
    <3>2. events' = <<>> /\ accepted' = accepted /\ lapsed' = lapsed
      BY <1>1, <2>1 DEF Expires, ExpireLocked
    <3> QED
      BY <3>1, <3>2, <3>3
  <2>2. CASE row.status \notin {"active", "exhausted", "suspended"}
    BY <1>1, <2>2 DEF Expires, ExpireLocked
  <2> QED
    BY <2>1, <2>2
<1>2. CASE Accepts
  <2>1. PICK body \in Bodies : Open(body) /\ ~Overflows(body) /\ Store(body)
    BY <1>2 DEF Accepts
  <2>2. /\ row.status = "active" /\ body \in Nat
        /\ NextCount \in Numbers /\ NextCount = row.count + 1
        /\ row.count \in Nat /\ row.stored \in Int
    BY <2>1 DEF Open, Overflows, NextCount
  <2>3. EventsOK'
    BY <2>1, <2>2 DEF Store
  <2>4. StatusAfter(NextCount, row.stored + body) \in {"active", "exhausted"}
    BY DEF StatusAfter
  <2>5. /\ row'.count = NextCount /\ row'.stored = row.stored + body
        /\ row'.keys <=> row.keys
        /\ row'.status = StatusAfter(NextCount, row.stored + body)
    BY <2>1, <2>2 DEF Store
  <2>9. row' \in Rows
    <3>1. /\ NextCount \in Nat /\ row.stored + body \in Int
          /\ StatusAfter(NextCount, row.stored + body) \in Statuses
      BY <1>0, <2>2, <2>4
    <3> HIDE DEF Rows
    <3> QED
      BY <2>1, <3>1, FilledIsRow DEF Store
  <2>6. row'.status = "active" =>
          row'.count < RequestLimit /\ row'.stored < StorageLimit
    BY <2>2, <2>5 DEF StatusAfter, Full
  <2>7. accepted' = row'.count /\ row'.count <= RequestLimit /\ lapsed' = lapsed
    BY <1>2, <2>1, <2>2, <2>5 DEF Accepts, Store
  <2>8. row'.keys /\ row'.status \in {"active", "exhausted"}
    BY <2>2, <2>4, <2>5
  <2> QED
    BY <2>3, <2>5, <2>6, <2>7, <2>8, <2>9
<1>3. CASE Exhausts
  <2>1. /\ row'.status = "exhausted" /\ row'.keys <=> row.keys
        /\ row'.count = row.count /\ row'.stored = row.stored
        /\ row' \in Rows
    BY <1>0, <1>3 DEF Exhausts
  <2> QED
    BY <1>3, <2>1 DEF Exhausts
<1>4. CASE Locates
  <2> DEFINE Stored(bytes, n) == row.stored + bytes - events[n].location
  <2>1. PICK bytes \in Locations, n \in DOMAIN events :
          /\ Live(row)
          /\ events' = [events EXCEPT ![n].location = bytes]
          /\ row' = [row EXCEPT !.stored = Stored(bytes, n),
               !.status = IF @ = "active" /\ Stored(bytes, n) >= StorageLimit
                          THEN "exhausted" ELSE @]
    BY <1>4 DEF Locates
  <2>2. EventsOK'
    BY <2>1
  <2>3. Stored(bytes, n) \in Int
    OBVIOUS
  <2> HIDE DEF Stored
  <2>4. /\ row'.status = IF row.status = "active" /\ Stored(bytes, n) >= StorageLimit
                         THEN "exhausted" ELSE row.status
        /\ row'.keys <=> row.keys
        /\ row'.count = row.count /\ row'.stored = Stored(bytes, n)
        /\ row' \in Rows
    BY <1>0, <2>1, <2>3
  <2>5. accepted' = accepted /\ lapsed' = lapsed
    BY <1>4 DEF Locates
  <2>6. /\ Live(row') <=> Live(row)
        /\ row'.status = "active" => row.status = "active" /\ row'.stored < StorageLimit
    BY <2>1, <2>3, <2>4
  <2>7. RowOK' /\ lapsed' \in BOOLEAN
    BY <2>4, <2>5
  <2>8. StatusTells'
    BY <2>1, <2>4, <2>5, <2>6
  <2> HIDE DEF RowOK, Rows, EventsOK, StatusTells
  <2> QED
    BY <2>2, <2>7, <2>8
<1>5. CASE LosesEvent
  <2> DEFINE Left(n) == IF StoredBytes(events[n]) > row.stored THEN 0
                        ELSE row.stored - StoredBytes(events[n])
  <2>1. PICK n \in DOMAIN events :
          /\ Live(row)
          /\ row' = [row EXCEPT !.stored = Left(n)]
          /\ events' = [m \in DOMAIN events \ {n} |-> events[m]]
    BY <1>5 DEF LosesEvent
  <2>2. Left(n) \in Int /\ (Left(n) = 0 \/ Left(n) <= row.stored)
    BY DEF StoredBytes
  <2> HIDE DEF Left
  <2>3. /\ row'.status = row.status /\ row'.keys <=> row.keys
        /\ row'.count = row.count /\ row'.stored = Left(n)
        /\ row' \in Rows
    BY <2>1, <2>2
  <2>4. EventsOK'
    BY <2>1
  <2>5. accepted' = accepted /\ lapsed' = lapsed
    BY <1>5 DEF LosesEvent
  <2> QED
    BY <2>1, <2>2, <2>3, <2>4, <2>5
<1>6. CASE IsDestroyed
  <2>1. /\ row'.status \in {"manually_destroyed", "deleted"} /\ ~row'.keys
        /\ row'.count = row.count /\ row'.stored = 0
    BY <1>6 DEF IsDestroyed
  <2>3. row' \in Rows
    <3> DEFINE gone == IF row.status = "active" THEN "manually_destroyed" ELSE "deleted"
    <3>1. row' = [row EXCEPT !.keys = FALSE, !.stored = 0, !.status = gone]
      BY <1>6 DEF IsDestroyed
    <3>2. gone \in Statuses
      BY <1>0
    <3> HIDE DEF Rows, gone
    <3> QED
      BY <3>1, <3>2, ErasedIsRow
  <2>2. events' = <<>> /\ accepted' = accepted /\ lapsed' = lapsed
    BY <1>6 DEF IsDestroyed
  <2> QED
    BY <2>1, <2>2, <2>3
<1>7. CASE ClockPasses
  BY <1>7 DEF ClockPasses, inbox
<1>8. CASE UNCHANGED <<inbox, lapsed>>
  BY <1>8 DEF inbox
<1> QED
  BY <1>1, <1>2, <1>3, <1>4, <1>5, <1>6, <1>7, <1>8 DEF RowStep
-----------------------------------------------------------------------------
(* Pages.  A bounded set of numbers has a largest one.                     *)
LEMMA LargestNumber ==
  ASSUME NEW S \in SUBSET Numbers, S # {}
  PROVE  \E n \in S : \A m \in S : m <= n
<1> DEFINE Mirror == {RequestLimit - n : n \in S}
<1>1. Mirror \in SUBSET Nat /\ Mirror # {}
  <2>1. ASSUME NEW n \in S PROVE RequestLimit - n \in Nat
    BY Limits DEF Numbers
  <2> QED
    BY <2>1
<1>2. PICK k \in Mirror : \A l \in Mirror : k <= l
  <2> HIDE DEF Mirror
  <2> QED
    BY <1>1, SmallestNumber
<1>3. PICK n \in S : k = RequestLimit - n
  OBVIOUS
<1>4. ASSUME NEW m \in S PROVE m <= n
  <2>1. k <= RequestLimit - m
    BY <1>2
  <2> QED
    BY <2>1, <1>3, Limits DEF Numbers
<1> QED
  BY <1>4

(* A page holds the newest events below the cursor, and the next page      *)
(* begins below the oldest of them: what is not shown is below that.       *)
LEMMA NextPageBeginsBelow ==
  ASSUME NEW below \in SUBSET Numbers
  PROVE  /\ PageOf(below) \in SUBSET below
         /\ NextCursor(below, PageOf(below)) \in Numbers \cup {NoEvent}
         /\ \A n \in below \ PageOf(below) :
              /\ NextCursor(below, PageOf(below)) # NoEvent
              /\ n < NextCursor(below, PageOf(below))
<1> DEFINE page == PageOf(below)
           Above(n) == {m \in below : m > n}
<1>0. \A n \in Numbers : n \in Nat /\ n # NoEvent
  BY Limits DEF Numbers
<1>1. page \in SUBSET below /\ \A n \in below : n \in page <=> Cardinality(Above(n)) < PageSize
  BY DEF PageOf
<1>2. CASE below = page
  BY <1>1, <1>2 DEF NextCursor
<1>3. CASE below # page
  <2>1. below # {}
    BY <1>1, <1>3
  <2>2. PICK last \in below : \A m \in below : m <= last
    BY <2>1, LargestNumber
  <2>3. Above(last) = {}
    <3>1. ASSUME NEW m \in below, m > last PROVE FALSE
      <4>1. m <= last /\ m \in Nat /\ last \in Nat
        BY <1>0, <2>2
      <4> QED
        BY <4>1, <3>1
    <3> QED
      BY <3>1
  <2>4. last \in page
    BY <1>1, <2>3, FS_EmptySet, Limits
  <2>5. PICK first \in page : \A m \in page : first <= m
    <3>1. page \in SUBSET Nat /\ page # {}
      <4> HIDE DEF page
      <4> QED
        BY <1>0, <1>1, <2>4
    <3> HIDE DEF page
    <3> QED
      BY <3>1, SmallestNumber
  <2> DEFINE cursor == NextCursor(below, page)
  <2>6. cursor \in page /\ \A m \in page : cursor <= m
    <3>1. cursor = CHOOSE n \in page : \A m \in page : n <= m
      BY <1>3 DEF NextCursor
    <3> HIDE DEF page, cursor
    <3> QED
      BY <3>1, <2>5
  <2>7. cursor \in Numbers /\ cursor \in Nat /\ cursor # NoEvent
    <3> HIDE DEF page, cursor
    <3> QED
      BY <1>0, <1>1, <2>6
  <2>8. ASSUME NEW n \in below, n \notin page PROVE n < cursor
    <3>1. n \in Nat /\ n # cursor
      BY <2>6, <2>8, Limits DEF Numbers
    <3>2. CASE n > cursor
      <4>1. Above(n) \subseteq Above(cursor)
        <5>1. ASSUME NEW m \in below, m > n PROVE m > cursor
          <6> HIDE DEF page, cursor
          <6>1. m \in Nat
            BY <1>0
          <6> QED
            BY <5>1, <6>1, <3>1, <3>2, <2>7
        <5> HIDE DEF page, cursor
        <5> QED
          BY <5>1
      <4>2. IsFiniteSet(below)
        <5>1. IsFiniteSet(1 .. RequestLimit)
          BY Limits, FS_Interval
        <5> QED
          BY <5>1, FS_Subset DEF Numbers
      <4>3. IsFiniteSet(Above(cursor))
        BY <4>2, FS_Subset
      <4>4. /\ Cardinality(Above(n)) <= Cardinality(Above(cursor))
            /\ Cardinality(Above(n)) \in Nat /\ Cardinality(Above(cursor)) \in Nat
        BY <4>1, <4>3, FS_Subset, FS_CardinalityType
      <4>5. Cardinality(Above(cursor)) < PageSize
        BY <1>1, <2>6
      <4>6. ~(Cardinality(Above(n)) < PageSize)
        BY <1>1, <2>8
      <4> HIDE DEF Above, page, cursor
      <4> QED
        BY <4>4, <4>5, <4>6, Limits
    <3> QED
      BY <3>1, <3>2, <2>7
  <2> QED
    BY <1>1, <2>7, <2>8
<1> QED
  BY <1>2, <1>3
-----------------------------------------------------------------------------
(* The jobs and answers of the requests keep their types.                  *)
LEMMA NextJobIsJob ==
  ASSUME IInv, NEW r \in Requests, NEW step \in {"locate", "answered"},
         pc' = [pc EXCEPT ![r] = step],
         job' \in [Requests -> Job], \A q \in Requests \ {r} : job'[q] = job[q],
         answer' \in [Requests -> Page]
  PROVE  JobsOK'
BY DEF IInv, JobsOK, Kinds, Steps

LEMMA DoneIsJob ==
  ASSUME IInv, NEW r \in Requests, Done(r)
  PROVE  JobsOK'
<1>1. NoJob \in Job /\ NoPage \in Page
  BY DEF NoJob, Job, NoPage, Page
<1> HIDE DEF NoJob, NoPage
<1> QED
  BY <1>1 DEF Done, IInv, JobsOK, Steps, Kinds

LEMMA AskIsJob ==
  ASSUME IInv, NEW r \in Requests, NEW n \in Numbers \cup {NoEvent},
         NEW kind \in Kinds,
         NEW body \in Bodies \cup {0}, kind = "ingest" => body \in Bodies,
         Ask(r, kind, body, n)
  PROVE  JobsOK'
<1>1. [kind |-> kind, body |-> body, event |-> n] \in Job /\ NoPage \in Page
  BY DEF Job, NoPage, Page, Kinds
<1> HIDE DEF Job, NoPage, Page
<1> QED
  BY <1>1 DEF Ask, IInv, JobsOK, Steps, Kinds

LEMMA StepKeepsJobs ==
  ASSUME IInv, [Next]_vars
  PROVE  JobsOK'
<1> USE DEF Steps, Kinds
<1>1. ASSUME NEW r \in Requests, GetCredentialHashes(r) PROVE JobsOK'
  <2>1. CASE Done(r)
    BY <2>1, DoneIsJob
  <2>2. CASE Goto(r, job[r].kind) /\ pc[r] = "credentials"
    <3>1. job[r].kind \in Steps \ {"idle", "credentials", "locate", "answered"}
      BY <2>2 DEF IInv, JobsOK, Job
    <3> QED
      BY <2>2, <3>1 DEF Goto, IInv, JobsOK
  <2> QED
    BY <1>1, <2>1, <2>2 DEF GetCredentialHashes
<1>2. ASSUME NEW r \in Requests, AcceptEvent(r) PROVE JobsOK'
  <2>1. CASE Done(r)
    BY <2>1, DoneIsJob
  <2>2. CASE /\ ~Overflows(job[r].body)
             /\ pc' = [pc EXCEPT ![r] = "locate"]
             /\ job' = [job EXCEPT ![r].event = NextCount]
             /\ UNCHANGED answer
    <3>1. NextCount \in Numbers
      BY <2>2, Limits DEF IInv, RowOK, Rows, Overflows, NextCount, Numbers
    <3>2. job' \in [Requests -> Job]
      BY <2>2, <3>1 DEF IInv, JobsOK, Job
    <3> QED
      BY <2>2, <3>2, NextJobIsJob DEF IInv, JobsOK
  <2> QED
    BY <1>2, <2>1, <2>2 DEF AcceptEvent
<1>3. ASSUME NEW r \in Requests, ListEvents(r) PROVE JobsOK'
  <2>1. CASE /\ pc' = [pc EXCEPT ![r] = "answered"]
             /\ answer' = [answer EXCEPT ![r] = NoPage]
             /\ UNCHANGED job
    <3>1. NoPage \in Page
      BY DEF NoPage, Page
    <3> QED
      BY <2>1, <3>1, NextJobIsJob DEF IInv, JobsOK
  <2> DEFINE below == Below(job[r].event)
             page == PageOf(below)
             rows == [events |-> page, next |-> NextCursor(below, page)]
  <2>2. CASE /\ pc' = [pc EXCEPT ![r] = "answered"]
             /\ answer' = [answer EXCEPT ![r] = rows]
             /\ UNCHANGED job
    <3>1. below \in SUBSET Numbers
      BY DEF Below, IInv, EventsOK
    <3>2. page \in SUBSET Numbers /\ NextCursor(below, page) \in Numbers \cup {NoEvent}
      <4> HIDE DEF below
      <4> QED
        BY <3>1, NextPageBeginsBelow
    <3>3. rows \in Page
      <4> HIDE DEF below, page
      <4> QED
        BY <3>2 DEF Page
    <3> HIDE DEF rows
    <3>4. answer' \in [Requests -> Page]
      BY <2>2, <3>3 DEF IInv, JobsOK
    <3> QED
      BY <2>2, <3>4, NextJobIsJob DEF IInv, JobsOK
  <2> QED
    BY <1>3, <2>1, <2>2 DEF ListEvents
<1>4. ASSUME NEW r \in Requests, DeleteEvent(r) PROVE JobsOK'
  <2>1. CASE Done(r)
    BY <2>1, DoneIsJob
  <2>2. CASE Goto(r, "answered")
    BY <2>2, NextJobIsJob DEF Goto, IInv, JobsOK
  <2> QED
    BY <1>4, <2>1, <2>2 DEF DeleteEvent
<1>5. ASSUME NEW r \in Requests,
             \/ GetResource(r) \/ Destroy(r) \/ Fail(r) \/ Receive(r)
             \/ \E bytes \in Locations : SetEventIpLocation(r, bytes)
      PROVE  JobsOK'
  BY <1>5, DoneIsJob DEF GetResource, Destroy, Fail, Receive, SetEventIpLocation
<1>6. ASSUME NEW r \in Requests, \E body \in Bodies : Ingest(r, body) PROVE JobsOK'
  BY <1>6, AskIsJob DEF Ingest
<1>7. ASSUME NEW r \in Requests, \E kind \in {"status", "destroy"} : Manage(r, kind)
      PROVE  JobsOK'
  BY <1>7, AskIsJob DEF Manage
<1>8. ASSUME NEW r \in Requests, \E n \in Numbers : Delete(r, n) PROVE JobsOK'
  BY <1>8, AskIsJob DEF Delete
<1>9. ASSUME NEW r \in Requests, \E n \in Numbers \cup {NoEvent} : List(r, n)
      PROVE  JobsOK'
  BY <1>9, AskIsJob DEF List
<1>10. ASSUME UNCHANGED <<pc, job, answer>> PROVE JobsOK'
  BY <1>10 DEF IInv, JobsOK
<1> QED
  BY <1>1, <1>2, <1>3, <1>4, <1>5, <1>6, <1>7, <1>8, <1>9, <1>10
     DEF Next, Inbox, Serve, ExpireDueResources, Lapse, vars
-----------------------------------------------------------------------------
LEMMA StepKeepsIInv ==
  ASSUME IInv, [Next]_vars
  PROVE  IInv'
<1>1. StatusTells
  BY DEF IInv, NothingOutlivesTheInbox, ActiveHasRoom, StatusTells
<1>2. RowOK' /\ EventsOK' /\ lapsed' \in BOOLEAN /\ StatusTells'
  BY <1>1, StepIsRowStep, RowStepKeepsRow DEF IInv
<1>3. JobsOK'
  BY StepKeepsJobs
<1> QED
  BY <1>2, <1>3 DEF IInv, NothingOutlivesTheInbox, ActiveHasRoom, StatusTells, Live

LEMMA Inductive == Spec => []IInv
BY InitIInv, StepKeepsIInv, PTL DEF Spec

(* What has expired or was destroyed keeps neither credentials nor events, *)
(* whatever request was under way at that moment.                          *)
THEOREM NothingEverOutlives == Spec => []NothingOutlivesTheInbox
<1>1. IInv => NothingOutlivesTheInbox
  BY DEF IInv
<1> QED
  BY <1>1, Inductive, PTL

(* An active inbox has room for another event, after late locations too.   *)
THEOREM ActiveAlwaysHasRoom == Spec => []ActiveHasRoom
<1>1. IInv => ActiveHasRoom
  BY DEF IInv
<1> QED
  BY <1>1, Inductive, PTL
-----------------------------------------------------------------------------
(* The bytes of an inbox.  What events hold is a sum over their numbers.   *)
Weights(evs) == [n \in DOMAIN evs |-> evs[n].bytes + evs[n].location]
HeldBy(evs) == SumOf(Weights(evs), DOMAIN evs)
Events(evs) == IsFiniteSet(DOMAIN evs) /\ \A n \in DOMAIN evs : evs[n] \in Event

LEMMA TotalIsSum == Total = HeldBy(events) /\ Total' = HeldBy(events')
<1>1. Total = HeldBy(events)
  BY DEF Total, HeldBy, Weights, SumOf, MapThenSumSet, FoldFunction, FoldFunctionOnSet
<1>2. (Total = HeldBy(events))'
  BY <1>1, PTL
<1>3. HeldBy(events)' = HeldBy(events')
  BY DEF HeldBy, Weights
<1> QED
  BY <1>1, <1>2, <1>3

LEMMA HeldIsTotal == ASSUME EventsOK PROVE Events(events)
<1>1. IsFiniteSet(Numbers)
  BY Limits, FS_Interval DEF Numbers
<1> QED
  BY <1>1, FS_Subset DEF EventsOK, Events

(* One event and the others.                                               *)
LEMMA HeldByOne ==
  ASSUME NEW evs, Events(evs), NEW n \in DOMAIN evs
  PROVE  /\ HeldBy(evs) = StoredBytes(evs[n]) + SumOf(Weights(evs), DOMAIN evs \ {n})
         /\ StoredBytes(evs[n]) \in Nat
         /\ SumOf(Weights(evs), DOMAIN evs \ {n}) \in Nat
         /\ HeldBy(evs) \in Nat
<1> DEFINE w == Weights(evs)
<1>1. \A m \in DOMAIN evs : w[m] \in Nat /\ w[m] = StoredBytes(evs[m])
  BY DEF Events, Event, Weights, StoredBytes
<1> HIDE DEF w
<1>2. IsFiniteSet(DOMAIN evs) /\ IsFiniteSet(DOMAIN evs \ {n})
  BY FS_Subset DEF Events
<1>3. SumOf(w, DOMAIN evs) = w[n] + SumOf(w, DOMAIN evs \ {n})
  BY <1>1, <1>2, SumWithElement
<1>4. SumOf(w, DOMAIN evs \ {n}) \in Int
  BY <1>1, <1>2, SumOfIntegers
<1>5. 0 <= SumOf(w, DOMAIN evs \ {n})
  <2>1. \A m \in DOMAIN evs : w[m] \in Nat /\ w[m] <= w[m]
    BY <1>1
  <2> QED
    BY <1>2, <2>1, SumOfMore
<1> QED
  BY <1>1, <1>3, <1>4, <1>5 DEF HeldBy, w

LEMMA HeldByAny ==
  ASSUME NEW evs, Events(evs)
  PROVE  HeldBy(evs) \in Nat
<1>1. CASE DOMAIN evs = {}
  BY <1>1, SumOfNone DEF HeldBy
<1>2. CASE DOMAIN evs # {}
  BY <1>2, HeldByOne
<1> QED
  BY <1>1, <1>2

(* Two tables that differ in one event only.                               *)
LEMMA HeldByOthers ==
  ASSUME NEW evs, NEW new, Events(evs), NEW n,
         DOMAIN new \ {n} = DOMAIN evs \ {n},
         \A m \in DOMAIN evs \ {n} : new[m] = evs[m]
  PROVE  SumOf(Weights(new), DOMAIN new \ {n}) = SumOf(Weights(evs), DOMAIN evs \ {n})
<1>1. \A m \in DOMAIN evs \ {n} : Weights(new)[m] = Weights(evs)[m]
  BY DEF Weights
<1>2. IsFiniteSet(DOMAIN evs \ {n})
  BY FS_Subset DEF Events
<1> QED
  BY <1>1, <1>2, SumOfSame

LEMMA HeldAfterAdding ==
  ASSUME NEW evs, NEW new, Events(evs), Events(new), NEW n, n \notin DOMAIN evs,
         DOMAIN new = DOMAIN evs \cup {n},
         \A m \in DOMAIN evs : new[m] = evs[m]
  PROVE  HeldBy(new) = HeldBy(evs) + StoredBytes(new[n])
<1>1. DOMAIN new \ {n} = DOMAIN evs \ {n} /\ DOMAIN evs \ {n} = DOMAIN evs
  OBVIOUS
<1>2. SumOf(Weights(new), DOMAIN new \ {n}) = HeldBy(evs)
  BY <1>1, HeldByOthers DEF HeldBy
<1>3. /\ HeldBy(new) = StoredBytes(new[n]) + SumOf(Weights(new), DOMAIN new \ {n})
      /\ StoredBytes(new[n]) \in Nat
  BY HeldByOne
<1>4. HeldBy(evs) \in Nat
  BY HeldByAny
<1> QED
  BY <1>2, <1>3, <1>4

LEMMA HeldAfterChanging ==
  ASSUME NEW evs, NEW new, Events(evs), Events(new), NEW n \in DOMAIN evs,
         DOMAIN new = DOMAIN evs,
         \A m \in DOMAIN evs \ {n} : new[m] = evs[m]
  PROVE  HeldBy(new) = HeldBy(evs) - StoredBytes(evs[n]) + StoredBytes(new[n])
<1>1. SumOf(Weights(new), DOMAIN new \ {n}) = SumOf(Weights(evs), DOMAIN evs \ {n})
  BY HeldByOthers
<1>2. /\ HeldBy(new) = StoredBytes(new[n]) + SumOf(Weights(new), DOMAIN new \ {n})
      /\ StoredBytes(new[n]) \in Nat
  BY HeldByOne
<1>3. /\ HeldBy(evs) = StoredBytes(evs[n]) + SumOf(Weights(evs), DOMAIN evs \ {n})
      /\ StoredBytes(evs[n]) \in Nat
      /\ SumOf(Weights(evs), DOMAIN evs \ {n}) \in Nat
  BY HeldByOne
<1> QED
  BY <1>1, <1>2, <1>3

LEMMA HeldAfterRemoving ==
  ASSUME NEW evs, NEW new, Events(evs), NEW n \in DOMAIN evs,
         DOMAIN new = DOMAIN evs \ {n},
         \A m \in DOMAIN evs \ {n} : new[m] = evs[m]
  PROVE  /\ HeldBy(new) = HeldBy(evs) - StoredBytes(evs[n])
         /\ StoredBytes(evs[n]) <= HeldBy(evs)
<1>1. DOMAIN new \ {n} = DOMAIN new /\ DOMAIN new \ {n} = DOMAIN evs \ {n}
  OBVIOUS
<1>2. HeldBy(new) = SumOf(Weights(evs), DOMAIN evs \ {n})
  BY <1>1, HeldByOthers DEF HeldBy
<1>3. /\ HeldBy(evs) = StoredBytes(evs[n]) + SumOf(Weights(evs), DOMAIN evs \ {n})
      /\ StoredBytes(evs[n]) \in Nat
      /\ SumOf(Weights(evs), DOMAIN evs \ {n}) \in Nat
  BY HeldByOne
<1> QED
  BY <1>2, <1>3

(* The counter is the sum, and the next number is that of no event: the    *)
(* row numbers its events by a count that deletions leave alone.           *)
StorageInv ==
  /\ StorageIsExact
  /\ DOMAIN events \subseteq 1 .. row.count

LEMMA InitStorageInv == Init => StorageInv
<1> SUFFICES ASSUME Init PROVE StorageInv
  OBVIOUS
<1>1. DOMAIN events = {} /\ row.stored = 0 /\ row.count = 0
  BY DEF Init
<1>2. Total = 0
  BY <1>1, TotalIsSum, SumOfNone DEF HeldBy
<1> QED
  BY <1>1, <1>2, Limits DEF StorageInv, StorageIsExact

LEMMA RowStepKeepsStorageInv ==
  ASSUME IInv, RowOK', EventsOK', StorageInv, RowStep
  PROVE  StorageInv'
<1>1. /\ row \in Rows /\ row.count \in Nat /\ row.stored \in Int
      /\ row.count <= RequestLimit
      /\ row.status = "active" => row.stored < StorageLimit
  BY DEF IInv, RowOK, Rows, ActiveHasRoom
<1>2. /\ row.stored = HeldBy(events) /\ row.stored <= StorageLimit
      /\ DOMAIN events \subseteq 1 .. row.count
  BY TotalIsSum DEF StorageInv, StorageIsExact
<1>3. Events(events) /\ Events(events')
  <2>1. Events(events)
    BY HeldIsTotal DEF IInv
  <2>2. IsFiniteSet(Numbers)
    BY Limits, FS_Interval DEF Numbers
  <2>3. Events(events')
    BY <2>2, FS_Subset DEF EventsOK, Events
  <2> QED
    BY <2>1, <2>3
<1>4. SUFFICES /\ row'.stored = HeldBy(events') /\ row'.stored <= StorageLimit
               /\ DOMAIN events' \subseteq 1 .. row'.count
  BY TotalIsSum DEF StorageInv, StorageIsExact
<1>5. ASSUME DOMAIN events' = {}, row'.stored = 0
      PROVE  /\ row'.stored = HeldBy(events') /\ row'.stored <= StorageLimit
             /\ DOMAIN events' \subseteq 1 .. row'.count
  BY <1>5, SumOfNone, Limits DEF HeldBy
<1>6. CASE UNCHANGED <<row, events>>
  BY <1>2, <1>6
<1>7. CASE Expires
  <2>1. CASE Live(row)
    <3>1. DOMAIN events' = {} /\ row'.stored = 0
      BY <1>1, <1>7, <2>1 DEF Expires, ExpireLocked, Erased, Rows
    <3> QED
      BY <1>5, <3>1
  <2>2. CASE ~Live(row)
    BY <1>6, <1>7, <2>2 DEF Expires, ExpireLocked
  <2> QED
    BY <2>1, <2>2
<1>8. CASE Accepts
  <2>1. PICK body \in Bodies : Open(body) /\ ~Overflows(body) /\ Store(body)
    BY <1>8 DEF Accepts
  <2>2. /\ body \in Nat /\ row.stored + body <= StorageLimit
        /\ NextCount = row.count + 1
    BY <1>1, <2>1, Limits DEF Overflows, NextCount
  <2>3. row'.stored = row.stored + body /\ row'.count = NextCount
    BY <1>1, <2>1 DEF Store, Rows
  <2>4. NextCount \notin DOMAIN events
    BY <1>1, <1>2, <2>2
  <2>5. /\ DOMAIN events' = DOMAIN events \cup {NextCount}
        /\ events'[NextCount] = [bytes |-> body, location |-> 0]
        /\ \A m \in DOMAIN events : events'[m] = events[m]
    BY <2>1, <2>4 DEF Store
  <2>6. StoredBytes(events'[NextCount]) = body
    BY <2>2, <2>5 DEF StoredBytes
  <2>7. HeldBy(events') = HeldBy(events) + StoredBytes(events'[NextCount])
    BY <1>3, <2>4, <2>5, HeldAfterAdding
  <2>8. DOMAIN events' \subseteq 1 .. row'.count
    BY <1>1, <1>2, <2>2, <2>3, <2>5
  <2> QED
    BY <1>2, <2>2, <2>3, <2>6, <2>7, <2>8
<1>9. CASE Exhausts
  <2>1. row'.stored = row.stored /\ row'.count = row.count /\ events' = events
    BY <1>1, <1>9 DEF Exhausts, Rows
  <2> QED
    BY <1>2, <2>1
<1>10. CASE Locates
  <2> DEFINE Stored(bytes, n) == row.stored + bytes - events[n].location
  <2>1. PICK bytes \in Locations, n \in DOMAIN events :
          /\ Stored(bytes, n) <= StorageLimit
          /\ events' = [events EXCEPT ![n].location = bytes]
          /\ row' = [row EXCEPT !.stored = Stored(bytes, n),
               !.status = IF @ = "active" /\ Stored(bytes, n) >= StorageLimit
                          THEN "exhausted" ELSE @]
    BY <1>10 DEF Locates
  <2>2. row'.stored = Stored(bytes, n) /\ row'.count = row.count
    <3> HIDE DEF Stored
    <3> QED
      BY <1>1, <2>1 DEF Rows
  <2>3. /\ DOMAIN events' = DOMAIN events
        /\ events'[n] = [events[n] EXCEPT !.location = bytes]
        /\ \A m \in DOMAIN events \ {n} : events'[m] = events[m]
    BY <2>1
  <2>4. events[n] \in Event /\ bytes \in Nat
    BY <1>3, Limits DEF Events
  <2>5. /\ StoredBytes(events[n]) = events[n].bytes + events[n].location
        /\ StoredBytes(events'[n]) = events[n].bytes + bytes
        /\ events[n].bytes \in Nat /\ events[n].location \in Nat
    BY <2>3, <2>4 DEF StoredBytes, Event
  <2>6. HeldBy(events')
          = HeldBy(events) - StoredBytes(events[n]) + StoredBytes(events'[n])
    BY <1>3, <2>3, HeldAfterChanging
  <2>7. Stored(bytes, n) = HeldBy(events')
    BY <1>1, <1>2, <2>4, <2>5, <2>6
  <2> QED
    BY <1>2, <2>1, <2>2, <2>3, <2>7
<1>11. CASE LosesEvent
  <2>1. PICK n \in DOMAIN events :
          /\ row' = [row EXCEPT !.stored = IF StoredBytes(events[n]) > @ THEN 0
                                           ELSE @ - StoredBytes(events[n])]
          /\ events' = [m \in DOMAIN events \ {n} |-> events[m]]
    BY <1>11 DEF LosesEvent
  <2>2. /\ HeldBy(events') = HeldBy(events) - StoredBytes(events[n])
        /\ StoredBytes(events[n]) <= HeldBy(events)
    BY <1>3, <2>1, HeldAfterRemoving
  <2>3. StoredBytes(events[n]) \in Nat
    BY <1>3, HeldByOne
  <2>4. /\ row'.stored = IF StoredBytes(events[n]) > row.stored THEN 0
                         ELSE row.stored - StoredBytes(events[n])
        /\ row'.count = row.count
    BY <1>1, <2>1 DEF Rows
  <2>5. row'.stored = HeldBy(events') /\ row'.stored <= StorageLimit
    BY <1>1, <1>2, <2>2, <2>3, <2>4, Limits
  <2> QED
    BY <1>2, <2>1, <2>4, <2>5
<1>12. CASE IsDestroyed
  <2>1. DOMAIN events' = {} /\ row'.stored = 0
    BY <1>1, <1>12 DEF IsDestroyed, Rows
  <2> QED
    BY <1>5, <2>1
<1> QED
  BY <1>6, <1>7, <1>8, <1>9, <1>10, <1>11, <1>12 DEF RowStep, ClockPasses, inbox

LEMMA StorageInductive == Spec => []StorageInv
<1>1. IInv /\ IInv' /\ StorageInv /\ [Next]_vars => StorageInv'
  <2> SUFFICES ASSUME IInv, IInv', StorageInv, [Next]_vars PROVE StorageInv'
    OBVIOUS
  <2>1. RowStep
    BY StepIsRowStep
  <2> QED
    BY <2>1, RowStepKeepsStorageInv DEF IInv
<1> QED
  BY <1>1, InitStorageInv, Inductive, PTL DEF Spec

(* Through late locations, deletions and sweeps between the steps of a     *)
(* request the counter of the row is the sum of what its events hold, and  *)
(* the plan's storage is never exceeded.                                   *)
THEOREM StorageAlwaysExact == Spec => []StorageIsExact
<1>1. StorageInv => StorageIsExact
  BY DEF StorageInv
<1> QED
  BY <1>1, StorageInductive, PTL

(* Every variable keeps its type; that the byte counter is never negative  *)
(* rests on its being a sum.                                               *)
THEOREM TypesAreKept == Spec => []TypeOK
<1>1. IInv /\ StorageInv => TypeOK
  <2> SUFFICES ASSUME IInv, StorageInv PROVE TypeOK
    OBVIOUS
  <2>1. row.stored \in Nat
    BY TotalIsSum, HeldIsTotal, HeldByAny DEF IInv, StorageInv, StorageIsExact
  <2>2. row.count \in Nat /\ row \in [status: Statuses, keys: BOOLEAN, count: Nat, stored: Nat]
    BY <2>1 DEF IInv, RowOK, Rows
  <2>3. lapsed \in BOOLEAN /\ accepted \in Nat
    BY <2>2 DEF IInv
  <2>4. /\ pc \in [Requests -> Steps] /\ job \in [Requests -> Job]
        /\ answer \in [Requests -> Page]
    BY DEF IInv, JobsOK
  <2>5. DOMAIN events \subseteq Numbers /\ \A n \in DOMAIN events : events[n] \in Event
    BY DEF IInv, EventsOK
  <2> QED
    BY <2>2, <2>3, <2>4, <2>5 DEF TypeOK, Statuses, Steps
<1> QED
  BY <1>1, Inductive, StorageInductive, PTL
-----------------------------------------------------------------------------
(* An inbox implements the metered capability: an accepted event is a use, *)
(* the clock or the owner ends it, and an active row that the sweep, its   *)
(* owner or a late location closes after the clock has ended it is only    *)
(* exhausted by that.                                                      *)
LEMMA RowStepIsMetered ==
  ASSUME IInv, RowStep
  PROVE  [Quota!Next]_(Quota!vars)
<1> USE Limits DEF IInv, RowOK, Rows, NothingOutlivesTheInbox, ActiveHasRoom, Live,
        Quota!vars, Quota!Next
<1>1. CASE Expires
  <2>1. CASE Live(row)
    <3>1. row'.status = "expired" /\ lapsed /\ lapsed' = lapsed /\ accepted' = accepted
      BY <1>1, <2>1 DEF Expires, ExpireLocked, Erased
    <3>2. CASE row.status = "active"
      BY <3>1, <3>2 DEF Quota!Exhaust
    <3>3. CASE row.status # "active"
      BY <3>1, <3>3
    <3> QED
      BY <3>2, <3>3
  <2>2. CASE ~Live(row)
    BY <1>1, <2>2 DEF Expires, ExpireLocked
  <2> QED
    BY <2>1, <2>2
<1>2. CASE Accepts
  <2>1. PICK body \in Bodies : Open(body) /\ ~Overflows(body) /\ Store(body)
    BY <1>2 DEF Accepts
  <2>2. /\ row.status = "active" /\ ~lapsed /\ ~lapsed'
        /\ accepted < RequestLimit /\ accepted' = accepted + 1
    BY <1>2, <2>1 DEF Accepts, Open, Overflows, NextCount, Store
  <2>3. row'.status = StatusAfter(NextCount, row.stored + body)
    BY <2>1 DEF Store
  <2>4. row'.status \in {"active", "exhausted"}
    BY <2>3 DEF StatusAfter
  <2>5. accepted' = RequestLimit => row'.status = "exhausted"
    BY <2>2, <2>3 DEF StatusAfter, Full, NextCount
  <2> QED
    BY <2>2, <2>4, <2>5 DEF Quota!Use
<1>3. CASE Exhausts
  BY <1>3 DEF Exhausts, Quota!Exhaust
<1>4. CASE Locates
  <2>1. /\ accepted' = accepted /\ lapsed' = lapsed /\ Live(row)
        /\ \/ row'.status = row.status
           \/ row.status = "active" /\ row'.status = "exhausted"
    BY <1>4 DEF Locates
  <2>2. CASE row'.status = row.status
    BY <2>1, <2>2
  <2>3. CASE row.status = "active" /\ row'.status = "exhausted"
    BY <2>1, <2>3 DEF Quota!Exhaust
  <2> QED
    BY <2>1, <2>2, <2>3
<1>5. CASE LosesEvent
  BY <1>5 DEF LosesEvent
<1>6. CASE IsDestroyed
  <2>1. /\ accepted' = accepted /\ lapsed' = lapsed /\ Live(row) /\ ~Live(row')
        /\ row'.status # "active"
    BY <1>6 DEF IsDestroyed
  <2>2. CASE lapsed
    <3>1. CASE row.status = "active"
      BY <2>1, <2>2, <3>1 DEF Quota!Exhaust
    <3>2. CASE row.status # "active"
      BY <2>1, <2>2, <3>2
    <3> QED
      BY <3>1, <3>2
  <2>3. CASE ~lapsed
    BY <2>1, <2>3 DEF Quota!End
  <2> QED
    BY <2>2, <2>3
<1>7. CASE ClockPasses
  <2>1. CASE Live(row)
    BY <1>7, <2>1 DEF ClockPasses, inbox, Quota!End
  <2>2. CASE ~Live(row)
    BY <1>7, <2>2 DEF ClockPasses, inbox
  <2> QED
    BY <2>1, <2>2
<1>8. CASE UNCHANGED <<inbox, lapsed>>
  BY <1>8 DEF inbox
<1> QED
  BY <1>1, <1>2, <1>3, <1>4, <1>5, <1>6, <1>7, <1>8 DEF RowStep

(* Every accepted event is counted once, at most as many as were bought,   *)
(* and none after exhaustion, expiry or destruction.                       *)
THEOREM InboxImplementsMetered == Spec => InboxIsMetered
<1>1. Init => Quota!Init
  BY DEF Init, Quota!Init, Live
<1>2. IInv /\ [Next]_vars => [Quota!Next]_(Quota!vars)
  BY StepIsRowStep, RowStepIsMetered
<1> QED
  BY <1>1, <1>2, Inductive, PTL DEF Spec, InboxIsMetered, Quota!Spec
-----------------------------------------------------------------------------
(* The portal.                                                             *)

Cursors == Numbers \cup {NoEvent}
Portals == [current: Cursors, next: Cursors, back: Seq(Cursors), previous: BOOLEAN]
PortalOK == portal \in Portals

LEMMA InitPortalOK == PortalInit => PortalOK
BY DEF PortalInit, PortalOK, Portals, Fresh, Cursors

(* Every step of the portal is one of the requests that CATCH knows.       *)
LEMMA PortalStepIsStep ==
  ASSUME PortalOK, [PortalNext]_allVars
  PROVE  [Next]_vars
<1> USE DEF PortalOK, Portals, Cursors, Next
<1>1. ASSUME NEW r \in Requests, ResetAndLoadEvents(r) PROVE Next
  BY <1>1 DEF ResetAndLoadEvents
<1>2. ASSUME NEW r \in Requests, NextPage(r) PROVE Next
  BY <1>2 DEF NextPage
<1>3. ASSUME NEW r \in Requests, PreviousPage(r) PROVE Next
  <2>1. Last(portal.back) \in Cursors /\ List(r, Last(portal.back))
    BY <1>3 DEF PreviousPage, Last
  <2> QED
    BY <2>1
<1>4. ASSUME NEW r \in Requests, LoadEvents(r) PROVE Next
  BY <1>4 DEF LoadEvents
<1>5. ASSUME NEW r \in Requests, DeleteAndReload(r) PROVE Next
  BY <1>5 DEF DeleteAndReload
<1>6. CASE Elsewhere
  BY <1>6 DEF Elsewhere
<1>7. CASE UNCHANGED allVars
  BY <1>7 DEF allVars
<1> QED
  BY <1>1, <1>2, <1>3, <1>4, <1>5, <1>6, <1>7 DEF PortalNext

LEMMA PortalStepKeepsPortalOK ==
  ASSUME IInv, PortalOK, [PortalNext]_allVars
  PROVE  PortalOK'
<1> USE DEF PortalOK, Portals
<1>1. ASSUME NEW r \in Requests, ResetAndLoadEvents(r) PROVE PortalOK'
  <2>1. NoEvent \in Cursors /\ <<>> \in Seq(Cursors)
    BY DEF Cursors
  <2>2. portal' = [current |-> NoEvent, next |-> NoEvent, back |-> <<>>,
                   previous |-> portal.previous]
    BY <1>1 DEF ResetAndLoadEvents, Fresh
  <2> QED
    BY <2>1, <2>2
<1>2. ASSUME NEW r \in Requests, NextPage(r) PROVE PortalOK'
  <2>1. Append(portal.back, portal.current) \in Seq(Cursors)
    OBVIOUS
  <2>2. portal' = [current |-> portal.next, next |-> portal.next,
                   back |-> Append(portal.back, portal.current),
                   previous |-> portal.previous]
    BY <1>2 DEF NextPage
  <2> QED
    BY <2>1, <2>2
<1>3. ASSUME NEW r \in Requests, PreviousPage(r) PROVE PortalOK'
  <2>1. Last(portal.back) \in Cursors /\ Front(portal.back) \in Seq(Cursors)
    BY <1>3 DEF PreviousPage, Last, Front
  <2> QED
    BY <1>3, <2>1 DEF PreviousPage
<1>4. ASSUME NEW r \in Requests, LoadEvents(r) PROVE PortalOK'
  <2>1. answer[r].next \in Cursors
    BY DEF IInv, JobsOK, Page, Cursors
  <2> QED
    BY <1>4, <2>1 DEF LoadEvents, Rendered
<1>5. CASE UNCHANGED portal
  BY <1>5
<1> QED
  BY <1>1, <1>2, <1>3, <1>4, <1>5
     DEF PortalNext, allVars, portalVars, DeleteAndReload, Elsewhere

LEMMA PortalInductive == PortalSpec => [](IInv /\ PortalOK)
<1>1. PortalInit => IInv /\ PortalOK
  BY InitIInv, InitPortalOK DEF PortalInit
<1>2. IInv /\ PortalOK /\ [PortalNext]_allVars => IInv' /\ PortalOK'
  BY PortalStepIsStep, StepKeepsIInv, PortalStepKeepsPortalOK
<1> QED
  BY <1>1, <1>2, PTL DEF PortalSpec

(* Whatever the owner clicks and in whatever order the pages arrive, the   *)
(* inbox behind the portal behaves as CatchInbox specifies.                *)
THEOREM PortalUsesInbox == PortalSpec => Spec
<1>1. PortalInit => Init
  BY DEF PortalInit
<1>2. PortalOK /\ [PortalNext]_allVars => [Next]_vars
  BY PortalStepIsStep
<1> QED
  BY <1>1, <1>2, PortalInductive, PTL DEF PortalSpec, Spec
-----------------------------------------------------------------------------
(* The argument for paging.  A cursor reaches what the walk still has to   *)
(* show when all of it lies below the cursor.  Every cursor the portal     *)
(* keeps reaches it, and so does the one of every load that started in     *)
(* this walk; its page, once cut, leaves the rest to the cursor it brings. *)
Reaches(cursor) == cursor = NoEvent \/ \A n \in walk.missing : n < cursor
LeavesTheRest(page) ==
  \A n \in walk.missing \ page.events : page.next # NoEvent /\ n < page.next

WalkInv ==
  /\ walk.missing \subseteq DOMAIN events
  /\ Reaches(portal.current) /\ Reaches(portal.next)
  /\ \A i \in 1 .. Len(portal.back) : Reaches(portal.back[i])
  /\ \A r \in Requests \ late : job[r].kind = "list" =>
       /\ Reaches(job[r].event)
       /\ pc[r] = "answered" => LeavesTheRest(answer[r])
  /\ PagingMissesNothing

(* A listing that a step leaves in flight is the one that was, and if the  *)
(* step answered it, its page was cut from the events below its cursor, or *)
(* is empty because the inbox has ended.                                   *)
Cut(r) ==
  LET below == Below(job[r].event) IN
  /\ answer'[r] = [events |-> PageOf(below), next |-> NextCursor(below, PageOf(below))]
  /\ UNCHANGED events

Ended(r) == answer'[r] = NoPage /\ events' = <<>>

LEMMA ListingsStay ==
  ASSUME IInv, Inbox, NEW q \in Requests, job'[q].kind = "list"
  PROVE  /\ job'[q] = job[q]
         /\ pc'[q] = "answered" =>
              Cut(q) \/ Ended(q) \/ (pc[q] = "answered" /\ answer'[q] = answer[q])
<1> DEFINE Goal == /\ job'[q] = job[q]
                   /\ pc'[q] = "answered" =>
                        \/ Cut(q) \/ Ended(q)
                        \/ pc[q] = "answered" /\ answer'[q] = answer[q]
<1> USE DEF IInv, JobsOK
<1>1. ASSUME NEW r \in Requests, Done(r) PROVE Goal
  BY <1>1 DEF Done, NoJob
<1>2. ASSUME NEW r \in Requests, Goto(r, job[r].kind), pc[r] = "credentials"
      PROVE  Goal
  BY <1>2 DEF Goto, Job
<1>3. ASSUME NEW r \in Requests, pc[r] = "ingest",
             pc' = [pc EXCEPT ![r] = "locate"],
             job' = [job EXCEPT ![r].event = NextCount], UNCHANGED answer
      PROVE  Goal
  <2>1. job[r].kind = "ingest"
    BY <1>3 DEF Kinds
  <2>2. job'[r] = [job[r] EXCEPT !.event = NextCount] /\ job[r] \in Job
    BY <1>3
  <2>3. job'[r].kind = "ingest"
    BY <2>1, <2>2 DEF Job
  <2> QED
    <3>1. q # r
      BY <2>3
    <3>2. job'[q] = job[q] /\ pc'[q] = pc[q] /\ answer'[q] = answer[q]
      BY <1>3, <3>1
    <3> QED
      BY <3>2
<1>4. ASSUME NEW r \in Requests, ListEvents(r) PROVE Goal
  <2>1. CASE /\ pc' = [pc EXCEPT ![r] = "answered"]
             /\ answer' = [answer EXCEPT ![r] = NoPage]
             /\ UNCHANGED job /\ events' = <<>>
    BY <2>1 DEF Ended
  <2>3. CASE lapsed
    BY <1>4, <2>1, <2>3 DEF ListEvents, ExpireLocked, NothingOutlivesTheInbox
  <2>4. CASE ~lapsed /\ ~Live(row)
    BY <1>4, <2>1, <2>4 DEF ListEvents, inbox, NothingOutlivesTheInbox
  <2> DEFINE below == Below(job[r].event)
             rows == [events |-> PageOf(below), next |-> NextCursor(below, PageOf(below))]
  <2>2. CASE /\ pc' = [pc EXCEPT ![r] = "answered"]
             /\ answer' = [answer EXCEPT ![r] = rows]
             /\ UNCHANGED <<inbox, job>>
    <3>1. CASE q = r
      <4>1. answer'[r] = rows /\ UNCHANGED <<events, job>>
        BY <2>2 DEF inbox
      <4>2. Cut(r)
        BY <4>1 DEF Cut
      <4>3. Cut(q)
        BY <3>1, <4>2
      <4> QED
        BY <4>1, <4>3
    <3>2. CASE q # r
      BY <2>2, <3>2
    <3> QED
      BY <3>1, <3>2
  <2> QED
    BY <1>4, <2>2, <2>3, <2>4 DEF ListEvents
<1>5. ASSUME NEW r \in Requests, pc[r] = "delete", Goto(r, "answered") PROVE Goal
  BY <1>5 DEF Goto, Kinds
<1>6. ASSUME NEW r \in Requests, NEW kind \in {"ingest", "status", "delete", "destroy"},
             NEW body, NEW n, Ask(r, kind, body, n)
      PROVE  Goal
  BY <1>6 DEF Ask
<1>7. ASSUME UNCHANGED <<pc, job, answer>> PROVE Goal
  BY <1>7
<1> HIDE DEF Goal, IInv, JobsOK
<1>8. ASSUME NEW r \in Requests, GetCredentialHashes(r) PROVE Goal
  BY <1>1, <1>2, <1>8 DEF GetCredentialHashes
<1>9. ASSUME NEW r \in Requests, AcceptEvent(r) PROVE Goal
  BY <1>1, <1>3, <1>9 DEF AcceptEvent
<1>10. ASSUME NEW r \in Requests, DeleteEvent(r) PROVE Goal
  BY <1>1, <1>5, <1>10 DEF DeleteEvent
<1>11. ASSUME NEW r \in Requests,
              \/ GetResource(r) \/ Destroy(r) \/ Fail(r)
              \/ \E bytes \in Locations : SetEventIpLocation(r, bytes)
       PROVE  Goal
  BY <1>1, <1>11 DEF GetResource, Destroy, Fail, SetEventIpLocation
<1>12. ASSUME NEW r \in Requests,
              \/ \E body \in Bodies : Ingest(r, body)
              \/ \E kind \in {"status", "destroy"} : Manage(r, kind)
              \/ \E n \in Numbers : Delete(r, n)
       PROVE  Goal
  <2>1. CASE \E body \in Bodies : Ingest(r, body)
    BY <1>6, <2>1 DEF Ingest
  <2>2. CASE \E kind \in {"status", "destroy"} : Manage(r, kind)
    BY <1>6, <2>2 DEF Manage
  <2>3. CASE \E n \in Numbers : Delete(r, n)
    BY <1>6, <2>3 DEF Delete
  <2> QED
    BY <1>12, <2>1, <2>2, <2>3
<1>13. ASSUME NEW r \in Requests, Serve(r) PROVE Goal
  BY <1>4, <1>8, <1>9, <1>10, <1>11, <1>13 DEF Serve
<1>14. ASSUME ExpireDueResources \/ Lapse PROVE Goal
  BY <1>7, <1>14 DEF ExpireDueResources, Lapse
<1>15. Goal
  BY <1>11, <1>12, <1>13, <1>14 DEF Inbox
<1> QED
  BY <1>15 DEF Goal

(* A page that is cut in this walk leaves the rest to its next cursor.     *)
LEMMA CutLeavesTheRest ==
  ASSUME IInv, NEW r \in Requests, Cut(r),
         walk.missing \subseteq DOMAIN events, Reaches(job[r].event),
         NEW n \in walk.missing, n \notin answer'[r].events
  PROVE  answer'[r].next # NoEvent /\ n < answer'[r].next
<1> DEFINE below == Below(job[r].event)
<1>1. below \in SUBSET Numbers
  BY DEF Below, IInv, EventsOK
<1>2. n \in below
  BY DEF Reaches, Below
<1>3. answer'[r].events = PageOf(below) /\ answer'[r].next = NextCursor(below, PageOf(below))
  BY DEF Cut
<1> HIDE DEF below
<1> QED
  BY <1>1, <1>2, <1>3, NextPageBeginsBelow

LEMMA InitWalkInv == PortalInit => WalkInv
BY DEF PortalInit, WalkInv, Fresh, NoWalk, NewWalk, Reaches, Init, NoJob,
       PagingMissesNothing

(* A step of the inbox can only shorten what the walk still has to show.   *)
LEMMA ElsewhereKeepsWalkInv ==
  ASSUME IInv, WalkInv, Elsewhere
  PROVE  WalkInv'
<1>1. /\ walk'.missing = walk.missing \cap DOMAIN events'
      /\ walk'.begun = walk.begun /\ portal' = portal
  BY DEF Elsewhere
<1>2. \A cursor : Reaches(cursor) => Reaches(cursor)'
  BY <1>1 DEF Reaches
<1>3. ASSUME NEW q \in Requests \ late', job'[q].kind = "list"
      PROVE  /\ Reaches(job[q].event)'
             /\ pc'[q] = "answered" => LeavesTheRest(answer[q])'
  <2>1. /\ job'[q] = job[q]
        /\ pc'[q] = "answered" =>
             Cut(q) \/ Ended(q) \/ (pc[q] = "answered" /\ answer'[q] = answer[q])
    BY <1>3, ListingsStay DEF Elsewhere
  <2>2. q \notin late
    BY <1>3 DEF Elsewhere
  <2>3. /\ Reaches(job[q].event)
        /\ pc[q] = "answered" => LeavesTheRest(answer[q])
    BY <1>3, <2>1, <2>2 DEF WalkInv
  <2>4. Reaches(job[q].event)'
    BY <1>2, <2>1, <2>3
  <2>5. ASSUME pc'[q] = "answered", NEW n \in walk'.missing, n \notin answer'[q].events
        PROVE  answer'[q].next # NoEvent /\ n < answer'[q].next
    <3>1. n \in walk.missing
      BY <1>1, <2>5
    <3>2. CASE Cut(q)
      BY <3>1, <3>2, <2>3, <2>5, CutLeavesTheRest DEF WalkInv
    <3>3. CASE pc[q] = "answered" /\ answer'[q] = answer[q]
      BY <3>1, <3>3, <2>3, <2>5 DEF LeavesTheRest
    <3>4. CASE Ended(q)
      BY <1>1, <2>5, <3>4 DEF Ended
    <3> QED
      BY <2>1, <2>5, <3>2, <3>3, <3>4
  <2> QED
    BY <2>4, <2>5 DEF LeavesTheRest
<1>4. PagingMissesNothing'
  BY <1>1 DEF PagingMissesNothing, WalkInv
<1>5. /\ walk'.missing \subseteq DOMAIN events'
      /\ Reaches(portal.current)' /\ Reaches(portal.next)'
      /\ (\A i \in 1 .. Len(portal.back) : Reaches(portal.back[i]))'
  BY <1>1, <1>2 DEF WalkInv
<1> QED
  BY <1>3, <1>4, <1>5 DEF WalkInv

(* A click starts a load at a cursor that the portal keeps.                *)
LEMMA ClickKeepsWalkInv ==
  ASSUME IInv, WalkInv, NEW r \in Requests, NEW cursor, List(r, cursor),
         Reaches(cursor), UNCHANGED <<late, walk>>,
         Reaches(portal'.current), portal'.next = portal.next,
         \A i \in 1 .. Len(portal'.back) : Reaches(portal'.back[i])
  PROVE  WalkInv'
<1>1. \A c : Reaches(c) <=> Reaches(c)'
  BY DEF Reaches
<1>2. /\ UNCHANGED events
      /\ job' = [job EXCEPT ![r] = [kind |-> "list", body |-> 0, event |-> cursor]]
      /\ pc' = [pc EXCEPT ![r] = "credentials"]
      /\ answer' = [answer EXCEPT ![r] = NoPage]
  BY DEF List, Ask, inbox
<1>3. ASSUME NEW q \in Requests \ late', job'[q].kind = "list"
      PROVE  /\ Reaches(job[q].event)'
             /\ pc'[q] = "answered" => LeavesTheRest(answer[q])'
  <2>1. CASE q = r
    <3>1. job'[q].event = cursor /\ pc'[q] = "credentials"
      BY <1>2, <2>1 DEF IInv, JobsOK
    <3> QED
      BY <3>1, <1>1
  <2>2. CASE q # r
    <3>1. job'[q] = job[q] /\ pc'[q] = pc[q] /\ answer'[q] = answer[q]
      BY <1>2, <2>2 DEF IInv, JobsOK
    <3> QED
      BY <1>1, <1>3, <3>1 DEF WalkInv, LeavesTheRest
  <2> QED
    BY <2>1, <2>2
<1>4. /\ walk'.missing \subseteq DOMAIN events'
      /\ Reaches(portal.current)' /\ Reaches(portal.next)'
      /\ (\A i \in 1 .. Len(portal.back) : Reaches(portal.back[i]))'
      /\ PagingMissesNothing'
  BY <1>1, <1>2 DEF WalkInv, PagingMissesNothing
<1> QED
  BY <1>3, <1>4 DEF WalkInv

LEMMA PortalStepKeepsWalkInv ==
  ASSUME IInv, PortalOK, WalkInv, [PortalNext]_allVars
  PROVE  WalkInv'
<1>1. ASSUME NEW r \in Requests, ResetAndLoadEvents(r) PROVE WalkInv'
  <2>1. /\ UNCHANGED events /\ late' = Loading
        /\ walk' = [begun |-> FALSE, missing |-> DOMAIN events]
        /\ portal'.current = NoEvent /\ portal'.next = NoEvent /\ portal'.back = <<>>
    BY <1>1 DEF ResetAndLoadEvents, NewWalk, Fresh, List, Ask, inbox
  <2>2. job' = [job EXCEPT ![r] = [kind |-> "list", body |-> 0, event |-> NoEvent]]
        /\ pc' = [pc EXCEPT ![r] = "credentials"]
    BY <1>1 DEF ResetAndLoadEvents, List, Ask
  <2>3. ASSUME NEW q \in Requests \ late', job'[q].kind = "list"
        PROVE  q = r /\ job'[q].event = NoEvent /\ pc'[q] = "credentials"
    BY <2>1, <2>2, <2>3 DEF Loading, IInv, JobsOK
  <2> QED
    BY <2>1, <2>3 DEF WalkInv, Reaches, PagingMissesNothing
<1>2. ASSUME NEW r \in Requests, NextPage(r) PROVE WalkInv'
  <2>1. /\ portal'.current = portal.next /\ portal'.next = portal.next
        /\ portal'.back = Append(portal.back, portal.current)
    BY <1>2 DEF NextPage, PortalOK, Portals
  <2>2. ASSUME NEW i \in 1 .. Len(portal'.back) PROVE Reaches(portal'.back[i])
    <3>1. CASE i \in 1 .. Len(portal.back)
      <4>1. portal'.back[i] = portal.back[i]
        BY <2>1, <3>1 DEF PortalOK, Portals
      <4> QED
        BY <3>1, <4>1 DEF WalkInv
    <3>2. CASE i = Len(portal.back) + 1
      <4>1. portal'.back[i] = portal.current
        BY <2>1, <3>2 DEF PortalOK, Portals
      <4> QED
        BY <4>1 DEF WalkInv
    <3> QED
      BY <2>1, <3>1, <3>2 DEF PortalOK, Portals
  <2> QED
    BY <1>2, <2>1, <2>2, ClickKeepsWalkInv DEF NextPage, WalkInv
<1>3. ASSUME NEW r \in Requests, PreviousPage(r) PROVE WalkInv'
  <2>1. /\ portal'.current = Last(portal.back) /\ portal'.next = portal.next
        /\ portal'.back = Front(portal.back)
    BY <1>3 DEF PreviousPage, PortalOK, Portals
  <2>2. Reaches(Last(portal.back))
    BY <1>3 DEF PreviousPage, PortalOK, Portals, Last, WalkInv
  <2>3. ASSUME NEW i \in 1 .. Len(portal'.back) PROVE Reaches(portal'.back[i])
    <3>1. i \in 1 .. Len(portal.back) /\ portal'.back[i] = portal.back[i]
      BY <1>3, <2>1 DEF PreviousPage, PortalOK, Portals, Front
    <3> QED
      BY <3>1 DEF WalkInv
  <2> QED
    BY <1>3, <2>1, <2>2, <2>3, ClickKeepsWalkInv DEF PreviousPage
<1>4. ASSUME NEW r \in Requests, DeleteAndReload(r) PROVE WalkInv'
  BY <1>4, ClickKeepsWalkInv DEF DeleteAndReload, portalVars, WalkInv
<1>5. ASSUME NEW r \in Requests, LoadEvents(r) PROVE WalkInv'
  <2>1. /\ UNCHANGED events /\ late' = late \ {r}
        /\ pc' = [pc EXCEPT ![r] = "idle"] /\ job' = [job EXCEPT ![r] = NoJob]
        /\ answer' = [answer EXCEPT ![r] = NoPage]
    BY <1>5 DEF LoadEvents, Receive, Done, inbox
  <2>2. /\ portal'.current = portal.current /\ portal'.back = portal.back
        /\ portal'.next = answer[r].next
    BY <1>5 DEF LoadEvents, Rendered, PortalOK, Portals
  <2>3. ASSUME NEW q \in Requests \ late', job'[q].kind = "list"
        PROVE  /\ q \notin late /\ job'[q] = job[q] /\ pc'[q] = pc[q]
               /\ answer'[q] = answer[q]
    BY <2>1, <2>3 DEF IInv, JobsOK, NoJob
  <2>4. CASE r \in late
    <3>1. walk'.missing = {}
      BY <1>5, <2>4 DEF LoadEvents, NoWalk, NewWalk
    <3> QED
      BY <2>1, <3>1 DEF WalkInv, Reaches, LeavesTheRest, PagingMissesNothing
  <2>5. CASE r \notin late
    <3>1. walk'.missing = walk.missing \ answer[r].events
      BY <1>5, <2>5 DEF LoadEvents
    <3>2. \A c : Reaches(c) => Reaches(c)'
      BY <3>1 DEF Reaches
    <3>3. LeavesTheRest(answer[r])
      BY <1>5, <2>5 DEF LoadEvents, Answered, WalkInv
    <3>4. Reaches(portal.next)' /\ PagingMissesNothing'
      BY <2>2, <3>1, <3>3 DEF Reaches, LeavesTheRest, PagingMissesNothing
    <3>5. /\ walk'.missing \subseteq DOMAIN events'
          /\ Reaches(portal.current)'
          /\ (\A i \in 1 .. Len(portal.back) : Reaches(portal.back[i]))'
      BY <2>1, <2>2, <3>1, <3>2 DEF WalkInv
    <3>6. ASSUME NEW q \in Requests \ late', job'[q].kind = "list"
          PROVE  /\ Reaches(job[q].event)'
                 /\ pc'[q] = "answered" => LeavesTheRest(answer[q])'
      BY <2>3, <3>1, <3>2, <3>6 DEF WalkInv, LeavesTheRest
    <3> QED
      BY <3>4, <3>5, <3>6 DEF WalkInv
  <2> QED
    BY <2>4, <2>5
<1>6. CASE Elsewhere
  BY <1>6, ElsewhereKeepsWalkInv
<1>7. CASE UNCHANGED allVars
  BY <1>7 DEF allVars, vars, portalVars, WalkInv, Reaches, LeavesTheRest,
              PagingMissesNothing
<1> QED
  BY <1>1, <1>2, <1>3, <1>4, <1>5, <1>6, <1>7 DEF PortalNext

(* Of the events that were there when the walk began and still are, the    *)
(* portal has shown every one that the next page does not begin below,     *)
(* whatever happened to the inbox and however the loads of this walk       *)
(* overlapped, unless the late answer of an older load has overtaken it.   *)
THEOREM PagingNeverMisses == PortalSpec => []PagingMissesNothing
<1>1. WalkInv => PagingMissesNothing
  BY DEF WalkInv
<1> QED
  BY <1>1, InitWalkInv, PortalStepKeepsWalkInv, PortalInductive, PTL DEF PortalSpec
=============================================================================
