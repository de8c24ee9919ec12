----------------------------- MODULE CatchInbox -----------------------------
(***************************************************************************)
(* CATCH: one webhook inbox from its dispensing to its end.  An ingestion  *)
(* is three transactions of its own (credentials, accept, a location that  *)
(* is looked up after the sender got its answer), an owner request is two  *)
(* (credentials, then the operation); the expiry worker sweeps between     *)
(* them.  Each transaction locks the inbox row first and reads the clock   *)
(* with it, so each one is an action.                                      *)
(***************************************************************************)
EXTENDS Naturals, FiniteSets, Functions

CONSTANTS
  Requests,      \* HTTP request slots, reused after each response
  RequestLimit,  \* events the plan accepts
  StorageLimit,  \* bytes the plan stores
  MaxBody,       \* bytes the plan allows in one body
  Bodies,        \* sizes of what senders send, headers and address included
  Locations,     \* sizes of what the location lookup returns
  PageSize,      \* rows of a page of events
  NoEvent

ASSUME CatchAssumption ==
  /\ {RequestLimit, StorageLimit, PageSize} \subseteq Nat \ {0}
  /\ Bodies \subseteq Nat \ {0} /\ Locations \subseteq Nat
  /\ MaxBody \in Nat
  /\ NoEvent \notin Nat

VARIABLES
  row,      \* catch_resources
  events,   \* catch_events by sequence number, which names the event
  lapsed,   \* the database clock is past expires_at
  pc,       \* the next step of each request
  job,      \* what each request is about
  answer,   \* the page of events a request has answered
  accepted  \* history: how many events were ever accepted

vars == <<row, events, lapsed, pc, job, answer, accepted>>
inbox == <<row, events, accepted>>
-----------------------------------------------------------------------------
Event == [bytes: Nat, location: Nat]
Numbers == 1 .. RequestLimit
Job == [kind: {"none", "ingest", "status", "list", "delete", "destroy"},
        body: Bodies \cup {0}, event: Numbers \cup {NoEvent}]
Page == [events: SUBSET Numbers, next: Numbers \cup {NoEvent}]

NoJob == [kind |-> "none", body |-> 0, event |-> NoEvent]
NoPage == [events |-> {}, next |-> NoEvent]

Live(record) == record.status \in {"active", "exhausted", "suspended"}

Init ==
  /\ row = [status |-> "active", keys |-> TRUE, count |-> 0, stored |-> 0]
  /\ events = <<>>
  /\ lapsed = FALSE
  /\ pc = [r \in Requests |-> "idle"]
  /\ job = [r \in Requests |-> NoJob]
  /\ answer = [r \in Requests |-> NoPage]
  /\ accepted = 0
-----------------------------------------------------------------------------
(* Faults that the runs must notice: mutated forms of definitions below.   *)

EventsPresent == Cardinality(DOMAIN events) + 1
BytesWithoutLocation(event) == event.bytes
FullOfBytes(count, stored) == stored >= StorageLimit
OpenInAnyStatus(body) == ~lapsed /\ body <= MaxBody
NextAfterPage(below, page) ==
  LET rest == below \ page IN
  IF rest = {} THEN NoEvent ELSE CHOOSE n \in rest : \A m \in rest : m <= n
-----------------------------------------------------------------------------
StoredBytes(event) == event.bytes + event.location
Total ==
  FoldFunction(+, 0, [n \in DOMAIN events |-> events[n].bytes + events[n].location])

Goto(r, step) ==
  /\ pc' = [pc EXCEPT ![r] = step]
  /\ UNCHANGED <<job, answer>>

Done(r) ==
  /\ pc' = [pc EXCEPT ![r] = "idle"]
  /\ job' = [job EXCEPT ![r] = NoJob]
  /\ answer' = [answer EXCEPT ![r] = NoPage]

Ask(r, kind, body, n) ==
  /\ pc' = [pc EXCEPT ![r] = "credentials"]
  /\ job' = [job EXCEPT ![r] = [kind |-> kind, body |-> body, event |-> n]]
  /\ answer' = [answer EXCEPT ![r] = NoPage]
  /\ UNCHANGED <<inbox, lapsed>>

(* Any method on /c/:publicId.                                             *)
Ingest(r, body) == pc[r] = "idle" /\ Ask(r, "ingest", body, NoEvent)

(* The owner's routes; the owner knows the events of earlier pages, and a  *)
(* listing starts below a cursor or, without one, at the newest event.     *)
Answered(r, kind) == pc[r] = "answered" /\ job[r].kind = kind
Manage(r, kind) == pc[r] = "idle" /\ Ask(r, kind, 0, NoEvent)
Delete(r, n) == pc[r] = "idle" /\ n <= accepted /\ Ask(r, "delete", 0, n)
List(r, cursor) ==
  (pc[r] = "idle" \/ Answered(r, "delete")) /\ Ask(r, "list", 0, cursor)

(* expireLockedResource: a terminal row is left as it is.                  *)
Erased == [row EXCEPT !.status = "expired", !.keys = FALSE, !.stored = 0]
ExpireLocked ==
  /\ row' = IF Live(row) THEN Erased ELSE row
  /\ events' = IF Live(row) THEN <<>> ELSE events
  /\ UNCHANGED accepted

(* Both token checks come after this transaction; only a missing hash      *)
(* stops an ingestion, since a request without a valid token is public.    *)
GetCredentialHashes(r) ==
  /\ pc[r] = "credentials"
  /\ \/ lapsed /\ ExpireLocked /\ Done(r)
     \/ ~lapsed /\ ~Live(row) /\ Done(r) /\ UNCHANGED inbox
     \/ ~lapsed /\ Live(row) /\ Goto(r, job[r].kind) /\ UNCHANGED inbox
  /\ UNCHANGED lapsed

NextCount == row.count + 1
Full(count, stored) == count >= RequestLimit \/ stored >= StorageLimit
StatusAfter(count, stored) == IF Full(count, stored) THEN "exhausted" ELSE "active"

Store(body) ==
  /\ events' = [n \in DOMAIN events \cup {NextCount} |->
                  IF n = NextCount THEN [bytes |-> body, location |-> 0] ELSE events[n]]
  /\ row' = [row EXCEPT !.count = NextCount, !.stored = @ + body,
                        !.status = StatusAfter(NextCount, row.stored + body)]
  /\ accepted' = accepted + 1

Overflows(body) ==
  NextCount > RequestLimit \/ row.stored + body > StorageLimit

Open(body) == ~lapsed /\ row.status = "active" /\ body <= MaxBody

(* acceptEvent.  The location is looked up after the answer.               *)
AcceptEvent(r) ==
  LET body == job[r].body IN
  /\ pc[r] = "ingest"
  /\ \/ lapsed /\ ExpireLocked /\ Done(r)
     \/ ~lapsed /\ ~Open(body) /\ Done(r) /\ UNCHANGED inbox
     \/ /\ Open(body) /\ Overflows(body)
        /\ row' = [row EXCEPT !.status = "exhausted"]
        /\ Done(r)
        /\ UNCHANGED <<events, accepted>>
     \/ /\ Open(body) /\ ~Overflows(body)
        /\ Store(body)
        /\ pc' = [pc EXCEPT ![r] = "locate"]
        /\ job' = [job EXCEPT ![r].event = NextCount]
        /\ UNCHANGED answer
  /\ UNCHANGED lapsed

(* setEventIpLocation: the clock is not asked, the status is.  A lookup    *)
(* without a result is Fail.                                               *)
SetEventIpLocation(r, bytes) ==
  LET n == job[r].event
      stored == row.stored + bytes - events[n].location
  IN
  /\ pc[r] = "locate"
  /\ \/ /\ Live(row) /\ n \in DOMAIN events /\ stored <= StorageLimit
        /\ events' = [events EXCEPT ![n].location = bytes]
        /\ row' = [row EXCEPT !.stored = stored,
             !.status = IF @ = "active" /\ stored >= StorageLimit THEN "exhausted" ELSE @]
        /\ UNCHANGED accepted
     \/ /\ Live(row) /\ n \in DOMAIN events => stored > StorageLimit
        /\ UNCHANGED inbox
  /\ Done(r)
  /\ UNCHANGED lapsed
-----------------------------------------------------------------------------
(* Owner routes.                                                           *)

(* getResource reads one row and changes nothing.                          *)
GetResource(r) ==
  /\ pc[r] = "status"
  /\ Done(r)
  /\ UNCHANGED <<inbox, lapsed>>

Below(cursor) == {n \in DOMAIN events : cursor # NoEvent => n < cursor}
PageOf(below) ==
  {n \in below : Cardinality({m \in below : m > n}) < PageSize}

(* nextCursor: the last row of the page, if there are more.                *)
NextCursor(below, page) ==
  IF below = page THEN NoEvent ELSE CHOOSE n \in page : \A m \in page : n <= m

(* An inbox that has ended is answered with an empty page.                 *)
ListEvents(r) ==
  LET below == Below(job[r].event)
      page == PageOf(below)
      rows == [events |-> page, next |-> NextCursor(below, page)]
  IN
  /\ pc[r] = "list"
  /\ \/ lapsed /\ ExpireLocked /\ answer' = [answer EXCEPT ![r] = NoPage]
     \/ /\ ~lapsed /\ ~Live(row) /\ UNCHANGED inbox
        /\ answer' = [answer EXCEPT ![r] = NoPage]
     \/ ~lapsed /\ Live(row) /\ UNCHANGED inbox /\ answer' = [answer EXCEPT ![r] = rows]
  /\ pc' = [pc EXCEPT ![r] = "answered"]
  /\ UNCHANGED <<lapsed, job>>

(* deleteEvent: the status stays what it is.                               *)
DeleteEvent(r) ==
  LET n == job[r].event
      bytes == StoredBytes(events[n])
  IN
  /\ pc[r] = "delete"
  /\ \/ /\ Live(row) /\ n \in DOMAIN events
        /\ row' = [row EXCEPT !.stored = IF bytes > @ THEN 0 ELSE @ - bytes]
        /\ events' = [m \in DOMAIN events \ {n} |-> events[m]]
        /\ Goto(r, "answered")
        /\ UNCHANGED accepted
     \/ ~(Live(row) /\ n \in DOMAIN events) /\ UNCHANGED inbox /\ Done(r)
  /\ UNCHANGED lapsed

Destroy(r) ==
  /\ pc[r] = "destroy"
  /\ \/ /\ Live(row)
        /\ row' = [row EXCEPT !.keys = FALSE, !.stored = 0,
             !.status = IF @ = "active" THEN "manually_destroyed" ELSE "deleted"]
        /\ events' = <<>>
        /\ UNCHANGED accepted
     \/ ~Live(row) /\ UNCHANGED inbox
  /\ Done(r)
  /\ UNCHANGED lapsed
-----------------------------------------------------------------------------
(* The worker, the clock, and requests that die between transactions.      *)

Due == lapsed /\ Live(row)

ExpireDueResources ==
  /\ Due
  /\ ExpireLocked
  /\ UNCHANGED <<lapsed, pc, job, answer>>

Lapse ==
  /\ ~lapsed /\ lapsed' = TRUE
  /\ UNCHANGED <<inbox, pc, job, answer>>

(* A request may die at any step, and a lookup may fail or find nothing.   *)
Fail(r) ==
  /\ pc[r] # "idle"
  /\ Done(r)
  /\ UNCHANGED <<inbox, lapsed>>

(* The answer reaches whoever asked.                                       *)
Receive(r) ==
  /\ pc[r] = "answered"
  /\ Done(r)
  /\ UNCHANGED <<inbox, lapsed>>

Serve(r) ==
  \/ GetCredentialHashes(r) \/ AcceptEvent(r) \/ GetResource(r)
  \/ ListEvents(r) \/ DeleteEvent(r) \/ Destroy(r)
  \/ \E bytes \in Locations : SetEventIpLocation(r, bytes)

Inbox ==
  \/ \E r \in Requests :
       \/ \E body \in Bodies : Ingest(r, body)
       \/ \E kind \in {"status", "destroy"} : Manage(r, kind)
       \/ \E n \in Numbers : Delete(r, n)
       \/ Serve(r) \/ Fail(r)
  \/ ExpireDueResources
  \/ Lapse

Next ==
  \/ Inbox
  \/ \E r \in Requests : \/ Receive(r)
                         \/ \E cursor \in Numbers \cup {NoEvent} : List(r, cursor)

Spec == Init /\ [][Next]_vars
-----------------------------------------------------------------------------
(* Every variable has its type.                                            *)
TypeOK ==
  /\ row \in [status: {"active", "exhausted", "suspended", "expired",
                       "manually_destroyed", "deleted"},
              keys: BOOLEAN, count: Nat, stored: Nat]
  /\ DOMAIN events \subseteq Numbers
  /\ \A n \in DOMAIN events : events[n] \in Event
  /\ lapsed \in BOOLEAN
  /\ pc \in [Requests -> {"idle", "credentials", "ingest", "locate", "status",
                          "list", "delete", "destroy", "answered"}]
  /\ job \in [Requests -> Job]
  /\ answer \in [Requests -> Page]
  /\ accepted \in Nat

(* The byte counter of the row is what its events hold, through late       *)
(* locations and deletions, and neither quota is ever exceeded.            *)
StorageIsExact ==
  /\ row.stored = Total
  /\ row.stored <= StorageLimit

(* An inbox that still says active can take an event of one byte: neither  *)
(* of its quotas is used up, whatever ingestions and late locations added  *)
(* to it.  An event that is too large for it is refused all the same.      *)
ActiveHasRoom ==
  row.status = "active" => row.count < RequestLimit /\ row.stored < StorageLimit

(* What has expired or was destroyed holds neither credentials nor events, *)
(* whatever ingestion, lookup or deletion was under way at that moment,    *)
(* and none of these brings it back to life.                               *)
NothingOutlivesTheInbox ==
  /\ row.keys <=> Live(row)
  /\ ~Live(row) => events = <<>> /\ row.stored = 0

(* An inbox is a metered capability: deleting events buys no new request,  *)
(* an exhausted inbox stays exhausted though bytes become free, and no     *)
(* event enters once the clock has passed the expiry, swept or not.        *)
Quota == INSTANCE Metered WITH
  Limit <- RequestLimit, used <- accepted,
  spent <- row.status # "active", ended <- lapsed \/ ~Live(row)
InboxIsMetered == Quota!Spec
=============================================================================
