------------------------------- MODULE Stats -------------------------------
(***************************************************************************)
(* The public statistics: StatsRepository, the counter of page views, and  *)
(* the page that shows the answer.  getPublicStats runs four queries at    *)
(* once, so each has a snapshot of its own, and it asks for the date again *)
(* in every expression, so a query that runs over midnight has two dates.  *)
(* Time is counted in UTC days, and the sessions of the database run in    *)
(* UTC, its default.                                                       *)
(***************************************************************************)
EXTENDS Integers, FiniteSets, Sequences, FiniteSetsExt

CONSTANTS
  Orders,     \* payment orders
  Plans,      \* products with their plans
  PlanOf,     \* what each order is for
  Week,       \* days of the period called last7Days
  Month,      \* days of the period called last30Days
  MaxDay,     \* bounds the clock
  MaxViews    \* bounds the page views

ASSUME StatsAssumption ==
  /\ PlanOf \in [Orders -> Plans]
  /\ {Week, Month, MaxDay, MaxViews} \subseteq Nat
  /\ 1 < Week /\ Week < Month
  /\ IsFiniteSet(Orders) /\ IsFiniteSet(Plans)

VARIABLES
  stamps,  \* of each order, when it was quoted, paid and dispensed
  views,   \* page_view_daily, all paths together
  now,     \* the clock
  result,  \* what the queries of the request have returned
  shown    \* what the page shows

tables == <<stamps, views>>
vars == <<stamps, views, now, result, shown>>
-----------------------------------------------------------------------------
Days == 0 .. MaxDay
Queries == {"totals", "pageViews", "activity", "periods"}
Periods == {"today", "last7Days", "last30Days"}

(* The counters: page views, then the stamps of an order.                  *)
Counters == 0 .. 3
OrderCounters == 1 .. 3

Unread == [query \in Queries |-> <<>>]
Blank == [status |-> "blank", totals |-> [c \in OrderCounters |-> 0]]

Init ==
  /\ stamps = [o \in Orders |-> <<>>]
  /\ views = [d \in Days |-> 0]
  /\ now = 0
  /\ result = Unread
  /\ shown = Blank
-----------------------------------------------------------------------------
(* Faults that the runs must notice: mutated forms of definitions below.   *)

CountedByStatus(o, c) == Len(stamps[o]) = c
CalendarPeriod(date, days) == date - (date % days)
QuotedSince(o, c, start) == c \in DOMAIN stamps[o] /\ stamps[o][1] >= start
-----------------------------------------------------------------------------
(* What happens to orders and pages.  A stamp is taken within the          *)
(* transaction, which may commit after midnight.                           *)

ViewsIn(days) == MapThenSumSet(LAMBDA d : views[d], days \cap Days)

Stamp(o) ==
  /\ Len(stamps[o]) < 3
  /\ \E t \in {now, now - 1} \cap Days :
       /\ \A i \in DOMAIN stamps[o] : stamps[o][i] <= t
       /\ stamps' = [stamps EXCEPT ![o] = Append(@, t)]
  /\ UNCHANGED <<views, now, result, shown>>

(* After the response to a public page, whoever asked; a failure is logged.*)
RecordPageView ==
  /\ ViewsIn(Days) < MaxViews
  /\ views' = [views EXCEPT ![now] = @ + 1]
  /\ UNCHANGED <<stamps, now, result, shown>>

Tick ==
  /\ now < MaxDay
  /\ now' = now + 1
  /\ UNCHANGED <<tables, result, shown>>
-----------------------------------------------------------------------------
(* The four queries.  The dates of one query are today, or tomorrow for    *)
(* the expressions it evaluates after midnight.                            *)

Dates == {now, now + 1} \cap Days
RunsUntil(dates) == now' = IF dates = {now} THEN now ELSE now + 1

Happened(o, c) == c \in DOMAIN stamps[o]
HappenedSince(o, c, start) == Happened(o, c) /\ stamps[o][c] >= start
HappenedOn(o, c, d) == Happened(o, c) /\ stamps[o][c] = d

ViewsSince(start) == ViewsIn({d \in Days : d >= start})

(* The first of so many days that end with the date.                       *)
StartOf(date, days) == date - (days - 1)

Totals ==
  [p \in Plans |-> [c \in OrderCounters |->
     Cardinality({o \in Orders : PlanOf[o] = p /\ Happened(o, c)})]]

PageViews(today, week) ==
  [all |-> ViewsIn(Days), today |-> ViewsIn({today}),
   last7Days |-> ViewsSince(StartOf(week, Week))]

(* The days of the series, and for each counter the limit of its own that  *)
(* the counted rows must have passed.                                      *)
Activity(first, last, from) ==
  LET since(c) == StartOf(from[c], Month) IN
  [d \in StartOf(first, Month) .. last |-> [c \in Counters |->
     IF c = 0 THEN IF d >= since(c) THEN ViewsIn({d}) ELSE 0
     ELSE Cardinality({o \in Orders :
            HappenedOn(o, c, d) /\ HappenedSince(o, c, since(c))})]]

Window(start) ==
  [c \in Counters |->
     IF c = 0 THEN ViewsSince(start)
     ELSE Cardinality({o \in Orders : HappenedSince(o, c, start)})]

PeriodTotals(today, week, month) ==
  [p \in Periods |-> Window(CASE p = "today" -> today
                               [] p = "last7Days" -> StartOf(week, Week)
                               [] p = "last30Days" -> StartOf(month, Month))]

Returns(query, rows) ==
  /\ shown.status = "loading"
  /\ result[query] = <<>>
  /\ result' = [result EXCEPT ![query] = <<rows>>]
  /\ UNCHANGED <<tables, shown>>

QueryTotals == Returns("totals", Totals) /\ UNCHANGED now

QueryPageViews ==
  \E today \in Dates, week \in Dates :
    /\ Returns("pageViews", PageViews(today, week))
    /\ RunsUntil({today, week})

QueryActivity ==
  \E first \in Dates, last \in Dates, from \in [Counters -> Dates] :
    /\ first <= last
    /\ Returns("activity", Activity(first, last, from))
    /\ RunsUntil({first, last} \cup {from[c] : c \in Counters})

QueryPeriods ==
  \E today \in Dates, week \in Dates, month \in Dates :
    /\ today <= week /\ week <= month
    /\ Returns("periods", PeriodTotals(today, week, month))
    /\ RunsUntil({today, week, month})
-----------------------------------------------------------------------------
(* The request and the page.                                               *)

Load ==
  /\ shown.status # "loading"
  /\ shown' = [shown EXCEPT !.status = "loading"]
  /\ UNCHANGED <<tables, now, result>>

SumOfPlans(totals) ==
  [c \in OrderCounters |-> FoldFunction(+, 0, [p \in Plans |-> totals[p][c]])]

(* The page refuses an answer with more days than a month has.             *)
Accepts(activity) == Cardinality(DOMAIN activity) <= Month

Answer ==
  /\ \A query \in Queries : result[query] # <<>>
  /\ shown' = IF Accepts(result["activity"][1])
              THEN [status |-> "loaded", totals |-> SumOfPlans(result["totals"][1])]
              ELSE [shown EXCEPT !.status = "unavailable"]
  /\ result' = Unread
  /\ UNCHANGED <<tables, now>>

(* One query fails, or the response gets lost.                             *)
Unavailable ==
  /\ shown.status = "loading"
  /\ shown' = [shown EXCEPT !.status = "unavailable"]
  /\ result' = Unread
  /\ UNCHANGED <<tables, now>>
-----------------------------------------------------------------------------
Next ==
  \/ \E o \in Orders : Stamp(o)
  \/ RecordPageView \/ Tick
  \/ Load \/ Answer \/ Unavailable
  \/ QueryTotals \/ QueryPageViews \/ QueryActivity \/ QueryPeriods

Spec == Init /\ [][Next]_vars
-----------------------------------------------------------------------------
(* Every variable has its type.                                           *)
TypeOK ==
  /\ \A o \in Orders : stamps[o] \in Seq(Days) /\ Len(stamps[o]) <= 3
  /\ views \in [Days -> 0 .. MaxViews]
  /\ now \in Days
  /\ DOMAIN result = Queries
  /\ shown.status \in {"blank", "loading", "loaded", "unavailable"}
  /\ shown.totals \in [OrderCounters -> 0 .. Cardinality(Orders)]

(* The periods of one answer contain each other although each has a date   *)
(* of its own: no counter of today exceeds the one of the last 7 days, nor *)
(* that one the one of the last 30.                                        *)
PeriodsAreNested ==
  result["periods"] # <<>> =>
    LET p == result["periods"][1] IN
    \A c \in Counters : /\ p["today"][c] <= p["last7Days"][c]
                        /\ p["last7Days"][c] <= p["last30Days"][c]

(* However commits, midnight and the four snapshots fall, an all-time      *)
(* counter of orders on the page is never smaller than at an earlier load. *)
(* Within one load the four snapshots may disagree: today's counter may    *)
(* then be above the all-time one.                                         *)
TotalsNeverShrink ==
  [][\A c \in OrderCounters : shown'.totals[c] >= shown.totals[c]]_shown

DayIsComplete(d) ==
  \A c \in Counters :
    result'["activity"][1][d][c] = IF c = 0 THEN ViewsIn({d})
                                   ELSE Cardinality({o \in Orders : HappenedOn(o, c, d)})

Oldest(d) == \A e \in DOMAIN result'["activity"][1] : d <= e

ActivityArrives == result["activity"] = <<>> /\ result'["activity"] # <<>>

(* Every day of the activity but the oldest counts every order stamped with *)
(* that UTC day and all its page views, over midnight too.                 *)
ActivityIsComplete ==
  [][ActivityArrives =>
       \A d \in DOMAIN result'["activity"][1] : Oldest(d) \/ DayIsComplete(d)]_result
=============================================================================
