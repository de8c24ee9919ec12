---------------------------- MODULE StatsProofs ----------------------------
(***************************************************************************)
(* The statistics, for any orders and plans and any length of a month.     *)
(***************************************************************************)
EXTENDS Stats, SumProofs

HasQueries == DOMAIN result = Queries

LEMMA AlwaysQueries == Spec => []HasQueries
<1>1. Init => HasQueries
  BY DEF Init, Unread, HasQueries
<1>2. HasQueries /\ [Next]_vars => HasQueries'
  BY DEF HasQueries, Next, vars, Stamp, RecordPageView, Tick, Load, Answer, Unavailable,
         Unread, QueryTotals, QueryPageViews, QueryActivity, QueryPeriods, Returns
<1> QED
  BY <1>1, <1>2, PTL DEF Spec

(* Only its own query brings an activity.                                  *)
LEMMA ActivityQueried ==
  ASSUME HasQueries, [Next]_vars, ActivityArrives
  PROVE  \E first \in Dates, last \in Dates, from \in [Counters -> Dates] :
           /\ first <= last
           /\ result'["activity"] = <<Activity(first, last, from)>>
<1>1. "activity" \in Queries
  BY DEF Queries
<1>2. CASE QueryActivity
  BY <1>1, <1>2 DEF QueryActivity, Returns, HasQueries
<1>3. CASE QueryTotals \/ QueryPageViews \/ QueryPeriods
  BY <1>1, <1>3
     DEF QueryTotals, QueryPageViews, QueryPeriods, Returns, ActivityArrives, HasQueries
<1>4. CASE ~ (QueryActivity \/ QueryTotals \/ QueryPageViews \/ QueryPeriods)
  BY <1>1, <1>4
     DEF Next, vars, Stamp, RecordPageView, Tick, Load, Answer, Unavailable, Unread,
         ActivityArrives
<1> QED
  BY <1>2, <1>3, <1>4

(* What a day of the activity should say of a counter.                     *)
Happenings(c, d) == IF c = 0 THEN ViewsIn({d})
                    ELSE Cardinality({o \in Orders : HappenedOn(o, c, d)})

(* The dates lie a day apart at most, so only the oldest day of the series *)
(* can begin before the rows that are looked at.                           *)
LEMMA SeriesIsComplete ==
  ASSUME NEW first \in Dates, NEW last \in Dates, NEW from \in [Counters -> Dates],
         first <= last,
         NEW d \in DOMAIN Activity(first, last, from),
         NEW e \in DOMAIN Activity(first, last, from), e < d, NEW c \in Counters
  PROVE  Activity(first, last, from)[d][c] = Happenings(c, d)
<1> DEFINE since == StartOf(from[c], Month)
<1>1. DOMAIN Activity(first, last, from) = StartOf(first, Month) .. last
  BY DEF Activity
<1>2. /\ first \in Int /\ last \in Int /\ from[c] \in Int /\ Month \in Int
      /\ from[c] <= first + 1
  <2>1. from[c] \in Dates
    OBVIOUS
  <2> QED
    BY <2>1, StatsAssumption DEF Dates, Days
<1>3. d \in Int /\ e \in Int /\ StartOf(first, Month) <= e
  BY <1>1, <1>2 DEF StartOf
<1>4. since \in Int /\ since <= d
  BY <1>2, <1>3 DEF StartOf
<1>5. \A o \in Orders : HappenedOn(o, c, d) => HappenedSince(o, c, since)
  BY <1>3, <1>4 DEF HappenedOn, HappenedSince
<1>6. Activity(first, last, from)[d][c]
        = IF c = 0 THEN IF d >= since THEN ViewsIn({d}) ELSE 0
          ELSE Cardinality({o \in Orders : HappenedOn(o, c, d) /\ HappenedSince(o, c, since)})
  BY <1>1 DEF Activity
<1>7. {o \in Orders : HappenedOn(o, c, d) /\ HappenedSince(o, c, since)}
        = {o \in Orders : HappenedOn(o, c, d)}
  BY <1>5
<1>8. d >= since
  BY <1>3, <1>4
<1> HIDE DEF since
<1> QED
  BY <1>6, <1>7, <1>8 DEF Happenings

(* Over midnight too, and whatever the four snapshots are: a day of the    *)
(* activity counts all that is stamped with it, unless it is the oldest.   *)
THEOREM ActivityAlwaysComplete == Spec => ActivityIsComplete
<1> DEFINE Complete == ActivityArrives =>
      \A d \in DOMAIN result'["activity"][1] : Oldest(d) \/ DayIsComplete(d)
<1>1. ASSUME HasQueries, [Next]_vars PROVE [Complete]_result
  <2> SUFFICES ASSUME ActivityArrives,
                      NEW d \in DOMAIN result'["activity"][1], ~ Oldest(d)
               PROVE  DayIsComplete(d)
    OBVIOUS
  <2>1. PICK first \in Dates, last \in Dates, from \in [Counters -> Dates] :
          first <= last /\ result'["activity"] = <<Activity(first, last, from)>>
    BY <1>1, ActivityQueried
  <2> DEFINE series == Activity(first, last, from)
  <2>2. result'["activity"][1] = series
    BY <2>1
  <2>3. DOMAIN series = StartOf(first, Month) .. last
    BY DEF Activity
  <2>4. StartOf(first, Month) \in Int /\ last \in Int
    BY StatsAssumption DEF Dates, Days, StartOf
  <2>5. PICK e \in DOMAIN series : ~ (d <= e)
    BY <2>2 DEF Oldest
  <2>6. e < d
    BY <2>2, <2>3, <2>4, <2>5
  <2>7. \A c \in Counters : series[d][c] = Happenings(c, d)
    BY <2>1, <2>2, <2>6, SeriesIsComplete
  <2> QED
    BY <2>2, <2>7 DEF DayIsComplete, Happenings
<1>2. Spec => [][Complete]_result
  BY <1>1, AlwaysQueries, PTL DEF Spec
<1> QED
  BY <1>2 DEF ActivityIsComplete
-----------------------------------------------------------------------------
(* What every query reads.                                                 *)
StatsTypes ==
  /\ HasQueries
  /\ now \in Days
  /\ views \in [Days -> Nat]
  /\ stamps \in [Orders -> Seq(Days)]

LEMMA DaysAreIntegers ==
  /\ \A d \in Days : d \in Int
  /\ IsFiniteSet(Days)
  /\ Week \in Int /\ Month \in Int /\ 1 < Week /\ Week < Month
<1>1. /\ MaxDay \in Nat /\ Week \in Nat /\ Month \in Nat
      /\ 1 < Week /\ Week < Month
  BY StatsAssumption
<1>2. IsFiniteSet(Days)
  BY <1>1, FS_Interval DEF Days
<1> QED
  BY <1>1, <1>2 DEF Days

LEMMA InitStatsTypes == Init => StatsTypes
<1>1. MaxDay \in Nat
  BY StatsAssumption
<1> QED
  BY <1>1 DEF Init, StatsTypes, HasQueries, Unread, Days

(* A query that runs over midnight ends on a day the clock has.            *)
LEMMA RunsWithinTheClock ==
  ASSUME now \in Days, NEW dates \in SUBSET Dates, dates # {}, RunsUntil(dates)
  PROVE  now' \in Days
<1>1. CASE dates = {now}
  BY <1>1 DEF RunsUntil
<1>2. CASE dates # {now}
  <2>1. now + 1 \in dates
    BY <1>2 DEF Dates
  <2> QED
    BY <1>2, <2>1 DEF RunsUntil, Dates
<1> QED
  BY <1>1, <1>2

LEMMA StepKeepsStatsTypes ==
  ASSUME StatsTypes, [Next]_vars
  PROVE  StatsTypes'
<1> USE DEF StatsTypes
<1>1. HasQueries'
  BY DEF HasQueries, Next, vars, Stamp, RecordPageView, Tick, Load, Answer, Unavailable,
         Unread, QueryTotals, QueryPageViews, QueryActivity, QueryPeriods, Returns
<1>2. ASSUME NEW o \in Orders, Stamp(o) PROVE StatsTypes'
  <2>1. PICK t \in Days : stamps' = [stamps EXCEPT ![o] = Append(@, t)]
    BY <1>2 DEF Stamp
  <2>2. Append(stamps[o], t) \in Seq(Days)
    OBVIOUS
  <2>3. stamps' \in [Orders -> Seq(Days)]
    BY <2>1, <2>2
  <2> QED
    BY <1>1, <1>2, <2>3 DEF Stamp
<1>3. CASE RecordPageView
  <2>1. views' \in [Days -> Nat]
    BY <1>3 DEF RecordPageView
  <2> QED
    BY <1>1, <1>3, <2>1 DEF RecordPageView
<1>4. CASE Tick
  <2>1. now' \in Days
    BY <1>4, StatsAssumption DEF Tick, Days
  <2> QED
    BY <1>1, <1>4, <2>1 DEF Tick, tables
<1>5. CASE Load \/ Answer \/ Unavailable
  BY <1>1, <1>5 DEF Load, Answer, Unavailable, tables
<1>6. CASE QueryTotals
  BY <1>1, <1>6 DEF QueryTotals, Returns, tables
<1>7. CASE QueryPageViews
  <2>1. PICK today \in Dates, week \in Dates : RunsUntil({today, week})
    BY <1>7 DEF QueryPageViews
  <2>2. now' \in Days
    BY <2>1, RunsWithinTheClock
  <2> QED
    BY <1>1, <1>7, <2>2 DEF QueryPageViews, Returns, tables
<1>8. CASE QueryActivity
  <2>1. PICK first \in Dates, last \in Dates, from \in [Counters -> Dates] :
          RunsUntil({first, last} \cup {from[c] : c \in Counters})
    BY <1>8 DEF QueryActivity
  <2>2. now' \in Days
    BY <2>1, RunsWithinTheClock
  <2> QED
    BY <1>1, <1>8, <2>2 DEF QueryActivity, Returns, tables
<1>9. CASE QueryPeriods
  <2>1. PICK today \in Dates, week \in Dates, month \in Dates : RunsUntil({today, week, month})
    BY <1>9 DEF QueryPeriods
  <2>2. now' \in Days
    BY <2>1, RunsWithinTheClock
  <2> QED
    BY <1>1, <1>9, <2>2 DEF QueryPeriods, Returns, tables
<1>10. CASE UNCHANGED vars
  BY <1>1, <1>10 DEF vars, tables
<1> QED
  BY <1>2, <1>3, <1>4, <1>5, <1>6, <1>7, <1>8, <1>9, <1>10 DEF Next

(* One query's answer leaves the others' alone.                            *)
LEMMA OtherResultsStay ==
  ASSUME HasQueries, NEW query \in Queries, NEW other \in Queries, query # other,
         NEW rows, Returns(query, rows)
  PROVE  result'[other] = result[other] /\ result'[query] = <<rows>>
BY DEF Returns, HasQueries

LEMMA StatsTypesAlways == Spec => []StatsTypes
BY InitStatsTypes, StepKeepsStatsTypes, PTL DEF Spec
-----------------------------------------------------------------------------
(* The periods.  What begins earlier holds no less of any counter: of page *)
(* views, a sum over days, nor of stamps, a number of orders.              *)
LEMMA EarlierHoldsMore ==
  ASSUME StatsTypes, NEW from \in Int, NEW start \in Int, from <= start,
         NEW c \in Counters
  PROVE  Window(start)[c] <= Window(from)[c]
<1>1. CASE c = 0
  <2> DEFINE since(s) == {d \in Days : d >= s} \cap Days
  <2>1. ASSUME NEW s \in Int PROVE Window(s)[c] = SumOf(views, since(s))
    BY <1>1 DEF Window, ViewsSince, ViewsIn, SumOf
  <2>2. since(start) \in SUBSET since(from) /\ IsFiniteSet(since(from))
    BY DaysAreIntegers, FS_Subset
  <2>3. \A d \in since(from) : views[d] \in Nat /\ views[d] <= views[d]
    BY DEF StatsTypes
  <2> HIDE DEF since
  <2>4. SumOf(views, since(start)) <= SumOf(views, since(from))
    BY <2>2, <2>3, SumOfMore
  <2> QED
    BY <2>1, <2>4
<1>2. CASE c # 0
  <2> DEFINE Since(s) == {o \in Orders : HappenedSince(o, c, s)}
  <2>1. ASSUME NEW s \in Int PROVE Window(s)[c] = Cardinality(Since(s))
    BY <1>2 DEF Window
  <2>2. ASSUME NEW o \in Since(start) PROVE o \in Since(from)
    <3>1. stamps[o] \in Seq(Days) /\ c \in DOMAIN stamps[o] /\ stamps[o][c] >= start
      BY DEF StatsTypes, HappenedSince, Happened
    <3>2. stamps[o][c] \in Days
      BY <3>1
    <3>3. stamps[o][c] >= from
      BY <3>1, <3>2, DaysAreIntegers
    <3> QED
      BY <3>1, <3>3 DEF HappenedSince, Happened
  <2>3. IsFiniteSet(Since(from))
    BY StatsAssumption, FS_Subset
  <2> HIDE DEF Since
  <2>4. Cardinality(Since(start)) <= Cardinality(Since(from))
    BY <2>2, <2>3, FS_Subset
  <2> QED
    BY <2>1, <2>4
<1> QED
  BY <1>1, <1>2

(* The three dates follow each other and lie a day apart at most, so each  *)
(* period begins no later than the shorter one.                            *)
LEMMA PeriodsOfOneQuery ==
  ASSUME StatsTypes, NEW today \in Dates, NEW week \in Dates, NEW month \in Dates,
         today <= week, week <= month, NEW c \in Counters
  PROVE  LET p == PeriodTotals(today, week, month) IN
         /\ p["today"][c] <= p["last7Days"][c]
         /\ p["last7Days"][c] <= p["last30Days"][c]
<1> DEFINE p == PeriodTotals(today, week, month)
<1>1. /\ p["today"] = Window(today)
      /\ p["last7Days"] = Window(StartOf(week, Week))
      /\ p["last30Days"] = Window(StartOf(month, Month))
  BY DEF PeriodTotals, Periods
<1>2. /\ today \in Int /\ week \in Int /\ month \in Int
      /\ week <= today + 1 /\ month <= week + 1
  BY DaysAreIntegers DEF Dates, StatsTypes
<1>3. /\ StartOf(week, Week) \in Int /\ StartOf(month, Month) \in Int
      /\ StartOf(week, Week) <= today
      /\ StartOf(month, Month) <= StartOf(week, Week)
  BY <1>2, DaysAreIntegers DEF StartOf
<1>4. Window(today)[c] <= Window(StartOf(week, Week))[c]
  BY <1>2, <1>3, EarlierHoldsMore
<1>5. Window(StartOf(week, Week))[c] <= Window(StartOf(month, Month))[c]
  BY <1>3, EarlierHoldsMore
<1> QED
  BY <1>1, <1>4, <1>5

LEMMA StepKeepsPeriods ==
  ASSUME StatsTypes, PeriodsAreNested, [Next]_vars
  PROVE  PeriodsAreNested'
<1>1. CASE QueryPeriods
  <2>1. PICK today \in Dates, week \in Dates, month \in Dates :
          /\ today <= week /\ week <= month
          /\ result' = [result EXCEPT !["periods"] = <<PeriodTotals(today, week, month)>>]
    BY <1>1 DEF QueryPeriods, Returns
  <2>2. result'["periods"][1] = PeriodTotals(today, week, month)
    BY <2>1 DEF StatsTypes, HasQueries, Queries
  <2> QED
    BY <2>1, <2>2, PeriodsOfOneQuery DEF PeriodsAreNested
<1>2. CASE result'["periods"] = result["periods"]
  BY <1>2 DEF PeriodsAreNested
<1>3. CASE QueryTotals \/ QueryPageViews \/ QueryActivity
  <2>1. /\ "periods" \in Queries /\ "totals" \in Queries
        /\ "pageViews" \in Queries /\ "activity" \in Queries
        /\ "periods" # "totals" /\ "periods" # "pageViews" /\ "periods" # "activity"
    BY DEF Queries
  <2>2. result'["periods"] = result["periods"]
    BY <1>3, <2>1, OtherResultsStay
       DEF QueryTotals, QueryPageViews, QueryActivity, StatsTypes
  <2> QED
    BY <1>2, <2>2
<1>4. CASE Answer \/ Unavailable
  <2>1. result'["periods"] = <<>>
    BY <1>4 DEF Answer, Unavailable, Unread, Queries
  <2> QED
    BY <2>1 DEF PeriodsAreNested
<1>5. CASE UNCHANGED result
  BY <1>2, <1>5
<1> QED
  BY <1>1, <1>3, <1>4, <1>5 DEF Next, vars, Stamp, RecordPageView, Tick, Load

(* Whenever midnight falls within the query: every counter of today is     *)
(* part of that of the week, and that of the month.                        *)
THEOREM PeriodsAlwaysNested == Spec => []PeriodsAreNested
<1>1. Init => PeriodsAreNested
  BY DEF Init, Unread, Queries, PeriodsAreNested
<1> QED
  BY <1>1, StatsTypesAlways, StepKeepsPeriods, PTL DEF Spec
-----------------------------------------------------------------------------
(* The totals.                                                             *)
Counts == [Plans -> [OrderCounters -> Nat]]
AtMost(x, y) == \A p \in Plans, c \in OrderCounters : x[p][c] <= y[p][c]

(* Counts that once were read, plan by plan: what the page shows is their  *)
(* sum, and neither an answer under way nor the tables fall below them.    *)
ShowsSumOf(old) ==
  /\ shown.totals = SumOfPlans(old)
  /\ AtMost(old, Totals)
  /\ result["totals"] # <<>> => AtMost(old, result["totals"][1])

TotalsInv ==
  /\ "totals" \in DOMAIN shown
  /\ result["totals"] # <<>> =>
       result["totals"][1] \in Counts /\ AtMost(result["totals"][1], Totals)
  /\ \E old \in Counts : ShowsSumOf(old)

LEMMA AtMostIsTransitive ==
  ASSUME NEW x \in Counts, NEW y \in Counts, NEW z \in Counts, AtMost(x, y), AtMost(y, z)
  PROVE  AtMost(x, z)
<1> SUFFICES ASSUME NEW p \in Plans, NEW c \in OrderCounters PROVE x[p][c] <= z[p][c]
  BY DEF AtMost
<1>1. x[p][c] <= y[p][c] /\ y[p][c] <= z[p][c]
  BY DEF AtMost
<1>2. x[p][c] \in Nat /\ y[p][c] \in Nat /\ z[p][c] \in Nat
  BY DEF Counts
<1> QED
  BY <1>1, <1>2

LEMMA TotalsAreCounts == Totals \in Counts /\ Totals' \in Counts
<1> DEFINE Of(p, c) == {o \in Orders : PlanOf[o] = p /\ Happened(o, c)}
<1>1. \A p \in Plans, c \in OrderCounters : Cardinality(Of(p, c)) \in Nat
  BY StatsAssumption, FS_Subset, FS_CardinalityType
<1>2. Totals \in Counts
  BY <1>1 DEF Totals, Counts
<1>3. (Totals \in Counts)'
  BY <1>2, PTL
<1>4. Counts' = Counts
  BY DEF Counts, OrderCounters
<1> QED
  BY <1>2, <1>3, <1>4

(* No stamp is ever taken back, so no counter of a plan becomes smaller.   *)
LEMMA TotalsGrow ==
  ASSUME StatsTypes, [Next]_vars
  PROVE  AtMost(Totals, Totals')
<1> DEFINE Of(p, c) == {o \in Orders : PlanOf[o] = p /\ Happened(o, c)}
<1>1. ASSUME NEW o \in Orders, NEW c \in OrderCounters, Happened(o, c)
      PROVE  Happened(o, c)'
  <2>1. ASSUME NEW q \in Orders, Stamp(q) PROVE Happened(o, c)'
    <3>1. PICK t \in Days : stamps' = [stamps EXCEPT ![q] = Append(@, t)]
      BY <2>1 DEF Stamp
    <3>2. stamps[q] \in Seq(Days) /\ stamps[o] \in Seq(Days) /\ c \in DOMAIN stamps[o]
      BY <1>1 DEF StatsTypes, Happened
    <3>3. DOMAIN stamps[q] \subseteq DOMAIN Append(stamps[q], t)
      BY <3>2
    <3>4. stamps'[o] = IF o = q THEN Append(stamps[q], t) ELSE stamps[o]
      BY <3>1 DEF StatsTypes
    <3> QED
      BY <3>2, <3>3, <3>4 DEF Happened
  <2>2. CASE UNCHANGED stamps
    BY <1>1, <2>2 DEF Happened
  <2> QED
    BY <2>1, <2>2 DEF Next, vars, RecordPageView, Tick, Load, Answer, Unavailable,
       QueryTotals, QueryPageViews, QueryActivity, QueryPeriods, Returns, tables
<1>2. ASSUME NEW p \in Plans, NEW c \in OrderCounters
      PROVE  Totals[p][c] <= Totals'[p][c]
  <2>1. Totals[p][c] = Cardinality(Of(p, c)) /\ Totals'[p][c] = Cardinality(Of(p, c)')
    BY DEF Totals
  <2>2. Of(p, c) \subseteq Of(p, c)' /\ IsFiniteSet(Of(p, c)')
    BY <1>1, StatsAssumption, FS_Subset
  <2> QED
    BY <2>1, <2>2, FS_Subset
<1> QED
  BY <1>2 DEF AtMost

(* The page adds up the counts of the plans, and the sum grows with them.  *)
LEMMA SumOfPlansGrows ==
  ASSUME NEW x \in Counts, NEW y \in Counts, AtMost(x, y), NEW c \in OrderCounters
  PROVE  SumOfPlans(x)[c] <= SumOfPlans(y)[c]
<1> DEFINE w(z) == [p \in Plans |-> z[p][c]]
<1>1. ASSUME NEW z PROVE SumOfPlans(z)[c] = SumOf(w(z), Plans)
  BY DEF SumOfPlans, SumOf, MapThenSumSet, FoldFunction, FoldFunctionOnSet
<1>2. \A p \in Plans : w(x)[p] \in Nat /\ w(y)[p] \in Nat /\ w(x)[p] <= w(y)[p]
  BY DEF Counts, AtMost
<1>3. IsFiniteSet(Plans) /\ Plans \in SUBSET Plans
  BY StatsAssumption
<1> HIDE DEF w
<1>4. SumOf(w(x), Plans) <= SumOf(w(y), Plans)
  BY <1>2, <1>3, SumOfMore
<1> QED
  BY <1>1, <1>4

LEMMA SumOfPlansIsNumber ==
  ASSUME NEW x \in Counts, NEW c \in OrderCounters
  PROVE  SumOfPlans(x)[c] \in Nat
<1> DEFINE w == [p \in Plans |-> x[p][c]]
<1>1. SumOfPlans(x)[c] = SumOf(w, Plans)
  BY DEF SumOfPlans, SumOf, MapThenSumSet, FoldFunction, FoldFunctionOnSet
<1>2. \A p \in Plans : w[p] \in Nat /\ w[p] <= w[p]
  BY DEF Counts
<1> HIDE DEF w
<1>3. 0 <= SumOf(w, Plans) /\ SumOf(w, Plans) \in Int
  <2>1. IsFiniteSet(Plans) /\ Plans \in SUBSET Plans /\ \A p \in Plans : w[p] \in Int
    BY <1>2, StatsAssumption
  <2> QED
    BY <1>2, <2>1, SumOfMore, SumOfIntegers
<1> QED
  BY <1>1, <1>3

LEMMA InitTotalsInv == Init => TotalsInv
<1> SUFFICES ASSUME Init PROVE TotalsInv
  OBVIOUS
<1> DEFINE none == [p \in Plans |-> [c \in OrderCounters |-> 0]]
<1>1. none \in Counts
  BY DEF Counts
<1>2. ASSUME NEW c \in OrderCounters PROVE SumOfPlans(none)[c] = 0
  <2> DEFINE w == [p \in Plans |-> none[p][c]]
  <2>1. SumOfPlans(none)[c] = SumOf(w, Plans)
    BY DEF SumOfPlans, SumOf, MapThenSumSet, FoldFunction, FoldFunctionOnSet
  <2>2. \A p \in Plans : w[p] = 0
    OBVIOUS
  <2> HIDE DEF w
  <2> QED
    BY <2>1, <2>2, StatsAssumption, SumOfZeros
<1>3. shown.totals = SumOfPlans(none)
  <2>1. shown.totals = [c \in OrderCounters |-> 0]
    BY DEF Init, Blank
  <2>2. SumOfPlans(none) = [c \in OrderCounters |-> SumOfPlans(none)[c]]
    BY DEF SumOfPlans
  <2> HIDE DEF none
  <2> QED
    BY <1>2, <2>1, <2>2
<1>4. AtMost(none, Totals)
  <2>1. \A p \in Plans, c \in OrderCounters : Totals[p][c] \in Nat /\ none[p][c] = 0
    BY TotalsAreCounts DEF Counts
  <2> QED
    BY <2>1 DEF AtMost
<1>5. result["totals"] = <<>> /\ "totals" \in DOMAIN shown
  BY DEF Init, Unread, Queries, Blank
<1> HIDE DEF none
<1> QED
  BY <1>1, <1>3, <1>4, <1>5 DEF TotalsInv, ShowsSumOf

(* A step keeps the counts behind the page, or the page takes over those   *)
(* of the answer, which are no smaller.                                    *)
LEMMA StepKeepsTotals ==
  ASSUME StatsTypes, TotalsInv, [Next]_vars
  PROVE  /\ TotalsInv'
         /\ \A c \in OrderCounters : shown'.totals[c] >= shown.totals[c]
<1>1. PICK old \in Counts : ShowsSumOf(old)
  BY DEF TotalsInv
<1>2. Totals \in Counts /\ Totals' \in Counts /\ AtMost(Totals, Totals')
  BY TotalsAreCounts, TotalsGrow
<1>3. AtMost(old, Totals')
  BY <1>1, <1>2, AtMostIsTransitive DEF ShowsSumOf
<1>4. "totals" \in Queries /\ HasQueries
  BY DEF Queries, StatsTypes
<1>5. AtMost(old, old)
  BY DEF AtMost, Counts
<1>6. ASSUME NEW new \in Counts, AtMost(old, new), shown'.totals = SumOfPlans(new)
      PROVE  \A c \in OrderCounters : shown'.totals[c] >= shown.totals[c]
  <2>1. ASSUME NEW c \in OrderCounters PROVE SumOfPlans(old)[c] <= SumOfPlans(new)[c]
    BY <1>6, SumOfPlansGrows
  <2>2. shown.totals = SumOfPlans(old)
    BY <1>1 DEF ShowsSumOf
  <2> QED
    BY <1>6, <2>1, <2>2
<1>7. ASSUME shown'.totals = shown.totals, "totals" \in DOMAIN shown',
             result'["totals"] = result["totals"] \/ result'["totals"] = <<>>
      PROVE  /\ TotalsInv'
             /\ \A c \in OrderCounters : shown'.totals[c] >= shown.totals[c]
  <2>1. ASSUME result'["totals"] # <<>>
        PROVE  /\ result'["totals"][1] \in Counts
               /\ AtMost(result'["totals"][1], Totals')
               /\ AtMost(old, result'["totals"][1])
    <3>1. /\ result'["totals"] = result["totals"]
          /\ result["totals"][1] \in Counts /\ AtMost(result["totals"][1], Totals)
          /\ AtMost(old, result["totals"][1])
      BY <1>1, <1>7, <2>1 DEF TotalsInv, ShowsSumOf
    <3>2. AtMost(result["totals"][1], Totals')
      BY <1>2, <3>1, AtMostIsTransitive
    <3> QED
      BY <3>1, <3>2
  <2>2. shown'.totals = SumOfPlans(old)
    BY <1>1, <1>7 DEF ShowsSumOf
  <2>3. ShowsSumOf(old)'
    BY <1>3, <2>1, <2>2 DEF ShowsSumOf
  <2>4. TotalsInv'
    BY <1>7, <2>1, <2>3 DEF TotalsInv, Counts, AtMost, OrderCounters
  <2> QED
    BY <1>5, <1>6, <2>2, <2>4
<1>8. CASE QueryTotals
  <2>1. result'["totals"] = <<Totals>> /\ UNCHANGED shown
    BY <1>4, <1>8 DEF QueryTotals, Returns, HasQueries
  <2>2. result'["totals"][1] = Totals /\ shown'.totals = SumOfPlans(old)
    BY <1>1, <2>1 DEF ShowsSumOf
  <2>3. AtMost(old, Totals)
    BY <1>1 DEF ShowsSumOf
  <2>4. ShowsSumOf(old)'
    BY <1>3, <2>2, <2>3 DEF ShowsSumOf
  <2>5. TotalsInv'
    BY <1>2, <2>1, <2>2, <2>4 DEF TotalsInv, Counts, AtMost, OrderCounters
  <2> QED
    BY <1>5, <1>6, <2>2, <2>5
<1>9. CASE Answer
  <2>1. result["totals"] # <<>> /\ result'["totals"] = <<>>
    BY <1>4, <1>9 DEF Answer, Unread
  <2>2. CASE Accepts(result["activity"][1])
    <3> DEFINE new == result["totals"][1]
    <3>1. new \in Counts /\ AtMost(new, Totals) /\ AtMost(old, new)
      BY <1>1, <2>1 DEF TotalsInv, ShowsSumOf
    <3>2. shown' = [status |-> "loaded", totals |-> SumOfPlans(new)]
      BY <1>9, <2>2 DEF Answer
    <3>3. shown'.totals = SumOfPlans(new) /\ "totals" \in DOMAIN shown'
      BY <3>2
    <3> HIDE DEF new
    <3>4. AtMost(new, Totals')
      BY <1>2, <3>1, AtMostIsTransitive
    <3>5. PICK kept \in Counts : kept = new
      BY <3>1
    <3>6. ShowsSumOf(kept)'
      BY <2>1, <3>3, <3>4, <3>5 DEF ShowsSumOf
    <3>7. TotalsInv'
      BY <2>1, <3>3, <3>6 DEF TotalsInv, Counts, OrderCounters
    <3> QED
      BY <1>6, <3>1, <3>3, <3>7
  <2>3. CASE ~Accepts(result["activity"][1])
    <3>1. shown' = [shown EXCEPT !.status = "unavailable"]
      BY <1>9, <2>3 DEF Answer
    <3>2. shown'.totals = shown.totals /\ "totals" \in DOMAIN shown'
      BY <3>1 DEF TotalsInv
    <3> QED
      BY <1>7, <2>1, <3>2
  <2> QED
    BY <2>2, <2>3
<1>10. CASE Load \/ Unavailable
  <2>1. /\ \E s : shown' = [shown EXCEPT !.status = s]
        /\ result'["totals"] = result["totals"] \/ result'["totals"] = <<>>
    BY <1>4, <1>10 DEF Load, Unavailable, Unread
  <2>2. shown'.totals = shown.totals /\ "totals" \in DOMAIN shown'
    BY <2>1 DEF TotalsInv
  <2> QED
    BY <1>7, <2>1, <2>2
<1>11. CASE QueryPageViews \/ QueryActivity \/ QueryPeriods
  <2>1. /\ "pageViews" \in Queries /\ "activity" \in Queries /\ "periods" \in Queries
        /\ "pageViews" # "totals" /\ "activity" # "totals" /\ "periods" # "totals"
    BY DEF Queries
  <2>2. result'["totals"] = result["totals"]
    BY <1>4, <1>11, <2>1, OtherResultsStay DEF QueryPageViews, QueryActivity, QueryPeriods
  <2>3. UNCHANGED shown
    BY <1>11 DEF QueryPageViews, QueryActivity, QueryPeriods, Returns
  <2> QED
    BY <1>7, <2>2, <2>3 DEF TotalsInv
<1>12. CASE UNCHANGED <<result, shown>>
  BY <1>7, <1>12 DEF TotalsInv
<1> QED
  BY <1>8, <1>9, <1>10, <1>11, <1>12 DEF Next, vars, Stamp, RecordPageView, Tick

LEMMA TotalsInductive == Spec => []TotalsInv
BY InitTotalsInv, StatsTypesAlways, StepKeepsTotals, PTL DEF Spec

(* However the four snapshots, commits and midnight fall, and whichever    *)
(* loads fail or are refused: no all-time counter on the page decreases.   *)
THEOREM TotalsNeverEverShrink == Spec => TotalsNeverShrink
<1> DEFINE NoSmaller == \A c \in OrderCounters : shown'.totals[c] >= shown.totals[c]
<1>1. StatsTypes /\ TotalsInv /\ [Next]_vars => TotalsInv' /\ [NoSmaller]_shown
  BY StepKeepsTotals
<1>2. Spec => [][NoSmaller]_shown
  <2> HIDE DEF NoSmaller
  <2> QED
    BY <1>1, TotalsInductive, StatsTypesAlways, PTL DEF Spec
<1> QED
  BY <1>2 DEF TotalsNeverShrink
-----------------------------------------------------------------------------
(* What the counters stand for.                                            *)
Reached(c) == {o \in Orders : Happened(o, c)}

(* An order is of one plan, so the plans together count each order once.   *)
LEMMA PlansPartitionOrders ==
  ASSUME NEW c \in OrderCounters
  PROVE  /\ SumOfPlans(Totals)[c] = Cardinality(Reached(c))
         /\ Cardinality(Reached(c)) \in 0 .. Cardinality(Orders)
<1> DEFINE w == [p \in Plans |-> Totals[p][c]]
<1>1. SumOfPlans(Totals)[c] = SumOf(w, Plans)
  BY DEF SumOfPlans, SumOf, MapThenSumSet, FoldFunction, FoldFunctionOnSet
<1>2. IsFiniteSet(Reached(c)) /\ Reached(c) \subseteq Orders
  BY StatsAssumption, FS_Subset DEF Reached
<1>3. \A o \in Reached(c) : PlanOf[o] \in Plans
  BY <1>2, StatsAssumption
<1>4. \A p \in Plans : w[p] = Cardinality(PartOf(PlanOf, Reached(c), p))
  <2> TAKE p \in Plans
  <2>1. {o \in Orders : PlanOf[o] = p /\ Happened(o, c)}
          = PartOf(PlanOf, Reached(c), p)
    BY DEF Reached, PartOf
  <2> QED
    BY <2>1 DEF Totals
<1> HIDE DEF w
<1>5. SumOf(w, Plans) = Cardinality(Reached(c))
  BY <1>2, <1>3, <1>4, StatsAssumption, SumOfParts
<1>6. /\ Cardinality(Reached(c)) <= Cardinality(Orders)
      /\ Cardinality(Reached(c)) \in Nat /\ Cardinality(Orders) \in Nat
  BY <1>2, StatsAssumption, FS_Subset, FS_CardinalityType
<1> QED
  BY <1>1, <1>5, <1>6

(* No counter on the page is ever ahead of the orders.                     *)
TotalsAreBacked ==
  \A c \in OrderCounters : shown.totals[c] <= Cardinality(Reached(c))

LEMMA ShownIsBacked ==
  ASSUME TotalsInv
  PROVE  /\ TotalsAreBacked
         /\ shown.totals \in [OrderCounters -> 0 .. Cardinality(Orders)]
<1>1. PICK old \in Counts : ShowsSumOf(old)
  BY DEF TotalsInv
<1>2. /\ shown.totals = SumOfPlans(old) /\ AtMost(old, Totals)
      /\ Totals \in Counts /\ AtMost(old, old)
  BY <1>1, TotalsAreCounts DEF ShowsSumOf, AtMost, Counts
<1>3. ASSUME NEW c \in OrderCounters
      PROVE  /\ shown.totals[c] <= Cardinality(Reached(c))
             /\ shown.totals[c] \in 0 .. Cardinality(Orders)
  <2>1. SumOfPlans(old)[c] <= SumOfPlans(Totals)[c]
    BY <1>2, SumOfPlansGrows
  <2>2. SumOfPlans(old)[c] \in Nat
    BY SumOfPlansIsNumber
  <2> QED
    BY <1>2, <2>1, <2>2, PlansPartitionOrders, StatsAssumption, FS_CardinalityType
<1>4. SumOfPlans(old) = [c \in OrderCounters |-> SumOfPlans(old)[c]]
  BY DEF SumOfPlans
<1> QED
  BY <1>2, <1>3, <1>4 DEF TotalsAreBacked

(* The sums over the plans count no order twice and none that had not got  *)
(* there: what a page shows, however old, has happened.                    *)
THEOREM TotalsAlwaysBacked == Spec => []TotalsAreBacked
BY TotalsInductive, ShownIsBacked, PTL

(* The bounds of the types that no query needs.                            *)
Bounded ==
  /\ views \in [Days -> 0 .. MaxViews]
  /\ \A o \in Orders : Len(stamps[o]) <= 3
  /\ shown.status \in {"blank", "loading", "loaded", "unavailable"}

LEMMA StepKeepsBounded ==
  ASSUME StatsTypes, Bounded, [Next]_vars, DOMAIN shown = {"status", "totals"}
  PROVE  Bounded'
<1>1. ASSUME NEW o \in Orders, Stamp(o) PROVE Bounded'
  <2>1. PICK t \in Days : stamps' = [stamps EXCEPT ![o] = Append(@, t)]
    BY <1>1 DEF Stamp
  <2>2. stamps[o] \in Seq(Days) /\ Len(stamps[o]) < 3
    BY <1>1 DEF Stamp, StatsTypes
  <2>3. Len(Append(stamps[o], t)) <= 3
    BY <2>2
  <2>4. \A q \in Orders : stamps'[q] = IF q = o THEN Append(stamps[o], t) ELSE stamps[q]
    BY <2>1 DEF StatsTypes
  <2> QED
    BY <1>1, <2>3, <2>4 DEF Bounded, Stamp
<1>2. CASE RecordPageView
  <2>1. /\ \A d \in Days : views[d] \in Nat /\ views[d] <= views[d]
        /\ {now} \in SUBSET (Days \cap Days) /\ IsFiniteSet(Days \cap Days)
    BY DaysAreIntegers, FS_Subset DEF StatsTypes
  <2>2. SumOf(views, {now}) <= ViewsIn(Days)
    <3>1. ViewsIn(Days) = SumOf(views, Days \cap Days)
      BY DEF ViewsIn, SumOf
    <3> QED
      BY <2>1, <3>1, SumOfMore
  <2>3. SumOf(views, {now}) = views[now]
    <3>1. IsFiniteSet({now}) /\ {now} \ {now} = {} /\ views[now] \in Nat
      BY FS_Singleton DEF StatsTypes
    <3>2. SumOf(views, {now}) = views[now] + SumOf(views, {now} \ {now})
      BY <3>1, SumWithElement
    <3> QED
      BY <3>1, <3>2, SumOfNone
  <2>4. ViewsIn(Days) \in Int /\ MaxViews \in Nat /\ ViewsIn(Days) < MaxViews
    <3>1. ViewsIn(Days) = SumOf(views, Days \cap Days)
      BY DEF ViewsIn, SumOf
    <3>2. SumOf(views, Days \cap Days) \in Int
      BY <2>1, SumOfIntegers
    <3> QED
      BY <1>2, <3>1, <3>2, StatsAssumption DEF RecordPageView
  <2>5. views[now] + 1 \in 0 .. MaxViews
    BY <2>1, <2>2, <2>3, <2>4
  <2>6. views' = [views EXCEPT ![now] = views[now] + 1]
    BY <1>2 DEF RecordPageView
  <2>7. views' \in [Days -> 0 .. MaxViews]
    BY <2>5, <2>6 DEF Bounded
  <2> QED
    BY <1>2, <2>7 DEF Bounded, RecordPageView
<1>3. CASE Load \/ Answer \/ Unavailable
  <2>1. shown'.status \in {"loading", "loaded", "unavailable"}
    BY <1>3 DEF Load, Answer, Unavailable
  <2> QED
    BY <1>3, <2>1 DEF Bounded, Load, Answer, Unavailable, tables
<1>4. CASE UNCHANGED <<stamps, views, shown>>
  BY <1>4 DEF Bounded
<1> QED
  BY <1>1, <1>2, <1>3, <1>4 DEF Next, vars, Tick, QueryTotals, QueryPageViews,
     QueryActivity, QueryPeriods, Returns, tables

(* Every variable keeps its type, the counters of the page and the number  *)
(* of page views within their bounds.                                      *)
THEOREM TypesAreKept == Spec => []TypeOK
<1>1. Init => Bounded /\ DOMAIN shown = {"status", "totals"}
  BY StatsAssumption DEF Init, Bounded, Blank, Days
<1>2. DOMAIN shown = {"status", "totals"} /\ [Next]_vars
        => (DOMAIN shown = {"status", "totals"})'
  BY DEF Next, vars, Stamp, RecordPageView, Tick, Load, Answer, Unavailable,
     QueryTotals, QueryPageViews, QueryActivity, QueryPeriods, Returns
<1>3. StatsTypes /\ TotalsInv /\ Bounded => TypeOK
  BY ShownIsBacked DEF StatsTypes, HasQueries, Bounded, TypeOK
<1> QED
  BY <1>1, <1>2, <1>3, StatsTypesAlways, StepKeepsBounded, TotalsInductive, PTL DEF Spec
=============================================================================
