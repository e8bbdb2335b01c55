------------------------------- MODULE Footprint -------------------------------
(***************************************************************************)
(* The footprint source (internal/source/footprint/footprint.go): Fetch    *)
(* asks the API for the impact of the current month up to today, of the    *)
(* previous months, and of one complete day.                               *)
(*                                                                         *)
(* Days are numbered, and FirstDay gives the day each month begins on.     *)
(* Amounts are integers.  A list sorted by a unique key is a function of   *)
(* it.  The API answers with trees, which the adapter (ImpactTree) turns   *)
(* into reports.  The clock, the trees and the outcome of each call are    *)
(* the environment's.                                                      *)
(***************************************************************************)
EXTENDS ImpactTree

CONSTANTS
  Trees,            \* the projects the API may return
  Reported,         \* the days it may say their data begin and end on
  FirstDay,         \* the first day of each month, in order
  Lookback,         \* Options.LookbackPeriods
  DailyOffsetDays,  \* Options.DailyOffsetDays
  MaxChildren,      \* bound: the children of a node of the trees
  Days,             \* bound: the days the clock takes
  MaxFetches        \* bound: calls of Fetch in a behaviour

(* The API's lists are sequences, its impacts numbers; the bound on their  *)
(* length is that of the model alone.                                      *)
Children(nodes) == nodes \in Seq(ToSet(nodes)) /\ Len(nodes) <= MaxChildren
SkusTyped(skus) ==
  /\ Children(skus)
  /\ \A s \in ToSet(skus) \ {Nil} :
       s.impact # Nil => s.impact.kg \in Int /\ s.impact.m3 \in Int
RegionTyped(r) ==
  /\ SkusTyped(r.skus) /\ Children(r.zones)
  /\ \A z \in ToSet(r.zones) \ {Nil} : SkusTyped(z.skus)
TreeTyped(tree) ==
  /\ Children(tree)
  /\ \A p \in ToSet(tree) \ {Nil} :
       /\ p.total \in Int \cup {Nil} /\ Children(p.regions)
       /\ \A r \in ToSet(p.regions) \ {Nil} : RegionTyped(r)

ASSUME FootprintAssumption ==
  /\ FirstDay \in Seq(Int)
  /\ \A m, n \in DOMAIN FirstDay : m < n => FirstDay[m] < FirstDay[n]
  /\ Lookback \in Nat /\ DailyOffsetDays \in Nat \ {0}
  /\ Days \subseteq Int /\ Reported \subseteq Int
  /\ \A d \in Days : \E m \in Lookback + 1 .. Len(FirstDay) - 1 :
                       FirstDay[m] <= d /\ d < FirstDay[m + 1]
  /\ Nil \notin Int     \* stands for the zero time, too
  /\ MaxChildren \in Nat /\ \A tree \in Trees : TreeTyped(tree)
  /\ MaxFetches \in Nat

VARIABLES
  now,      \* the current day
  pc,       \* Fetch is not running, fills the months or the day, or has ended
  today,    \* the day Now() returned
  months,   \* snap.Months, most recent first
  day,      \* snap.Day
  queries,  \* history: the ranges asked for the months and for the day
  replies,  \* history: what the API returned for each of them
  warned,   \* the projects checkTotals logged for each of them
  fetches   \* history: the calls of Fetch so far

vars == <<now, pc, today, months, day, queries, replies, warned, fetches>>

NoWindow == [label |-> Nil, start |-> Nil, end |-> Nil, series |-> <<>>]

Init ==
  /\ now \in Days /\ today = now
  /\ pc = "idle"
  /\ months = <<>> /\ day = NoWindow
  /\ queries = <<>> /\ replies = <<>> /\ warned = <<>>
  /\ fetches = 0

MonthOf(d) == Max({m \in DOMAIN FirstDay : FirstDay[m] <= d})

(* Faulty: a window ends with its last day, ... *)
EndWithLastDay(d, i) == (IF i = 0 THEN d ELSE FirstDay[MonthOf(d) - i + 1]) - 1

(* ... the current month includes today, ... *)
EndWithToday(d, i) == IF i = 0 THEN d + 1 ELSE FirstDay[MonthOf(d) - i + 1]

(* ... or every month is as long as the longest. *)
EndByLength(d, i) == IF i = 0 THEN d ELSE FirstDay[MonthOf(d) - i] + 3

(* The (exclusive) end of the window of the i-th month before d's. *)
End(d, i) == IF i = 0 THEN d ELSE FirstDay[MonthOf(d) - i + 1]

(* The current month up to today, then the previous ones. *)
MonthWindows(d) ==
  [i \in 1 .. Lookback + 1 |->
     LET month == MonthOf(d) - i + 1
     IN  [label |-> month, start |-> FirstDay[month], end |-> End(d, i - 1), series |-> <<>>]]

DayWindow(d) ==
  [label |-> d - DailyOffsetDays,
   start |-> d - DailyOffsetDays, end |-> d - DailyOffsetDays + 1, series |-> <<>>]

SumOf(rows, some, field) == SumFunction([i \in some |-> rows[i][field]])

Aggregate(rows) ==
  [k \in {rows[i].key : i \in DOMAIN rows} |->
     LET same == {i \in DOMAIN rows : rows[i].key = k}
     IN  [carbon |-> SumOf(rows, same, "carbon"), water |-> SumOf(rows, same, "water")]]

(* The projects whose rows do not add up to their total, by more than the  *)
(* hundredth part of it or of a gram: checkTotals logs them.               *)
Mismatched(rows, totals) ==
  {p \in DOMAIN totals :
     LET sum == SumOf(rows, {i \in DOMAIN rows : rows[i].key[1] = p}, "carbon")
         size == Max({totals[p], - totals[p], 1})
     IN  100 * (sum - totals[p]) \notin - size .. size}

(* The API may say which days its data cover, and those may be any. *)
Replies == [projects : Trees, start : {Nil} \cup Reported, end : {Nil} \cup Reported]

Fill(w, reply) ==
  [label |-> w.label,
   start |-> IF reply.start = Nil THEN w.start ELSE reply.start,
   end |-> IF reply.end = Nil THEN w.end ELSE reply.end,
   series |-> Aggregate(Rows(reply.projects))]

Asked(w) == [start |-> w.start, end |-> w.end]

(* What fetchWindow leaves behind for a reply. *)
Record(w, reply) ==
  /\ queries' = Append(queries, Asked(w))
  /\ replies' = Append(replies, reply)
  /\ warned' = Append(warned, Mismatched(Rows(reply.projects), ProjectCarbonGrams(reply.projects)))

Series == {<<>>} \cup {Aggregate(Rows(tree)) : tree \in Trees}
Windows == [label : Int, start : Int, end : Int, series : Series]
ProjectIds == UNION {DOMAIN ProjectCarbonGrams(tree) : tree \in Trees}

TypeOK ==
  /\ now \in Days /\ today \in Days
  /\ pc \in {"idle", "months", "day", "returned", "failed"}
  /\ months \in Seq(Windows) /\ Len(months) <= Lookback + 1
  /\ day \in Windows \cup {NoWindow} /\ (pc = "returned" <=> day # NoWindow)
  /\ queries \in Seq([start : Int, end : Int])
  /\ replies \in Seq(Replies) /\ Len(replies) = Len(queries)
  /\ warned \in Seq(SUBSET ProjectIds) /\ Len(warned) = Len(queries)
  /\ fetches \in 0 .. MaxFetches

-----------------------------------------------------------------------------

(* Fetch reads the clock once. *)
StartFetch ==
  /\ pc \in {"idle", "returned", "failed"} /\ fetches < MaxFetches
  /\ pc' = "months"
  /\ today' = now
  /\ months' = <<>> /\ day' = NoWindow
  /\ queries' = <<>> /\ replies' = <<>> /\ warned' = <<>>
  /\ fetches' = fetches + 1
  /\ UNCHANGED now

NextWindow == MonthWindows(today)[Len(months) + 1]

AppendMonth(w) ==
  /\ months' = Append(months, w)
  /\ pc' = IF Len(months) = Lookback THEN "day" ELSE "months"
  /\ UNCHANGED <<now, today, day, fetches>>

(* The first day of a month has no complete day: nothing is asked. *)
SkipMonth ==
  /\ pc = "months" /\ NextWindow.end <= NextWindow.start
  /\ AppendMonth(NextWindow)
  /\ UNCHANGED <<queries, replies, warned>>

MonthReturns ==
  /\ pc = "months" /\ NextWindow.end > NextWindow.start
  /\ \E reply \in Replies :
       AppendMonth(Fill(NextWindow, reply)) /\ Record(NextWindow, reply)

DayReturns ==
  /\ pc = "day"
  /\ \E reply \in Replies :
       day' = Fill(DayWindow(today), reply) /\ Record(DayWindow(today), reply)
  /\ pc' = "returned"
  /\ UNCHANGED <<now, today, months, fetches>>

CallFails ==
  /\ \/ pc = "day"
     \/ pc = "months" /\ NextWindow.end > NextWindow.start
  /\ pc' = "failed"
  /\ months' = <<>> /\ queries' = <<>> /\ replies' = <<>> /\ warned' = <<>>
  /\ UNCHANGED <<now, today, day, fetches>>

(* A day ends, perhaps between two calls of Fetch. *)
DayEnds ==
  /\ now + 1 \in Days
  /\ now' = now + 1
  /\ UNCHANGED <<pc, today, months, day, queries, replies, warned, fetches>>

Next ==
  StartFetch \/ SkipMonth \/ MonthReturns \/ DayReturns \/ CallFails \/ DayEnds

Spec == Init /\ [][Next]_vars

-----------------------------------------------------------------------------
(***************************************************************************)
(* Safety.                                                                 *)
(***************************************************************************)

DaysIn(range) == range.start .. range.end - 1

(* Only complete days are asked for, and never an empty range, though days *)
(* and months may end while Fetch runs.                                    *)
OnlyCompleteDays ==
  \A i \in DOMAIN queries : DaysIn(queries[i]) # {} /\ queries[i].end <= today

(* The months of a returned snapshot cover every complete day from the     *)
(* first of the oldest month to yesterday, each exactly once, with no gap  *)
(* and no overlap where a month ends; the day is the last of the queries.  *)
MonthsTile ==
  pc = "returned" =>
    LET monthly == 1 .. Len(queries) - 1
        oldest == FirstDay[MonthOf(today) - Lookback]
    IN  /\ UNION {DaysIn(queries[i]) : i \in monthly} = oldest .. today - 1
        /\ \A i, j \in monthly : i # j => DaysIn(queries[i]) \cap DaysIn(queries[j]) = {}
        /\ DaysIn(queries[Len(queries)]) = {today - DailyOffsetDays}

(* The windows without a reply: the months that were skipped. *)
Unanswered == Len(months) + (IF pc = "returned" THEN 1 ELSE 0) - Len(replies)

(* What a month window claims to cover are days of the month it is         *)
(* labelled with, so that a query by billing_period joins data of that     *)
(* month alone, if both ends of the range the API reports, or the one end  *)
(* it reports, lie within what it was asked for: the code does not check   *)
(* that they do.                                                           *)
WithinAsked(query, reply) ==
  /\ reply.start # Nil => reply.start >= query.start
  /\ reply.end # Nil => reply.end <= query.end
LabelledByMonth ==
  \A i \in DOMAIN months :
    LET reply == i - Unanswered
    IN  (reply > 0 => WithinAsked(queries[reply], replies[reply])) =>
          \A d \in DaysIn(months[i]) : MonthOf(d) = months[i].label

(* The SKUs of a tree whose impact is known, by the way down to each: a    *)
(* zone of 0 stands for the region's own SKUs.                             *)
SkusAt(tree, x) ==
  LET region == tree[x[1]].regions[x[2]]
  IN  IF x[3] = 0 THEN region.skus ELSE region.zones[x[3]].skus
Known(tree, x) ==
  /\ x[1] \in DOMAIN tree /\ tree[x[1]] # Nil
  /\ x[2] \in DOMAIN tree[x[1]].regions /\ tree[x[1]].regions[x[2]] # Nil
  /\ LET zones == tree[x[1]].regions[x[2]].zones
     IN  x[3] # 0 => x[3] \in DOMAIN zones /\ zones[x[3]] # Nil
  /\ x[4] \in DOMAIN SkusAt(tree, x)
  /\ SkusAt(tree, x)[x[4]] # Nil /\ SkusAt(tree, x)[x[4]].impact # Nil
KnownSkus(tree) ==
  LET nodes == 1 .. MaxChildren
  IN  {x \in nodes \X nodes \X ({0} \cup nodes) \X nodes : Known(tree, x)}

KeyAt(tree, x) ==
  LET region == tree[x[1]].regions[x[2]]
      zone == IF x[3] = 0 THEN RegionalZone ELSE region.zones[x[3]].zone
  IN  <<tree[x[1]].id, region.region, zone, SkusAt(tree, x)[x[4]].category>>
ImpactAt(tree, x) == SkusAt(tree, x)[x[4]].impact
GramsOf(tree, skus) == 1000 * SumFunction([x \in skus |-> ImpactAt(tree, x).kg])
WaterOf(tree, skus) == SumFunction([x \in skus |-> ImpactAt(tree, x).m3])

(* The series of a tree, each SKU counted once under its own key. *)
SeriesOf(tree) ==
  [k \in {KeyAt(tree, x) : x \in KnownSkus(tree)} |->
     LET same == {x \in KnownSkus(tree) : KeyAt(tree, x) = k}
     IN  [carbon |-> GramsOf(tree, same), water |-> WaterOf(tree, same)]]

Size(n) == Max({n, - n})

(* The series of every window are those of the SKUs the API answered with: *)
(* each is counted once, under its own project, region, zone and category, *)
(* whatever parts of the tree are missing.  If the SKUs of a project miss  *)
(* the total the API gives for it by more than their fiftieth part, that   *)
(* has been logged, and nothing is if they add up to it.                   *)
SeriesFollowTree ==
  \A i \in DOMAIN replies :
    LET tree == replies[i].projects
        window == i + Unanswered
    IN  /\ (IF window > Len(months) THEN day ELSE months[window]).series = SeriesOf(tree)
        /\ \A p \in DOMAIN ProjectCarbonGrams(tree) :
             LET sum == GramsOf(tree, {x \in KnownSkus(tree) : KeyAt(tree, x)[1] = p})
                 total == ProjectCarbonGrams(tree)[p]
             IN  /\ sum = total => p \notin warned[i]
                 /\ Size(sum) \div 50 < Size(sum - total) => p \in warned[i]
=============================================================================
