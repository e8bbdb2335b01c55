--------------------------- MODULE FootprintProofs ---------------------------
(***************************************************************************)
(* Proofs about the windows of the footprint source and their series, for  *)
(* any calendar, lookback, offset of the day and trees.                    *)
(***************************************************************************)
EXTENDS Footprint, Recursion

(***************************************************************************)
(* The calendar: a day belongs to the month that began last.               *)
(***************************************************************************)
LEMMA Calendar ==
  /\ Len(FirstDay) \in Nat /\ DOMAIN FirstDay = 1 .. Len(FirstDay)
  /\ \A n \in 1 .. Len(FirstDay) : FirstDay[n] \in Int
BY FootprintAssumption

(* The month of a day is the one it lies in. *)
LEMMA MonthOfDay ==
  ASSUME NEW d \in Int, NEW m \in 1 .. Len(FirstDay) - 1,
         FirstDay[m] <= d, d < FirstDay[m + 1]
  PROVE  MonthOf(d) = m
<1> USE FootprintAssumption
<1>1. m \in Nat \ {0} /\ m + 1 \in 1 .. Len(FirstDay)
      /\ DOMAIN FirstDay = 1 .. Len(FirstDay) /\ \A n \in DOMAIN FirstDay : FirstDay[n] \in Int
  BY Calendar
<1>2. ASSUME NEW n \in DOMAIN FirstDay PROVE FirstDay[n] <= d <=> n <= m
  <2>1. CASE n < m
    <3>1. FirstDay[n] < FirstDay[m]
      BY <1>1, <1>2, <2>1
    <3>2. FirstDay[n] \in Int /\ FirstDay[m] \in Int /\ n \in Int
      BY <1>1, <1>2
    <3> HIDE FootprintAssumption
    <3> QED BY <1>1, <2>1, <3>1, <3>2
  <2>2. CASE n > m + 1
    <3>1. FirstDay[m + 1] < FirstDay[n]
      BY <1>1, <1>2, <2>2
    <3>2. FirstDay[m + 1] \in Int /\ FirstDay[n] \in Int
      BY <1>1, <1>2
    <3>3. ~ (FirstDay[n] <= d)
      BY <3>1, <3>2
    <3> QED BY <1>1, <1>2, <2>2, <3>3
  <2>3. CASE n = m \/ n = m + 1
    BY <1>1, <1>2, <2>3
  <2> QED BY <1>1, <1>2, <2>1, <2>2, <2>3
<1>3. {n \in DOMAIN FirstDay : FirstDay[n] <= d} = 1 .. m
  BY <1>1, <1>2
<1>4. Max(1 .. m) = m
  <2>1. m \in 1 .. m /\ \A y \in 1 .. m : m >= y
    BY <1>1
  <2>2. \A x \in 1 .. m : x >= m => x = m
    BY <1>1
  <2> HIDE FootprintAssumption
  <2> QED BY <2>1, <2>2 DEF Max
<1> QED BY <1>3, <1>4 DEF MonthOf

(* The month of a day the clock shows, and the lookback before it, have an *)
(* end that the calendar knows.                                            *)
LEMMA MonthOfToday ==
  ASSUME NEW d \in Days
  PROVE  /\ d \in Int
         /\ MonthOf(d) \in Lookback + 1 .. Len(FirstDay) - 1
         /\ FirstDay[MonthOf(d)] <= d /\ d < FirstDay[MonthOf(d) + 1]
<1>1. PICK m \in Lookback + 1 .. Len(FirstDay) - 1 : FirstDay[m] <= d /\ d < FirstDay[m + 1]
  BY FootprintAssumption
<1>2. d \in Int /\ m \in 1 .. Len(FirstDay) - 1
  BY FootprintAssumption
<1> QED BY <1>1, <1>2, MonthOfDay

(***************************************************************************)
(* Windows.                                                                *)
(***************************************************************************)

(* A window of days of the month it is labelled with. *)
InMonth(w) ==
  /\ w.label \in 1 .. Len(FirstDay) - 1
  /\ w.start >= FirstDay[w.label]
  /\ w.end <= FirstDay[w.label + 1]

(* The window of a month that Fetch still has to fill is one of that month. *)
LEMMA MonthWindowType ==
  ASSUME NEW d \in Days, NEW i \in 1 .. Lookback + 1
  PROVE  /\ MonthWindows(d)[i] \in Windows
         /\ InMonth(MonthWindows(d)[i])
         /\ MonthWindows(d)[i].end <= d
<1> DEFINE m == MonthOf(d)
           n == m - i + 1
           w == MonthWindows(d)[i]
<1> USE FootprintAssumption
<1>1. m \in Lookback + 1 .. Len(FirstDay) - 1 /\ FirstDay[m] <= d /\ d < FirstDay[m + 1] /\ d \in Int
  BY MonthOfToday
<1>2. m \in Nat /\ n \in 1 .. m /\ n \in 1 .. Len(FirstDay) - 1
  <2>1. Lookback \in Nat /\ Len(FirstDay) \in Nat
    BY Calendar
  <2> HIDE DEF m
  <2> QED BY <1>1, <2>1
<1>3. FirstDay[n] \in Int /\ FirstDay[n + 1] \in Int /\ FirstDay[m] \in Int
  <2>1. n \in 1 .. Len(FirstDay) /\ n + 1 \in 1 .. Len(FirstDay) /\ m \in 1 .. Len(FirstDay)
    <3> HIDE DEF m
    <3> QED BY <1>1, <1>2, Calendar
  <2> HIDE DEF n, m
  <2> QED BY <2>1, Calendar
<1>4. w = [label |-> n, start |-> FirstDay[n], end |-> End(d, i - 1), series |-> <<>>]
  BY DEF MonthWindows
<1>5. End(d, i - 1) = IF i = 1 THEN d ELSE FirstDay[n + 1]
  <2>1. i = 1 <=> i - 1 = 0
    OBVIOUS
  <2>2. m - (i - 1) + 1 = n + 1
    BY <1>1
  <2> QED BY <2>1, <2>2 DEF End
<1>6. i # 1 => FirstDay[n + 1] <= FirstDay[m]
  <2> SUFFICES ASSUME i # 1 PROVE FirstDay[n + 1] <= FirstDay[m]
    OBVIOUS
  <2>1. n + 1 \in DOMAIN FirstDay /\ m \in DOMAIN FirstDay /\ n + 1 <= m
    <3>1. i > 1 /\ i \in Nat
      OBVIOUS
    <3> HIDE DEF m
    <3> QED BY <1>1, <1>2, <3>1, Calendar
  <2>2. \A p, q \in DOMAIN FirstDay : p < q => FirstDay[p] < FirstDay[q]
    OBVIOUS
  <2> HIDE FootprintAssumption DEF m, n
  <2>3. CASE n + 1 = m
    BY <1>3, <2>3
  <2>4. CASE n + 1 # m
    <3>1. n + 1 < m
      BY <1>2, <2>1, <2>4
    <3>2. FirstDay[n + 1] < FirstDay[m]
      BY <2>1, <2>2, <3>1
    <3> QED BY <1>3, <3>2
  <2> QED BY <2>3, <2>4
<1>7. i = 1 => n = m
  BY <1>1
<1>8. <<>> \in Series
  BY DEF Series
<1> HIDE FootprintAssumption DEF m, n, w
<1>9. w \in Windows
  BY <1>1, <1>2, <1>3, <1>4, <1>5, <1>8 DEF Windows
<1>10. InMonth(w)
  BY <1>1, <1>2, <1>3, <1>4, <1>5, <1>7 DEF InMonth
<1>11. w.end <= d
  BY <1>1, <1>3, <1>4, <1>5, <1>6
<1> QED BY <1>9, <1>10, <1>11 DEF w

(* A part of a window of a month is a window of that month. *)
LEMMA PartInMonth ==
  ASSUME NEW w \in Windows, NEW part \in Windows, part.label = w.label,
         InMonth(w), part.start >= w.start, part.end <= w.end
  PROVE  InMonth(part)
<1>1. FirstDay[w.label + 1] \in Int /\ FirstDay[w.label] \in Int
  BY Calendar DEF InMonth
<1>2. w.start \in Int /\ w.end \in Int /\ part.start \in Int /\ part.end \in Int
  BY DEF Windows
<1>3. w.start >= FirstDay[w.label] /\ w.end <= FirstDay[w.label + 1]
  BY DEF InMonth
<1>4. part.start >= FirstDay[w.label]
  BY <1>1, <1>2, <1>3
<1>5. part.end <= FirstDay[w.label + 1]
  BY <1>1, <1>2, <1>3
<1> QED BY <1>4, <1>5 DEF InMonth

(* A reply leaves a window in its month, if it covers only what was asked. *)
LEMMA FillType ==
  ASSUME NEW w \in Windows, NEW reply \in Replies
  PROVE  /\ Fill(w, reply) \in Windows
         /\ Fill(w, reply).label = w.label
         /\ InMonth(w) /\ WithinAsked(Asked(w), reply) => InMonth(Fill(w, reply))
<1> USE FootprintAssumption
<1> DEFINE f == Fill(w, reply)
<1>1. reply.projects \in Trees /\ {reply.start, reply.end} \subseteq {Nil} \cup Int
  BY DEF Replies
<1>2. Aggregate(Rows(reply.projects)) \in Series
  BY <1>1 DEF Series
<1>3. /\ w.label \in Int /\ w.start \in Int /\ w.end \in Int
  BY DEF Windows
<1>4. f = [label |-> w.label,
           start |-> IF reply.start = Nil THEN w.start ELSE reply.start,
           end |-> IF reply.end = Nil THEN w.end ELSE reply.end,
           series |-> Aggregate(Rows(reply.projects))]
  BY DEF Fill
<1>5. /\ f.start \in Int /\ f.end \in Int /\ f.label = w.label
      /\ WithinAsked(Asked(w), reply) => f.start >= w.start /\ f.end <= w.end
  BY <1>1, <1>3, <1>4 DEF WithinAsked, Asked
<1>6. f \in Windows
  <2> HIDE DEF f
  <2> QED BY <1>2, <1>3, <1>4, <1>5 DEF Windows
<1> HIDE DEF f
<1>7. ASSUME InMonth(w), f.start >= w.start, f.end <= w.end PROVE InMonth(f)
  BY <1>5, <1>6, <1>7, PartInMonth
<1> QED BY <1>5, <1>6, <1>7 DEF f

(* The window of the day is a window, and stays one labelled with a date. *)
LEMMA DayType ==
  ASSUME NEW d \in Days
  PROVE  /\ DayWindow(d) \in Windows
         /\ DayWindow(d).start < DayWindow(d).end /\ DayWindow(d).end <= d
         /\ \A w \in Windows : w # NoWindow
<1>1. d \in Int /\ DailyOffsetDays \in Nat \ {0} /\ Nil \notin Int
  BY FootprintAssumption
<1>2. <<>> \in Series
  BY DEF Series
<1>3. \A w \in Windows : w.label \in Int
  BY DEF Windows
<1>4. NoWindow.label = Nil
  BY DEF NoWindow
<1> QED BY <1>1, <1>2, <1>3, <1>4 DEF DayWindow, Windows

(***************************************************************************)
(* The inductive invariant: what was asked for are complete days, and the  *)
(* months are complete when the day is asked for.                          *)
(***************************************************************************)
FetchInv ==
  /\ TypeOK
  /\ pc = "months" => Len(months) <= Lookback
  /\ \A i \in DOMAIN queries : queries[i].start < queries[i].end /\ queries[i].end <= today

(* The invariant holds before the first Fetch. *)
LEMMA InitInv == Init => FetchInv
BY FootprintAssumption DEF Init, FetchInv, TypeOK

(* A call that returns leaves one complete query behind. *)
LEMMA RecordStep ==
  ASSUME FetchInv, NEW w \in Windows, NEW reply \in Replies, Record(w, reply),
         w.start < w.end, w.end <= today, today' = today
  PROVE  /\ queries' \in Seq([start : Int, end : Int])
         /\ replies' \in Seq(Replies) /\ Len(replies') = Len(queries')
         /\ warned' \in Seq(SUBSET ProjectIds) /\ Len(warned') = Len(queries')
         /\ \A i \in DOMAIN queries' : queries'[i].start < queries'[i].end /\ queries'[i].end <= today'
<1> DEFINE q == Asked(w)
           ids == Mismatched(Rows(reply.projects), ProjectCarbonGrams(reply.projects))
<1>1. q \in [start : Int, end : Int] /\ q.start < q.end /\ q.end <= today
  BY DEF Asked, Windows
<1>2. reply.projects \in Trees
  BY DEF Replies
<1>3. ids \in SUBSET ProjectIds
  BY <1>2 DEF Mismatched, ProjectIds
<1>4. /\ queries' = Append(queries, q)
      /\ replies' = Append(replies, reply)
      /\ warned' = Append(warned, ids)
  BY DEF Record
<1> HIDE DEF q, ids
<1>5. /\ queries \in Seq([start : Int, end : Int])
      /\ replies \in Seq(Replies) /\ Len(replies) = Len(queries)
      /\ warned \in Seq(SUBSET ProjectIds) /\ Len(warned) = Len(queries)
      /\ \A i \in DOMAIN queries : queries[i].start < queries[i].end /\ queries[i].end <= today
  BY DEF FetchInv, TypeOK
<1>6. /\ queries' \in Seq([start : Int, end : Int]) /\ Len(queries') = Len(queries) + 1
      /\ replies' \in Seq(Replies) /\ Len(replies') = Len(replies) + 1
      /\ warned' \in Seq(SUBSET ProjectIds) /\ Len(warned') = Len(warned) + 1
  BY <1>1, <1>2, <1>3, <1>4, <1>5
<1>7. ASSUME NEW i \in DOMAIN queries'
      PROVE  queries'[i] = q \/ (i \in DOMAIN queries /\ queries'[i] = queries[i])
  <2>1. DOMAIN queries = 1 .. Len(queries) /\ Len(queries) \in Nat
    BY <1>5
  <2>2. i \in 1 .. Len(queries) + 1
    BY <1>6, <1>7
  <2> QED BY <1>1, <1>4, <1>5, <2>1, <2>2
<1> QED BY <1>1, <1>5, <1>6, <1>7

(* A month that was asked for or skipped is one more of the months. *)
LEMMA MonthStep ==
  ASSUME FetchInv, pc = "months", NEW w \in Windows, AppendMonth(w)
  PROVE  /\ months' \in Seq(Windows) /\ Len(months') <= Lookback + 1
         /\ pc' \in {"months", "day"} /\ (pc' = "months" => Len(months') <= Lookback)
<1> USE FootprintAssumption
<1>1. months \in Seq(Windows) /\ Len(months) <= Lookback
  BY DEF FetchInv, TypeOK
<1>2. months' = Append(months, w) /\ pc' = IF Len(months) = Lookback THEN "day" ELSE "months"
  BY DEF AppendMonth
<1>3. months' \in Seq(Windows) /\ Len(months') = Len(months) + 1
  BY <1>1, <1>2
<1> QED BY <1>1, <1>2, <1>3

(* Every step keeps the invariant. *)
LEMMA NextInv == FetchInv /\ [Next]_vars => FetchInv'
<1> SUFFICES ASSUME FetchInv, [Next]_vars PROVE FetchInv'
  OBVIOUS
<1> USE FootprintAssumption
<1>0. TypeOK /\ today \in Days
  BY DEF FetchInv, TypeOK
<1>1. CASE StartFetch
  BY <1>0, <1>1 DEF StartFetch, FetchInv, TypeOK
<1>2. ASSUME pc = "months"
      PROVE  NextWindow \in Windows /\ NextWindow.end <= today
  <2>1. Len(months) + 1 \in 1 .. Lookback + 1
    BY <1>0, <1>2 DEF FetchInv, TypeOK
  <2> QED BY <1>0, <2>1, MonthWindowType DEF NextWindow
<1>3. CASE SkipMonth
  <2>1. pc = "months" /\ AppendMonth(NextWindow) /\ UNCHANGED <<queries, replies, warned>>
    BY <1>3 DEF SkipMonth
  <2>2. UNCHANGED <<now, today, day, fetches>>
    BY <2>1 DEF AppendMonth
  <2>3. /\ months' \in Seq(Windows) /\ Len(months') <= Lookback + 1
        /\ pc' \in {"months", "day"} /\ (pc' = "months" => Len(months') <= Lookback)
    BY <1>2, <2>1, MonthStep
  <2> QED BY <1>0, <2>1, <2>2, <2>3 DEF FetchInv, TypeOK
<1>4. CASE MonthReturns
  <2>1. pc = "months" /\ NextWindow.end > NextWindow.start
    BY <1>4 DEF MonthReturns
  <2>2. PICK reply \in Replies :
          AppendMonth(Fill(NextWindow, reply)) /\ Record(NextWindow, reply)
    BY <1>4 DEF MonthReturns
  <2>3. UNCHANGED <<now, today, day, fetches>>
    BY <2>2 DEF AppendMonth
  <2>4. Fill(NextWindow, reply) \in Windows
    BY <1>2, <2>1, FillType
  <2>5. /\ months' \in Seq(Windows) /\ Len(months') <= Lookback + 1
        /\ pc' \in {"months", "day"} /\ (pc' = "months" => Len(months') <= Lookback)
    BY <2>1, <2>2, <2>4, MonthStep
  <2>6. NextWindow.start < NextWindow.end
    BY <1>2, <2>1 DEF Windows
  <2>7. /\ queries' \in Seq([start : Int, end : Int])
        /\ replies' \in Seq(Replies) /\ Len(replies') = Len(queries')
        /\ warned' \in Seq(SUBSET ProjectIds) /\ Len(warned') = Len(queries')
        /\ \A i \in DOMAIN queries' : queries'[i].start < queries'[i].end /\ queries'[i].end <= today'
    BY <1>2, <2>1, <2>2, <2>3, <2>6, RecordStep
  <2> QED BY <1>0, <2>1, <2>3, <2>5, <2>7 DEF FetchInv, TypeOK
<1>5. CASE DayReturns
  <2>1. PICK reply \in Replies :
          day' = Fill(DayWindow(today), reply) /\ Record(DayWindow(today), reply)
    BY <1>5 DEF DayReturns
  <2>2. pc' = "returned" /\ UNCHANGED <<now, today, months, fetches>>
    BY <1>5 DEF DayReturns
  <2>3. day' \in Windows /\ day' # NoWindow
    BY <1>0, <2>1, DayType, FillType
  <2>4. /\ queries' \in Seq([start : Int, end : Int])
        /\ replies' \in Seq(Replies) /\ Len(replies') = Len(queries')
        /\ warned' \in Seq(SUBSET ProjectIds) /\ Len(warned') = Len(queries')
        /\ \A i \in DOMAIN queries' : queries'[i].start < queries'[i].end /\ queries'[i].end <= today'
    BY <1>0, <2>1, <2>2, DayType, RecordStep
  <2> QED BY <1>0, <2>2, <2>3, <2>4 DEF FetchInv, TypeOK
<1>6. CASE CallFails
  BY <1>0, <1>6 DEF CallFails, FetchInv, TypeOK
<1>7. CASE DayEnds
  BY <1>0, <1>7 DEF DayEnds, FetchInv, TypeOK
<1>8. CASE UNCHANGED vars
  BY <1>0, <1>8 DEF vars, FetchInv, TypeOK
<1> QED BY <1>1, <1>3, <1>4, <1>5, <1>6, <1>7, <1>8 DEF Next

(* It holds in every reachable state of the source. *)
LEMMA Invariance == Spec => []FetchInv
BY InitInv, NextInv, PTL DEF Spec

-----------------------------------------------------------------------------
(* The variables have their types. *)
THEOREM TypeCorrect == Spec => []TypeOK
<1>1. FetchInv => TypeOK
  BY DEF FetchInv
<1> QED BY <1>1, Invariance, PTL

(* Only complete days are asked for, and never an empty range. *)
THEOREM OnlyCompleteDaysHolds == Spec => []OnlyCompleteDays
<1>1. FetchInv => OnlyCompleteDays
  <2> SUFFICES ASSUME FetchInv, NEW i \in DOMAIN queries
               PROVE  DaysIn(queries[i]) # {} /\ queries[i].end <= today
    BY DEF OnlyCompleteDays
  <2>1. queries[i].start \in Int /\ queries[i].end \in Int
        /\ queries[i].start < queries[i].end /\ queries[i].end <= today
    <3> DEFINE Ranges == [start : Int, end : Int]
    <3>1. queries \in Seq(Ranges)
      BY DEF FetchInv, TypeOK
    <3>2. queries[i] \in Ranges
      <4> HIDE DEF Ranges
      <4> QED BY <3>1
    <3> QED BY <3>2 DEF FetchInv
  <2>2. queries[i].start \in DaysIn(queries[i])
    BY <2>1 DEF DaysIn
  <2> QED BY <2>1, <2>2
<1> QED BY <1>1, Invariance, PTL

-----------------------------------------------------------------------------
(***************************************************************************)
(* What has been asked for: the windows of the months one after the other, *)
(* but for the current month on its first day, and at last the day.        *)
(***************************************************************************)
Skipped(d) == IF d = FirstDay[MonthOf(d)] THEN 1 ELSE 0

MonthsAsked(n) ==
  \A j \in 1 .. n : queries[j] = Asked(MonthWindows(today)[j + Skipped(today)])

AskedInv ==
  /\ pc \in {"months", "day"} =>
       /\ Len(queries) = IF Len(months) = 0 THEN 0 ELSE Len(months) - Skipped(today)
       /\ MonthsAsked(Len(queries))
  /\ pc = "day" => Len(months) = Lookback + 1
  /\ pc = "returned" =>
       /\ Len(queries) = Lookback + 2 - Skipped(today)
       /\ MonthsAsked(Len(queries) - 1)
       /\ queries[Len(queries)] = Asked(DayWindow(today))

(* A month that began yields days to ask for, unless it began today. *)
LEMMA EmptyWindow ==
  ASSUME NEW d \in Days, NEW i \in 1 .. Lookback + 1
  PROVE  LET w == MonthWindows(d)[i]
         IN  w.end <= w.start <=> i = 1 /\ Skipped(d) = 1
<1> DEFINE m == MonthOf(d)
           n == m - i + 1
           w == MonthWindows(d)[i]
<1>1. m \in Lookback + 1 .. Len(FirstDay) - 1 /\ FirstDay[m] <= d /\ d \in Int
      /\ Lookback \in Nat /\ Len(FirstDay) \in Nat
  BY MonthOfToday, FootprintAssumption, Calendar
<1> HIDE DEF m
<1>2. n \in 1 .. Len(FirstDay) /\ n + 1 \in 1 .. Len(FirstDay) /\ n < n + 1
  BY <1>1
<1>3. FirstDay[n] \in Int /\ FirstDay[n + 1] \in Int /\ FirstDay[n] < FirstDay[n + 1]
  <2>1. \A p, q \in DOMAIN FirstDay : p < q => FirstDay[p] < FirstDay[q]
    BY FootprintAssumption
  <2> HIDE DEF n
  <2> QED BY <1>2, <2>1, Calendar
<1>4. w.start = FirstDay[n] /\ w.end = End(d, i - 1)
  BY DEF MonthWindows, m
<1>5. End(d, i - 1) = IF i = 1 THEN d ELSE FirstDay[n + 1]
  <2>1. i = 1 <=> i - 1 = 0
    OBVIOUS
  <2>2. m - (i - 1) + 1 = n + 1
    BY <1>1
  <2> QED BY <2>1, <2>2 DEF End, m
<1>6. i = 1 => n = m
  BY <1>1
<1>7. Skipped(d) = 1 <=> d = FirstDay[m]
  BY DEF Skipped, m
<1> HIDE DEF n, w
<1>8. CASE i = 1
  BY <1>1, <1>3, <1>4, <1>5, <1>6, <1>7, <1>8 DEF w, m
<1>9. CASE i # 1
  BY <1>3, <1>4, <1>5, <1>9 DEF w, m
<1> QED BY <1>8, <1>9

(* What is known when a month is next. *)
LEMMA NextMonth ==
  ASSUME FetchInv, AskedInv, pc = "months"
  PROVE  /\ Len(months) \in 0 .. Lookback /\ Len(months) + 1 \in 1 .. Lookback + 1
         /\ Len(queries) \in Nat /\ Skipped(today) \in {0, 1}
         /\ Len(queries) = IF Len(months) = 0 THEN 0 ELSE Len(months) - Skipped(today)
         /\ MonthsAsked(Len(queries))
         /\ today \in Days /\ Lookback \in Nat
         /\ NextWindow.end <= NextWindow.start <=> Len(months) = 0 /\ Skipped(today) = 1
<1>1. months \in Seq(Windows) /\ Len(months) <= Lookback /\ today \in Days
      /\ queries \in Seq([start : Int, end : Int]) /\ Lookback \in Nat
  BY FootprintAssumption DEF FetchInv, TypeOK
<1>2. Len(months) \in 0 .. Lookback /\ Len(months) + 1 \in 1 .. Lookback + 1 /\ Len(queries) \in Nat
  BY <1>1
<1>3. NextWindow.end <= NextWindow.start <=> Len(months) + 1 = 1 /\ Skipped(today) = 1
  BY <1>1, <1>2, EmptyWindow DEF NextWindow
<1>4. Skipped(today) \in {0, 1}
  BY DEF Skipped
<1> QED BY <1>1, <1>2, <1>3, <1>4 DEF AskedInv

(* A query is added to those of the months so far. *)
LEMMA AskedAppend ==
  ASSUME NEW n \in Nat, n = Len(queries), queries \in Seq([start : Int, end : Int]),
         Skipped(today) \in {0, 1}, MonthsAsked(n), today' = today,
         NEW w \in Windows, queries' = Append(queries, Asked(w))
  PROVE  /\ Len(queries') = n + 1 /\ queries'[n + 1] = Asked(w)
         /\ MonthsAsked(n)'
         /\ w = MonthWindows(today)[n + 1 + Skipped(today)] => MonthsAsked(n + 1)'
<1> DEFINE Ranges == [start : Int, end : Int]
           q == Asked(w)
<1>1. q \in Ranges /\ queries \in Seq(Ranges) /\ queries' = Append(queries, q)
  BY DEF Asked, Windows
<1> HIDE DEF Ranges, q
<1>2. Len(queries') = n + 1 /\ queries'[n + 1] = q /\ \A j \in 1 .. n : queries'[j] = queries[j]
  BY <1>1
<1>3. Skipped(today)' = Skipped(today)
  BY DEF Skipped, MonthOf
<1>4. MonthWindows(today)' = MonthWindows(today)
  BY DEF MonthWindows, MonthOf, End
<1>5. MonthsAsked(n)'
  BY <1>2, <1>3, <1>4 DEF MonthsAsked
<1>6. ASSUME w = MonthWindows(today)[n + 1 + Skipped(today)]
      PROVE  MonthsAsked(n + 1)'
  <2>1. \A j \in 1 .. n + 1 : j \in 1 .. n \/ j = n + 1
    OBVIOUS
  <2>2. queries'[n + 1] = Asked(MonthWindows(today)[n + 1 + Skipped(today)])
    BY <1>2, <1>6 DEF q
  <2> QED BY <1>2, <1>3, <1>4, <2>1, <2>2 DEF MonthsAsked
<1> QED BY <1>2, <1>5, <1>6 DEF q

(* Nothing has been asked for. *)
LEMMA AskedInit == Init => AskedInv
BY DEF Init, AskedInv

(* Every step of Fetch asks for what comes next. *)
LEMMA AskedStep == FetchInv /\ AskedInv /\ [Next]_vars => AskedInv'
<1> SUFFICES ASSUME FetchInv, AskedInv, [Next]_vars PROVE AskedInv'
  OBVIOUS
<1>0. /\ months \in Seq(Windows) /\ today \in Days /\ Lookback \in Nat
      /\ queries \in Seq([start : Int, end : Int])
  BY FootprintAssumption DEF FetchInv, TypeOK
<1>1. PICK n \in Nat, k \in Nat, skip \in {0, 1} :
        n = Len(queries) /\ k = Len(months) /\ skip = Skipped(today)
  BY <1>0 DEF Skipped
<1>2. today' = today => Skipped(today)' = skip /\ MonthWindows(today)' = MonthWindows(today)
                        /\ DayWindow(today)' = DayWindow(today)
  BY <1>1 DEF Skipped, MonthOf, MonthWindows, DayWindow, End
<1>3. CASE StartFetch
  <2>1. months' = <<>> /\ queries' = <<>> /\ pc' = "months"
    BY <1>3 DEF StartFetch
  <2> QED BY <2>1 DEF AskedInv, MonthsAsked
<1>4. ASSUME pc = "months", NEW w \in Windows, AppendMonth(w)
      PROVE  /\ Len(months') = k + 1 /\ today' = today
             /\ pc' = IF k = Lookback THEN "day" ELSE "months"
  <2>1. months' = Append(months, w)
    BY <1>4 DEF AppendMonth
  <2> QED BY <1>0, <1>1, <1>4, <2>1 DEF AppendMonth
<1>5. ASSUME pc = "months"
      PROVE  NextWindow \in Windows
  BY <1>0, <1>5, NextMonth, MonthWindowType DEF NextWindow
<1>6. CASE SkipMonth
  <2>1. /\ pc = "months" /\ NextWindow.end <= NextWindow.start /\ AppendMonth(NextWindow)
        /\ queries' = queries
    BY <1>6 DEF SkipMonth
  <2>2. k = 0 /\ skip = 1 /\ n = 0
    BY <1>1, <2>1, NextMonth
  <2>3. Len(months') = 1 /\ pc' \in {"months", "day"} /\ (pc' = "day" => Lookback = 0)
    BY <1>0, <1>1, <1>2, <1>4, <1>5, <2>1, <2>2
  <2>4. Len(queries') = 0
    BY <1>1, <2>1, <2>2
  <2>5. MonthsAsked(0)'
    BY DEF MonthsAsked
  <2>6. Skipped(today)' = 1
    BY <1>2, <2>1, <2>2 DEF AppendMonth
  <2> QED BY <2>3, <2>4, <2>5, <2>6 DEF AskedInv
<1>7. CASE MonthReturns
  <2>1. pc = "months" /\ NextWindow.end > NextWindow.start
    BY <1>7 DEF MonthReturns
  <2>2. PICK reply \in Replies :
          AppendMonth(Fill(NextWindow, reply)) /\ Record(NextWindow, reply)
    BY <1>7 DEF MonthReturns
  <2>3. Len(months') = k + 1 /\ today' = today /\ pc' = IF k = Lookback THEN "day" ELSE "months"
    BY <1>4, <1>5, <2>1, <2>2, FillType
  <2>4. ~ (k = 0 /\ skip = 1) /\ n = (IF k = 0 THEN 0 ELSE k - skip) /\ MonthsAsked(n)
    <3>1. NextWindow.end \in Int /\ NextWindow.start \in Int
      BY <1>5, <2>1 DEF Windows
    <3> QED BY <1>1, <2>1, <3>1, NextMonth
  <2>5. n + 1 + skip = k + 1 /\ n + 1 = k + 1 - skip
    BY <1>1, <2>4
  <2>6. queries' = Append(queries, Asked(NextWindow))
    BY <2>2 DEF Record
  <2>7. NextWindow = MonthWindows(today)[n + 1 + Skipped(today)]
    BY <1>1, <2>5 DEF NextWindow
  <2>8. Len(queries') = n + 1 /\ MonthsAsked(n + 1)'
    BY <1>0, <1>1, <1>5, <2>1, <2>3, <2>4, <2>6, <2>7, AskedAppend
  <2>9. Skipped(today)' = skip
    BY <1>2, <2>3
  <2>10. Len(queries)' = Len(months') - Skipped(today)' /\ Len(months') # 0
    BY <1>1, <2>3, <2>5, <2>8, <2>9
  <2>11. MonthsAsked(Len(queries))'
    BY <2>8
  <2>12. pc' \in {"months", "day"} /\ (pc' = "day" => Len(months') = Lookback + 1)
    BY <2>3
  <2> QED BY <2>10, <2>11, <2>12 DEF AskedInv
<1>8. CASE DayReturns
  <2>1. PICK reply \in Replies : Record(DayWindow(today), reply)
    BY <1>8 DEF DayReturns
  <2>2. pc = "day" /\ pc' = "returned" /\ today' = today
    BY <1>8 DEF DayReturns
  <2>3. n = Lookback + 1 - skip /\ MonthsAsked(n)
    BY <1>0, <1>1, <2>2 DEF AskedInv
  <2>4. queries' = Append(queries, Asked(DayWindow(today))) /\ DayWindow(today) \in Windows
    BY <1>0, <2>1, DayType DEF Record
  <2>5. /\ Len(queries') = n + 1 /\ MonthsAsked(n)'
        /\ queries'[n + 1] = Asked(DayWindow(today))
    BY <1>0, <1>1, <2>2, <2>3, <2>4, AskedAppend
  <2>6. Skipped(today)' = skip /\ Asked(DayWindow(today))' = Asked(DayWindow(today))
    BY <1>2, <2>2 DEF Asked
  <2>7. Len(queries)' = Lookback + 2 - Skipped(today)' /\ Len(queries)' - 1 = n
    BY <1>0, <1>1, <2>3, <2>5, <2>6
  <2>8. MonthsAsked(Len(queries) - 1)'
    BY <2>5, <2>7
  <2>9. queries'[Len(queries)'] = Asked(DayWindow(today))'
    BY <2>5, <2>6
  <2> QED BY <2>2, <2>7, <2>8, <2>9 DEF AskedInv
<1>9. CASE CallFails
  BY <1>9 DEF CallFails, AskedInv
<1>10. ASSUME UNCHANGED <<pc, months, queries, today>> PROVE AskedInv'
  <2>1. MonthsAsked(Len(queries))' = MonthsAsked(Len(queries))
        /\ MonthsAsked(Len(queries) - 1)' = MonthsAsked(Len(queries) - 1)
    BY <1>2, <1>10 DEF MonthsAsked
  <2> QED BY <1>2, <1>10, <2>1 DEF AskedInv, Asked
<1> QED BY <1>3, <1>6, <1>7, <1>8, <1>9, <1>10 DEF Next, DayEnds, vars

(* The queries are always those of the next windows. *)
LEMMA AskedAlways == Spec => []AskedInv
BY AskedInit, AskedStep, Invariance, PTL DEF Spec

(***************************************************************************)
(* The windows of the months tile the days since the oldest of them.       *)
(***************************************************************************)

(* A later month does not begin earlier. *)
LEMMA FirstDayMonotonic ==
  ASSUME NEW p \in 1 .. Len(FirstDay), NEW q \in 1 .. Len(FirstDay), p <= q
  PROVE  FirstDay[p] \in Int /\ FirstDay[q] \in Int /\ FirstDay[p] <= FirstDay[q]
<1>1. \A x, y \in DOMAIN FirstDay : x < y => FirstDay[x] < FirstDay[y]
  BY FootprintAssumption
<1>2. p = q \/ p < q
  BY Calendar
<1> QED BY <1>1, <1>2, Calendar

(* A day since the oldest month lies in one of the months. *)
LEMMA MonthExists ==
  ASSUME NEW d \in Days, NEW m \in Nat, m = MonthOf(d), NEW x \in Int,
         FirstDay[m - Lookback] <= x, x < d
  PROVE  \E p \in m - Lookback .. m :
           FirstDay[p] <= x /\ x < FirstDay[p + 1]
<1> DEFINE P == {p \in 1 .. m : FirstDay[p] <= x}
<1>1. /\ m \in Lookback + 1 .. Len(FirstDay) - 1 /\ d < FirstDay[m + 1] /\ d \in Int
      /\ Lookback \in Nat /\ Len(FirstDay) \in Nat
  BY MonthOfToday, FootprintAssumption, Calendar
<1>2. m - Lookback \in P /\ P \in SUBSET (0 .. m)
  BY <1>1
<1>3. PICK p \in P : \A q \in P : p >= q
  <2>1. P # {}
    BY <1>2
  <2> HIDE DEF P
  <2> QED BY <1>2, <2>1, BoundedSetHasGreatest
<1>4. p \in m - Lookback .. m /\ p \in 1 .. m /\ FirstDay[p] <= x
  BY <1>1, <1>2, <1>3
<1>5. x < FirstDay[p + 1]
  <2>1. FirstDay[p + 1] \in Int
    BY <1>1, <1>4, Calendar
  <2>2. CASE p = m
    BY <1>1, <2>1, <2>2
  <2>3. CASE p # m
    <3>1. p + 1 \in 1 .. m
      BY <1>1, <1>4, <2>3
    <3>2. p + 1 \notin P
      BY <1>3, <1>4
    <3> QED BY <2>1, <3>1, <3>2
  <2> QED BY <2>2, <2>3
<1> QED BY <1>4, <1>5

(* The days of the window of the i-th month. *)
LEMMA WindowDays ==
  ASSUME NEW d \in Days, NEW i \in 1 .. Lookback + 1, NEW x
  PROVE  LET m == MonthOf(d)
         IN  x \in DaysIn(Asked(MonthWindows(d)[i])) <=>
               /\ x \in Int /\ FirstDay[m - i + 1] <= x /\ x < FirstDay[m - i + 2]
               /\ x < d
<1> DEFINE m == MonthOf(d)
           n == m - i + 1
           w == MonthWindows(d)[i]
<1>1. /\ m \in Lookback + 1 .. Len(FirstDay) - 1 /\ FirstDay[m] <= d /\ d < FirstDay[m + 1]
      /\ d \in Int /\ Lookback \in Nat /\ Len(FirstDay) \in Nat
  BY MonthOfToday, FootprintAssumption, Calendar
<1> HIDE DEF m
<1>2. /\ n \in 1 .. Len(FirstDay) /\ n + 1 \in 1 .. Len(FirstDay) /\ m \in 1 .. Len(FirstDay)
      /\ m - i + 2 = n + 1 /\ (i = 1 => n = m) /\ (i # 1 => n + 1 <= m)
  BY <1>1
<1>3. w.start = FirstDay[n] /\ w.end = End(d, i - 1)
  BY DEF MonthWindows, m
<1>4. w.end = IF i = 1 THEN d ELSE FirstDay[n + 1]
  <2>1. i = 1 <=> i - 1 = 0
    OBVIOUS
  <2>2. m - (i - 1) + 1 = n + 1
    BY <1>1
  <2> QED BY <1>3, <2>1, <2>2 DEF End, m
<1>5. DaysIn(Asked(w)) = w.start .. w.end - 1
  BY DEF DaysIn, Asked
<1> HIDE DEF n, w
<1>6. /\ FirstDay[n] \in Int /\ FirstDay[n + 1] \in Int
      /\ (i = 1 => d < FirstDay[n + 1]) /\ (i # 1 => FirstDay[n + 1] <= d)
  <2>1. i # 1 => FirstDay[n + 1] <= FirstDay[m] /\ FirstDay[m] \in Int
    BY <1>2, FirstDayMonotonic
  <2> QED BY <1>1, <1>2, <2>1, Calendar
<1>7. x \in DaysIn(Asked(w)) <=> x \in Int /\ FirstDay[n] <= x /\ x < FirstDay[n + 1] /\ x < d
  BY <1>1, <1>3, <1>4, <1>5, <1>6
<1> QED BY <1>2, <1>7 DEF n, w, m

(* The months of a returned snapshot cover every complete day, once.       *)
THEOREM MonthsTileHolds == Spec => []MonthsTile
<1>1. FetchInv /\ AskedInv => MonthsTile
  <2> SUFFICES ASSUME FetchInv, AskedInv, pc = "returned" PROVE MonthsTile
    BY DEF MonthsTile
  <2> DEFINE m == MonthOf(today)
             skip == Skipped(today)
             n == Len(queries) - 1
             oldest == FirstDay[m - Lookback]
  <2>1. /\ today \in Days /\ today \in Int /\ Lookback \in Nat /\ Len(FirstDay) \in Nat
        /\ m \in Lookback + 1 .. Len(FirstDay) - 1 /\ FirstDay[m] <= today
    BY MonthOfToday, FootprintAssumption, Calendar DEF FetchInv, TypeOK
  <2>2. skip \in {0, 1} /\ (skip = 1 <=> today = FirstDay[m])
    BY DEF Skipped
  <2>3. n = Lookback + 1 - skip /\ n \in Nat /\ MonthsAsked(n) /\ Len(queries) = n + 1
        /\ queries[Len(queries)] = Asked(DayWindow(today))
    BY <2>1, <2>2 DEF AskedInv
  <2> HIDE DEF m, skip, n
  <2>4. ASSUME NEW j \in 1 .. n, NEW x
        PROVE  x \in DaysIn(queries[j]) <=>
                 /\ x \in Int /\ FirstDay[m - (j + skip) + 1] <= x
                 /\ x < FirstDay[m - (j + skip) + 2] /\ x < today
    <3>1. j + skip \in 1 .. Lookback + 1
      BY <2>1, <2>2, <2>3
    <3>2. queries[j] = Asked(MonthWindows(today)[j + skip])
      BY <2>3 DEF MonthsAsked, skip
    <3> QED BY <2>1, <3>1, <3>2, WindowDays DEF m
  <2>5. ASSUME NEW j \in 1 .. n, NEW x \in DaysIn(queries[j])
        PROVE  x \in oldest .. today - 1 /\ MonthOf(x) = m - (j + skip) + 1
    <3> DEFINE p == m - (j + skip) + 1
    <3>1. /\ p \in 1 .. Len(FirstDay) - 1 /\ p \in 1 .. Len(FirstDay)
          /\ m - Lookback \in 1 .. Len(FirstDay) /\ m - Lookback <= p
          /\ p + 1 = m - (j + skip) + 2
      BY <2>1, <2>2, <2>3
    <3>2. x \in Int /\ FirstDay[p] <= x /\ x < FirstDay[p + 1] /\ x < today
      BY <2>4, <2>5, <3>1
    <3> HIDE DEF p
    <3>3. FirstDay[m - Lookback] <= FirstDay[p] /\ FirstDay[p] \in Int /\ FirstDay[m - Lookback] \in Int
      BY <3>1, FirstDayMonotonic
    <3>4. MonthOf(x) = p
      BY <3>1, <3>2, MonthOfDay
    <3> QED BY <2>1, <3>2, <3>3, <3>4 DEF p
  <2>6. ASSUME NEW x \in oldest .. today - 1
        PROVE  \E j \in 1 .. n : x \in DaysIn(queries[j])
    <3>0. x \in Int /\ oldest <= x /\ x < today
      <4>1. oldest \in Int
        BY <2>1, Calendar
      <4> QED BY <2>1, <4>1
    <3>1. PICK p \in m - Lookback .. m : FirstDay[p] <= x /\ x < FirstDay[p + 1]
      BY <2>1, <3>0, MonthExists DEF m
    <3> DEFINE j == m - p + 1 - skip
    <3>2. skip = 1 => p # m
      BY <2>1, <2>2, <3>0, <3>1
    <3>3. j \in 1 .. n /\ p = m - (j + skip) + 1 /\ p + 1 = m - (j + skip) + 2
      BY <2>1, <2>2, <2>3, <3>2
    <3> HIDE DEF j
    <3>4. x \in DaysIn(queries[j])
      BY <2>4, <3>0, <3>1, <3>3
    <3> QED BY <3>3, <3>4
  <2>7. UNION {DaysIn(queries[j]) : j \in 1 .. n} = oldest .. today - 1
    BY <2>5, <2>6
  <2>8. ASSUME NEW i \in 1 .. n, NEW j \in 1 .. n, i # j
        PROVE  DaysIn(queries[i]) \cap DaysIn(queries[j]) = {}
    <3> SUFFICES ASSUME NEW x \in DaysIn(queries[i]), x \in DaysIn(queries[j]) PROVE FALSE
      OBVIOUS
    <3>1. MonthOf(x) = m - (i + skip) + 1 /\ MonthOf(x) = m - (j + skip) + 1
      BY <2>5, <2>8
    <3> QED BY <2>1, <2>2, <2>8, <3>1
  <2>9. DaysIn(queries[Len(queries)]) = {today - DailyOffsetDays}
    <3>1. today - DailyOffsetDays \in Int
      BY <2>1, FootprintAssumption
    <3> DEFINE a == today - DailyOffsetDays
    <3>2. DaysIn(Asked(DayWindow(today))) = a .. a + 1 - 1
      <4> DEFINE w == DayWindow(today)
      <4>1. w.start = a /\ w.end = a + 1 /\ a \in Int
        BY <3>1 DEF DayWindow
      <4> HIDE DEF w, a
      <4>2. DaysIn(Asked(w)) = w.start .. w.end - 1
        BY DEF DaysIn, Asked
      <4>3. DaysIn(Asked(w)) = a .. a + 1 - 1
        BY <4>1, <4>2
      <4> QED BY <4>3 DEF w
    <3> HIDE DEF a
    <3>3. a .. a + 1 - 1 = {a}
      BY <3>1 DEF a
    <3> QED BY <2>3, <3>2, <3>3 DEF a
  <2>10. Len(queries) - 1 = n
    BY DEF n
  <2> QED BY <2>7, <2>8, <2>9, <2>10 DEF MonthsTile, m
<1> QED BY <1>1, Invariance, AskedAlways, PTL

(***************************************************************************)
(* Lists of the values of a function.                                      *)
(***************************************************************************)

(* seq has f[x] for every x of S once, in some order, and nothing else. *)
ListsAll(seq, V, f, S) ==
  /\ seq \in Seq(V)
  /\ \E b \in [S -> 1 .. Len(seq)] :
       /\ \A x, y \in S : b[x] = b[y] => x = y
       /\ \A n \in 1 .. Len(seq) : \E x \in S : b[x] = n
       /\ \A x \in S : seq[b[x]] = f[x]

(* Lists of no value and of one. *)
LEMMA ListsNothing ==
  ASSUME NEW V, NEW f
  PROVE  ListsAll(<<>>, V, f, {})
<1> DEFINE b == [x \in {} |-> 1]
<1>1. b \in [{} -> 1 .. 0] /\ <<>> \in Seq(V) /\ Len(<<>>) = 0
  OBVIOUS
<1>2. \A n \in 1 .. 0 : FALSE
  OBVIOUS
<1> HIDE DEF b
<1> QED BY <1>1, <1>2 DEF ListsAll

LEMMA ListsOne ==
  ASSUME NEW V, NEW f, NEW x, f[x] \in V
  PROVE  ListsAll(<<f[x]>>, V, f, {x})
<1> DEFINE b == [y \in {x} |-> 1]
<1>1. <<f[x]>> \in Seq(V) /\ Len(<<f[x]>>) = 1 /\ <<f[x]>>[1] = f[x]
  OBVIOUS
<1>2. b \in [{x} -> 1 .. 1] /\ b[x] = 1
  OBVIOUS
<1> HIDE DEF b
<1> QED BY <1>1, <1>2 DEF ListsAll

(* Two lists of different values one after the other. *)
LEMMA ListsBoth ==
  ASSUME NEW V, NEW f, NEW S, NEW T, S \cap T = {},
         NEW s, ListsAll(s, V, f, S), NEW t, ListsAll(t, V, f, T)
  PROVE  ListsAll(s \o t, V, f, S \cup T)
<1>1. s \in Seq(V) /\ t \in Seq(V)
  BY DEF ListsAll
<1>2. PICK m \in Nat, n \in Nat : m = Len(s) /\ n = Len(t)
  BY <1>1
<1>3. PICK b \in [S -> 1 .. m] :
        /\ \A x, y \in S : b[x] = b[y] => x = y
        /\ \A i \in 1 .. m : \E x \in S : b[x] = i
        /\ \A x \in S : s[b[x]] = f[x]
  BY <1>2 DEF ListsAll
<1>4. PICK c \in [T -> 1 .. n] :
        /\ \A x, y \in T : c[x] = c[y] => x = y
        /\ \A i \in 1 .. n : \E x \in T : c[x] = i
        /\ \A x \in T : t[c[x]] = f[x]
  BY <1>2 DEF ListsAll
<1> DEFINE d == [x \in S \cup T |-> IF x \in S THEN b[x] ELSE m + c[x]]
<1>5. /\ \A x \in S : d[x] = b[x] /\ b[x] \in 1 .. m
      /\ \A x \in T : d[x] = m + c[x] /\ c[x] \in 1 .. n
  OBVIOUS
<1>6. s \o t \in Seq(V) /\ Len(s \o t) = m + n
      /\ (\A i \in 1 .. m : (s \o t)[i] = s[i])
      /\ \A i \in 1 .. n : (s \o t)[m + i] = t[i]
  BY <1>1, <1>2
<1>7. d \in [S \cup T -> 1 .. m + n]
  BY <1>2
<1> HIDE DEF d
<1>8. ASSUME NEW x \in S \cup T, NEW y \in S \cup T, d[x] = d[y] PROVE x = y
  <2>1. CASE x \in S /\ y \in S
    BY <1>3, <1>5, <1>8, <2>1
  <2>2. CASE x \in T /\ y \in T
    <3>1. c[x] = c[y]
      BY <1>2, <1>5, <1>8, <2>2
    <3> QED BY <1>4, <2>2, <3>1
  <2>3. CASE x \in S /\ y \in T
    BY <1>2, <1>5, <1>8, <2>3
  <2>4. CASE x \in T /\ y \in S
    BY <1>2, <1>5, <1>8, <2>4
  <2> QED BY <2>1, <2>2, <2>3, <2>4
<1>9. ASSUME NEW i \in 1 .. m + n PROVE \E x \in S \cup T : d[x] = i
  <2>1. CASE i \in 1 .. m
    <3>1. PICK x \in S : b[x] = i
      BY <1>3, <2>1
    <3> QED BY <1>5, <3>1
  <2>2. CASE i \notin 1 .. m
    <3>1. i - m \in 1 .. n
      BY <1>2, <2>2
    <3>2. PICK x \in T : c[x] = i - m
      BY <1>4, <3>1
    <3>3. d[x] = m + (i - m)
      BY <1>5, <3>2
    <3> QED BY <1>2, <3>3
  <2> QED BY <2>1, <2>2
<1>10. ASSUME NEW x \in S \cup T PROVE (s \o t)[d[x]] = f[x]
  <2>1. CASE x \in S
    BY <1>3, <1>5, <1>6, <2>1
  <2>2. CASE x \in T
    <3>1. d[x] = m + c[x] /\ c[x] \in 1 .. n
      BY <1>5, <2>2
    <3>2. (s \o t)[m + c[x]] = t[c[x]]
      BY <1>6, <3>1
    <3> QED BY <1>4, <2>2, <3>1, <3>2
  <2> QED BY <2>1, <2>2
<1>11. d \in [S \cup T -> 1 .. Len(s \o t)]
  BY <1>6, <1>7
<1>12. \A i \in 1 .. Len(s \o t) : \E x \in S \cup T : d[x] = i
  BY <1>6, <1>9
<1> QED BY <1>6, <1>8, <1>10, <1>11, <1>12 DEF ListsAll

(* What FlattenSeq computes, list after list. *)
Flattens(g, seqs) ==
  g = [i \in 1 .. Len(seqs) |-> IF i = 1 THEN seqs[i] ELSE g[i - 1] \o seqs[i]]

(* There is such a function. *)
LEMMA FlattenExists ==
  ASSUME NEW V, NEW seqs \in Seq(Seq(V))
  PROVE  \E g : Flattens(g, seqs)
<1> DEFINE W == Seq(V)
           n == Len(seqs)
           Step(i, s) == IF i + 1 <= n THEN s \o seqs[i + 1] ELSE s
           F == [i \in Nat |-> [s \in W |-> Step(i, s)]]
<1>1. n \in Nat /\ <<>> \in W /\ \A i \in 1 .. n : seqs[i] \in W
  OBVIOUS
<1>2. ASSUME NEW i \in Nat, NEW s \in W PROVE Step(i, s) \in W
  <2>1. CASE i + 1 <= n
    <3>1. seqs[i + 1] \in Seq(V) /\ s \in Seq(V)
      BY <1>1, <2>1
    <3> QED BY <2>1, <3>1
  <2>2. CASE ~ (i + 1 <= n)
    BY <2>2
  <2> QED BY <2>1, <2>2
<1>3. F \in [Nat -> [W -> W]]
  <2> HIDE DEF W, Step
  <2> QED BY <1>2
<1>4. PICK h \in [Nat -> W] : h[0] = <<>> /\ \A i \in Nat : h[i + 1] = F[i][h[i]]
  <2> DEFINE none == <<>>
             Solved(X, a, G) ==
               \E h \in [Nat -> X] : h[0] = a /\ \A i \in Nat : h[i + 1] = G[i][h[i]]
  <2>1. none \in W /\ F \in [Nat -> [W -> W]]
    BY <1>1, <1>3
  <2>2. \A X : \A a \in X : \A G \in [Nat -> [X -> X]] : Solved(X, a, G)
    BY PrimitiveRecursion
  <2>3. Solved(W, none, F)
    <3> HIDE DEF W, F, none, Step, Solved
    <3> QED BY <2>1, <2>2
  <2> QED BY <2>3
<1> DEFINE g == [i \in 1 .. n |-> h[i]]
<1>5. ASSUME NEW i \in 1 .. n
      PROVE  g[i] = IF i = 1 THEN seqs[i] ELSE g[i - 1] \o seqs[i]
  <2>1. i - 1 \in Nat /\ (i - 1) + 1 = i /\ i <= n /\ (i # 1 => i - 1 \in 1 .. n)
    BY <1>1
  <2>2. h[i] = h[i - 1] \o seqs[i]
    <3> HIDE DEF W
    <3>1. h[i - 1] \in W
      BY <2>1
    <3>2. h[i] = F[i - 1][h[i - 1]]
      BY <1>4, <2>1
    <3>3. h[i] = Step(i - 1, h[i - 1])
      <4> HIDE DEF Step
      <4> QED BY <2>1, <3>1, <3>2
    <3> QED BY <2>1, <3>3
  <2>3. CASE i = 1
    <3>1. h[i - 1] = <<>>
      <4> HIDE DEF W, F
      <4>1. i - 1 = 0
        BY <2>3
      <4> QED BY <1>4, <4>1
    <3>2. seqs[i] \in Seq(V)
      BY <1>1
    <3>3. <<>> \o seqs[i] = seqs[i]
      BY <3>2
    <3> QED BY <2>2, <2>3, <3>1, <3>3
  <2>4. CASE i # 1
    BY <2>1, <2>2, <2>4
  <2> QED BY <2>3, <2>4
<1>6. g = [i \in 1 .. n |-> g[i]]
  OBVIOUS
<1> HIDE DEF g
<1>7. Flattens(g, seqs)
  <2> DEFINE r == [i \in 1 .. n |-> IF i = 1 THEN seqs[i] ELSE g[i - 1] \o seqs[i]]
  <2>1. g = r
    BY <1>5, <1>6
  <2> QED BY <2>1 DEF Flattens
<1> QED BY <1>7

(***************************************************************************)
(* The concatenation of lists, each of the values of its part of S.        *)
(***************************************************************************)
LEMMA ListsParts ==
  ASSUME NEW V, NEW f, NEW S, NEW seqs, NEW n \in Nat,
         DOMAIN seqs = 1 .. n, seqs = [i \in 1 .. n |-> seqs[i]],
         NEW part, \A x \in S : part[x] \in 1 .. n,
         \A i \in 1 .. n : ListsAll(seqs[i], V, f, {x \in S : part[x] = i})
  PROVE  ListsAll(FlattenSeq(seqs), V, f, S)
<1>1. seqs \in Seq(Seq(V)) /\ Len(seqs) = n
  <2>1. \A i \in 1 .. n : seqs[i] \in Seq(V)
    BY DEF ListsAll
  <2>2. seqs \in [1 .. n -> Seq(V)]
    BY <2>1
  <2> QED BY <2>2
<1>2. CASE n = 0
  <2>1. S = {} /\ seqs = <<>>
    BY <1>1, <1>2
  <2>2. FlattenSeq(seqs) = <<>>
    BY <1>1, <1>2, <2>1 DEF FlattenSeq
  <2> QED BY <2>1, <2>2, ListsNothing
<1>3. CASE n # 0
  <2> DEFINE g == CHOOSE g : Flattens(g, seqs)
             Upto(i) == {x \in S : part[x] <= i}
             G == {i \in Nat : i + 1 <= n => ListsAll(g[i + 1], V, f, Upto(i + 1))}
  <2>1. FlattenSeq(seqs) = g[n]
    BY <1>1, <1>3 DEF FlattenSeq, Flattens
  <2>2. Flattens(g, seqs)
    BY <1>1, FlattenExists
  <2> HIDE DEF g
  <2>3. \A i \in 1 .. n : g[i] = IF i = 1 THEN seqs[i] ELSE g[i - 1] \o seqs[i]
    BY <1>1, <2>2 DEF Flattens
  <2>4. 0 \in G
    <3>1. g[1] = seqs[1] /\ 1 \in 1 .. n
      BY <1>3, <2>3
    <3>2. Upto(1) = {x \in S : part[x] = 1}
      OBVIOUS
    <3> QED BY <3>1, <3>2
  <2>5. ASSUME NEW i \in Nat, i \in G PROVE i + 1 \in G
    <3> SUFFICES ASSUME (i + 1) + 1 <= n
                 PROVE  ListsAll(g[(i + 1) + 1], V, f, Upto((i + 1) + 1))
      OBVIOUS
    <3> DEFINE k == i + 1
               next == {x \in S : part[x] = k + 1}
    <3>1. k \in 1 .. n /\ k + 1 \in 1 .. n /\ k + 1 # 1 /\ (k + 1) - 1 = k
      OBVIOUS
    <3>2. ListsAll(g[k], V, f, Upto(k)) /\ ListsAll(seqs[k + 1], V, f, next)
      BY <2>5, <3>1
    <3>3. g[k + 1] = g[k] \o seqs[k + 1]
      <4> HIDE DEF k
      <4> QED BY <2>3, <3>1
    <3>4. Upto(k) \cap next = {} /\ Upto(k + 1) = Upto(k) \cup next
      <4> HIDE DEF k
      <4> QED BY <3>1
    <3> HIDE DEF k, next, Upto
    <3>5. ListsAll(g[k] \o seqs[k + 1], V, f, Upto(k) \cup next)
      BY <3>2, <3>4, ListsBoth
    <3>6. ListsAll(g[k + 1], V, f, Upto(k + 1))
      BY <3>3, <3>4, <3>5
    <3> QED BY <3>6 DEF k
  <2>6. Nat \subseteq G
    <3> HIDE DEF G
    <3> QED BY <2>4, <2>5, NatSetInduction
  <2>7. n - 1 \in G /\ n - 1 \in Nat /\ (n - 1) + 1 = n
    <3> HIDE DEF G
    <3> QED BY <1>3, <2>6
  <2>8. ListsAll(g[n], V, f, Upto(n))
    <3> HIDE DEF Upto
    <3>1. (n - 1) + 1 <= n
      BY <2>7
    <3>2. ListsAll(g[(n - 1) + 1], V, f, Upto((n - 1) + 1))
      BY <2>7, <3>1
    <3> QED BY <2>7, <3>2
  <2>9. Upto(n) = S
    OBVIOUS
  <2> QED BY <2>1, <2>8, <2>9
<1> QED BY <1>2, <1>3

(***************************************************************************)
(* The rows of a tree are those of its known SKUs.                         *)
(***************************************************************************)
RowAt(tree, x) ==
  [key |-> KeyAt(tree, x), carbon |-> KgToGrams(ImpactAt(tree, x).kg),
   water |-> ImpactAt(tree, x).m3]
RowsAt(tree) == [x \in KnownSkus(tree) |-> RowAt(tree, x)]
RowValues(tree) == {RowAt(tree, x) : x \in KnownSkus(tree)}

(* The row of a SKU in a list of them. *)
SkuRow(p, r, z, sku) ==
  [key |-> <<p, r, z, sku.category>>, carbon |-> KgToGrams(sku.impact.kg),
   water |-> sku.impact.m3]

(* The rows of one list of SKUs. *)
LEMMA SkusListed ==
  ASSUME NEW V, NEW f, NEW S, NEW p, NEW r, NEW z, NEW skus, NEW n \in Nat,
         DOMAIN skus = 1 .. n,
         \A x \in S : /\ x[4] \in 1 .. n /\ skus[x[4]] # Nil /\ skus[x[4]].impact # Nil
                      /\ f[x] = SkuRow(p, r, z, skus[x[4]]) /\ f[x] \in V,
         \A x, y \in S : x[4] = y[4] => x = y,
         \A i \in 1 .. n : skus[i] # Nil /\ skus[i].impact # Nil => \E x \in S : x[4] = i
  PROVE  ListsAll(AppendSKUs(p, r, z, skus), V, f, S)
<1> DEFINE Unknown(i) == skus[i] = Nil \/ skus[i].impact = Nil
           Entry(i) == IF Unknown(i) THEN <<>> ELSE <<SkuRow(p, r, z, skus[i])>>
           seqs == [i \in 1 .. n |-> Entry(i)]
           part == [x \in S |-> x[4]]
           At(i) == {x \in S : part[x] = i}
<1>1. AppendSKUs(p, r, z, skus) = FlattenSeq(seqs)
  BY DEF AppendSKUs, SkuRow
<1>2. ASSUME NEW i \in 1 .. n PROVE ListsAll(seqs[i], V, f, At(i))
  <2>1. CASE Unknown(i)
    <3>1. At(i) = {} /\ seqs[i] = <<>>
      BY <2>1
    <3>2. ListsAll(<<>>, V, f, {})
      BY ListsNothing
    <3> HIDE DEF seqs, At
    <3> QED BY <3>1, <3>2
  <2>2. CASE ~ Unknown(i)
    <3>1. PICK x \in S : x[4] = i
      BY <2>2
    <3>2. At(i) = {x} /\ seqs[i] = <<f[x]>> /\ f[x] \in V
      BY <2>2, <3>1
    <3>3. ListsAll(<<f[x]>>, V, f, {x})
      BY <3>2, ListsOne
    <3> HIDE DEF seqs, At
    <3> QED BY <3>2, <3>3
  <2> QED BY <2>1, <2>2
<1>3. DOMAIN seqs = 1 .. n /\ seqs = [i \in 1 .. n |-> seqs[i]] /\ \A x \in S : part[x] \in 1 .. n
  OBVIOUS
<1> HIDE DEF seqs, part
<1>4. ListsAll(FlattenSeq(seqs), V, f, S)
  BY <1>2, <1>3, ListsParts
<1> QED BY <1>1, <1>4

(* What the types say of a tree. *)
LEMMA TreeParts ==
  ASSUME NEW tree, TreeTyped(tree), MaxChildren \in Nat
  PROVE  /\ Children(tree)
         /\ \A i \in DOMAIN tree : tree[i] # Nil =>
              /\ tree[i].total \in Int \cup {Nil} /\ Children(tree[i].regions)
              /\ \A j \in DOMAIN tree[i].regions : tree[i].regions[j] # Nil =>
                   /\ SkusTyped(tree[i].regions[j].skus)
                   /\ Children(tree[i].regions[j].zones)
                   /\ \A k \in DOMAIN tree[i].regions[j].zones :
                        tree[i].regions[j].zones[k] # Nil =>
                          SkusTyped(tree[i].regions[j].zones[k].skus)
<1>1. \A s, i : i \in DOMAIN s => s[i] \in ToSet(s)
  BY DEF ToSet
<1> QED BY <1>1 DEF TreeTyped, RegionTyped

(* The positions of children. *)
LEMMA ChildrenAt ==
  ASSUME NEW s, Children(s), MaxChildren \in Nat
  PROVE  /\ Len(s) \in Nat /\ DOMAIN s = 1 .. Len(s) /\ s = [i \in 1 .. Len(s) |-> s[i]]
         /\ DOMAIN s \subseteq 1 .. MaxChildren
<1> DEFINE X == ToSet(s)
<1>1. s \in Seq(X) /\ Len(s) <= MaxChildren
  BY DEF Children
<1> HIDE DEF X
<1> QED BY <1>1

(* The way to a known SKU is four positions. *)
LEMMA KnownIs ==
  ASSUME NEW tree, NEW i, NEW j, NEW k, NEW l
  PROVE  <<i, j, k, l>> \in KnownSkus(tree) <=>
           /\ i \in 1 .. MaxChildren /\ j \in 1 .. MaxChildren /\ l \in 1 .. MaxChildren
           /\ k \in {0} \cup 1 .. MaxChildren
           /\ Known(tree, <<i, j, k, l>>)
<1> DEFINE N == 1 .. MaxChildren
           M == {0} \cup N
<1>1. <<i, j, k, l>> \in N \X N \X M \X N <=> i \in N /\ j \in N /\ k \in M /\ l \in N
  <2> HIDE DEF N, M
  <2> QED OBVIOUS
<1> HIDE DEF N, M
<1>2. KnownSkus(tree) = {x \in N \X N \X M \X N : Known(tree, x)}
  BY DEF KnownSkus, N, M
<1>3. <<i, j, k, l>> \in KnownSkus(tree) <=> i \in N /\ j \in N /\ k \in M /\ l \in N /\ Known(tree, <<i, j, k, l>>)
  BY <1>1, <1>2
<1> QED BY <1>3 DEF N, M

(* Known SKUs are such ways. *)
LEMMA KnownTuple ==
  ASSUME NEW tree, NEW x \in KnownSkus(tree)
  PROVE  x = <<x[1], x[2], x[3], x[4]>> /\ x[3] \in {0} \cup 1 .. MaxChildren
         /\ x[4] \in 1 .. MaxChildren /\ Known(tree, x)
<1> DEFINE N == 1 .. MaxChildren
           M == {0} \cup N
<1>1. x \in N \X N \X M \X N /\ Known(tree, x)
  BY DEF KnownSkus
<1> HIDE DEF N, M
<1>2. x = <<x[1], x[2], x[3], x[4]>> /\ x[3] \in M /\ x[4] \in N
  BY <1>1
<1> QED BY <1>1, <1>2 DEF N, M

(* The known SKUs of a zone (of the region itself, for k = 0), of a region *)
(* and of a project.                                                       *)
InZone(tree, i, j, k) == {x \in KnownSkus(tree) : x[1] = i /\ x[2] = j /\ x[3] = k}
InRegion(tree, i, j) == {x \in KnownSkus(tree) : x[1] = i /\ x[2] = j}
InProject(tree, i) == {x \in KnownSkus(tree) : x[1] = i}

(* The SKUs of the k-th zone of a region, or, for k = 0, its own. *)
LEMMA ZoneListed ==
  ASSUME NEW tree, TreeTyped(tree), MaxChildren \in Nat,
         NEW i \in DOMAIN tree, tree[i] # Nil,
         NEW j \in DOMAIN tree[i].regions, tree[i].regions[j] # Nil,
         NEW k \in {0} \cup DOMAIN tree[i].regions[j].zones,
         k # 0 => tree[i].regions[j].zones[k] # Nil,
         NEW zone, k = 0 => zone = RegionalZone,
         k # 0 => zone = tree[i].regions[j].zones[k].zone
  PROVE  ListsAll(AppendSKUs(tree[i].id, tree[i].regions[j].region, zone,
                             SkusAt(tree, <<i, j, k, 0>>)),
                  RowValues(tree), RowsAt(tree), InZone(tree, i, j, k))
<1> DEFINE region == tree[i].regions[j]
           skus == SkusAt(tree, <<i, j, k, 0>>)
           S == {x \in KnownSkus(tree) : x[1] = i /\ x[2] = j /\ x[3] = k}
           f == RowsAt(tree)
<1>1. skus = IF k = 0 THEN region.skus ELSE region.zones[k].skus
  BY DEF SkusAt
<1>2. Children(skus) /\ Children(region.zones) /\ Children(tree) /\ Children(tree[i].regions)
  BY <1>1, TreeParts DEF SkusTyped
<1>3. PICK n \in Nat : n = Len(skus) /\ DOMAIN skus = 1 .. n /\ 1 .. n \subseteq 1 .. MaxChildren
  <2> HIDE DEF skus
  <2> QED BY <1>2, ChildrenAt
<1>4. /\ i \in 1 .. MaxChildren /\ j \in 1 .. MaxChildren /\ k \in {0} \cup 1 .. MaxChildren
  BY <1>2, ChildrenAt
<1>5. \A l : SkusAt(tree, <<i, j, k, l>>) = skus
  BY DEF SkusAt
<1>6. ASSUME NEW l
      PROVE  <<i, j, k, l>> \in KnownSkus(tree) <=>
               l \in 1 .. n /\ skus[l] # Nil /\ skus[l].impact # Nil
  <2> DEFINE x == <<i, j, k, l>>
  <2>1. x[1] = i /\ x[2] = j /\ x[3] = k /\ x[4] = l
    OBVIOUS
  <2>2. SkusAt(tree, x) = skus
    BY <1>5
  <2>3. x \in KnownSkus(tree) <=> l \in 1 .. MaxChildren /\ Known(tree, x)
    BY <1>4, KnownIs
  <2> HIDE DEF x, skus
  <2>4. Known(tree, x) <=> l \in 1 .. n /\ skus[l] # Nil /\ skus[l].impact # Nil
    BY <1>3, <2>1, <2>2 DEF Known
  <2> QED BY <1>3, <2>3, <2>4 DEF x
<1>7. ASSUME NEW x \in S
      PROVE  x = <<i, j, k, x[4]>> /\ x[4] \in 1 .. n /\ skus[x[4]] # Nil /\ skus[x[4]].impact # Nil
  <2>1. x = <<i, j, k, x[4]>>
    BY KnownTuple
  <2>2. <<i, j, k, x[4]>> \in KnownSkus(tree)
    BY <2>1
  <2> HIDE DEF skus, S
  <2> QED BY <1>6, <2>1, <2>2
<1>8. ASSUME NEW x \in S
      PROVE  f[x] = SkuRow(tree[i].id, region.region, zone, skus[x[4]]) /\ f[x] \in RowValues(tree)
  <2>1. f[x] = RowAt(tree, x) /\ f[x] \in RowValues(tree)
    BY DEF RowsAt, RowValues
  <2>2. x[1] = i /\ x[2] = j /\ x[3] = k /\ SkusAt(tree, x) = skus
    <3>1. SkusAt(tree, <<i, j, k, x[4]>>) = skus
      BY <1>5
    <3>2. x = <<i, j, k, x[4]>>
      BY <1>7
    <3> HIDE DEF skus
    <3> QED BY <3>1, <3>2
  <2> HIDE DEF skus, S, f
  <2>3. ImpactAt(tree, x) = skus[x[4]].impact
        /\ KeyAt(tree, x) = <<tree[i].id, region.region, zone, skus[x[4]].category>>
    BY <2>2 DEF ImpactAt, KeyAt
  <2> QED BY <2>1, <2>3 DEF RowAt, SkuRow
<1>9. ASSUME NEW l \in 1 .. n, skus[l] # Nil, skus[l].impact # Nil
      PROVE  \E x \in S : x[4] = l
  <2> DEFINE x == <<i, j, k, l>>
  <2>1. x \in KnownSkus(tree)
    <3> HIDE DEF skus
    <3> QED BY <1>6, <1>9
  <2>2. x[1] = i /\ x[2] = j /\ x[3] = k /\ x[4] = l
    OBVIOUS
  <2> HIDE DEF x
  <2> QED BY <2>1, <2>2
<1>10. \A x, y \in S : x[4] = y[4] => x = y
  <2> HIDE DEF S, skus
  <2> QED BY <1>7
<1> HIDE DEF S, skus, f, region
<1>11. ListsAll(AppendSKUs(tree[i].id, region.region, zone, skus), RowValues(tree), f, S)
  BY <1>3, <1>7, <1>8, <1>9, <1>10, SkusListed
<1> QED BY <1>11 DEF S, skus, f, region, InZone

(* The rows of a region are those of its own SKUs and of its zones. *)
LEMMA RegionListed ==
  ASSUME NEW tree, TreeTyped(tree), MaxChildren \in Nat,
         NEW i \in DOMAIN tree, tree[i] # Nil, NEW j \in DOMAIN tree[i].regions
  PROVE  ListsAll(RegionRows(tree[i].id, tree[i].regions[j]), RowValues(tree), RowsAt(tree),
                  InRegion(tree, i, j))
<1> DEFINE region == tree[i].regions[j]
           zones == region.zones
           V == RowValues(tree)
           f == RowsAt(tree)
           S == InRegion(tree, i, j)
           Part(k) == InZone(tree, i, j, k)
<1>1. CASE region = Nil
  <2>1. S = {}
    BY <1>1, KnownTuple DEF Known, InRegion
  <2>2. RegionRows(tree[i].id, region) = <<>>
    BY <1>1 DEF RegionRows
  <2> QED BY <2>1, <2>2, ListsNothing
<1>2. CASE region # Nil
  <2> DEFINE own == AppendSKUs(tree[i].id, region.region, RegionalZone, region.skus)
             seqs == [k \in DOMAIN zones |-> ZoneRows(tree[i].id, region.region, zones[k])]
             Zonal == {x \in S : x[3] # 0}
  <2>1. RegionRows(tree[i].id, region) = own \o FlattenSeq(seqs)
    BY <1>2 DEF RegionRows
  <2>2. ListsAll(own, V, f, Part(0))
    <3>1. SkusAt(tree, <<i, j, 0, 0>>) = region.skus
      BY DEF SkusAt
    <3> QED BY <1>2, <3>1, ZoneListed
  <2>3. ASSUME NEW k \in DOMAIN zones, k # 0 PROVE ListsAll(seqs[k], V, f, Part(k))
    <3>1. CASE zones[k] = Nil
      <4>1. Part(k) = {}
        BY <2>3, <3>1, KnownTuple DEF Known, InZone
      <4>2. seqs[k] = <<>>
        BY <3>1 DEF ZoneRows
      <4>3. ListsAll(<<>>, V, f, {})
        BY ListsNothing
      <4> HIDE DEF V, f, Part, seqs
      <4> QED BY <4>1, <4>2, <4>3
    <3>2. CASE zones[k] # Nil
      <4>1. SkusAt(tree, <<i, j, k, 0>>) = zones[k].skus
        BY <2>3 DEF SkusAt
      <4>2. seqs[k] = AppendSKUs(tree[i].id, region.region, zones[k].zone, zones[k].skus)
        BY <3>2 DEF ZoneRows
      <4> DEFINE zone == zones[k].zone
      <4>3. /\ k \in {0} \cup DOMAIN tree[i].regions[j].zones
            /\ (k # 0 => tree[i].regions[j].zones[k] # Nil) /\ tree[i].regions[j] # Nil
            /\ (k = 0 => zone = RegionalZone) /\ (k # 0 => zone = tree[i].regions[j].zones[k].zone)
        BY <1>2, <2>3, <3>2
      <4> HIDE DEF zone
      <4>4. ListsAll(AppendSKUs(tree[i].id, region.region, zone, SkusAt(tree, <<i, j, k, 0>>)),
                     V, f, Part(k))
        <5> HIDE DEF seqs
        <5> QED BY <4>3, ZoneListed
      <4> HIDE DEF seqs, region, V, f, Part
      <4> QED BY <4>1, <4>2, <4>4 DEF zone
    <3> QED BY <3>1, <3>2
  <2>4. PICK n \in Nat : DOMAIN zones = 1 .. n
    <3>1. Children(zones)
      BY <1>2, TreeParts
    <3> HIDE DEF zones
    <3> QED BY <3>1, ChildrenAt
  <2>5. ListsAll(FlattenSeq(seqs), V, f, Zonal)
    <3> DEFINE part == [x \in Zonal |-> x[3]]
               At(k) == {x \in Zonal : part[x] = k}
    <3>1. ASSUME NEW x \in Zonal PROVE x[3] \in DOMAIN zones
      BY KnownTuple DEF Known, InRegion
    <3>2. \A x \in Zonal : part[x] \in 1 .. n
      BY <2>4, <3>1
    <3>3. ASSUME NEW k \in 1 .. n PROVE At(k) = Part(k) /\ k # 0 /\ k \in DOMAIN zones
      BY <2>4 DEF InRegion, InZone
    <3>4. DOMAIN seqs = 1 .. n /\ seqs = [k \in 1 .. n |-> seqs[k]]
      BY <2>4
    <3> HIDE DEF seqs, V, f, Part, zones
    <3>5. \A k \in 1 .. n : ListsAll(seqs[k], V, f, At(k))
      BY <2>3, <3>3
    <3> HIDE DEF part, Zonal
    <3> QED BY <3>2, <3>4, <3>5, ListsParts
  <2>6. Part(0) \cap Zonal = {} /\ Part(0) \cup Zonal = S
    BY DEF InRegion, InZone
  <2> HIDE DEF own, seqs, V, f, S, Part, Zonal
  <2>7. ListsAll(own \o FlattenSeq(seqs), V, f, Part(0) \cup Zonal)
    BY <2>2, <2>5, <2>6, ListsBoth
  <2>8. ListsAll(RegionRows(tree[i].id, region), V, f, S)
    BY <2>1, <2>6, <2>7
  <2> QED BY <2>8 DEF V, f, S
<1> QED BY <1>1, <1>2

(* The rows of the regions of a project are those of its SKUs. *)
LEMMA ProjectListed ==
  ASSUME NEW tree, TreeTyped(tree), MaxChildren \in Nat, NEW i \in DOMAIN tree
  PROVE  ListsAll(ProjectRows(tree[i]), RowValues(tree), RowsAt(tree),
                  InProject(tree, i))
<1> DEFINE project == tree[i]
           V == RowValues(tree)
           f == RowsAt(tree)
           S == InProject(tree, i)
           Part(j) == InRegion(tree, i, j)
<1>1. CASE project = Nil
  <2>1. S = {}
    BY <1>1, KnownTuple DEF Known, InProject
  <2>2. ProjectRows(project) = <<>>
    BY <1>1 DEF ProjectRows
  <2> QED BY <2>1, <2>2, ListsNothing
<1>2. CASE project # Nil
  <2> DEFINE seqs == [j \in DOMAIN project.regions |-> RegionRows(project.id, project.regions[j])]
             part == [x \in S |-> x[2]]
             At(j) == {x \in S : part[x] = j}
  <2>1. ProjectRows(project) = FlattenSeq(seqs)
    BY <1>2 DEF ProjectRows
  <2>2. PICK n \in Nat : DOMAIN project.regions = 1 .. n
    <3>1. Children(project.regions)
      BY <1>2, TreeParts
    <3> HIDE DEF project
    <3> QED BY <3>1, ChildrenAt
  <2>3. ASSUME NEW j \in 1 .. n PROVE ListsAll(seqs[j], V, f, Part(j))
    <3>1. seqs[j] = RegionRows(tree[i].id, tree[i].regions[j]) /\ j \in DOMAIN tree[i].regions
      BY <2>2
    <3>2. ListsAll(RegionRows(tree[i].id, tree[i].regions[j]), V, f, Part(j))
      BY <1>2, <3>1, RegionListed
    <3> HIDE DEF seqs, V, f, Part
    <3> QED BY <3>1, <3>2
  <2>4. \A x \in S : part[x] \in 1 .. n
    BY <2>2, KnownTuple DEF Known, InProject
  <2>5. \A j : At(j) = Part(j)
    BY DEF InProject, InRegion
  <2>6. DOMAIN seqs = 1 .. n /\ seqs = [j \in 1 .. n |-> seqs[j]]
    BY <2>2
  <2> HIDE DEF seqs, V, f, Part, S
  <2>7. \A j \in 1 .. n : ListsAll(seqs[j], V, f, At(j))
    BY <2>3, <2>5
  <2> HIDE DEF part
  <2>8. ListsAll(FlattenSeq(seqs), V, f, S)
    BY <2>4, <2>6, <2>7, ListsParts
  <2> QED BY <2>1, <2>8 DEF V, f, S
<1> QED BY <1>1, <1>2

(* The rows of a report are those of all known SKUs, each once. *)
LEMMA RowsListed ==
  ASSUME NEW tree, TreeTyped(tree), MaxChildren \in Nat
  PROVE  ListsAll(Rows(tree), RowValues(tree), RowsAt(tree), KnownSkus(tree))
<1> DEFINE V == RowValues(tree)
           f == RowsAt(tree)
           S == KnownSkus(tree)
           seqs == [i \in DOMAIN tree |-> ProjectRows(tree[i])]
           part == [x \in S |-> x[1]]
           At(i) == {x \in S : part[x] = i}
           Part(i) == InProject(tree, i)
<1>1. PICK n \in Nat : DOMAIN tree = 1 .. n
  BY TreeParts, ChildrenAt
<1>2. ASSUME NEW i \in 1 .. n PROVE ListsAll(seqs[i], V, f, Part(i))
  BY <1>1, ProjectListed
<1>3. \A x \in S : part[x] \in 1 .. n
  BY <1>1, KnownTuple DEF Known
<1>4. \A i : At(i) = Part(i)
  BY DEF InProject
<1>5. DOMAIN seqs = 1 .. n /\ seqs = [i \in 1 .. n |-> seqs[i]] /\ Rows(tree) = FlattenSeq(seqs)
  BY <1>1 DEF Rows
<1> HIDE DEF seqs, V, f, Part, S
<1>6. \A i \in 1 .. n : ListsAll(seqs[i], V, f, At(i))
  BY <1>2, <1>4
<1> HIDE DEF part
<1>7. ListsAll(FlattenSeq(seqs), V, f, S)
  BY <1>3, <1>5, <1>6, ListsParts
<1> QED BY <1>5, <1>7 DEF V, f, S

(* What is listed is finite, and the values of the list are those listed. *)
LEMMA ListedFinite ==
  ASSUME NEW V, NEW f, NEW S, NEW seq, ListsAll(seq, V, f, S)
  PROVE  /\ IsFiniteSet(S)
         /\ \A n \in DOMAIN seq : \E x \in S : seq[n] = f[x]
         /\ \A x \in S : \E n \in DOMAIN seq : seq[n] = f[x]
<1>1. PICK b \in [S -> 1 .. Len(seq)] :
        /\ \A x, y \in S : b[x] = b[y] => x = y
        /\ \A n \in 1 .. Len(seq) : \E x \in S : b[x] = n
        /\ \A x \in S : seq[b[x]] = f[x]
  BY DEF ListsAll
<1>2. Len(seq) \in Nat /\ DOMAIN seq = 1 .. Len(seq)
  BY DEF ListsAll
<1>3. b \in Injection(S, 1 .. Len(seq)) /\ IsFiniteSet(1 .. Len(seq))
  BY <1>1, <1>2, FS_Interval DEF Injection, IsInjective
<1>4. IsFiniteSet(S)
  BY <1>3, FS_Injection
<1> QED BY <1>1, <1>2, <1>4

(* The sum over some rows of a list is that over what they list. *)
LEMMA ListedSum ==
  ASSUME NEW V, NEW f, NEW S, NEW rows, ListsAll(rows, V, f, S),
         NEW field, \A x \in S : f[x][field] \in Int,
         NEW some \in SUBSET DOMAIN rows, NEW T \in SUBSET S,
         \A i \in DOMAIN rows, x \in S : rows[i] = f[x] => (i \in some <=> x \in T)
  PROVE  SumOf(rows, some, field) = SumFunctionOnSet([x \in T |-> f[x][field]], T)
<1>1. PICK b \in [S -> 1 .. Len(rows)] :
        /\ \A x, y \in S : b[x] = b[y] => x = y
        /\ \A n \in 1 .. Len(rows) : \E x \in S : b[x] = n
        /\ \A x \in S : rows[b[x]] = f[x]
  BY DEF ListsAll
<1>2. Len(rows) \in Nat /\ DOMAIN rows = 1 .. Len(rows)
  BY DEF ListsAll
<1>3. IsFiniteSet(T) /\ IsFiniteSet(some)
  <2>1. IsFiniteSet(S) /\ IsFiniteSet(1 .. Len(rows))
    BY <1>2, ListedFinite, FS_Interval
  <2> QED BY <1>2, <2>1, FS_Subset
<1>4. some = {b[x] : x \in T}
  <2>1. ASSUME NEW i \in some PROVE i \in {b[x] : x \in T}
    BY <1>1, <1>2
  <2>2. ASSUME NEW x \in T PROVE b[x] \in some
    BY <1>1, <1>2
  <2> QED BY <2>1, <2>2
<1> DEFINE g == [i \in some |-> rows[i][field]]
           h == [x \in T |-> f[x][field]]
<1>5. \A i \in some : g[i] \in Int
  <2>1. \A i \in some : \E x \in S : rows[i] = f[x]
    BY ListedFinite
  <2> QED BY <2>1
<1>6. \A x \in T : h[x] = g[b[x]]
  <2> SUFFICES ASSUME NEW x \in T PROVE h[x] = g[b[x]]
    OBVIOUS
  <2>1. b[x] \in some /\ rows[b[x]] = f[x]
    BY <1>1, <1>4
  <2> QED BY <2>1
<1>7. \A x, y \in T : b[x] = b[y] => x = y
  BY <1>1
<1>8. SumOf(rows, some, field) = SumFunctionOnSet(g, some)
  BY DEF SumOf, SumFunction
<1> HIDE DEF g, h
<1>9. SumFunctionOnSet(h, T) = SumFunctionOnSet(g, some)
  <2> DEFINE A == T B == some
  <2>1. /\ IsFiniteSet(A) /\ (\A x, y \in A : b[x] = b[y] => x = y)
        /\ IsFiniteSet(B) /\ B = {b[x] : x \in A} /\ (\A t \in B : g[t] \in Int)
        /\ \A x \in A : h[x] = g[b[x]]
    BY <1>3, <1>4, <1>5, <1>6, <1>7
  <2> HIDE DEF A, B
  <2>2. SumFunctionOnSet(h, A) = SumFunctionOnSet(g, B)
    BY <2>1, SumReindex
  <2> QED BY <2>2 DEF A, B
<1> QED BY <1>8, <1>9 DEF h

(***************************************************************************)
(* Aggregation: the sums of rows are those of SKUs.                        *)
(***************************************************************************)
(* The impact of a known SKU is made of numbers. *)
LEMMA KnownImpact ==
  ASSUME NEW tree, TreeTyped(tree), MaxChildren \in Nat, NEW x \in KnownSkus(tree)
  PROVE  ImpactAt(tree, x).kg \in Int /\ ImpactAt(tree, x).m3 \in Int
<1> DEFINE skus == SkusAt(tree, x)
<1>1. Known(tree, x)
  BY KnownTuple
<1>2. SkusTyped(skus)
  BY <1>1, TreeParts DEF Known, SkusAt
<1>3. x[4] \in DOMAIN skus /\ skus[x[4]] # Nil /\ skus[x[4]].impact # Nil
  BY <1>1 DEF Known
<1> HIDE DEF skus
<1>4. skus[x[4]] \in ToSet(skus) \ {Nil}
  BY <1>3 DEF ToSet
<1>5. skus[x[4]].impact.kg \in Int /\ skus[x[4]].impact.m3 \in Int
  BY <1>2, <1>3, <1>4 DEF SkusTyped
<1> QED BY <1>5 DEF ImpactAt, skus

(* The sums of some rows are the amounts of their SKUs. *)
LEMMA TreeSums ==
  ASSUME NEW tree, TreeTyped(tree), MaxChildren \in Nat,
         NEW some \in SUBSET DOMAIN Rows(tree), NEW T \in SUBSET KnownSkus(tree),
         \A i \in DOMAIN Rows(tree), x \in KnownSkus(tree) :
           Rows(tree)[i] = RowAt(tree, x) => (i \in some <=> x \in T)
  PROVE  /\ SumOf(Rows(tree), some, "carbon") = GramsOf(tree, T) /\ GramsOf(tree, T) \in Int
         /\ SumOf(Rows(tree), some, "water") = WaterOf(tree, T)
<1> DEFINE rows == Rows(tree)
           S == KnownSkus(tree)
           f == RowsAt(tree)
           V == RowValues(tree)
           kg == [x \in T |-> ImpactAt(tree, x).kg]
           m3 == [x \in T |-> ImpactAt(tree, x).m3]
           carbon == [x \in T |-> f[x]["carbon"]]
           water == [x \in T |-> f[x]["water"]]
<1>1. ListsAll(rows, V, f, S)
  BY RowsListed
<1>2. ASSUME NEW x \in S
      PROVE  /\ f[x] = RowAt(tree, x)
             /\ f[x]["carbon"] = 1000 * ImpactAt(tree, x).kg /\ f[x]["water"] = ImpactAt(tree, x).m3
             /\ ImpactAt(tree, x).kg \in Int /\ ImpactAt(tree, x).m3 \in Int
             /\ f[x]["carbon"] \in Int /\ f[x]["water"] \in Int
  <2>1. f[x] = RowAt(tree, x)
    BY DEF RowsAt
  <2>2. ImpactAt(tree, x).kg \in Int /\ ImpactAt(tree, x).m3 \in Int
    BY KnownImpact
  <2> HIDE DEF f
  <2> QED BY <2>1, <2>2 DEF RowAt, KgToGrams
<1>3. /\ \A x \in T : kg[x] \in Int /\ carbon[x] = 1000 * kg[x]
      /\ \A x \in T : m3[x] \in Int /\ water[x] = m3[x]
  BY <1>2
<1>4. IsFiniteSet(T)
  <2> HIDE DEF rows, S, f, V
  <2>1. IsFiniteSet(S)
    BY <1>1, ListedFinite
  <2> QED BY <2>1, FS_Subset DEF S
<1>5. \A i \in DOMAIN rows, x \in S : rows[i] = f[x] => (i \in some <=> x \in T)
  BY <1>2
<1>6. GramsOf(tree, T) = 1000 * SumFunctionOnSet(kg, T) /\ WaterOf(tree, T) = SumFunctionOnSet(m3, T)
  BY DEF GramsOf, WaterOf, SumFunction
<1>7. some \in SUBSET DOMAIN rows /\ T \in SUBSET S
  OBVIOUS
<1> HIDE DEF rows, S, f, V
<1>8. SumOf(rows, some, "carbon") = SumFunctionOnSet(carbon, T)
  BY <1>1, <1>2, <1>5, <1>7, ListedSum
<1>9. SumOf(rows, some, "water") = SumFunctionOnSet(water, T)
  BY <1>1, <1>2, <1>5, <1>7, ListedSum
<1> HIDE DEF kg, m3, carbon, water
<1>10. SumFunctionOnSet(kg, T) \in Int
  BY <1>3, <1>4, SumOverSet
<1>11. SumFunctionOnSet(carbon, T) = 1000 * SumFunctionOnSet(kg, T)
  BY <1>3, <1>4, SumScaled
<1>12. SumFunctionOnSet(water, T) = SumFunctionOnSet(m3, T)
  BY <1>3, <1>4, SumAgree
<1> QED BY <1>6, <1>8, <1>9, <1>10, <1>11, <1>12 DEF rows

(* The series of a tree are those of its SKUs. *)
LEMMA AggregateIs ==
  ASSUME NEW tree, TreeTyped(tree), MaxChildren \in Nat
  PROVE  Aggregate(Rows(tree)) = SeriesOf(tree)
<1> DEFINE rows == Rows(tree)
           S == KnownSkus(tree)
           some(k) == {i \in DOMAIN rows : rows[i].key = k}
           same(k) == {x \in S : KeyAt(tree, x) = k}
           K == {KeyAt(tree, x) : x \in S}
<1>1. ListsAll(rows, RowValues(tree), RowsAt(tree), S)
  BY RowsListed
<1>2. \A x \in S : RowsAt(tree)[x] = RowAt(tree, x) /\ RowAt(tree, x).key = KeyAt(tree, x)
  BY DEF RowsAt, RowAt
<1>3. {rows[i].key : i \in DOMAIN rows} = K
  <2> HIDE DEF rows, S
  <2>1. /\ \A i \in DOMAIN rows : \E x \in S : rows[i] = RowsAt(tree)[x]
        /\ \A x \in S : \E i \in DOMAIN rows : rows[i] = RowsAt(tree)[x]
    BY <1>1, ListedFinite
  <2>2. \A i \in DOMAIN rows : \E x \in S : rows[i].key = KeyAt(tree, x)
    BY <1>2, <2>1
  <2>3. \A x \in S : \E i \in DOMAIN rows : rows[i].key = KeyAt(tree, x)
    BY <1>2, <2>1
  <2> QED BY <2>2, <2>3
<1>4. ASSUME NEW k
      PROVE  /\ SumOf(rows, some(k), "carbon") = GramsOf(tree, same(k))
             /\ SumOf(rows, some(k), "water") = WaterOf(tree, same(k))
  <2>1. \A i \in DOMAIN rows, x \in S : rows[i] = RowAt(tree, x) => (i \in some(k) <=> x \in same(k))
    BY <1>2
  <2>2. some(k) \in SUBSET DOMAIN rows /\ same(k) \in SUBSET S
    OBVIOUS
  <2> HIDE DEF some, same
  <2> QED BY <2>1, <2>2, TreeSums
<1>5. Aggregate(rows) = [k \in {rows[i].key : i \in DOMAIN rows} |->
                           [carbon |-> SumOf(rows, some(k), "carbon"),
                            water |-> SumOf(rows, some(k), "water")]]
  BY DEF Aggregate
<1>6. SeriesOf(tree) = [k \in K |-> [carbon |-> GramsOf(tree, same(k)),
                                     water |-> WaterOf(tree, same(k))]]
  BY DEF SeriesOf
<1> HIDE DEF rows, S, some, same, K
<1>7. Aggregate(rows) = SeriesOf(tree)
  BY <1>3, <1>4, <1>5, <1>6
<1> QED BY <1>7 DEF rows

(***************************************************************************)
(* The check of the totals.                                                *)
(***************************************************************************)

(* The greatest element of a set is its maximum. *)
LEMMA MaxIs ==
  ASSUME NEW S \in SUBSET Int, NEW m \in S, \A y \in S : m >= y
  PROVE  Max(S) = m
<1>1. \A x \in S : x >= m => x = m
  OBVIOUS
<1> QED BY <1>1 DEF Max

(* The total of a project is a number. *)
LEMMA TotalType ==
  ASSUME NEW tree, TreeTyped(tree), MaxChildren \in Nat, Nil \notin Int,
         NEW p \in DOMAIN ProjectCarbonGrams(tree)
  PROVE  ProjectCarbonGrams(tree)[p] \in Int
<1> DEFINE totals == {i \in DOMAIN tree : tree[i] # Nil /\ tree[i].total # Nil}
           own(id) == {i \in totals : tree[i].id = id}
           Grams(id) == KgToGrams(tree[Max(own(id))].total)
<1>1. ProjectCarbonGrams(tree) = [id \in {tree[i].id : i \in totals} |-> Grams(id)]
  BY DEF ProjectCarbonGrams
<1>2. own(p) # {} /\ ProjectCarbonGrams(tree)[p] = Grams(p)
  <2> HIDE DEF Grams
  <2> QED BY <1>1
<1>3. PICK n \in Nat : DOMAIN tree = 1 .. n
  BY TreeParts, ChildrenAt
<1>4. own(p) \in SUBSET (0 .. n) /\ own(p) \in SUBSET Int
  BY <1>3
<1>5. PICK m \in own(p) : \A y \in own(p) : m >= y
  <2> HIDE DEF own
  <2> QED BY <1>2, <1>4, BoundedSetHasGreatest
<1>6. Max(own(p)) = m
  <2> HIDE DEF own
  <2> QED BY <1>4, <1>5, MaxIs
<1>7. m \in DOMAIN tree /\ tree[m] # Nil /\ tree[m].total # Nil
  BY <1>5
<1>8. tree[m].total \in Int
  BY <1>7, TreeParts
<1> QED BY <1>2, <1>6, <1>8 DEF KgToGrams

(* The tolerance of checkTotals is at most a fiftieth part of the sum. *)
LEMMA Tolerance ==
  ASSUME NEW s \in Int, NEW t \in Int
  PROVE  LET size == Max({t, - t, 1})
         IN  /\ s = t => 100 * (s - t) \in - size .. size
             /\ Size(s) \div 50 < Size(s - t) => 100 * (s - t) \notin - size .. size
<1> DEFINE Abs(n) == IF n < 0 THEN - n ELSE n
           size == Max({t, - t, 1})
<1>1. ASSUME NEW n \in Int PROVE Size(n) = Abs(n)
  <2> DEFINE S == {n, - n}
  <2>1. S \in SUBSET Int /\ Abs(n) \in S /\ \A y \in S : Abs(n) >= y
    OBVIOUS
  <2> HIDE DEF S, Abs
  <2>2. Max(S) = Abs(n)
    BY <2>1, MaxIs
  <2> QED BY <2>2 DEF Size, S
<1>2. size = IF Abs(t) < 1 THEN 1 ELSE Abs(t)
  <2> DEFINE S == {t, - t, 1}
             m == IF Abs(t) < 1 THEN 1 ELSE Abs(t)
  <2>1. S \in SUBSET Int /\ m \in S /\ \A y \in S : m >= y
    OBVIOUS
  <2> HIDE DEF S, m
  <2>2. Max(S) = m
    BY <2>1, MaxIs
  <2> QED BY <2>2 DEF S, m
<1>3. Size(s) = Abs(s) /\ Size(s - t) = Abs(s - t)
  BY <1>1
<1>4. size \in Nat /\ size >= 1
  BY <1>2
<1>5. ASSUME Abs(s) \div 50 < Abs(s - t) PROVE 100 * (s - t) \notin - size .. size
  <2> DEFINE e == Abs(s - t)
  <2>1. e \in Nat /\ e >= 1 /\ Abs(s) < 50 * e
    <3>1. Abs(s) \in Nat /\ e \in Nat
      OBVIOUS
    <3> DEFINE a == Abs(s)
    <3>2. a \in Nat /\ a \div 50 < e /\ e \in Nat
      BY <1>5, <3>1
    <3> HIDE DEF a, e
    <3>3. e >= 1 /\ a < 50 * e
      BY <3>2
    <3> QED BY <3>2, <3>3 DEF a
  <2>2. Abs(t) <= Abs(s) + e
    OBVIOUS
  <2>3. size < 100 * e
    <3> HIDE DEF e, size
    <3> QED BY <1>2, <2>1, <2>2
  <2> HIDE DEF size
  <2> QED BY <1>4, <2>3
<1>6. s = t => 100 * (s - t) = 0
  OBVIOUS
<1> HIDE DEF size
<1>7. s = t => 100 * (s - t) \in - size .. size
  BY <1>4, <1>6
<1> HIDE DEF Abs
<1> QED BY <1>3, <1>5, <1>7 DEF size

(* What is logged for a tree. *)
LEMMA MismatchedIs ==
  ASSUME NEW tree, TreeTyped(tree), MaxChildren \in Nat, Nil \notin Int,
         NEW p \in DOMAIN ProjectCarbonGrams(tree)
  PROVE  LET sum == GramsOf(tree, {x \in KnownSkus(tree) : KeyAt(tree, x)[1] = p})
             total == ProjectCarbonGrams(tree)[p]
             logged == Mismatched(Rows(tree), ProjectCarbonGrams(tree))
         IN  /\ sum = total => p \notin logged
             /\ Size(sum) \div 50 < Size(sum - total) => p \in logged
<1> DEFINE rows == Rows(tree)
           totals == ProjectCarbonGrams(tree)
           own == {x \in KnownSkus(tree) : KeyAt(tree, x)[1] = p}
           some == {i \in DOMAIN rows : rows[i].key[1] = p}
           sum == GramsOf(tree, own)
           total == totals[p]
           size == Max({total, - total, 1})
<1>1. SumOf(rows, some, "carbon") = sum /\ sum \in Int
  <2>1. \A i \in DOMAIN rows, x \in KnownSkus(tree) :
          rows[i] = RowAt(tree, x) => (i \in some <=> x \in own)
    BY DEF RowAt
  <2>2. some \in SUBSET DOMAIN rows /\ own \in SUBSET KnownSkus(tree)
    OBVIOUS
  <2> HIDE DEF some, own
  <2> QED BY <2>1, <2>2, TreeSums
<1>2. total \in Int
  BY TotalType
<1>3. p \in Mismatched(rows, totals) <=> 100 * (sum - total) \notin - size .. size
  <2>1. p \in Mismatched(rows, totals) <=>
          100 * (SumOf(rows, some, "carbon") - total) \notin - size .. size
    BY DEF Mismatched
  <2> HIDE DEF rows, totals, some, sum, size
  <2> QED BY <1>1, <2>1
<1> HIDE DEF sum, total
<1>4. /\ sum = total => 100 * (sum - total) \in - size .. size
      /\ Size(sum) \div 50 < Size(sum - total) => 100 * (sum - total) \notin - size .. size
  BY <1>1, <1>2, Tolerance
<1> HIDE DEF rows, totals, size
<1>5. /\ sum = total => p \notin Mismatched(rows, totals)
      /\ Size(sum) \div 50 < Size(sum - total) => p \in Mismatched(rows, totals)
  BY <1>3, <1>4
<1> QED BY <1>5 DEF sum, total, rows, totals

(***************************************************************************)
(* The inductive invariant: the windows filled are those replied to, in    *)
(* order.                                                                  *)
(***************************************************************************)
(* The window the i-th reply filled. *)
Filled(i) == IF i + Unanswered > Len(months) THEN day ELSE months[i + Unanswered]

RepliesInv ==
  \A i \in DOMAIN replies :
    /\ Filled(i).series = Aggregate(Rows(replies[i].projects))
    /\ warned[i] = Mismatched(Rows(replies[i].projects), ProjectCarbonGrams(replies[i].projects))

(* A reply fills the next window, and leaves the others as they are. *)
LEMMA ReplyFills ==
  ASSUME TypeOK, RepliesInv, NEW k \in Nat, k = Len(months), NEW n \in Nat, n = Len(replies), n <= k,
         NEW w, NEW reply, Record(w, reply), reply \in Replies,
         Unanswered = k - n, Unanswered' = k - n, NEW filled,
         filled.series = Aggregate(Rows(reply.projects)), Filled(n + 1)' = filled,
         \A i \in 1 .. n : Filled(i)' = Filled(i)
  PROVE  RepliesInv'
<1> DEFINE logged == Mismatched(Rows(reply.projects), ProjectCarbonGrams(reply.projects))
           X == SUBSET ProjectIds
<1>1. replies' = Append(replies, reply) /\ warned' = Append(warned, logged)
  BY DEF Record
<1>2. replies \in Seq(Replies) /\ warned \in Seq(X) /\ Len(warned) = n
  BY DEF TypeOK
<1>3. logged \in X
  <2>1. reply.projects \in Trees
    BY DEF Replies
  <2> QED BY <2>1 DEF Mismatched, ProjectIds
<1> HIDE DEF logged, X
<1>4. /\ Len(replies') = n + 1 /\ DOMAIN replies' = 1 .. n + 1 /\ DOMAIN replies = 1 .. n
      /\ replies'[n + 1] = reply /\ \A i \in 1 .. n : replies'[i] = replies[i]
  BY <1>1, <1>2
<1>5. warned'[n + 1] = logged /\ \A i \in 1 .. n : warned'[i] = warned[i]
  BY <1>1, <1>2, <1>3
<1>6. ASSUME NEW i \in 1 .. n + 1
      PROVE  /\ Filled(i)'.series = Aggregate(Rows(replies'[i].projects))
             /\ warned'[i] = Mismatched(Rows(replies'[i].projects), ProjectCarbonGrams(replies'[i].projects))
  <2>1. CASE i = n + 1
    BY <1>4, <1>5, <2>1 DEF logged
  <2>2. CASE i # n + 1
    <3>1. i \in 1 .. n
      BY <2>2
    <3> QED BY <1>4, <1>5, <3>1 DEF RepliesInv
  <2> QED BY <2>1, <2>2
<1> QED BY <1>4, <1>6 DEF RepliesInv

(* How many months are without a reply, while Fetch runs. *)
LEMMA RepliesBehind ==
  ASSUME FetchInv, AskedInv, pc \in {"months", "day"},
         NEW k \in Nat, NEW n \in Nat, k = Len(months), n = Len(replies)
  PROVE  n <= k /\ Unanswered = k - n
<1>1. Len(replies) = Len(queries)
  BY DEF FetchInv, TypeOK
<1>2. Skipped(today) \in {0, 1}
  BY DEF Skipped
<1>3. n = (IF k = 0 THEN 0 ELSE k - Skipped(today))
  BY <1>1 DEF AskedInv
<1> QED BY <1>2, <1>3 DEF Unanswered

(* Nothing was replied. *)
LEMMA RepliesInit == Init => RepliesInv
BY DEF Init, RepliesInv

(* Every step of Fetch fills the window it asked about. *)
LEMMA RepliesStep == FetchInv /\ AskedInv /\ RepliesInv /\ [Next]_vars => RepliesInv'
<1> SUFFICES ASSUME FetchInv, AskedInv, RepliesInv, [Next]_vars PROVE RepliesInv'
  OBVIOUS
<1>1. /\ TypeOK /\ months \in Seq(Windows) /\ today \in Days /\ Lookback \in Nat
      /\ replies \in Seq(Replies) /\ Len(replies) = Len(queries)
  BY FootprintAssumption DEF FetchInv, TypeOK
<1>2. PICK k \in Nat, n \in Nat : k = Len(months) /\ n = Len(replies) /\ DOMAIN replies = 1 .. n
  BY <1>1
<1>3. pc \in {"months", "day"} => n <= k /\ Unanswered = k - n
  BY <1>2, RepliesBehind
<1>4. CASE StartFetch \/ CallFails
  <2>1. replies' = <<>>
    BY <1>4 DEF StartFetch, CallFails
  <2> QED BY <2>1 DEF RepliesInv
<1>5. CASE SkipMonth
  <2>1. pc = "months" /\ NextWindow.end <= NextWindow.start /\ replies' = replies
    BY <1>5 DEF SkipMonth
  <2>2. n = 0
    BY <1>1, <1>2, <2>1, NextMonth
  <2> QED BY <1>2, <2>1, <2>2 DEF RepliesInv
<1>6. CASE MonthReturns
  <2>1. PICK reply \in Replies :
          AppendMonth(Fill(NextWindow, reply)) /\ Record(NextWindow, reply)
    BY <1>6 DEF MonthReturns
  <2> DEFINE filled == Fill(NextWindow, reply)
  <2>2. pc = "months" /\ pc' \in {"months", "day"}
    BY <1>6, <2>1 DEF MonthReturns, AppendMonth
  <2>3. filled \in Windows /\ filled.series = Aggregate(Rows(reply.projects))
        /\ reply.projects \in Trees
    <3>1. NextWindow \in Windows
      BY <1>1, <2>2, NextMonth, MonthWindowType DEF NextWindow
    <3>2. filled \in Windows
      BY <3>1, FillType
    <3> QED BY <3>2 DEF Fill, Replies
  <2>4. months' = Append(months, filled) /\ replies' = Append(replies, reply)
    BY <2>1 DEF AppendMonth, Record
  <2> HIDE DEF filled
  <2>5. /\ Len(months') = k + 1 /\ months'[k + 1] = filled
        /\ \A i \in 1 .. k : months'[i] = months[i]
    BY <1>1, <1>2, <2>3, <2>4
  <2>6. Len(replies') = n + 1
    BY <1>1, <1>2, <2>3, <2>4
  <2>7. Unanswered' = k - n
    BY <1>2, <2>2, <2>5, <2>6 DEF Unanswered
  <2>8. Filled(n + 1)' = filled
    BY <1>2, <1>3, <2>2, <2>5, <2>7 DEF Filled
  <2>9. ASSUME NEW i \in 1 .. n PROVE Filled(i)' = Filled(i)
    <3>1. i + (k - n) \in 1 .. k
      BY <1>3, <2>2
    <3>2. Filled(i) = months[i + (k - n)]
      BY <1>2, <1>3, <2>2, <3>1 DEF Filled
    <3>3. Filled(i)' = months'[i + (k - n)]
      BY <2>5, <2>7, <3>1 DEF Filled
    <3> QED BY <2>5, <3>1, <3>2, <3>3
  <2> QED BY <1>1, <1>2, <1>3, <2>1, <2>2, <2>3, <2>7, <2>8, <2>9, ReplyFills
<1>7. CASE DayReturns
  <2>1. PICK reply \in Replies :
          day' = Fill(DayWindow(today), reply) /\ Record(DayWindow(today), reply)
    BY <1>7 DEF DayReturns
  <2>2. pc = "day" /\ pc' = "returned" /\ months' = months
    BY <1>7 DEF DayReturns
  <2>3. day'.series = Aggregate(Rows(reply.projects)) /\ reply.projects \in Trees
    BY <2>1 DEF Fill, Replies
  <2>4. replies' = Append(replies, reply)
    BY <2>1 DEF Record
  <2>5. Len(replies') = n + 1
    BY <1>1, <1>2, <2>3, <2>4
  <2>6. Unanswered' = k - n
    BY <1>2, <2>2, <2>5 DEF Unanswered
  <2>7. Filled(n + 1)' = day'
    BY <1>2, <1>3, <2>2, <2>6 DEF Filled
  <2>8. ASSUME NEW i \in 1 .. n PROVE Filled(i)' = Filled(i)
    <3>1. i + (k - n) \in 1 .. k
      BY <1>3, <2>2
    <3> QED BY <1>2, <1>3, <2>2, <2>6, <3>1 DEF Filled
  <2> QED BY <1>1, <1>2, <1>3, <2>1, <2>2, <2>3, <2>6, <2>7, <2>8, ReplyFills
<1>8. ASSUME UNCHANGED <<pc, months, day, replies, warned>> PROVE RepliesInv'
  BY <1>8 DEF RepliesInv, Filled, Unanswered
<1> QED BY <1>4, <1>5, <1>6, <1>7, <1>8 DEF Next, DayEnds, vars

(* The series of every window are those of the SKUs of its reply, and what *)
(* misses the API's totals has been logged.                                *)
THEOREM SeriesFollowTreeHolds == Spec => []SeriesFollowTree
<1>1. FetchInv /\ RepliesInv => SeriesFollowTree
  <2> SUFFICES ASSUME FetchInv, RepliesInv PROVE SeriesFollowTree
    OBVIOUS
  <2> SUFFICES ASSUME NEW i \in DOMAIN replies
               PROVE  LET tree == replies[i].projects
                      IN  /\ Filled(i).series = SeriesOf(tree)
                          /\ \A p \in DOMAIN ProjectCarbonGrams(tree) :
                               LET sum == GramsOf(tree, {x \in KnownSkus(tree) : KeyAt(tree, x)[1] = p})
                                   total == ProjectCarbonGrams(tree)[p]
                               IN  /\ sum = total => p \notin warned[i]
                                   /\ Size(sum) \div 50 < Size(sum - total) => p \in warned[i]
    BY DEF SeriesFollowTree, Filled, Unanswered
  <2> DEFINE tree == replies[i].projects
  <2>1. tree \in Trees
    <3>1. replies[i] \in Replies
      BY DEF FetchInv, TypeOK
    <3> QED BY <3>1 DEF Replies
  <2>2. TreeTyped(tree) /\ MaxChildren \in Nat /\ Nil \notin Int
    BY <2>1, FootprintAssumption
  <2>3. Filled(i).series = Aggregate(Rows(tree))
        /\ warned[i] = Mismatched(Rows(tree), ProjectCarbonGrams(tree))
    BY DEF RepliesInv
  <2> HIDE DEF tree
  <2>4. Filled(i).series = SeriesOf(tree)
    BY <2>2, <2>3, AggregateIs
  <2>5. ASSUME NEW p \in DOMAIN ProjectCarbonGrams(tree)
        PROVE  LET sum == GramsOf(tree, {x \in KnownSkus(tree) : KeyAt(tree, x)[1] = p})
                   total == ProjectCarbonGrams(tree)[p]
               IN  /\ sum = total => p \notin warned[i]
                   /\ Size(sum) \div 50 < Size(sum - total) => p \in warned[i]
    BY <2>2, <2>3, <2>5, MismatchedIs
  <2> QED BY <2>4, <2>5 DEF tree
<1>2. Spec => []RepliesInv
  BY RepliesInit, RepliesStep, Invariance, AskedAlways, PTL DEF Spec
<1> QED BY <1>1, <1>2, Invariance, PTL

(***************************************************************************)
(* The inductive invariant: a month whose reply covers only what was asked *)
(* for, or that was skipped, is filled with days of that month.            *)
(***************************************************************************)
Vouched(i) == i > 0 => WithinAsked(queries[i], replies[i])
MonthsInv == \A j \in DOMAIN months : Vouched(j - Unanswered) => InMonth(months[j])

(* No month has been filled. *)
LEMMA MonthsInit == Init => MonthsInv
BY DEF Init, MonthsInv

(* Every step of Fetch keeps the months that were filled, and fills the    *)
(* next with days of that month unless the reply says otherwise.           *)
LEMMA MonthsStep == FetchInv /\ AskedInv /\ MonthsInv /\ [Next]_vars => MonthsInv'
<1> SUFFICES ASSUME FetchInv, AskedInv, MonthsInv, [Next]_vars PROVE MonthsInv'
  OBVIOUS
<1> DEFINE Ranges == [start : Int, end : Int]
<1>1. /\ months \in Seq(Windows) /\ today \in Days /\ replies \in Seq(Replies)
      /\ queries \in Seq(Ranges) /\ Len(replies) = Len(queries)
  BY FootprintAssumption DEF FetchInv, TypeOK
<1> HIDE DEF Ranges
<1>2. PICK k \in Nat, n \in Nat : k = Len(months) /\ n = Len(replies) /\ n = Len(queries)
  BY <1>1
<1>3. pc \in {"months", "day"} => n <= k /\ Unanswered = k - n
  BY <1>2, RepliesBehind
<1>4. ASSUME NEW w \in Windows, NEW reply \in Replies, Record(w, reply)
      PROVE  /\ Len(replies') = n + 1
             /\ queries'[n + 1] = Asked(w) /\ replies'[n + 1] = reply
             /\ \A i \in 1 .. n : queries'[i] = queries[i] /\ replies'[i] = replies[i]
  <2>1. Asked(w) \in Ranges
    BY DEF Asked, Windows, Ranges
  <2>2. queries' = Append(queries, Asked(w)) /\ replies' = Append(replies, reply)
    BY <1>4 DEF Record
  <2> QED BY <1>1, <1>2, <2>1, <2>2
<1>5. pc = "months" => NextWindow \in Windows /\ InMonth(NextWindow)
  <2> SUFFICES ASSUME pc = "months" PROVE NextWindow \in Windows /\ InMonth(NextWindow)
    OBVIOUS
  <2>1. Len(months) + 1 \in 1 .. Lookback + 1
    BY NextMonth
  <2> QED BY <1>1, <2>1, MonthWindowType DEF NextWindow
<1>6. CASE StartFetch \/ CallFails
  <2>1. months' = <<>>
    BY <1>6 DEF StartFetch, CallFails
  <2> QED BY <2>1 DEF MonthsInv
<1>7. CASE SkipMonth
  <2>1. pc = "months" /\ NextWindow.end <= NextWindow.start /\ AppendMonth(NextWindow)
    BY <1>7 DEF SkipMonth
  <2>2. k = 0
    BY <1>2, <2>1, NextMonth
  <2>3. DOMAIN months' = 1 .. 1 /\ months'[1] = NextWindow
    <3>1. NextWindow \in Windows /\ months' = Append(months, NextWindow)
      BY <1>5, <2>1 DEF AppendMonth
    <3>2. Len(months') = k + 1 /\ months'[k + 1] = NextWindow /\ months' \in Seq(Windows)
      BY <1>1, <1>2, <3>1
    <3> QED BY <2>2, <3>2
  <2> QED BY <1>5, <2>1, <2>3 DEF MonthsInv
<1>8. CASE MonthReturns
  <2>1. PICK reply \in Replies :
          AppendMonth(Fill(NextWindow, reply)) /\ Record(NextWindow, reply)
    BY <1>8 DEF MonthReturns
  <2> DEFINE filled == Fill(NextWindow, reply)
  <2>2. pc = "months" /\ n <= k /\ Unanswered = k - n
    BY <1>3, <1>8 DEF MonthReturns
  <2>3. /\ filled \in Windows
        /\ WithinAsked(Asked(NextWindow), reply) => InMonth(filled)
    BY <1>5, <2>2, FillType
  <2> HIDE DEF filled
  <2>4. /\ DOMAIN months' = 1 .. k + 1 /\ Len(months') = k + 1 /\ months'[k + 1] = filled
        /\ \A j \in 1 .. k : j \in DOMAIN months /\ months'[j] = months[j]
        /\ pc' \in {"months", "day"}
    <3>1. months' = Append(months, filled) /\ pc' \in {"months", "day"}
      BY <2>1 DEF AppendMonth, filled
    <3> QED BY <1>1, <1>2, <2>3, <3>1
  <2>5. /\ Len(replies') = n + 1
        /\ queries'[n + 1] = Asked(NextWindow) /\ replies'[n + 1] = reply
        /\ \A i \in 1 .. n : queries'[i] = queries[i] /\ replies'[i] = replies[i]
    BY <1>4, <1>5, <2>1, <2>2
  <2>6. Unanswered' = k - n
    BY <2>4, <2>5 DEF Unanswered
  <2>7. ASSUME NEW j \in 1 .. k + 1, (Vouched(j - Unanswered))' PROVE InMonth(months'[j])
    <3>1. CASE j = k + 1
      <4>1. j - Unanswered' = n + 1
        BY <2>6, <3>1
      <4>2. WithinAsked(Asked(NextWindow), reply)
        BY <2>5, <2>7, <4>1 DEF Vouched
      <4>3. months'[j] = filled
        BY <2>4, <3>1
      <4> QED BY <2>3, <4>2, <4>3
    <3>2. CASE j # k + 1
      <4>1. PICK i \in Int : i = j - (k - n) /\ i <= n /\ j \in 1 .. k
        BY <2>2, <3>2
      <4>2. i = j - Unanswered /\ i = (j - Unanswered)'
        BY <2>2, <2>6, <4>1
      <4>3. Vouched(i)'
        BY <2>7, <4>2 DEF Vouched
      <4>4. Vouched(i)
        BY <2>5, <4>1, <4>3 DEF Vouched
      <4> QED BY <2>4, <4>1, <4>2, <4>4 DEF MonthsInv
    <3> QED BY <3>1, <3>2
  <2> QED BY <2>4, <2>7 DEF MonthsInv
<1>9. CASE DayReturns
  <2>1. PICK reply \in Replies : Record(DayWindow(today), reply)
    BY <1>9 DEF DayReturns
  <2>2. pc = "day" /\ pc' = "returned" /\ months' = months /\ n <= k /\ Unanswered = k - n
    BY <1>3, <1>9 DEF DayReturns
  <2>3. /\ Len(replies') = n + 1
        /\ \A i \in 1 .. n : queries'[i] = queries[i] /\ replies'[i] = replies[i]
    BY <1>1, <1>4, <2>1, DayType
  <2>4. Unanswered' = k - n
    BY <1>2, <2>2, <2>3 DEF Unanswered
  <2>5. ASSUME NEW j \in DOMAIN months, (Vouched(j - Unanswered))' PROVE InMonth(months[j])
    <3>1. PICK i \in Int : i = j - (k - n) /\ i <= n
      BY <1>1, <1>2, <2>2
    <3>2. i = j - Unanswered /\ i = (j - Unanswered)'
      BY <2>2, <2>4, <3>1
    <3>3. Vouched(i)'
      BY <2>5, <3>2 DEF Vouched
    <3>4. Vouched(i)
      BY <2>3, <3>1, <3>3 DEF Vouched
    <3> QED BY <3>2, <3>4 DEF MonthsInv
  <2> QED BY <2>2, <2>5 DEF MonthsInv
<1>10. ASSUME UNCHANGED <<pc, months, queries, replies>> PROVE MonthsInv'
  BY <1>10 DEF MonthsInv, Vouched, Unanswered
<1> QED BY <1>6, <1>7, <1>8, <1>9, <1>10 DEF Next, DayEnds, vars

(* Whatever range the API reports, a month window covers days of the month *)
(* it is labelled with, unless that range is not within the one asked for. *)
THEOREM LabelledByMonthHolds == Spec => []LabelledByMonth
<1>1. FetchInv /\ MonthsInv => LabelledByMonth
  <2> SUFFICES ASSUME FetchInv, NEW i \in DOMAIN months, InMonth(months[i]),
                      NEW d \in DaysIn(months[i])
               PROVE  MonthOf(d) = months[i].label
    BY DEF LabelledByMonth, MonthsInv, Vouched
  <2> DEFINE m == months[i].label
  <2>1. months[i] \in Windows
    <3>1. months \in Seq(Windows)
      BY DEF FetchInv, TypeOK
    <3> QED BY <3>1
  <2>2. m \in 1 .. Len(FirstDay) - 1 /\ FirstDay[m] \in Int /\ FirstDay[m + 1] \in Int
    BY Calendar DEF InMonth
  <2>3. d \in Int /\ FirstDay[m] <= d /\ d < FirstDay[m + 1]
    BY <2>1, <2>2 DEF InMonth, DaysIn, Windows
  <2> QED BY <2>2, <2>3, MonthOfDay
<1>2. Spec => []MonthsInv
  BY MonthsInit, MonthsStep, Invariance, AskedAlways, PTL DEF Spec
<1> QED BY <1>1, <1>2, Invariance, PTL
=============================================================================
