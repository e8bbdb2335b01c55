---------------------------- MODULE RolloverProofs ----------------------------
(***************************************************************************)
(* For any sources, delays and length of a month: data that look fresh are *)
(* those of the current month.                                             *)
(***************************************************************************)
EXTENDS Rollover, RefresherProofs

(***************************************************************************)
(* The inductive invariant follows the month on its way from the clock to  *)
(* the readers: if the month began before Fetch did, it is the month that  *)
(* Fetch asks for, then the month that is published.                       *)
(***************************************************************************)
MonthInv(s) ==
  /\ pc[s] = "fetching" =>
       /\ left[s] <= Timeout[s]
       /\ monthAge >= Timeout[s] - left[s] => asked[s] = month
  /\ pc[s] \in {"fetched", "publish"} => (monthAge >= Timeout[s] => asked[s] = month)
  /\ pc[s] \in {"markUp", "stamp"} => (monthAge >= Timeout[s] => shown[s] = month)
  /\ since[s] # NoStamp => (monthAge >= since[s] + Timeout[s] => shown[s] = month)

CalendarInv == RolloverTypeOK /\ \A s \in Sources : MonthInv(s)

(* The exporter has asked for nothing. *)
LEMMA RolloverInitInv == RolloverInit => CalendarInv
<1> SUFFICES ASSUME RolloverInit PROVE CalendarInv
  OBVIOUS
<1>1. TypeOK
  BY InitInv DEF RolloverInit, IInv
<1>2. RolloverTypeOK
  BY <1>1, RolloverAssumption DEF RolloverInit, RolloverTypeOK, None, NotYet
<1>3. \A s \in Sources : MonthInv(s)
  BY DEF RolloverInit, Init, MonthInv
<1> QED BY <1>2, <1>3 DEF CalendarInv

(* A step of a refresher, with what it does to the months, keeps the       *)
(* invariant of its source.                                                *)
LEMMA MonthStep ==
  ASSUME CalendarInv, NEW s \in Sources,
         FetchStarts(s) \/ SnapshotStored(s) \/ OtherStep(s)
  PROVE  MonthInv(s)'
<1> DEFINE t == Timeout[s]
<1>0. /\ MonthInv(s) /\ TypeOK
      /\ month \in Nat /\ monthAge \in Nat /\ t \in Nat \ {0}
      /\ left[s] \in Nat /\ since[s] \in Nat \cup {NoStamp}
  BY RolloverAssumption, OptionsAssumption DEF CalendarInv, RolloverTypeOK, TypeOK
<1>1. UNCHANGED <<month, monthAge>>
  BY DEF FetchStarts, SnapshotStored, OtherStep, monthVars
<1> USE <1>0, <1>1 DEF MonthInv, Goto, TypeOK, NoStamp
<1>2. CASE FetchStarts(s)
  <2>1. /\ pc'[s] = "fetching" /\ left'[s] = t /\ asked'[s] = month
        /\ UNCHANGED <<since, shown>>
    BY <1>2 DEF FetchStarts, BeginRefresh, CalendarInv, RolloverTypeOK
  <2> HIDE DEF t
  <2> QED BY <2>1 DEF t
<1>3. CASE SnapshotStored(s)
  <2>1. /\ pc[s] = "publish" /\ pc'[s] = "markUp" /\ shown'[s] = asked[s]
        /\ UNCHANGED <<since, asked>>
    BY <1>3 DEF SnapshotStored, Publish, CalendarInv, RolloverTypeOK
  <2> QED BY <2>1
<1>4. CASE OtherStep(s)
  <2>1. UNCHANGED <<asked, shown>> /\ pc[s] \notin {"refresh", "publish"} /\ Refresh(s)
    BY <1>4 DEF OtherStep, dataVars
  <2> USE <2>1
  <2>2. CASE FetchReturns(s)
    BY <2>2 DEF FetchReturns
  <2>3. CASE Observe(s)
    BY <2>3 DEF Observe
  <2>4. CASE MarkUp(s)
    BY <2>4 DEF MarkUp
  <2>5. CASE StampSuccess(s)
    BY <2>5 DEF StampSuccess
  <2>6. ASSUME since' = since, pc'[s] \notin {"fetching", "fetched", "publish", "markUp", "stamp"}
        PROVE  MonthInv(s)'
    BY <2>6
  <2> QED BY <2>2, <2>3, <2>4, <2>5, <2>6
             DEF Refresh, BeginRefresh, Abandon, Publish, MarkDown, CountError,
                 Stop, ScheduleNext, StopWaiting, TimerFires
<1> QED BY <1>2, <1>3, <1>4

(* It does not disturb the other sources. *)
LEMMA OtherMonth ==
  ASSUME CalendarInv, NEW s \in Sources, NEW o \in Sources, o # s,
         FetchStarts(s) \/ SnapshotStored(s) \/ OtherStep(s)
  PROVE  MonthInv(o)'
<1>1. /\ UNCHANGED <<month, monthAge>>
      /\ asked'[o] = asked[o] /\ shown'[o] = shown[o]
  BY DEF FetchStarts, SnapshotStored, OtherStep, monthVars, dataVars, CalendarInv, RolloverTypeOK
<1>2. TypeOK /\ Refresh(s) /\ MonthInv(o)
  BY DEF FetchStarts, SnapshotStored, OtherStep, Refresh, CalendarInv, RolloverTypeOK
<1>3. pc'[o] = pc[o] /\ left'[o] = left[o] /\ since'[o] = since[o]
  BY <1>2 DEF TypeOK, Refresh, Goto, BeginRefresh, FetchReturns, Abandon, Observe,
              Publish, MarkUp, StampSuccess, MarkDown, CountError, Stop,
              ScheduleNext, StopWaiting, TimerFires
<1> QED BY <1>1, <1>2, <1>3 DEF MonthInv

(* Time passes, perhaps into the next month. *)
LEMMA TimeStep ==
  ASSUME CalendarInv, TimePasses, NEW s \in Sources
  PROVE  MonthInv(s)'
<1> DEFINE t == Timeout[s]
<1>0. /\ MonthInv(s) /\ TypeOK
      /\ month \in Nat /\ monthAge \in Nat /\ t \in Nat \ {0} /\ MonthLength \in Nat
      /\ left[s] \in Nat /\ since[s] \in Nat \cup {NoStamp}
  BY RolloverAssumption, OptionsAssumption DEF CalendarInv, RolloverTypeOK, TypeOK
<1>1. /\ pc[s] \in {"fetching", "waiting"} /\ left[s] > 0 /\ pc' = pc
      /\ left'[s] = left[s] - 1
      /\ since'[s] = IF since[s] = NoStamp THEN NoStamp ELSE since[s] + 1
      /\ UNCHANGED <<asked, shown>>
  BY DEF TimePasses, Tick, dataVars
<1>2. \/ monthAge' = monthAge + 1 /\ month' = month
      \/ monthAge' = 0
  BY DEF TimePasses
<1> USE DEF MonthInv, NoStamp
<1>3. CASE monthAge' = monthAge + 1 /\ month' = month
  <2> HIDE DEF t
  <2> QED BY <1>0, <1>1, <1>3 DEF t
<1>4. CASE monthAge' = 0
  <2>1. pc[s] = "fetching" => left'[s] < t
    BY <1>0, <1>1
  <2> HIDE DEF t
  <2> QED BY <1>0, <1>1, <1>4, <2>1 DEF t
<1> QED BY <1>2, <1>3, <1>4

(* The types of the calendar and of the scrapes. *)
LEMMA RolloverTypeStep == RolloverTypeOK /\ [RolloverNext]_rolloverVars => RolloverTypeOK'
<1> SUFFICES ASSUME RolloverTypeOK, [RolloverNext]_rolloverVars PROVE RolloverTypeOK'
  OBVIOUS
<1> USE RolloverAssumption
<1>1. [Next]_vars
  BY DEF RolloverNext, rolloverVars, ShutdownBegins, TimePasses, CollectPeriods, ScrapeAgain,
         FetchStarts, SnapshotStored, OtherStep, CollectSource, Next, Refresh
<1>2. TypeOK'
  BY <1>1, NextType DEF RolloverTypeOK
<1> USE DEF RolloverTypeOK
<1>3. CASE TimePasses
  <2>1. month' \in Nat \ {0} /\ monthAge' \in 0 .. MonthLength - 1
    BY <1>3 DEF TimePasses
  <2>2. scrapeAge' \in 0 .. ScrapeTicks
    BY <1>3 DEF TimePasses
  <2> QED BY <1>2, <1>3, <2>1, <2>2 DEF TimePasses, dataVars
<1>4. ASSUME NEW s \in Sources, FetchStarts(s) \/ SnapshotStored(s) PROVE RolloverTypeOK'
  BY <1>2, <1>4 DEF FetchStarts, SnapshotStored, monthVars, scrapeVars
<1>5. Owed \in [Sources -> Nat]
  BY DEF Owed, None
<1>6. CASE CollectPeriods
  BY <1>2, <1>5, <1>6 DEF CollectPeriods, monthVars, dataVars, None
<1>7. ASSUME NEW s \in Sources, CollectSource(s) PROVE RolloverTypeOK'
  BY <1>2, <1>5, <1>7 DEF CollectSource, monthVars, dataVars
<1>8. CASE ScrapeAgain
  BY <1>2, <1>8 DEF ScrapeAgain, monthVars, dataVars, None, NotYet
<1>9. ASSUME UNCHANGED <<monthVars, dataVars, scrapeVars>> PROVE RolloverTypeOK'
  BY <1>2, <1>9 DEF monthVars, dataVars, scrapeVars
<1> QED BY <1>3, <1>4, <1>6, <1>7, <1>8, <1>9
           DEF RolloverNext, rolloverVars, ShutdownBegins, OtherStep, monthVars, dataVars, scrapeVars

(* The invariant is inductive. *)
LEMMA CalendarStep == CalendarInv /\ [RolloverNext]_rolloverVars => CalendarInv'
<1> SUFFICES ASSUME CalendarInv, [RolloverNext]_rolloverVars, NEW o \in Sources
             PROVE  MonthInv(o)'
  BY RolloverTypeStep DEF CalendarInv
<1>1. ASSUME NEW s \in Sources, FetchStarts(s) \/ SnapshotStored(s) \/ OtherStep(s)
      PROVE  MonthInv(o)'
  BY <1>1, MonthStep, OtherMonth
<1>2. CASE TimePasses
  BY <1>2, TimeStep
<1>3. ASSUME UNCHANGED <<pc, left, since, monthVars, dataVars>> PROVE MonthInv(o)'
  BY <1>3 DEF CalendarInv, MonthInv, monthVars, dataVars
<1> QED BY <1>1, <1>2, <1>3
           DEF RolloverNext, rolloverVars, ShutdownBegins, Cancel, CollectPeriods,
               CollectSource, ScrapeAgain, Terminating, vars

(* The invariant holds in every reachable state. *)
LEMMA CalendarInvariance == RolloverSpec => []CalendarInv
BY RolloverInitInv, CalendarStep, PTL DEF RolloverSpec

-----------------------------------------------------------------------------
(* The variables have their types. *)
THEOREM RolloverTypeCorrect == RolloverSpec => []RolloverTypeOK
<1>1. CalendarInv => RolloverTypeOK
  BY DEF CalendarInv
<1> QED BY <1>1, CalendarInvariance, PTL

(* Data are those of the current month once it began a timeout before the  *)
(* success the timestamp tells of.                                         *)
THEOREM FreshMeansCurrentHolds == RolloverSpec => []FreshMeansCurrent
<1>1. CalendarInv => FreshMeansCurrent
  BY DEF CalendarInv, MonthInv, FreshMeansCurrent
<1> QED BY <1>1, CalendarInvariance, PTL
-----------------------------------------------------------------------------
(***************************************************************************)
(* The invariant of a scrape: months are only ever published in order, a   *)
(* snapshot lacks its timestamp only while it is being announced, and the  *)
(* month a scrape owes is what its collectors hold or, if a month ended    *)
(* since it began, the one before; no two months end within a scrape.      *)
(***************************************************************************)
Announced(s) == snapshot[s] # 0 /\ since[s] = NoStamp => pc[s] \in {"markUp", "stamp"}

InOrder(s) == shown[s] <= asked[s] /\ asked[s] <= month

HeldInv(s) ==
  owed[s] # None =>
    /\ owed[s] <= shown[s]
    /\ InProgress => \/ month = owed[s]
                     \/ month = owed[s] + 1 /\ monthAge < scrapeAge
    /\ held[s] # NotYet => owed[s] <= held[s] /\ held[s] <= owed[s] + 1

ScrapeInv == \A s \in Sources : Announced(s) /\ InOrder(s) /\ HeldInv(s)
(* A scrape owes the current month only when the source shows it. *)
LEMMA DueShown ==
  ASSUME CalendarInv, IInv, NEW s \in Sources, Announced(s), Due(s)
  PROVE  shown[s] = month
<1> DEFINE limit == AgeLimit(s)[failures[s]]
<1>1. /\ MonthInv(s) /\ since[s] \in Nat \cup {NoStamp} /\ Timeout[s] \in Nat
      /\ monthAge \in Nat /\ failures[s] \in Nat
  BY RolloverAssumption, OptionsAssumption DEF CalendarInv, RolloverTypeOK, TypeOK
<1>2. limit \in Nat
  BY <1>1, AgeLimitType
<1>3. since[s] <= limit
  BY DEF IInv, AgeInv
<1>4. snapshot[s] # 0 /\ monthAge >= limit + Timeout[s]
  BY DEF Due
<1> HIDE DEF limit
<1>5. CASE since[s] = NoStamp
  <2>1. pc[s] \in {"markUp", "stamp"}
    BY <1>4, <1>5 DEF Announced
  <2>2. monthAge >= Timeout[s]
    BY <1>1, <1>2, <1>4
  <2> QED BY <1>1, <2>1, <2>2 DEF MonthInv
<1>6. CASE since[s] # NoStamp
  <2>1. monthAge >= since[s] + Timeout[s]
    BY <1>1, <1>2, <1>3, <1>4, <1>6 DEF NoStamp
  <2> QED BY <1>1, <1>6, <2>1 DEF MonthInv
<1> QED BY <1>5, <1>6

(* A step of the refreshers, or of the clock, keeps it. *)
LEMMA AnnouncedStep ==
  ASSUME IInv, [Next]_vars, NEW o \in Sources, Announced(o)
  PROVE  Announced(o)'
<1>0. TypeOK /\ AttemptInv(o)
  BY DEF IInv
<1>1. ASSUME NEW s \in Sources, Refresh(s), s = o PROVE Announced(o)'
  <2> USE <1>0, <1>1 DEF TypeOK, Goto, Announced
  <2>1. CASE Publish(s)
    BY <2>1 DEF Publish
  <2>2. CASE MarkUp(s)
    BY <2>2 DEF MarkUp
  <2>3. CASE StampSuccess(s)
    BY <2>3 DEF StampSuccess, NoStamp
  <2>4. ASSUME UNCHANGED <<snapshot, since>>, pc[s] \notin {"markUp", "stamp"}
        PROVE  Announced(o)'
    BY <2>4
  <2> QED BY <2>1, <2>2, <2>3, <2>4
             DEF Refresh, BeginRefresh, FetchReturns, Abandon, Observe, MarkDown,
                 CountError, Stop, ScheduleNext, StopWaiting, TimerFires
<1>2. ASSUME NEW s \in Sources, Refresh(s), s # o PROVE Announced(o)'
  <2>1. pc'[o] = pc[o] /\ snapshot'[o] = snapshot[o] /\ since'[o] = since[o]
    BY <1>0, <1>2
       DEF TypeOK, Refresh, Goto, BeginRefresh, FetchReturns, Abandon, Observe,
           Publish, MarkUp, StampSuccess, MarkDown, CountError, Stop,
           ScheduleNext, StopWaiting, TimerFires
  <2> QED BY <2>1 DEF Announced
<1>3. CASE Tick
  <2>1. /\ pc' = pc /\ snapshot' = snapshot
        /\ since[o] # NoStamp => since'[o] = since[o] + 1 /\ since[o] \in Nat
    BY <1>0, <1>3 DEF Tick, TypeOK
  <2> QED BY <2>1 DEF Announced, NoStamp
<1>4. ASSUME UNCHANGED <<pc, snapshot, since>> PROVE Announced(o)'
  BY <1>4 DEF Announced
<1> QED BY <1>1, <1>2, <1>3, <1>4 DEF Next, Cancel, Terminating, vars

(* Months are asked for and published in order. *)
LEMMA OrderStep ==
  ASSUME RolloverTypeOK, [RolloverNext]_rolloverVars, NEW o \in Sources, InOrder(o)
  PROVE  InOrder(o)' /\ shown[o] <= shown'[o]
<1>0. /\ month \in Nat /\ asked \in [Sources -> Nat] /\ shown \in [Sources -> Nat]
  BY DEF RolloverTypeOK
<1> USE <1>0 DEF InOrder
<1>1. ASSUME NEW s \in Sources, FetchStarts(s) PROVE InOrder(o)' /\ shown[o] <= shown'[o]
  BY <1>1 DEF FetchStarts, monthVars
<1>2. ASSUME NEW s \in Sources, SnapshotStored(s) PROVE InOrder(o)' /\ shown[o] <= shown'[o]
  BY <1>2 DEF SnapshotStored, monthVars
<1>3. CASE TimePasses
  <2>1. UNCHANGED <<asked, shown>> /\ month' \in {month, month + 1}
    BY <1>3 DEF TimePasses, dataVars
  <2> QED BY <2>1
<1>4. ASSUME UNCHANGED <<monthVars, dataVars>> PROVE InOrder(o)' /\ shown[o] <= shown'[o]
  BY <1>4 DEF monthVars, dataVars
<1> QED BY <1>1, <1>2, <1>3, <1>4
           DEF RolloverNext, rolloverVars, ShutdownBegins, OtherStep, CollectPeriods,
               CollectSource, ScrapeAgain

(* The clock may end one month within a scrape, not two. *)
LEMMA HeldTimeStep ==
  ASSUME RolloverTypeOK, TimePasses, NEW o \in Sources, HeldInv(o)
  PROVE  HeldInv(o)'
<1>0. /\ month \in Nat /\ monthAge \in Nat /\ scrapeAge \in 0 .. ScrapeTicks
      /\ MonthLength \in Nat /\ ScrapeTicks \in Nat /\ ScrapeTicks <= MonthLength
      /\ owed[o] \in Nat
  BY RolloverAssumption DEF RolloverTypeOK
<1>1. /\ UNCHANGED <<asked, shown, info, held, owed>>
      /\ InProgress => scrapeAge < ScrapeTicks
      /\ InProgress => scrapeAge' = scrapeAge + 1
      /\ \/ monthAge + 1 < MonthLength /\ monthAge' = monthAge + 1 /\ month' = month
         \/ monthAge + 1 >= MonthLength /\ monthAge' = 0 /\ month' = month + 1
  BY <1>0 DEF TimePasses, dataVars
<1>2. InProgress' = InProgress
  BY <1>1 DEF InProgress, Scraping, Answered
<1>3. ASSUME owed[o] # None, InProgress
      PROVE  month' = owed[o] \/ (month' = owed[o] + 1 /\ monthAge' < scrapeAge')
  <2>1. month = owed[o] \/ (month = owed[o] + 1 /\ monthAge < scrapeAge)
    BY <1>3 DEF HeldInv
  <2>2. scrapeAge < ScrapeTicks /\ scrapeAge' = scrapeAge + 1
    BY <1>1, <1>3
  <2> QED BY <1>0, <1>1, <2>1, <2>2
<1> QED BY <1>1, <1>2, <1>3 DEF HeldInv

(* What a collector loads is the month the scrape owes, or the next. *)
LEMMA CollectStep ==
  ASSUME CalendarInv, IInv, ScrapeInv, NEW o \in Sources,
         CollectPeriods \/ \E s \in Sources : CollectSource(s)
  PROVE  HeldInv(o)'
<1>0. /\ month \in Nat \ {0} /\ monthAge \in Nat /\ shown[o] \in Nat /\ owed \in [Sources -> Nat]
      /\ held \in [Sources -> Nat \cup {NotYet}] /\ scrapeAge \in Nat
  BY RolloverAssumption DEF CalendarInv, RolloverTypeOK
<1>1. /\ UNCHANGED <<month, monthAge, shown, scrapeAge>>
      /\ owed' = Owed /\ ~ Answered
      /\ held'[o] = held[o] \/ held'[o] = shown[o]
  BY <1>0 DEF CollectPeriods, CollectSource, monthVars, dataVars, Answered
<1>2. shown[o] <= month
  BY <1>0 DEF ScrapeInv, InOrder, CalendarInv, RolloverTypeOK
<1>3. CASE Scraping
  <2>1. owed'[o] = owed[o] /\ InProgress
    BY <1>1, <1>3 DEF Owed, InProgress
  <2>2. owed[o] # None =>
          /\ owed[o] <= shown[o]
          /\ month = owed[o] \/ (month = owed[o] + 1 /\ monthAge < scrapeAge)
          /\ held[o] # NotYet => owed[o] <= held[o] /\ held[o] <= owed[o] + 1
    BY <2>1 DEF ScrapeInv, HeldInv
  <2> QED BY <1>0, <1>1, <1>2, <2>1, <2>2 DEF HeldInv
<1>4. CASE ~ Scraping
  <2>1. owed'[o] = IF Due(o) THEN month ELSE None
    BY <1>1, <1>4 DEF Owed
  <2>2. owed'[o] # None => shown[o] = month
    BY <2>1, DueShown DEF ScrapeInv
  <2>3. held[o] = NotYet
    BY <1>4 DEF Scraping
  <2>4. owed'[o] # None => owed'[o] = month
    BY <2>1
  <2> QED BY <1>0, <1>1, <2>2, <2>3, <2>4 DEF HeldInv
<1> QED BY <1>3, <1>4

(* The invariant of a scrape is inductive. *)
LEMMA ScrapeStep ==
  CalendarInv /\ IInv /\ ScrapeInv /\ [RolloverNext]_rolloverVars => ScrapeInv'
<1> SUFFICES ASSUME CalendarInv, IInv, ScrapeInv, [RolloverNext]_rolloverVars,
                    NEW o \in Sources
             PROVE  Announced(o)' /\ InOrder(o)' /\ HeldInv(o)'
  BY DEF ScrapeInv
<1>0. RolloverTypeOK /\ Announced(o) /\ InOrder(o) /\ HeldInv(o)
  BY DEF CalendarInv, ScrapeInv
<1>1. [Next]_vars
  BY DEF RolloverNext, rolloverVars, ShutdownBegins, TimePasses, CollectPeriods, ScrapeAgain,
         FetchStarts, SnapshotStored, OtherStep, CollectSource, Next, Refresh
<1>2. Announced(o)'
  BY <1>0, <1>1, AnnouncedStep
<1>3. InOrder(o)' /\ shown[o] <= shown'[o]
  BY <1>0, OrderStep
<1>4. HeldInv(o)'
  <2>1. CASE TimePasses
    BY <1>0, <2>1, HeldTimeStep
  <2>2. CASE CollectPeriods \/ \E s \in Sources : CollectSource(s)
    BY <2>2, CollectStep
  <2>3. CASE ScrapeAgain
    BY <2>3 DEF ScrapeAgain, HeldInv
  <2>4. ASSUME UNCHANGED <<monthVars, scrapeVars>> PROVE HeldInv(o)'
    <3>1. owed[o] \in Nat /\ shown[o] \in Nat /\ shown'[o] \in Nat
      BY <1>0, RolloverTypeStep DEF RolloverTypeOK
    <3>2. InProgress' = InProgress
      BY <2>4 DEF scrapeVars, InProgress, Scraping, Answered
    <3> QED BY <1>0, <1>3, <2>4, <3>1, <3>2 DEF HeldInv, monthVars, scrapeVars
  <2> QED BY <2>1, <2>2, <2>3, <2>4
             DEF RolloverNext, rolloverVars, ShutdownBegins, OtherStep, FetchStarts,
                 SnapshotStored
<1> QED BY <1>2, <1>3, <1>4

(* Nothing is published and no scrape has begun. *)
LEMMA ScrapeInit == RolloverInit => ScrapeInv
BY DEF RolloverInit, Init, ScrapeInv, Announced, InOrder, HeldInv, None

(* The refreshers of Rollover are those of Refresher. *)
LEMMA RefresherStep == [RolloverNext]_rolloverVars => [Next]_vars
BY DEF RolloverNext, rolloverVars, ShutdownBegins, TimePasses, CollectPeriods, ScrapeAgain,
       FetchStarts, SnapshotStored, OtherStep, CollectSource, Next, Refresh

(* The invariants of the refreshers and of the scrapes hold throughout. *)
LEMMA ScrapeInvariance == RolloverSpec => [](CalendarInv /\ IInv /\ ScrapeInv)
<1>1. RolloverInit => IInv
  BY InitInv DEF RolloverInit
<1>2. IInv /\ [RolloverNext]_rolloverVars => IInv'
  BY NextInv, RefresherStep
<1> QED BY <1>1, <1>2, ScrapeInit, ScrapeStep, CalendarInvariance, PTL DEF RolloverSpec

(* The periods collector looks back at least to the current month. *)
LEMMA LookbackType ==
  ASSUME NEW s \in Sources
  PROVE  MaxLookback \in Nat
<1> DEFINE L == {Lookback[t] : t \in Sources \cup Disabled}
<1>1. L \in SUBSET (0 .. MaxLookbackPeriods) /\ L # {} /\ MaxLookbackPeriods \in Nat
  BY RolloverAssumption DEF MaxLookbackPeriods
<1>2. \E x \in L : \A y \in L : x >= y
  <2> HIDE DEF L
  <2> QED BY <1>1, BoundedSetHasGreatest
<1>3. MaxLookback \in L
  BY <1>2 DEF MaxLookback, Max
<1> QED BY <1>1, <1>3

(***************************************************************************)
(* A scrape that starts once the month is due selects the current month of *)
(* every source, whatever order its collectors run in.                     *)
(***************************************************************************)
THEOREM CurrentInScrapeHolds == RolloverSpec => []CurrentInScrape
<1>1. CalendarInv /\ ScrapeInv => CurrentInScrape
  <2> SUFFICES ASSUME CalendarInv, ScrapeInv, Answered, NEW s \in Sources,
                      owed[s] = info, Lookback[s] = 0 => held[s] <= info
               PROVE  Selected(s, 0) = {info}
    BY DEF CurrentInScrape
  <2>1. /\ info \in Nat \ {None} /\ held[s] \in Nat /\ held[s] # NotYet /\ owed[s] \in Nat
        /\ Lookback[s] \in Nat
    BY RolloverAssumption DEF CalendarInv, RolloverTypeOK, Answered, MaxLookbackPeriods
  <2>2. info <= held[s] /\ held[s] <= info + 1
    BY <2>1 DEF ScrapeInv, HeldInv
  <2>3. Periods(s) = held[s] - Lookback[s] .. held[s] /\ info \in Periods(s)
    BY <2>1, <2>2 DEF Periods, None
  <2>4. ASSUME NEW p \in Int
        PROVE  [period |-> p, offset |-> 0] \in InfoSeries <=> p = info
    <3>1. MaxLookback \in Nat
      BY LookbackType
    <3>2. [period |-> p, offset |-> 0] \in InfoSeries <=>
            \E i \in 0 .. MaxLookback : p = info - i /\ i = 0
      BY DEF InfoSeries
    <3> HIDE DEF MaxLookback
    <3>3. info - 0 = info /\ 0 \in 0 .. MaxLookback
      BY <2>1, <3>1
    <3> QED BY <3>2, <3>3
  <2>5. Periods(s) \in SUBSET Int
    BY <2>1, <2>3
  <2> DEFINE P == Periods(s)
             In(p) == [period |-> p, offset |-> 0] \in InfoSeries
  <2>6. Selected(s, 0) = {p \in P : In(p)}
    BY DEF Selected
  <2> HIDE DEF P, In
  <2>7. info \in P /\ \A p \in P : In(p) <=> p = info
    BY <2>3, <2>4, <2>5 DEF P, In
  <2> QED BY <2>6, <2>7
<1> QED BY <1>1, ScrapeInvariance, PTL
=============================================================================
