------------------------------- MODULE Rollover -------------------------------
(***************************************************************************)
(* The end of a month between a refresh and a scrape.  A source reads the  *)
(* current month when its Fetch starts and publishes it with the snapshot  *)
(* when Fetch is over; the periods collector (internal/collector/          *)
(* periods.go) reads the clock at every scrape.  A query that selects the  *)
(* current month joins the two by billing_period and offset="0".           *)
(*                                                                         *)
(* The refreshers are those of Refresher, over a calendar: months are      *)
(* numbered and take MonthLength ticks.  The collectors of a scrape run    *)
(* concurrently, and a scrape may take time.                               *)
(***************************************************************************)
EXTENDS Refresher, FiniteSetsExt

CONSTANTS
  Disabled,     \* the sources the exporter does not run
  Lookback,     \* the lookback periods of each source
  MonthLength,  \* ticks of a month
  ScrapeTicks   \* ticks a scrape may take

(* config.go: Validate accepts no more lookback periods. *)
MaxLookbackPeriods == 12

(* A scrape takes no longer than a month. *)
ASSUME RolloverAssumption ==
  /\ Lookback \in [Sources \cup Disabled -> 0 .. MaxLookbackPeriods]
  /\ MonthLength \in Nat \ {0}
  /\ ScrapeTicks \in 0 .. MonthLength

VARIABLES
  month,        \* the current month
  monthAge,     \* the ticks since it began
  asked,        \* the month Fetch read from the clock
  shown,        \* the current month of the published snapshot, None for nil
  info,         \* the month the periods collector read in this scrape
  held,         \* the month of the snapshot each source's collector loaded
  owed,         \* history: the month the scrape owes, by when it started
  scrapeAge     \* the ticks since the scrape started

monthVars  == <<month, monthAge>>
dataVars   == <<asked, shown>>
scrapeVars == <<info, held, owed, scrapeAge>>
rolloverVars == <<vars, monthVars, dataVars, scrapeVars>>

None == 0
NotYet == -1

RolloverTypeOK ==
  /\ TypeOK
  /\ month \in Nat \ {0} /\ monthAge \in 0 .. MonthLength - 1
  /\ asked \in [Sources -> Nat] /\ shown \in [Sources -> Nat]
  /\ info \in (Nat \ {None}) \cup {NotYet}
  /\ held \in [Sources -> Nat \cup {NotYet}]
  /\ owed \in [Sources -> Nat]
  /\ scrapeAge \in 0 .. ScrapeTicks

(* The exporter may be started at any time of a month. *)
RolloverInit ==
  /\ Init
  /\ month = 1 /\ monthAge \in 0 .. MonthLength - 1
  /\ asked = [s \in Sources |-> None] /\ shown = [s \in Sources |-> None]
  /\ info = NotYet
  /\ held = [s \in Sources |-> NotYet]
  /\ owed = [s \in Sources |-> None]
  /\ scrapeAge = 0

(***************************************************************************)
(* Refreshes and the clock.                                                *)
(***************************************************************************)

(* Faulty: the clock is read when the source is made. *)
FetchStartsOnce(s) ==
  /\ BeginRefresh(s)
  /\ asked' = [asked EXCEPT ![s] = IF @ = None THEN month ELSE @]
  /\ UNCHANGED <<shown, monthVars, scrapeVars>>

(* Fetch derives its periods from one reading of the clock. *)
FetchStarts(s) ==
  /\ BeginRefresh(s)
  /\ asked' = [asked EXCEPT ![s] = month]
  /\ UNCHANGED <<shown, monthVars, scrapeVars>>

SnapshotStored(s) ==
  /\ Publish(s)
  /\ shown' = [shown EXCEPT ![s] = asked[s]]
  /\ UNCHANGED <<asked, monthVars, scrapeVars>>

(* The other steps of a refresher do not concern the calendar. *)
OtherStep(s) ==
  /\ Refresh(s) /\ pc[s] \notin {"refresh", "publish"}
  /\ UNCHANGED <<dataVars, monthVars, scrapeVars>>

ShutdownBegins == Cancel /\ UNCHANGED <<dataVars, monthVars, scrapeVars>>

Scraping == info # NotYet \/ \E s \in Sources : held[s] # NotYet
Answered == info # NotYet /\ \A s \in Sources : held[s] # NotYet
InProgress == Scraping /\ ~ Answered

TimePasses ==
  /\ Tick
  /\ InProgress => scrapeAge < ScrapeTicks
  /\ scrapeAge' = IF InProgress THEN scrapeAge + 1 ELSE scrapeAge
  /\ IF monthAge + 1 < MonthLength
     THEN monthAge' = monthAge + 1 /\ UNCHANGED month
     ELSE monthAge' = 0 /\ month' = month + 1
  /\ UNCHANGED <<dataVars, info, held, owed>>

(***************************************************************************)
(* Scrapes.                                                                *)
(***************************************************************************)

(* The month began so long ago that s shows it: the data it has are not    *)
(* older than AgeLimit allows, plus the time their attempt took.           *)
Due(s) ==
  /\ snapshot[s] # 0
  /\ monthAge >= AgeLimit(s)[failures[s]] + Timeout[s]

(* The scrape is the first collector's step to come. *)
Owed == IF Scraping THEN owed
        ELSE [s \in Sources |-> IF Due(s) THEN month ELSE None]

CollectPeriods ==
  /\ info = NotYet
  /\ info' = month
  /\ owed' = Owed
  /\ UNCHANGED <<vars, monthVars, dataVars, held, scrapeAge>>

CollectSource(s) ==
  /\ held[s] = NotYet
  /\ held' = [held EXCEPT ![s] = shown[s]]
  /\ owed' = Owed
  /\ UNCHANGED <<vars, monthVars, dataVars, info, scrapeAge>>

ScrapeAgain ==
  /\ Answered
  /\ info' = NotYet
  /\ held' = [s \in Sources |-> NotYet]
  /\ owed' = [s \in Sources |-> None]
  /\ scrapeAge' = 0
  /\ UNCHANGED <<vars, monthVars, dataVars>>

(* The periods collector looks back as far as the flags of any source do,  *)
(* also of a disabled one.                                                 *)
MaxLookback == Max({Lookback[s] : s \in Sources \cup Disabled})

(* Faulty: the first period is the one before. *)
InfoSeriesShifted == {[period |-> info - i - 1, offset |-> i] : i \in 0 .. MaxLookback}

(* The series of scaleway_billing_period_info. *)
InfoSeries == {[period |-> info - i, offset |-> i] : i \in 0 .. MaxLookback}

(* The periods whose data the scrape shows. *)
Periods(s) == IF held[s] = None THEN {} ELSE held[s] - Lookback[s] .. held[s]

(* and on(billing_period) scaleway_billing_period_info{offset="..."} *)
Selected(s, offset) ==
  {p \in Periods(s) : [period |-> p, offset |-> offset] \in InfoSeries}

-----------------------------------------------------------------------------

RolloverNext ==
  \/ ShutdownBegins \/ TimePasses
  \/ (Terminating /\ UNCHANGED <<monthVars, dataVars, scrapeVars>>)
  \/ CollectPeriods \/ ScrapeAgain
  \/ \E s \in Sources :
       FetchStarts(s) \/ SnapshotStored(s) \/ OtherStep(s) \/ CollectSource(s)

RolloverSpec == RolloverInit /\ [][RolloverNext]_rolloverVars

-----------------------------------------------------------------------------
(***************************************************************************)
(* Safety.                                                                 *)
(***************************************************************************)

(* The success timestamp is set when an attempt ends, the month was read   *)
(* when it began: data that look fresh may be last month's.  They are not  *)
(* once the month began a timeout before the last success.                 *)
FreshMeansCurrent ==
  \A s \in Sources :
    since[s] # NoStamp /\ monthAge >= since[s] + Timeout[s] => shown[s] = month

(* The gap after a month begins is bounded: a scrape that starts once the  *)
(* month is due selects data with offset="0" for every source, whatever    *)
(* order its collectors run in and whatever is published meanwhile.  Only  *)
(* if the month ends during the scrape may it read the clock in the next   *)
(* month, or, without a lookback, find a source that has moved on.         *)
CurrentInScrape ==
  Answered => \A s \in Sources :
    owed[s] = info /\ (Lookback[s] = 0 => held[s] <= info) => Selected(s, 0) = {info}
=============================================================================
