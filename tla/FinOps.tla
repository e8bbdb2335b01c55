-------------------------------- MODULE FinOps --------------------------------
(***************************************************************************)
(* The FinOps source (internal/source/finops/finops.go): Fetch asks the    *)
(* API for the charges of the current and the previous billing periods,    *)
(* one call per period, and aggregates each answer into a bounded number   *)
(* of series.                                                              *)
(*                                                                         *)
(* Months are numbered.  Names are numbers ordered as the strings are, 0   *)
(* being the empty one; amounts are integers (in the code floats, whose    *)
(* rounding is not modelled).  The clock, the data behind the API and the  *)
(* outcome of each call are the environment's.                             *)
(***************************************************************************)
EXTENDS Integers, Sequences, FiniteSets, FiniteSetsExt, SequencesExt

CONSTANTS
  Charges,      \* the charges the API may return
  Org,          \* Options.OrganizationID
  OtherSKU,     \* the SKU of the folded series
  Lookback,     \* Options.LookbackPeriods
  PerResource,  \* Options.PerResource
  MaxSeries,    \* Options.MaxSeries
  LastMonth,    \* bound: the month at which the clock stops
  MaxFetches    \* bound: calls of Fetch in a behaviour

ASSUME FinOpsAssumption ==
  /\ IsFiniteSet(Charges)
  /\ \A c \in Charges : /\ {c.id, c.org, c.project, c.sku, c.resource, c.updated} \subseteq Nat
                        /\ c.amount \in Int /\ c.currency \in STRING
  /\ Org \in Nat \ {0} /\ OtherSKU \in Nat \ {0}
  /\ Lookback \in Nat
  /\ PerResource \in BOOLEAN
  /\ MaxSeries \in Nat \ {0}
  /\ LastMonth \in Nat /\ MaxFetches \in Nat

VARIABLES
  now,          \* the current month
  pc,           \* Fetch is not running, waits for the API, or has returned
  start,        \* the month Now() returned
  periods,      \* snap.Periods, most recent first
  replies,      \* history: what the API answered for them
  fetches,      \* history: the calls of Fetch so far
  skipped,      \* errors_total{reason="unexpected_currency"}
  limitExceeded,\* series_limit_exceeded_total
  before        \* history: the counters when Fetch was called

vars == <<now, pc, start, periods, replies, fetches, skipped, limitExceeded, before>>

TypeOK ==
  /\ now \in 0 .. LastMonth /\ start \in 0 .. LastMonth
  /\ pc \in {"idle", "querying", "returned", "failed"}
  /\ Len(periods) \in 0 .. Lookback + 1
  /\ replies \in Seq(SUBSET Charges)
  /\ \A i \in DOMAIN periods :
       /\ periods[i].month \in Int
       /\ periods[i].updated \in Nat /\ periods[i].folded \in Nat
       /\ \A j \in DOMAIN periods[i].series : periods[i].series[j].euros \in Int
  /\ fetches \in 0 .. MaxFetches
  /\ skipped \in Nat /\ limitExceeded \in Nat

Init ==
  /\ now = 0 /\ start = 0
  /\ pc = "idle"
  /\ periods = <<>> /\ replies = <<>>
  /\ fetches = 0
  /\ skipped = 0 /\ limitExceeded = 0
  /\ before = [skipped |-> 0, limitExceeded |-> 0]

(***************************************************************************)
(* Aggregation of the charges of a period.                                 *)
(***************************************************************************)

(* Faulty: every amount is added as if it was in euros. *)
AcceptedAll(reply) == reply

(* Zero amounts are accepted whatever their currency. *)
Accepted(reply) == {c \in reply : c.currency = "EUR" \/ c.amount = 0}

Key(c) == << IF c.org = 0 THEN Org ELSE c.org, c.project, c.sku,
             IF PerResource THEN c.resource ELSE 0 >>

Total(charges) == SumFunction([c \in charges |-> c.amount])
Euros(series) == SumFunction([x \in series |-> x.euros])

(* Faulty: grouped by the organization as the API gives it. *)
AllSeriesByOrg(reply) ==
  { [labels |-> Key(c),
     euros |-> Total({d \in Accepted(reply) : Key(d) = Key(c) /\ d.org = c.org})] :
      c \in Accepted(reply) }

AllSeries(reply) ==
  { [labels |-> k, euros |-> Total({c \in Accepted(reply) : Key(c) = k})] :
      k \in {Key(c) : c \in Accepted(reply)} }

LabelsLess(a, b) ==
  \E i \in DOMAIN a : a[i] < b[i] /\ \A j \in 1 .. i - 1 : a[j] = b[j]

Magnitude(x) == IF x.euros < 0 THEN - x.euros ELSE x.euros

(* Faulty: ties are left to the sort. *)
BeforeUntied(a, b) == Magnitude(a) > Magnitude(b)

(* The order fold sorts by. *)
Before(a, b) ==
  \/ Magnitude(a) > Magnitude(b)
  \/ Magnitude(a) = Magnitude(b) /\ LabelsLess(a.labels, b.labels)

(* Every outcome of an unstable sort of a map's entries, whose iteration   *)
(* order is random.                                                        *)
Sortings(series) ==
  {seq \in SetToSeqs(series) : \A i, j \in DOMAIN seq : i < j => ~ Before(seq[j], seq[i])}

(* Series of distinct labels have one such order. *)
SortedByLabels(series) ==
  CHOOSE seq \in SetToSeqs(series) :
    \A i, j \in DOMAIN seq : i < j => ~ LabelsLess(seq[j].labels, seq[i].labels)

(* The number of series kept, which leaves room for the folded one. *)
Keep == MaxSeries - 1

(* The labels of the folded series, which a charge may have as well. *)
OtherLabels == <<Org, 0, OtherSKU, 0>>

(* The largest series are kept, the others become one. *)
Fold(sorted) ==
  LET rest == SubSeq(sorted, Keep + 1, Len(sorted))
      other == [labels |-> OtherLabels,
                euros |-> Euros(ToSet(rest))]
  IN  [series |-> Append(SortedByLabels(ToSet(SubSeq(sorted, 1, Keep))), other),
       folded |-> Len(rest)]

Updated(reply) == Max({0} \cup {c.updated : c \in reply})

(* The periods aggregate may return for a reply. *)
Aggregates(month, reply) ==
  LET all == AllSeries(reply)
      Period(f) == [month |-> month, updated |-> Updated(reply),
                    series |-> f.series, folded |-> f.folded]
  IN  IF Cardinality(all) > MaxSeries
      THEN {Period(Fold(sorted)) : sorted \in Sortings(all)}
      ELSE {Period([series |-> SortedByLabels(all), folded |-> 0])}

(* Faulty: a period at the limit is counted. *)
ExceedsAtLimit(reply) == Cardinality(AllSeries(reply)) >= MaxSeries

Exceeds(reply) == Cardinality(AllSeries(reply)) > MaxSeries

-----------------------------------------------------------------------------

(* Fetch reads the clock once: periodBounds of all its calls. *)
StartFetch ==
  /\ pc # "querying" /\ fetches < MaxFetches
  /\ pc' = "querying"
  /\ start' = now
  /\ periods' = <<>> /\ replies' = <<>>
  /\ fetches' = fetches + 1
  /\ before' = [skipped |-> skipped, limitExceeded |-> limitExceeded]
  /\ UNCHANGED <<now, skipped, limitExceeded>>

(* Faulty: the clock is read for each call. *)
MonthNow == now - Len(periods)

(* The month of the next call. *)
Month == start - Len(periods)

(* Faulty: the loop makes one call too many. *)
MoreAndOne == pc = "querying" /\ Len(periods) <= Lookback + 1

(* The loop has a call to make. *)
More == pc = "querying" /\ Len(periods) < Lookback + 1

(* Charges returns every charge of the next period, which is aggregated;   *)
(* the charges of another currency are dropped and counted at once, and so *)
(* is a period over the limit.                                             *)
ChargesReturn ==
  /\ More
  /\ \E reply \in SUBSET Charges :
       /\ \E p \in Aggregates(Month, reply) : periods' = Append(periods, p)
       /\ replies' = Append(replies, reply)
       /\ skipped' = skipped + Cardinality(reply \ Accepted(reply))
       /\ limitExceeded' = limitExceeded + IF Exceeds(reply) THEN 1 ELSE 0
  /\ UNCHANGED <<now, pc, start, fetches, before>>

(* A call fails, times out or is interrupted: Fetch returns no snapshot.   *)
ChargesFail ==
  /\ More
  /\ pc' = "failed"
  /\ periods' = <<>> /\ replies' = <<>>
  /\ UNCHANGED <<now, start, fetches, skipped, limitExceeded, before>>

FetchReturns ==
  /\ pc = "querying" /\ Len(periods) = Lookback + 1
  /\ pc' = "returned"
  /\ UNCHANGED <<now, start, periods, replies, fetches, skipped, limitExceeded, before>>

(* A month ends, perhaps between two calls of Fetch. *)
MonthEnds ==
  /\ now < LastMonth
  /\ now' = now + 1
  /\ UNCHANGED <<pc, start, periods, replies, fetches, skipped, limitExceeded, before>>

Next == StartFetch \/ ChargesReturn \/ ChargesFail \/ FetchReturns \/ MonthEnds

Spec == Init /\ [][Next]_vars

-----------------------------------------------------------------------------
(***************************************************************************)
(* Safety.                                                                 *)
(***************************************************************************)

(* A snapshot is whole: it covers every configured period, the current one *)
(* first and each of the others the month before, though a month may end   *)
(* while Fetch runs and any call may fail.                                 *)
SnapshotWhole ==
  pc = "returned" =>
    /\ Len(periods) = Lookback + 1
    /\ periods[1].month = start
    /\ \A i \in 2 .. Len(periods) : periods[i].month = periods[i - 1].month - 1

(* The total of a period is the total of the euro charges of the period,   *)
(* folded or not: nothing is lost or counted twice.                        *)
TotalExact ==
  \A i \in DOMAIN periods :
    SumFunction([j \in DOMAIN periods[i].series |-> periods[i].series[j].euros])
      = Total({c \in replies[i] : c.currency = "EUR"})

(* The limit holds, with the folded series included, and what is kept of a *)
(* period over the limit does not depend on the order of the map or of the *)
(* sort, so series do not flap from one refresh to the next: exactly the   *)
(* series with fewer than MaxSeries - 1 larger ones, equal amounts being   *)
(* told apart by labels.                                                   *)
KeptAreTheLargest ==
  \A i \in DOMAIN periods :
    LET all == AllSeries(replies[i])
        n == Len(periods[i].series)
    IN  /\ n <= MaxSeries
        /\ periods[i].folded > 0 =>
             ToSet(SubSeq(periods[i].series, 1, n - 1)) =
               {x \in all : Cardinality({y \in all : Before(y, x)}) < MaxSeries - 1}

(* No two series of a period have the same labels: Prometheus would drop   *)
(* one of them from the scrape.  The one case in which two do is that of   *)
(* the folded series, the last, next to one of euro charges that the API   *)
(* gave the labels of the folded one.                                      *)
LabelsUnique ==
  \A i \in DOMAIN periods : \A j, k \in DOMAIN periods[i].series :
    /\ j # k
    /\ periods[i].series[j].labels = periods[i].series[k].labels
    => /\ periods[i].folded > 0 /\ Len(periods[i].series) \in {j, k}
       /\ periods[i].series[j].labels = OtherLabels
       /\ \E c \in Accepted(replies[i]) : Key(c) = OtherLabels

(* A snapshot whose euro totals are incomplete, or whose series are        *)
(* folded, has been counted as such since its Fetch was called: the alerts *)
(* on the counters cannot miss it.                                         *)
IncompleteIsCounted ==
  pc = "returned" =>
    /\ (\E i \in DOMAIN replies : \E c \in replies[i] : c.currency # "EUR" /\ c.amount # 0)
         => skipped > before.skipped
    /\ limitExceeded - before.limitExceeded =
         Cardinality({i \in DOMAIN periods : periods[i].folded > 0})
=============================================================================
