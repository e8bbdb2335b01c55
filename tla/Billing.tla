-------------------------------- MODULE Billing --------------------------------
(***************************************************************************)
(* The billing source (internal/source/billing/billing.go): Fetch asks the *)
(* API for the consumption and then for the taxes of the current and of    *)
(* the previous billing periods, and aggregates each pair of reports.      *)
(*                                                                         *)
(* Months are numbered; amounts are integers (floats in the code, whose    *)
(* rounding is not modelled).  A row's product stands for its category and *)
(* product; its unit, which only describes its SKU, is left out.  Lists    *)
(* sorted by a unique key are functions of it.                             *)
(* The clock, the reports of the API, the outcome of each call and the     *)
(* moment of the shutdown are the environment's.                           *)
(***************************************************************************)
EXTENDS Integers, Sequences, FiniteSets, Functions, FiniteSetsExt

CONSTANTS
  ConsumptionReports, \* what Consumptions may return: rows, discount, updated
  TaxReports,         \* what Taxes may return: taxes, updated
  Org,                \* Options.OrganizationID
  Projects,           \* Options.ProjectIDs; empty means all
  Lookback,           \* Options.LookbackPeriods
  NoName,             \* the empty organization or SKU
  LastMonth,          \* bound: the month at which the clock stops
  MaxFetches          \* bound: calls of Fetch in a behaviour

(* The rows or the taxes of a report. *)
IsList(lines) ==
  /\ Len(lines) \in Nat /\ DOMAIN lines = 1 .. Len(lines)
  /\ \A i \in DOMAIN lines : lines[i].amount \in Int

ASSUME BillingAssumption ==
  /\ \A c \in ConsumptionReports : IsList(c.rows) /\ c.discount \in Int /\ c.updated \in Nat
  /\ \A t \in TaxReports : IsList(t.taxes) /\ t.updated \in Nat
  /\ Lookback \in Nat /\ LastMonth \in Nat /\ MaxFetches \in Nat
  /\ Org # NoName

VARIABLES
  now,      \* the current month
  ctxDone,  \* the shutdown has canceled the context of Fetch
  pc,       \* where Fetch is, or how it ended
  start,    \* the month Now() returned
  pending,  \* the consumption report held while Taxes is called
  periods,  \* snap.Periods, most recent first
  skus,     \* the SKUs described so far
  skipped,  \* errors_total{reason="unexpected_currency"}
  fetches,  \* history: the calls of Fetch so far
  replies,  \* history: the reports each period was built from
  before    \* history: skipped when Fetch was called

vars == <<now, ctxDone, pc, start, pending, periods, skus, skipped, fetches, replies, before>>

NoReport == <<>>

Ended == {"returned", "failed", "interrupted"}

TypeOK ==
  /\ now \in 0 .. LastMonth /\ start \in 0 .. LastMonth
  /\ ctxDone \in BOOLEAN
  /\ pc \in {"idle", "consumptions", "taxes"} \cup Ended
  /\ (pc = "taxes") <=> (pending # NoReport)
  /\ Len(periods) \in 0 .. Lookback + (IF pc \in {"consumptions", "returned"} THEN 1 ELSE 0)
  /\ \A i \in DOMAIN periods :
       /\ \A k \in DOMAIN periods[i].consumption : periods[i].consumption[k] \in Int
       /\ \A d \in DOMAIN periods[i].taxes : periods[i].taxes[d].euros \in Int
  /\ NoName \notin DOMAIN skus
  /\ skipped \in Nat /\ fetches \in 0 .. MaxFetches

Init ==
  /\ now = 0 /\ start = 0
  /\ ctxDone = FALSE
  /\ pc = "idle"
  /\ pending = NoReport
  /\ periods = <<>> /\ replies = <<>>
  /\ skus = <<>>
  /\ skipped = 0 /\ before = 0 /\ fetches = 0

(***************************************************************************)
(* Aggregation of the reports of a period.                                 *)
(***************************************************************************)

AcceptCurrency(m) == m.currency = "EUR" \/ m.amount = 0

Selected(row) == Projects = {} \/ row.project \in Projects

(* The positions of the rows and of the taxes that are added to the series. *)
Used(rows) == {i \in DOMAIN rows : Selected(rows[i]) /\ AcceptCurrency(rows[i])}
UsedTaxes(taxes) == {i \in DOMAIN taxes : AcceptCurrency(taxes[i])}

(* Faulty: only consumption is counted. *)
SkippedRowsOnly(rows, taxes) ==
  Cardinality({i \in DOMAIN rows : Selected(rows[i])} \ Used(rows))

(* The rows of a selected project and the taxes that are dropped. *)
Skipped(rows, taxes) ==
  Cardinality({i \in DOMAIN rows : Selected(rows[i])} \ Used(rows))
    + Cardinality(DOMAIN taxes \ UsedTaxes(taxes))

Total(lines, positions) == SumFunction([i \in positions |-> lines[i].amount])

Key(row) == << IF row.org = NoName THEN Org ELSE row.org, row.project, row.name, row.product >>

ConsumptionSeries(rows) ==
  [k \in {Key(rows[i]) : i \in Used(rows)} |->
     Total(rows, {i \in Used(rows) : Key(rows[i]) = k})]

(* A series takes its rate from the first tax of its description. *)
TaxSeries(taxes) ==
  [d \in {taxes[i].description : i \in UsedTaxes(taxes)} |->
     LET same == {i \in UsedTaxes(taxes) : taxes[i].description = d}
     IN  [euros |-> Total(taxes, same), rate |-> taxes[Min(same)].rate]]

(* The positions of the rows that describe a SKU, and the SKUs of them all. *)
Describing(rows, s) == {i \in Used(rows) : rows[i].sku = s}
SKUs(rows) == {rows[i].sku : i \in Used(rows)} \ {NoName}

(* Faulty: the last description found wins. *)
DescribeLast(known, rows) ==
  [s \in DOMAIN known \cup SKUs(rows) |->
     IF s \notin SKUs(rows) THEN known[s] ELSE rows[Max(Describing(rows, s))].product]

(* Faulty: the empty SKU is described, too. *)
DescribeEmpty(known, rows) ==
  [s \in DOMAIN known \cup {rows[i].sku : i \in Used(rows)} |->
     IF s \in DOMAIN known THEN known[s] ELSE rows[Min(Describing(rows, s))].product]

(* A SKU keeps the first description found. *)
Describe(known, rows) ==
  [s \in DOMAIN known \cup SKUs(rows) |->
     IF s \in DOMAIN known THEN known[s] ELSE rows[Min(Describing(rows, s))].product]

Aggregate(month, c, t) ==
  [month |-> month,
   updated |-> Max({c.updated, t.updated}),
   consumption |-> ConsumptionSeries(c.rows),
   discount |-> c.discount,
   taxes |-> TaxSeries(t.taxes)]

-----------------------------------------------------------------------------

(* Faulty: the clock is read for each call. *)
MonthNow == now - Len(periods)

(* The month of the calls being made: Fetch reads the clock once. *)
Month == start - Len(periods)

StartFetch ==
  /\ pc \in {"idle"} \cup Ended /\ fetches < MaxFetches
  /\ pc' = "consumptions"
  /\ start' = now
  /\ periods' = <<>> /\ replies' = <<>> /\ skus' = <<>>
  /\ fetches' = fetches + 1
  /\ before' = skipped
  /\ UNCHANGED <<now, ctxDone, pending, skipped>>

ConsumptionsReturn ==
  /\ pc = "consumptions" /\ Len(periods) <= Lookback
  /\ \E c \in ConsumptionReports : pending' = [month |-> Month, report |-> c]
  /\ pc' = "taxes"
  /\ UNCHANGED <<now, ctxDone, start, periods, skus, skipped, fetches, replies, before>>

(* Taxes returns and the period is aggregated. *)
TaxesReturn ==
  /\ pc = "taxes"
  /\ \E t \in TaxReports :
       LET c == pending.report
       IN  /\ periods' = Append(periods, Aggregate(Month, c, t))
           /\ skus' = Describe(skus, c.rows)
           /\ skipped' = skipped + Skipped(c.rows, t.taxes)
           /\ replies' = Append(replies, [consumptions |-> pending.month, taxes |-> Month,
                                          rows |-> c.rows, lines |-> t.taxes])
  /\ pending' = NoReport
  /\ pc' = "consumptions"
  /\ UNCHANGED <<now, ctxDone, start, fetches, before>>

(* A call fails, perhaps because of the shutdown: Fetch returns no snapshot. *)
CallFails ==
  /\ \/ pc = "taxes"
     \/ pc = "consumptions" /\ Len(periods) <= Lookback
  /\ pc' = IF ctxDone THEN "interrupted" ELSE "failed"
  /\ pending' = NoReport
  /\ periods' = <<>> /\ replies' = <<>> /\ skus' = <<>>
  /\ UNCHANGED <<now, ctxDone, start, skipped, fetches, before>>

FetchReturns ==
  /\ pc = "consumptions" /\ Len(periods) = Lookback + 1
  /\ pc' = "returned"
  /\ UNCHANGED <<now, ctxDone, start, pending, periods, skus, skipped, fetches, replies, before>>

(* A month ends, perhaps between two calls of Fetch. *)
MonthEnds ==
  /\ now < LastMonth
  /\ now' = now + 1
  /\ UNCHANGED <<ctxDone, pc, start, pending, periods, skus, skipped, fetches, replies, before>>

Shutdown ==
  /\ ~ ctxDone
  /\ ctxDone' = TRUE
  /\ UNCHANGED <<now, pc, start, pending, periods, skus, skipped, fetches, replies, before>>

Next ==
  \/ StartFetch \/ ConsumptionsReturn \/ TaxesReturn \/ CallFails \/ FetchReturns
  \/ MonthEnds \/ Shutdown

Spec == Init /\ [][Next]_vars

-----------------------------------------------------------------------------
(***************************************************************************)
(* Safety.                                                                 *)
(***************************************************************************)

(* A snapshot is whole: it covers every configured period, the current one *)
(* first, and each is built from the consumption and the taxes of its own  *)
(* month, though a month may end between the two calls and any of them may *)
(* fail.                                                                   *)
SnapshotWhole ==
  pc = "returned" =>
    /\ Len(periods) = Lookback + 1
    /\ \A i \in DOMAIN periods :
         /\ periods[i].month = start - (i - 1)
         /\ replies[i].consumptions = periods[i].month
         /\ replies[i].taxes = periods[i].month

Consumed(period) == SumFunction(period.consumption)
Taxed(period) == SumFunction([d \in DOMAIN period.taxes |-> period.taxes[d].euros])

(* Amounts of another currency, and the consumption of other projects, are *)
(* in no series, while taxes are never filtered by project.                *)
OnlyEuros ==
  \A i \in DOMAIN periods :
    LET rows == replies[i].rows
        lines == replies[i].lines
    IN  /\ Consumed(periods[i]) = Total(rows, {j \in DOMAIN rows :
                                           rows[j].currency = "EUR" /\ Selected(rows[j])})
        /\ Taxed(periods[i]) = Total(lines, {j \in DOMAIN lines : lines[j].currency = "EUR"})

(* A euro total is never silently wrong (ADR 0003): it is the total of the *)
(* euro rows of the selected projects, or of the euro taxes; and if it     *)
(* differs from what the API reported, whatever the currency, a skipped    *)
(* row has been counted since Fetch was called.                            *)
NeverSilentlyWrong ==
  pc = "returned" =>
    /\ OnlyEuros
    /\ \A i \in DOMAIN periods :
         LET rows == replies[i].rows
             lines == replies[i].lines
         IN  \/ skipped > before
             \/ /\ Consumed(periods[i]) = Total(rows, {j \in DOMAIN rows : Selected(rows[j])})
                /\ Taxed(periods[i]) = Total(lines, DOMAIN lines)

(* Every SKU of a returned snapshot is described once, by its first row in *)
(* the most recent period that has one: current names win.                 *)
CurrentNamesWin ==
  pc = "returned" =>
    /\ DOMAIN skus = UNION {SKUs(replies[i].rows) : i \in DOMAIN replies}
    /\ \A s \in DOMAIN skus :
         \E i \in DOMAIN replies : \E j \in Describing(replies[i].rows, s) :
           /\ skus[s] = replies[i].rows[j].product
           /\ \A k \in DOMAIN replies : \A l \in Describing(replies[k].rows, s) :
                i < k \/ (i = k /\ j <= l)

(* refresher.go:126: a refresh interrupted by shutdown is not recorded in  *)
(* the metrics.  The code counts the rows its first periods have skipped.  *)
InterruptedNotRecorded == pc = "interrupted" => skipped = before
=============================================================================
