# TLA+ specifications of scaleway-finops-exporter

The exporter refreshes cost and footprint data from the Scaleway APIs in the
background and serves the last good answer to Prometheus. These modules model
the concurrency, the failure handling and the aggregation of that program. TLC
checks them on small instances; TLAPS proves every invariant and action property
the runs check but one, for all values of their constants.

    tlc -workers 2 -config MCRefresher.cfg MCRefresher   # any run below
    tlapm RefresherProofs.tla                            # the proofs

Contents: [the system](#1-the-system), [the modules](#2-the-modules),
[the runs](#3-the-runs), [fairness](#4-fairness), [the proofs](#5-the-proofs),
[divergences found](#6-divergences-found), [what is left out](#7-what-is-left-out),
[plan](#8-plan).

## 1. The system

### Components, their state and their operations

| Component | Source | State | Operations |
|---|---|---|---|
| Refresher, one per enabled source | `internal/refresher` | local count of consecutive failures; atomic pointer to the snapshot; `source_up`, `source_last_success_timestamp_seconds`, `source_errors_total`, `source_refresh_duration_seconds` of its source | `New`, `Run`, `refresh`, `backoff`, `jitter`, `Snapshot`, `Ready` |
| Error classification | `internal/scaleway/errors.go` | none | `Classify`, `classifyStatus` |
| HTTP server | `internal/server` | listener, in-flight requests, `errCh` | `Run`, handlers of `/metrics`, `/healthz`, `/readyz`, `/` |
| Process | `cmd/scaleway-finops-exporter/main.go` | the wiring; errgroup, its context | `run`, `setupBilling` and the like, `addSource`, `wiring.ready` |
| Collectors | `internal/collector` | none: each holds a pointer for one scrape | `Collect`, `Describe` |
| Billing source | `internal/source/billing` | the snapshot under construction; the skipped-row counter | `Fetch`, aggregation, SKU names |
| FinOps source | `internal/source/finops` | the same; the series-limit counter | `Fetch`, `aggregate`, `fold` |
| Footprint source | `internal/source/footprint` | the snapshot under construction | `Fetch`, windows, aggregation |
| API adapters | `internal/scaleway` | the list under construction | `Consumptions`, `Taxes` (numbered pages), `Charges` (page tokens), `ImpactData` (one call) |
| API client, configuration | `internal/scaleway/client.go`, `internal/config` | none after startup | `NewClient`, `Parse`, `Validate` |
| Periods collector | `internal/collector/periods.go` | none: computed from the clock | `Collect` |
| Deployment | `deploy/` | alert rules, dashboard, manifests | read by other programs |

### Interactions

- `main` starts one goroutine per refresher and one for the HTTP server in an
  errgroup. They share one context, which SIGINT, SIGTERM or the first error
  cancels. The server starts a further goroutine that listens and reports back
  over a channel with room for one value.
- Before anything runs, `run` parses and validates the flags, resolves the
  credentials and makes the periods collector, the enabled sources with their
  refreshers, and the handler, each of which checks its own options.
- A refresher calls the `Fetch` of its source under a deadline. `Fetch` calls
  an adapter several times, one billing period or window after the other, and
  the adapter calls the API page by page.
- Scrapes and probes are HTTP requests, served by any number of goroutines.
  They read the snapshot pointers and the metrics, without a lock, while the
  refreshers write them one at a time.

### What is hard about it

- **Interleaving.** The outcome of a refresh is recorded in four steps that a
  scrape can come between. Collectors of one scrape run concurrently with each
  other. `ready` is a loop over sources that publish while it runs. The
  listener may fail at the moment of the signal.
- **Shutdown.** Cancellation can hit a refresh at any of its steps, the server
  before it listens, and requests in flight. Everybody must return, and the
  exit status must tell a clean stop from a failure.
- **Partial failure.** A snapshot is made of several calls of several pages.
  Any may fail, and days, months and the lists behind the API may change
  between two of them.
- **Time.** Interval, timeout, doubling backoff, cap and jitter combine into
  the age of the data, which shows only after several failures in a row.
- **Two clocks.** A source reads the month when its `Fetch` starts, the success
  timestamp is taken when it ends, and the periods collector reads the clock at
  each scrape. Around the end of a month the three disagree.
- **Configuration.** The same values are checked in several places, with
  defaults applied in between, and a credential may come from four.
- **Limits.** The series limit, the page limit, pages that repeat, the first
  day of a month, rows in another currency.

### What makes each component correct

| Component | Properties |
|---|---|
| Refresher | never up without data; metrics, snapshot and failure count agree; an interrupted refresh is not counted; every failure counted once; age of the data bounded; never gives up; stops when told |
| Process and server | status 0 only for a clean stop, status 1 only with a cause; a signal ends it whatever the requests do; it does not outlive its listener |
| Startup | what is accepted runs; what runs is what was asked for |
| Periods collector | names the month whose data the sources show, but for a bounded time |
| Scrapes, probes | one snapshot per source and scrape; no going back in time; readiness is true; readers never wait for a refresh |
| Sources | whole snapshots; exact totals; nothing dropped silently; deterministic and bounded series; unique labels; windows that tile the calendar |
| Adapters | nothing lost or counted twice unless the list changed or the API reported too low a total, whatever parts of an answer are missing; a bounded number of calls |

## 2. The modules

| Module | Models | Uses |
|---|---|---|
| `Classify` | the order of the cases over what an error chain wraps | |
| `Refresher` | `Run` and `refresh` of all sources, the delays, the metrics | `Classify`, `LastGoodSnapshot` |
| `LastGoodSnapshot` | abstract: what a refresher promises to its readers | |
| `Server` | `server.Run`, its goroutine, shutdown, requests | |
| `Startup` | flags, credentials, wiring, handler, in the order of `run` | |
| `Exporter` | the process: errgroup, signal, exit status | `Refresher`, `Server` |
| `Scrapes` | collectors and readiness probes reading concurrently | `LastGoodSnapshot` |
| `Rollover` | the periods collector and the sources of a scrape, over a calendar | `Refresher` |
| `FinOps`, `Billing`, `Footprint` | `Fetch` of the sources, call by call | `Footprint`: `ImpactTree` |
| `ImpactTree` | the footprint adapter: a tree of projects into rows | |
| `PageWalk`, `TokenWalk` | the walks of the billing and FinOps adapters | |
| `MCRefresher`, `MCExporter`, `MCScrapes`, `MCRollover`, `MCStartup`, `MCFinOps`, `MCBilling`, `MCFootprint`, `MCWalks` | instances for TLC | |
| `Recursion`, `RefresherProofs`, `ScrapesProofs`, `ExporterProofs`, `RolloverProofs`, `FootprintProofs`, `BillingProofs`, `FinOpsProofs` | proofs; `ExporterProofs` has those of `Startup`, the last two those of the source and of the walk of its adapter | |

Three composition steps matter. `Exporter` instantiates `Refresher` and `Server`
over a shared `ctxDone`, and its run checks that the composition still
implements `Refresher!Spec`, fairness included. `Rollover` extends `Refresher`
itself, each of its steps with what it does to the months, because how long a
month may be missed depends on the delays. `Scrapes` does not take the
detailed refreshers but `LastGoodSnapshot`, which `Refresher` implements
(`ServesLastGood`, checked; `Refinement`, proved): what `Scrapes` shows of
readers therefore holds of the code's refreshers.

How state and actions correspond to the code:

- **Refresher.** `pc` stands between two steps another goroutine can tell
  apart. `fetching` is inside `opts.Fetch`; `fetched` before the check of
  `stopping(ctx)`; `publish`, `markUp`, `stamp` before `Store`, `Set(1)` and the
  timestamp; `markDown`, `countError` before their counterparts; `waiting` in the
  `select`. A snapshot is identified by the number of the recorded attempt that
  fetched it. `left` is the time left of the attempt's deadline or of the timer.
  `since` is the age that `time() - last_success_timestamp` shows. An error is
  the set of the kinds its chain wraps.
- **Time.** `Tick` advances all timers at once, and only while every refresher
  is blocked: code between blocking calls takes no time. After cancellation
  nothing is timed.
- **Server.** `inShutdown` is the state `srv.Shutdown` sets, after which
  `Serve` returns `ErrServerClosed` even if it had not started. `net/http` and
  `web.ListenAndServe` are external and modelled from how `Run` uses them.
- **Scrapes.** `held` is the local variable `snap` of `Collect`; `first` and
  `second` stand for its first and last metric family; `ReadUp` is the collector
  of the gauge vector. `before`, `mustShow` and `wasReady` are history variables
  that only properties read.
- **Rollover.** `asked` is the month `Fetch` derived its periods from, `shown` that of
  the published snapshot; `info` and `held` are what the collectors of the scrape
  have read so far, in any order and up to `ScrapeTicks` apart. `Selected` is the
  join of the README's queries. `owed` is a history variable: the month a source
  was bound to show when the scrape started. Disabled sources have a lookback
  only, which `main.go` includes in that of the periods collector.
- **Startup.** `step` is the place in `run`; a step checks, fails with its problems
  or does its part. Flags, environment, configuration file and secret file are
  inputs. A credential is named after the place it came from. A duration is
  counted in quarters of a minute, and a panic is a failure of its step. A
  telemetry path is the sequence of its segments, each of the kind that
  `http.ServeMux` takes it for: a literal, possibly with escapes, a wildcard of any
  of the three forms, or one that does not parse. `MuxPanics` is external.
- **Sources.** Months (days, for the footprint) are numbered. One action per
  API call consumes an answer, aggregates it and updates the counters, as the
  code does between two calls; `MonthEnds` and `DayEnds` may come between any
  two. `CallFails` is any error, the deadline included. Lists the code sorts by a
  unique key are functions of the key. The footprint API answers with trees any
  node of which may be nil and with a range of days that need not be the one
  asked for, as the code does not compare the two; `warned` is what
  `checkTotals` logs. `fold` sorts with an unstable sort the entries of a map:
  `Sortings` allows every outcome. The rows of a billing report that enter a
  series are a set of positions (`Used`), over which a series sums; a SKU is
  described by the smallest position that has it (`Describe`), and its product
  stands for category and product.
- **Walks.** One action per page. The list behind the numbered pages may
  change between two calls, and the total the API reports may be any: absent, too
  low, never reached, or another one on every page. `walk = "runaway"` is the error
  behind the loop. `MCWalks` runs both walks side by side.

Definitions commented `Faulty:` are not part of any specification. Each is the
variant of a nearby definition that a plausible bug would give, and each makes
one property fail: they show that the properties are about the code.

## 3. The runs

Every run that is expected to pass explores its whole state space.

| Run | Instance | Checks | Distinct states |
|---|---|---|---|
| `MCRefresher` | one refresher, six recorded attempts, backoff 3, 6, 8, jitter 1/4 | `UpImpliesServing`, `ShutdownNotCounted`, `SettledStateAgrees`, `ErrorsAddUp`, `StalenessBounded`, `IInv`, `ShutdownCompletes`, `KeepsRefreshing`, `ServesLastGood` | 352 701 |
| `MCRefresherRetry` | the same, four attempts | violates `RetryWithinMaxBackoff` (section 6) | |
| `MCExporter` | two refreshers with one recorded attempt, the server, one request, a signal | `CleanExit`, `FailureHasCause`, `SignalEndsExporter`, `ListenFailureEndsExporter`, `RefresherSpec` | 114 741 |
| `MCScrapes` | one scraper, one probe, two sources that fail at any time and publish, one of them twice | `ReadyMeansData`, `OneSnapshotPerScrape`, `ScrapesNeverGoBack`, `NotReadyIsTrue`, `ReadersNeverWait` | 670 976 |
| `MCFinOps` | any subset of six charges per call, two periods, a limit of two series, two calls of `Fetch`; a charge may have the labels of the folded series | `TypeOK`, `SnapshotWhole`, `TotalExact`, `KeptAreTheLargest`, `LabelsUnique`, `IncompleteIsCounted` | 247 832 |
| `MCBilling` | up to two of five rows in any order, three tax reports, two periods, two calls of `Fetch` | `TypeOK`, `SnapshotWhole`, `NeverSilentlyWrong`, `CurrentNamesWin` | 515 002 |
| `MCBillingInterrupted` | the same, one call | violates `InterruptedNotRecorded` (section 6) | |
| `MCFootprint` | a calendar of months of two and three days, two calls of `Fetch` on the last day of a month and the first of the next, three trees, a reported start and end of day 2, day 5 or none each | `OnlyCompleteDays`, `MonthsTile`, `LabelledByMonth`, `SeriesFollowTree` | 83 285 |
| `MCWalks` | lists of up to seven items, three pages of two, up to two changes, totals 0, 3, 5, 7 or 9 on each page; next to it three tokens and at most three pages | `FaithfulWalk`, `WalkBounded`, `NoPageTwice` | 5 295 891 |
| `MCRollover` | one source without a lookback, a disabled one with a lookback, three recorded attempts, months of 14 ticks, scrapes of up to one | `FreshMeansCurrent`, `CurrentInScrape` | 547 455 |
| `MCStartup` | 4 332 starts: flags in and out of range, every telemetry path of up to two of ten segments, places of credentials | `ValidatedNeverRejected`, `RunsAsConfigured` | 24 788 |
| `MCStartupTelemetry` | the same | violates `EveryProblemReported` (section 6) | |

What they show:

- **The refreshers.** At any instant, a source that is up has data. Between
  attempts its snapshot, `source_up`, the timestamp and the failure count tell
  one story; refreshes and errors add up. A cancellation at any step counts
  nothing as an error and ends every refresher, also when a timer expires at the
  same time. Through six failures in a row the age of the data stays within
  the intervals, backoffs and timeouts the options promise: the bound for an
  alert such as `ScalewayExporterDataStale`.
- **The process.** Status 0 means a signal, no request left, the listener closed
  by the shutdown and no refresher left. An error of the listener is reported
  even if the `select` of `server.Run` preferred the signal. Status 1 has a
  cause. Whatever requests do, a signal ends the process, and so does a
  failing listener.
- **Readers.** A scrape never mixes two snapshots of a source, scrapes do not go
  back in time (also not behind a `source_up` an earlier scrape showed), and the
  loop of `ready` is as good as an atomic check. Neither waits for a refresher.
- **Sources.** A returned snapshot covers the configured periods of one
  reading of the clock even if a month ends meanwhile. Totals are those of the
  euro rows, folded or not; what was left out has been counted since the
  `Fetch` was called; the fold does not depend on map order. Footprint windows
  cover each complete day once, the first day of a month included, and their
  series count each SKU of the API's tree once, whatever nodes are missing. A month
  claims its own days only, unless the API reports an end outside the range asked
  for. Two series of a FinOps period have the same labels in one case only: the
  folded series and one of charges that carry its labels.
- **Walks.** What a walk of numbered pages loses was displaced by a removal, or
  cut off by a reported total that is below the length of the list; what it counts
  twice was displaced by an insertion. Of a stable list it returns the beginning,
  and all of it unless the total was too low. It makes at most `MaxPages` calls, and
  gives up only if none of the pages was the last: a list that ends with the last
  page allowed is returned. A walk of tokens collects no page twice.
- **The end of a month.** A source may show the old month for as long as its data
  may be old, plus the timeout. From then on every scrape has data for
  `offset="0"`, whatever order its collectors run in. A fresh timestamp alone does
  not tell that the data are of the current month, but one a timeout into the
  month does.
- **Startup.** `Validate` refuses every flag that a later step would refuse, as far
  as the telemetry path consists of plain literals. Of other paths `ServeMux`
  refuses some that `Validate` accepts, in a panic (section 6). The process that
  runs has exactly the enabled sources, ready functions and collectors, delays
  that satisfy `OptionsAssumption`, and each credential from the most specific
  place that has it.

### Bounds, and why they are enough

- `MaxObserved` bounds the recorded attempts of a source. Six let the backoff
  double, reach its cap and stay there, and successes and failures follow each
  other in many orders. The theorems hold for any bound.
- Delays of a few ticks keep intervals, timeouts and backoffs apart, and jitter
  by a quarter yields several delays for each. `MCErrors` has an error whose chain
  matches two cases of the classification, an interrupted request and a plain
  failure.
- Refreshers share nothing but context and clock: one alone is checked at length,
  two in `MCExporter`, and the invariants are proved for any number. Two sources
  in `MCScrapes` let a probe or a scrape read one while the other publishes; one of
  them publishes twice, so that an old snapshot can be shown after a new one.
  Scrapers share nothing at all: TLC has one, which scrapes again and again,
  and the theorems cover any number at once.
- `LastMonth`, `Days`, `MaxFetches`: the clock passes at most one month border
  during or between two calls of `Fetch`; counters are compared across two.
- The charges of `MCFinOps` are chosen to collide: one key twice, a tie, a credit
  as large as a sum, a foreign currency, an empty organization. With a limit of
  two there are periods below, at and over it. One charge has the labels of the
  folded series, and the two do meet in one period.
- `MCRollover` has one source, as sources share nothing, and no lookback, as the
  FinOps source by default: a month that is not current is then not shown at all.
  A month is longer than the bound on the age after three attempts, so that the
  bound is reached within a month; with a bound one tick smaller both properties
  fail. Attempts may begin, fail and succeed around the end of a month; a scrape of
  one tick can have it in its middle.
- `MCStartup` enumerates the values at and next to each limit, one flag at a time
  under every choice of enabled sources (a check of `Validate` reads one flag, or
  the interval and timeout of one source), and all combinations of the places
  of the three credentials, profiles and files.
- The trees of `MCFootprint`: empty; one with nil nodes of every kind and a total
  that does not add up; one with a project without a total, a SKU in a region and
  its zones, a category that occurs twice in one, and an empty region. Its calendar
  has months of different lengths, and the clock meets the last day of a month and
  the first of the next, at any point of the two fetches. Besides the days asked
  for, the API may report days before, in and behind them, or none.
- `MCWalks` begins with one list of each length up to one item more than the pages
  allowed hold: the walk does not look at the items, so that other lists of the
  length differ by names only, and it cannot tell a longer list, or an endless one,
  from that. Insertions at any place reach longer ones. Lists end before, at and
  behind a page border, and before, at and behind the last page allowed; totals are
  absent, below, between and above those lengths.
- The telemetry paths of `MCStartup` have up to two segments: empty, a dot, a name,
  the built-in endpoints, one of them escaped, each form of wildcard, and a brace
  that does not close. What `ServeMux` checks concerns one segment, two of them, or
  one that is not the last. They are combined with default flags.

Runs of the sources, of the walks and of the startup say `CHECK_DEADLOCK FALSE`:
their behaviours end when the clock and the number of calls are used up, the
walk is over, or the startup failed or is done. The runs of `Refresher`,
`Exporter`, `Rollover` and `Scrapes` check for deadlock; a process that ended
stutters by an action of its own.

## 4. Fairness

- Each refresher: weak fairness of its next step. The Go scheduler runs every
  goroutine that can run; a timer fires; `Fetch` honours its context, so that it
  returns at the deadline at the latest.
- `Tick`: weak fairness; time passes.
- Server: weak fairness of the listening goroutine and of `Run`. Opening a
  socket does not block; `srv.Shutdown` has a deadline, so that either it returns
  or it times out.
- errgroup: a member that returned is collected, and `Wait` returns.
- Scrapes: weak fairness of the handlers only. Refreshers publish or not.
- None in `Rollover`, `Startup`, the sources and the walks, whose properties are
  invariants.
- None for signals, requests, failures, changes of a list or the ends of days
  and months. In particular no request has to end.

## 5. The proofs

| Theorem | Says |
|---|---|
| `RefresherProofs!TypeCorrect` | `Spec => []TypeOK` |
| `RefresherProofs!Invariance` | `Spec => []IInv` |
| `RefresherProofs!UpImpliesServingHolds` | a source that is up serves a snapshot |
| `RefresherProofs!SettledStateAgreesHolds` | between attempts everything exported agrees |
| `RefresherProofs!ShutdownNotCountedHolds` | an interrupted refresh is never counted |
| `RefresherProofs!StalenessBoundedHolds` | the age of the data is bounded |
| `RefresherProofs!ErrorsAddUpHolds` | every failure is counted once |
| `RefresherProofs!Refinement` | `Refresher` implements the safety part of `LastGoodSnapshot` |
| `ScrapesProofs!TypeCorrect` | `Spec => []TypeOK` of the readers |
| `ScrapesProofs!OneSnapshotPerScrapeHolds` | no scrape mixes snapshots |
| `ScrapesProofs!ScrapesNeverGoBackHolds` | no scrape shows older data than one before it |
| `ScrapesProofs!ReadyMeansDataHolds` | after a 200 of `/readyz`, scrapes show data |
| `ScrapesProofs!NotReadyIsTrueHolds` | a 503 was true when the probe started |
| `ExporterProofs!TypeCorrect` | `Spec => []TypeOK` of the process |
| `ExporterProofs!RefreshersImplemented` | inside the process the refreshers do what `Refresher` says |
| `ExporterProofs!CleanExitHolds` | status 0 only for a clean stop |
| `ExporterProofs!FailureHasCauseHolds` | status 1 only with a cause |
| `ExporterProofs!ValidatedNeverRejectedHolds` | what `Validate` accepts no later step of the start refuses, but for telemetry paths that are not plain |
| `ExporterProofs!RunsAsConfiguredHolds` | the process that runs is the one that was asked for |
| `RolloverProofs!RolloverTypeCorrect` | `RolloverSpec => []RolloverTypeOK` |
| `RolloverProofs!FreshMeansCurrentHolds` | data stamped a timeout into a month are of that month |
| `RolloverProofs!CurrentInScrapeHolds` | a scrape has data for the current period once the old ones are due |
| `FootprintProofs!TypeCorrect` | `Spec => []TypeOK` of the footprint source |
| `FootprintProofs!OnlyCompleteDaysHolds` | only complete days, no empty range |
| `FootprintProofs!LabelledByMonthHolds` | a month claims its own days only, unless the API reports an end outside what was asked for |
| `FootprintProofs!MonthsTileHolds` | the windows cover every complete day once |
| `FootprintProofs!SeriesFollowTreeHolds` | every known SKU of the API's tree is counted once, under its own key |
| `BillingProofs!WalkTypeCorrect` | `WalkSpec => []WalkTypeOK` of the numbered walk |
| `BillingProofs!FaithfulWalkHolds` | what a walk loses or counts twice has a cause: a change of the list, or too low a total |
| `BillingProofs!WalkBoundedHolds` | at most `MaxPages` calls, and giving up only when no page was the last |
| `BillingProofs!TypeCorrect` | `Spec => []TypeOK` of the billing source |
| `BillingProofs!SnapshotWholeHolds` | a billing snapshot is whole |
| `BillingProofs!NeverSilentlyWrongHolds` | no euro total is silently wrong |
| `BillingProofs!CurrentNamesWinHolds` | current SKU names win |
| `FinOpsProofs!TypeCorrect` | `Spec => []TypeOK` of the FinOps source |
| `FinOpsProofs!SnapshotWholeHolds` | a FinOps snapshot is whole |
| `FinOpsProofs!TotalExactHolds` | totals are exact, folded or not |
| `FinOpsProofs!KeptAreTheLargestHolds` | the limit holds, and what is kept depends on the charges alone |
| `FinOpsProofs!LabelsUniqueHolds` | no two series have the same labels, but for the folded one and that of charges with its labels |
| `FinOpsProofs!IncompleteIsCountedHolds` | what is missing or folded has been counted |
| `FinOpsProofs!WalkTypeCorrect` | `TokenSpec => []TokenTypeOK` of the token walk |
| `FinOpsProofs!NoPageTwiceHolds` | no page twice, at most `MaxTokenPages` calls |

They hold for all constants that satisfy the assumption of the module:
`OptionsAssumption` (what `refresher.New` accepts once its defaults are applied;
`ExporterAssumption` repeats it for the process), `AttemptsAssumption` and
`ReadyOrderAssumption`, `RolloverAssumption`, `FootprintAssumption`,
`FinOpsAssumption`, `BillingAssumption`, `PageWalkAssumption`, `TokenWalkAssumption` and
`StartupAssumption`. These assumptions are types (a flag
that is parsed as a number is one, and a telemetry path a sequence of segments; the lines of a report are a sequence and their
amounts numbers; an answer has finitely many charges; the children of a node are
a sequence, with some bound on its length), what the code has
checked (`New`, `Validate`), and that a calendar's months are in order. No theorem
has a hypothesis beyond them. Type correctness of the process, of the readers, of
the footprint source and of both walks is proved rather than checked by a run.

**The inductive invariant of the refresher.** The properties alone are not
inductive: that a waiting source's metrics agree depends on where the attempt
stood when each was set. `IInv` says what holds at each `pc`: `BetweenAttempts`
before the outcome is recorded, `Unrecorded` once the histogram has counted the
attempt and nothing else has, `Published` from the store on, and both again at
`refreshed`, where the count of failures has yet to follow. `ReasonInv` carries the
fact behind `ShutdownNotCounted`: a result that wraps `context.Canceled` implies
that the context is done, so that only uncancelled results get past the check.
`AgeInv` adds to the age of the data the time the timer or the attempt still
has; without it the bound could be used up by time not yet passed. As refreshers
share no variable but `ctxDone` and the clock, the proof takes one source's step
(`SourceStep`: five lemmas, one per part), the others' stuttering (`OtherSource`),
`CancelStep` and `TickStep`. `CountInv` does for the sum of the error counters what
`IInv` does for the rest: at each `pc` it compares them with the recorded
attempts, the current one being counted in `observed` first and under a reason
last.

**Recursion and sums.** `Doubled` and `AgeLimit` are recursive functions. To use
their equations one must know that such a function exists. `Recursion` proves it
once (`PrimitiveRecursion`) from the well-foundedness of inclusion on finite
sets, without an induction theorem that takes an operator: what is proved by
induction is that a set has every element (`NatSetInduction`, `FiniteSetInduction`).
The sums of the community modules are folds over a set; `SumOverSet` proves that
the fold exists and takes out any element, and from it follow the laws that
totals and counters need (`SumAdd`, `SumZero`, `SumUnion`, `SumScaled`, `SumPartition`: grouping by
a key loses nothing).

**The readers** (`ReadersInv`). A source's snapshot is never older than one somebody
holds (`PublishedInv`); what a scrape emits is what it holds, which is no older than
what had been shown when it started (`ScrapeInv`); a source that was ready when
a scrape started is held by it (`ReadyInv`); and as long as a probe that started
with a source ready has not answered, that source is still to be asked
(`ProbeInv`). With `Refinement` the theorems carry over to the refreshers.

**The process** (`ProcessInv`). `ListenerInv` follows the outcome of
`ListenAndServe` through the channel, so that an error is nowhere lost;
`RunInv` says for each step of `server.Run` what it has to show for the value it
returns; `GroupInv` that the context is done only because of a signal or an
error of the group, and that `Wait` has returned only after every member. The
proof cites the theorems of the refreshers through `RP == INSTANCE
RefresherProofs`.

**The start** (`StartInv`). `Progress`: once past `parse` the flags have no problem
`Validate` knows, and a failed step stays where it failed. `Resolved`: the client's
credentials are those of `Override(LoadProfile)`, none of them empty, which makes
them the first of `AccessOf`, `SecretOf` and `OrgOf`. `Wired`: runners, ready functions
and collectors are those of the enabled sources whose step is over. That
`RefresherAccepts` then never fails uses that a validated interval is at least a
minute, twice the default backoff; that the handler is built, that no path of plain
literals other than the built-in ones is one `ServeMux` panics on (`PanicsNotPlain`).

**The month** (`CalendarInv`). If the month began before `Fetch` did, it is the month
asked for, then the month published (`MonthInv`, one conjunct per `pc`). While
`Fetch` runs, the time it has taken is `Timeout - left`, which is what makes the
invariant inductive: the deadline bounds how far the stamp lies behind the reading
of the clock. `RolloverProofs` builds on the types and steps of `RefresherProofs`.

**The scrape** (`ScrapeInv`). A published snapshot has a timestamp, unless the attempt
that published it is about to set it (`Announced`); months are shown in the order
they are asked for, and never before they began (`InOrder`). With `AgeInv`, which
bounds the age of the data, a source that is due does show the current month
(`DueShown`). What a scrape in progress holds of a source that owed it a month when
it started is of that month or the next, and at most one month has ended since
(`HeldInv`), which is what the join of `CurrentInScrape` needs, whichever collector
ran first.

**The footprint source** (`FetchInv`). Every query so far is a non-empty range of
complete days. That a month reported within what was asked for is of that month
(`MonthsInv`, with `Vouched`) uses that the window starts with its month and that
the first day of the next one bounds it, as `FirstDay` increases. `MonthsTile`
needs to know which windows those were:
`AskedInv` says that the queries are the windows in order, without the current
month's on its first day, so that each one ends where the one asked for before
it starts.

`SeriesFollowTree` has two halves. That the i-th reply filled the window it was asked
for is `RepliesInv`, on top of `AskedInv`: no window is skipped once one was replied
to. That its rows are the tree's SKUs is about `FlattenSeq`: `ListsAll` says that a
sequence has the values of a function on a set once each, in some order;
`ListsParts` proves by induction that lists of the parts of a set, flattened, list
the set, and the levels of the tree apply it in turn (`SkusListed`, `ZoneListed`,
`RegionListed`, `ProjectListed`, `RowsListed`). What is listed has the same sums
(`ListedSum`), so that the series follow. `Tolerance` is the arithmetic of
`checkTotals`, for totals of either sign.

**The billing source** (`SourceInv`). Each period is the aggregate of the reports kept
for it, both of its month, and if one of them had a row to skip the counter has
grown (`PeriodInv`). `NamesInv` is `CurrentNamesWin` for the periods so far: a
period added behind the others cannot change a name they have. Sums by key are
the sum of all used rows by `SumPartition`.

**The FinOps source** (`FetchInv`). Each period is in `Aggregates` of the reply kept for it
(`Aggregated`), and the counters grew by what these replies lack (`Counted`). What is
hard is not the steps but `Aggregates`: `Before` is a strict total order on series with
distinct labels, so that a finite set of them has exactly one sorting; its n-th
element is the one with n - 1 before it; and the sum over a sequence without
repetitions is that over its elements, which makes the folded series complete the
total.

**The walks.** Of the numbered walk, `FaithInv` compares what was collected with the
part of the list before the page to ask for: an item not collected is still to
come unless one was removed (`NothingMissed`), none that is to come was collected
unless one was inserted (`NothingTwice`), and without either the walk has a
prefix (`NothingElse`). `CallsInv` counts: each call but the last brought items and moved
to the next page, and the total was still ahead. `InsertItems` and `RemoveItems` say how far an item moves. Of the
token walk, collected pages are those of seen tokens, the token to ask for next
was not collected, and `tokenPage` counts the calls.

Only model-checked:

- Liveness, out of the prover's reach under fairness: `ShutdownCompletes`,
  `KeepsRefreshing`, `SignalEndsExporter`, `ListenFailureEndsExporter`, `ReadersNeverWait`,
  and the fairness in `ServesLastGood` and `RefresherSpec`, whose safety parts
  are `Refinement` and `RefreshersImplemented`.

## 6. Divergences found

1. **Retries may exceed `MaxBackoff`.** `Run` jitters the backoff after it was
   capped (`refresher.go:142`), while the comments of `Options` say that `MaxBackoff`
   caps the backoff and that the jitter spreads successful refreshes
   (`refresher.go:33`, `:35`), and ADR 0001 that failures back off up to the refresh
   interval. `MCRefresherRetry` waits 9 ticks with a `MaxBackoff` of 8. The bound the
   code does keep is `StalenessBounded`.
2. **An interrupted refresh is recorded in a metric.** The sources count rows
   of another currency while `Fetch` runs (`billing.go:258`), so that a refresh
   interrupted after its first period has incremented
   `source_errors_total{reason="unexpected_currency"}`, while `refresher.go:126` says
   that an interrupted refresh is not recorded in the metrics.
   `MCBillingInterrupted` shows it. `ShutdownNotCounted` is what does hold: the
   refresh itself counts nothing.

3. **A telemetry path that is accepted stops the exporter.** `Validate` only asks
   for a leading slash and excludes `/`, `/healthz` and `/readyz`
   (`config.go:209`). The path then becomes a pattern of `http.ServeMux`
   (`server.go:46`), which panics on one that does not parse (`/{`, `/{a}/{a}`), is not
   clean (`//metrics`) or is taken: `/{$}`, the pattern of the landing page. The README
   says that the configuration is validated at startup and every problem is
   reported at once. `MCStartupTelemetry` shows it. `ValidatedNeverRejected` is what
   does hold.

One more was met while modelling the startup and has no run of its own:

4. **The periods collector names periods nobody exports.** Its lookback is the
   largest of the three flags, those of disabled sources included (`main.go:83`).
   With only the FinOps source enabled and default flags, `period_info` has the
   previous month, of which nothing is exported; the README and the metric's help
   call them the exported periods. `RunsAsConfigured` says what holds:
   every exported period is named.

## 7. What is left out

- **Floats.** Amounts are integers. Rounding of sums, of `scw.Money.ToFloat`, of
  the `float32` conversions of the footprint adapter and of `jitter` (whose upper
  bound rounding might touch) is not modelled.
- **Calendar and strings.** Months and names are numbers or model values;
  `time.Date` normalisation is taken as the arithmetic it performs.
- **Conversion of rows and charges** in the billing and FinOps adapters, one record
  into another, nil items dropped; the unit of a billing row, which is no part of its
  key.
- **Landing page, `/healthz`, middleware, TLS**: no state.
- **Parsing of flags**, whose outcome is an input of `Startup`, and the validation
  of credentials by the SDK, which is nondeterministic there.
- **Months without data**: on the first day of a month the footprint source
  publishes an empty current month, which `Rollover` counts as showing the month.
- **Alert rules, dashboard, manifests**: configuration of other programs.
- **Metric families and labels** a collector emits, beyond the first and the last.
- **Time after cancellation**, and the length of the shutdown timeout: it
  expires or not.

## 8. Plan

Done: the startup; the refresher with its abstraction; the composition into the
process; readers over the abstraction; the end of a month; the three sources; the
two walks and the footprint adapter. Proofs of every invariant and action
property that a run checks.

Next, in this order:

1. A refinement of the readers: that `Scrapes` over the refreshers themselves
   implements `Scrapes` over `LastGoodSnapshot`.
2. Larger instances: `MCFinOps` with charges per resource and with a limit of one;
   `MCBilling` without a project filter.
