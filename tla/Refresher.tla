------------------------------ MODULE Refresher ------------------------------
(***************************************************************************)
(* The background refreshers of the exporter                               *)
(* (internal/refresher/refresher.go and metrics.go), one per source.       *)
(*                                                                         *)
(* Each refresher is one goroutine executing Run.  Its program counter     *)
(* stands between two steps another goroutine (a scrape, a readiness       *)
(* probe, the shutdown) can tell apart: the check of ctx, each Prometheus  *)
(* call and the store of the snapshot are steps of their own.  The         *)
(* refreshers share only the context, the clock and the metric vectors,    *)
(* of which each touches the series of its own source.                     *)
(*                                                                         *)
(* Time is discrete and passes (Tick) only while every refresher is inside *)
(* Fetch or waits for its timer: the code between two blocking calls takes *)
(* no time.  The delays and the timeout are in ticks.                      *)
(***************************************************************************)
EXTENDS Integers, Functions, Classify

CONSTANTS
  Sources,      \* the enabled sources
  Errors,       \* the errors Fetch may return, each the set of its kinds
  Interval,     \* Options.Interval   of each source
  Timeout,      \* Options.Timeout    of each source
  MinBackoff,   \* Options.MinBackoff of each source
  MaxBackoff,   \* Options.MaxBackoff of each source
  JitterNum,    \* Options.JitterFraction is JitterNum / JitterDen
  JitterDen,
  MaxObserved   \* bound: recorded refreshes of a source in a behaviour

(* What New accepts, its defaults applied.  New lets a negative MinBackoff *)
(* through, but no caller sets the field: it is always DefaultMinBackoff.  *)
(* A jitter fraction of 0 is replaced by the default.                      *)
ASSUME OptionsAssumption ==
  /\ Errors \subseteq SUBSET Kinds
  /\ Interval   \in [Sources -> Nat \ {0}]
  /\ Timeout    \in [Sources -> Nat \ {0}]
  /\ MinBackoff \in [Sources -> Nat \ {0}]
  /\ MaxBackoff \in [Sources -> Nat \ {0}]
  /\ \A s \in Sources : MinBackoff[s] <= MaxBackoff[s]
  /\ JitterDen \in Nat \ {0}
  /\ JitterNum \in 1 .. JitterDen - 1
  /\ MaxObserved \in Nat \ {0}

VARIABLES
  ctxDone,      \* the context of every Run is canceled
  pc,           \* where each refresher stands
  result,       \* Ok or the error of the attempt in progress
  failures,     \* Run's local count of consecutive failures
  left,         \* ticks left of the attempt's deadline or of the timer
  snapshot,     \* the attempt that fetched the published snapshot, 0 for nil
  up,           \* source_up
  since,        \* time() - last_success_timestamp, NoStamp while absent
  errors,       \* source_errors_total by reason
  observed      \* count of the refresh duration histogram

vars == <<ctxDone, pc, result, failures, left, snapshot, up, since, errors,
          observed>>

Ok == {"ok"}
NoStamp == -1

(* The error of an attempt whose Fetch returned neither a snapshot nor an  *)
(* error: it wraps nothing.                                                *)
NilSnapshot == {}

Pcs == {"refresh", "fetching", "fetched",
        "publish", "markUp", "stamp", "markDown", "countError",
        "refreshed", "waiting", "stopped"}

TypeOK ==
  /\ ctxDone \in BOOLEAN
  /\ pc \in [Sources -> Pcs]
  /\ result \in [Sources -> Errors \cup {NilSnapshot, Ok}]
  /\ failures \in [Sources -> Nat]
  /\ left \in [Sources -> Nat]
  /\ snapshot \in [Sources -> Nat]
  /\ up \in [Sources -> {0, 1}]
  /\ since \in [Sources -> Nat \cup {NoStamp}]
  /\ errors \in [Sources -> [Reasons -> Nat]]
  /\ observed \in [Sources -> Nat]

(***************************************************************************)
(* Delays.                                                                 *)
(***************************************************************************)

(* d after the doubling loop of backoff, for the given number of failures. *)
Doubled(s) ==
  LET d[n \in Nat] == IF n <= 1 THEN MinBackoff[s]
                      ELSE IF d[n - 1] < MaxBackoff[s] THEN 2 * d[n - 1]
                      ELSE d[n - 1]
  IN  d

Backoff(s, n) == IF Doubled(s)[n] < MaxBackoff[s] THEN Doubled(s)[n]
                 ELSE MaxBackoff[s]

(* Rand may return any number of [0, 1): jitter(d) is any whole number     *)
(* obtained by truncating a value of [d*(1-f), d*(1+f)).                   *)
MinJittered(d) == (d * (JitterDen - JitterNum)) \div JitterDen
MaxJittered(d) == (d * (JitterDen + JitterNum) + JitterDen - 1) \div JitterDen - 1
Jittered(d) == MinJittered(d) .. MaxJittered(d)

-----------------------------------------------------------------------------

Init ==
  /\ ctxDone = FALSE
  /\ pc = [s \in Sources |-> "refresh"]
  /\ result = [s \in Sources |-> Ok]
  /\ failures = [s \in Sources |-> 0]
  /\ left = [s \in Sources |-> 0]
  /\ snapshot = [s \in Sources |-> 0]
  /\ up = [s \in Sources |-> 0]      \* New creates the series
  /\ since = [s \in Sources |-> NoStamp]
  /\ errors = [s \in Sources |-> [r \in Reasons |-> 0]]
  /\ observed = [s \in Sources |-> 0]

Goto(s, from, to) == pc[s] = from /\ pc' = [pc EXCEPT ![s] = to]

(* Run calls refresh, which starts an attempt with a deadline. *)
BeginRefresh(s) ==
  /\ Goto(s, "refresh", "fetching")
  /\ left' = [left EXCEPT ![s] = Timeout[s]]
  /\ UNCHANGED <<ctxDone, result, failures, snapshot, up, since, errors, observed>>

(* Fetch returns a snapshot, an error or neither, at the deadline at the   *)
(* latest.  It gives context.Canceled only if ctx was canceled by then.    *)
(* A deadline error may come earlier than the attempt's own deadline: the  *)
(* HTTP client has a timeout of its own, which wraps DeadlineExceeded.     *)
FetchReturns(s) ==
  /\ Goto(s, "fetching", "fetched")
  /\ \E r \in Errors \cup {NilSnapshot, Ok} :
       /\ Wraps(r, {"canceled"}) => ctxDone
       /\ result' = [result EXCEPT ![s] = r]
  /\ left' = [left EXCEPT ![s] = 0]
  /\ UNCHANGED <<ctxDone, failures, snapshot, up, since, errors, observed>>

(* refresh returns early: the attempt was interrupted by the shutdown. *)
Abandon(s) ==
  /\ ctxDone
  /\ Goto(s, "fetched", "refreshed")
  /\ UNCHANGED <<ctxDone, result, failures, left, snapshot, up, since, errors, observed>>

(* Faulty: the snapshot is not stored. *)
ObserveWithoutStore(s) ==
  /\ ~ ctxDone
  /\ Goto(s, "fetched", IF result[s] = Ok THEN "markUp" ELSE "markDown")
  /\ observed' = [observed EXCEPT ![s] = @ + 1]
  /\ UNCHANGED <<ctxDone, result, failures, left, snapshot, up, since, errors>>

(* Faulty: the context is not checked. *)
ObserveUnchecked(s) ==
  /\ Goto(s, "fetched", IF result[s] = Ok THEN "publish" ELSE "markDown")
  /\ observed' = [observed EXCEPT ![s] = @ + 1]
  /\ UNCHANGED <<ctxDone, result, failures, left, snapshot, up, since, errors>>

(* ctx was not canceled when refresh checked it: the outcome is recorded,  *)
(* whatever happens to ctx from here on.                                   *)
Observe(s) ==
  /\ ~ ctxDone
  /\ Goto(s, "fetched", IF result[s] = Ok THEN "publish" ELSE "markDown")
  /\ observed' = [observed EXCEPT ![s] = @ + 1]
  /\ UNCHANGED <<ctxDone, result, failures, left, snapshot, up, since, errors>>

(* r.snapshot.Store(snap). *)
Publish(s) ==
  /\ Goto(s, "publish", "markUp")
  /\ snapshot' = [snapshot EXCEPT ![s] = observed[s]]
  /\ UNCHANGED <<ctxDone, result, failures, left, up, since, errors, observed>>

(* Faulty: the success is not stamped. *)
MarkUpUnstamped(s) ==
  /\ Goto(s, "markUp", "refreshed")
  /\ up' = [up EXCEPT ![s] = 1]
  /\ UNCHANGED <<ctxDone, result, failures, left, snapshot, since, errors, observed>>

MarkUp(s) ==
  /\ Goto(s, "markUp", "stamp")
  /\ up' = [up EXCEPT ![s] = 1]
  /\ UNCHANGED <<ctxDone, result, failures, left, snapshot, since, errors, observed>>

StampSuccess(s) ==
  /\ Goto(s, "stamp", "refreshed")
  /\ since' = [since EXCEPT ![s] = 0]
  /\ UNCHANGED <<ctxDone, result, failures, left, snapshot, up, errors, observed>>

(* Faulty: a failure takes the snapshot back. *)
MarkDownAndClear(s) ==
  /\ Goto(s, "markDown", "countError")
  /\ up' = [up EXCEPT ![s] = 0]
  /\ snapshot' = [snapshot EXCEPT ![s] = 0]
  /\ UNCHANGED <<ctxDone, result, failures, left, since, errors, observed>>

MarkDown(s) ==
  /\ Goto(s, "markDown", "countError")
  /\ up' = [up EXCEPT ![s] = 0]
  /\ UNCHANGED <<ctxDone, result, failures, left, snapshot, since, errors, observed>>

(* The reason an error is counted under: a deadline is always a timeout,   *)
(* whatever the Classify option says.                                      *)
Reason(err) == IF Wraps(err, {"deadline"}) THEN "timeout" ELSE Classify(err)

(* Faulty: an error is also counted under a reason of its own. *)
CountErrorTwice(s) ==
  /\ Goto(s, "countError", "refreshed")
  /\ errors' = [errors EXCEPT ![s][Reason(result[s])] = @ + 1, ![s]["unknown"] = @ + 1]
  /\ UNCHANGED <<ctxDone, result, failures, left, snapshot, up, since, observed>>

CountError(s) ==
  /\ Goto(s, "countError", "refreshed")
  /\ errors' = [errors EXCEPT ![s][Reason(result[s])] = @ + 1]
  /\ UNCHANGED <<ctxDone, result, failures, left, snapshot, up, since, observed>>

(* Run returns nil after a refresh. *)
Stop(s) ==
  /\ ctxDone
  /\ Goto(s, "refreshed", "stopped")
  /\ UNCHANGED <<ctxDone, result, failures, left, snapshot, up, since, errors, observed>>

(* Faulty: a success does not reset the failures. *)
NextFailuresKept(s) == IF result[s] = Ok THEN failures[s] ELSE failures[s] + 1

NextFailures(s) == IF result[s] = Ok THEN 0 ELSE failures[s] + 1

(* Faulty: the backoff is one doubling ahead. *)
NextDelayTooLong(s) == IF result[s] = Ok THEN Interval[s] ELSE Backoff(s, failures[s] + 2)

NextDelay(s) == IF result[s] = Ok THEN Interval[s] ELSE Backoff(s, NextFailures(s))

(* Faulty: Run returns the error of an attempt. *)
ScheduleOrGiveUp(s) ==
  /\ ~ ctxDone
  /\ Goto(s, "refreshed", IF result[s] = Ok THEN "waiting" ELSE "stopped")
  /\ \E d \in Jittered(NextDelay(s)) : left' = [left EXCEPT ![s] = d]
  /\ UNCHANGED <<ctxDone, result, failures, snapshot, up, since, errors, observed>>

(* Run chooses the delay to the next attempt and arms the timer. *)
ScheduleNext(s) ==
  /\ ~ ctxDone
  /\ Goto(s, "refreshed", "waiting")
  /\ failures' = [failures EXCEPT ![s] = NextFailures(s)]
  /\ \E d \in Jittered(NextDelay(s)) : left' = [left EXCEPT ![s] = d]
  /\ UNCHANGED <<ctxDone, result, snapshot, up, since, errors, observed>>

(* Faulty: Run sleeps, deaf to the context. *)
StopAfterSleep(s) ==
  /\ ctxDone /\ left[s] = 0
  /\ Goto(s, "waiting", "stopped")
  /\ UNCHANGED <<ctxDone, result, failures, left, snapshot, up, since, errors, observed>>

(* The select of Run: with ctx canceled and the timer expired, either case *)
(* may be taken.                                                           *)
StopWaiting(s) ==
  /\ ctxDone
  /\ Goto(s, "waiting", "stopped")
  /\ left' = [left EXCEPT ![s] = 0]
  /\ UNCHANGED <<ctxDone, result, failures, snapshot, up, since, errors, observed>>

TimerFires(s) ==
  /\ left[s] = 0
  /\ observed[s] < MaxObserved
  /\ Goto(s, "waiting", "refresh")
  /\ UNCHANGED <<ctxDone, result, failures, left, snapshot, up, since, errors, observed>>

Refresh(s) ==
  \/ BeginRefresh(s) \/ FetchReturns(s) \/ Abandon(s) \/ Observe(s)
  \/ Publish(s) \/ MarkUp(s) \/ StampSuccess(s)
  \/ MarkDown(s) \/ CountError(s)
  \/ Stop(s) \/ ScheduleNext(s) \/ StopWaiting(s) \/ TimerFires(s)

(* A signal arrives, or another component of the process failed. *)
Cancel ==
  /\ ~ ctxDone
  /\ ctxDone' = TRUE
  /\ UNCHANGED <<pc, result, failures, left, snapshot, up, since, errors, observed>>

(* Time passes.  What happens after the cancellation is not timed. *)
Tick ==
  /\ ~ ctxDone
  /\ \A s \in Sources : pc[s] \in {"fetching", "waiting"} /\ left[s] > 0
  /\ left' = [s \in Sources |-> left[s] - 1]
  /\ since' = [s \in Sources |-> IF since[s] = NoStamp THEN NoStamp ELSE since[s] + 1]
  /\ UNCHANGED <<ctxDone, pc, result, failures, snapshot, up, errors, observed>>

(* Every Run has returned. *)
Terminated == \A s \in Sources : pc[s] = "stopped"
Terminating == Terminated /\ UNCHANGED vars

Next == Cancel \/ Tick \/ Terminating \/ \E s \in Sources : Refresh(s)

(* The Go scheduler runs every goroutine that can run; a timer fires, a    *)
(* deadline passes; Fetch honours its context.  Nobody has to send a       *)
(* signal.                                                                 *)
Fairness == WF_vars(Tick) /\ \A s \in Sources : WF_vars(Refresh(s))

Spec == Init /\ [][Next]_vars /\ Fairness
-----------------------------------------------------------------------------
(***************************************************************************)
(* Safety.                                                                 *)
(***************************************************************************)

(* A source reported up has data to serve: no scrape can see source_up at  *)
(* 1 while the source's series are missing.  It rests on the order of the  *)
(* calls in refresh (Store before Set(1)) and on a snapshot never being    *)
(* taken back.                                                             *)
UpImpliesServing == \A s \in Sources : up[s] = 1 => snapshot[s] # 0

(* Between two attempts, what a source exports tells the same story: it    *)
(* serves the snapshot fetched "failures" attempts ago (none if every      *)
(* attempt failed), it is up exactly when the last attempt succeeded, and  *)
(* it has a success timestamp exactly when it has a snapshot.  Run counts  *)
(* failures and refresh sets the metrics; nothing else ties them together. *)
SettledStateAgrees ==
  \A s \in Sources : pc[s] = "waiting" =>
    /\ snapshot[s] = observed[s] - failures[s]
    /\ (up[s] = 1) <=> (failures[s] = 0)
    /\ (since[s] = NoStamp) <=> (snapshot[s] = 0)

(* A refresh interrupted by the shutdown is never counted as an error of   *)
(* the source (Run's comment): the context is checked after Fetch returned *)
(* and before anything is recorded, so that a Fetch that failed because of *)
(* the cancellation is always seen as such.                                *)
ShutdownNotCounted == \A s \in Sources : errors[s]["canceled"] = 0

(* Every recorded refresh is either a success or counted under exactly one *)
(* reason: refreshes and errors add up to the successes, and a source that *)
(* serves a snapshot has had one.                                          *)
ErrorCount(s) == SumFunction(errors[s])
ErrorsAddUp ==
  \A s \in Sources : pc[s] \in {"refresh", "fetching", "waiting"} =>
    /\ failures[s] <= ErrorCount(s)
    /\ ErrorCount(s) <= observed[s]
    /\ (ErrorCount(s) = observed[s]) <=> (snapshot[s] = 0)

(* The age of the data is bounded by what the options promise: a jittered  *)
(* interval and an attempt after a success, then a jittered backoff and an *)
(* attempt for each consecutive failure.  With failures = 0 it bounds what *)
(* a healthy source can show to the DataStale alert.                       *)
AgeLimit(s) ==
  LET age[k \in Nat] ==
        IF k = 0 THEN MaxJittered(Interval[s]) + Timeout[s]
        ELSE age[k - 1] + MaxJittered(Backoff(s, k)) + Timeout[s]
  IN  age
StalenessBounded ==
  \A s \in Sources : since[s] <= AgeLimit(s)[failures[s]]

(***************************************************************************)
(* The inductive invariant behind the safety properties: what holds of the *)
(* metrics and of the failure count at each step of an attempt.            *)
(***************************************************************************)

(* The source exports the outcome of its first n recorded attempts. *)
Accounted(s, n) ==
  /\ failures[s] <= n
  /\ snapshot[s] = n - failures[s]
  /\ (since[s] = NoStamp) <=> (snapshot[s] = 0)

BetweenAttempts(s) ==
  /\ Accounted(s, observed[s])
  /\ (up[s] = 1) <=> (failures[s] = 0 /\ observed[s] # 0)

Unrecorded(s) == observed[s] # 0 /\ Accounted(s, observed[s] - 1)

Published(s) ==
  /\ observed[s] # 0
  /\ failures[s] < observed[s]
  /\ snapshot[s] = observed[s]

AttemptInv(s) ==
  /\ pc[s] \in {"refresh", "fetching", "fetched", "waiting"} => BetweenAttempts(s)
  /\ pc[s] = "waiting"    => observed[s] # 0
  /\ pc[s] = "publish"    => result[s] = Ok /\ Unrecorded(s)
  /\ pc[s] = "markUp"     => result[s] = Ok /\ Published(s)
  /\ pc[s] = "stamp"      => result[s] = Ok /\ Published(s) /\ up[s] = 1
  /\ pc[s] = "markDown"   => result[s] # Ok /\ Unrecorded(s)
  /\ pc[s] = "countError" => result[s] # Ok /\ Unrecorded(s) /\ up[s] = 0
  /\ (pc[s] = "refreshed" /\ ~ ctxDone) =>
       IF result[s] = Ok THEN Published(s) /\ up[s] = 1 /\ since[s] = 0
                         ELSE Unrecorded(s) /\ up[s] = 0

ServingInv(s) == up[s] = 1 => snapshot[s] # 0

(* An attempt that failed because of the cancellation sees ctx canceled. *)
ReasonInv(s) ==
  /\ errors[s]["canceled"] = 0
  /\ pc[s] = "fetched" /\ Wraps(result[s], {"canceled"}) => ctxDone
  /\ pc[s] \in {"markDown", "countError"} => ~ Wraps(result[s], {"canceled"})

(* The time an attempt or a timer still has is within the limit, too. *)
AgeInv(s) ==
  LET limit == AgeLimit(s)[failures[s]]
  IN  /\ since[s] <= limit
      /\ pc[s] = "waiting"  => since[s] + left[s] + Timeout[s] <= limit
      /\ pc[s] = "refresh"  => since[s] + Timeout[s] <= limit
      /\ pc[s] = "fetching" => since[s] + left[s] <= limit

(* The bound on the recorded attempts. *)
BoundInv(s) ==
  /\ observed[s] <= MaxObserved
  /\ pc[s] \in {"refresh", "fetching", "fetched"} => observed[s] < MaxObserved

IInv ==
  /\ TypeOK
  /\ \A s \in Sources :
       AttemptInv(s) /\ ServingInv(s) /\ ReasonInv(s) /\ AgeInv(s) /\ BoundInv(s)

(***************************************************************************)
(* Liveness.                                                               *)
(***************************************************************************)

(* Once the context is canceled every refresher returns, wherever it       *)
(* stood, also when its timer keeps firing at the same moment.             *)
ShutdownCompletes == ctxDone ~> Terminated

AtBound == \E s \in Sources : observed[s] = MaxObserved

(* A refresher never gives up: whatever the outcome of an attempt, another *)
(* follows, unless the context is canceled (or the bound is reached).      *)
KeepsRefreshing ==
  \A s \in Sources :
    pc[s] = "fetching" ~> (ctxDone \/ AtBound \/ pc[s] = "refresh")

(***************************************************************************)
(* Refinement: to its readers a refresher is the last good snapshot.  A    *)
(* snapshot is being announced while refresh stands between Store and      *)
(* Set(1); nothing the readers see changes in between.                     *)
(***************************************************************************)
LGS == INSTANCE LastGoodSnapshot WITH
         Attempts   <- [s \in Sources |-> 1 .. MaxObserved],
         announcing <- [s \in Sources |-> pc[s] = "markUp"]

ServesLastGood == LGS!LgsSpec

(***************************************************************************)
(* What the comments of Options say of the delays: MaxBackoff caps the     *)
(* backoff and the jitter is for successful refreshes.  The code also      *)
(* jitters the backoff, above the cap.                                     *)
(***************************************************************************)
RetryWithinMaxBackoff ==
  \A s \in Sources :
    pc[s] = "waiting" /\ failures[s] > 0 => left[s] <= MaxBackoff[s]
=============================================================================
