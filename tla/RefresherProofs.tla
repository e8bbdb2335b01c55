--------------------------- MODULE RefresherProofs ---------------------------
(***************************************************************************)
(* Proofs of the safety properties of Refresher, for any set of sources    *)
(* and any delays New accepts.                                             *)
(***************************************************************************)
EXTENDS Refresher, Recursion

(***************************************************************************)
(* The doubling loop of backoff is well defined: the delay is positive for *)
(* any number of failures.                                                 *)
(***************************************************************************)
LEMMA DoubledType ==
  ASSUME NEW s \in Sources
  PROVE  Doubled(s) \in [Nat -> Nat \ {0}]
<1> DEFINE V == Nat \ {0}
           a == MinBackoff[s]
           m == MaxBackoff[s]
           Body(d, n) == IF n <= 1 THEN a
                         ELSE IF d[n - 1] < m THEN 2 * d[n - 1] ELSE d[n - 1]
           F == [n \in Nat |-> [x \in V |-> IF n = 0 THEN a
                                            ELSE IF x < m THEN 2 * x ELSE x]]
<1>1. a \in V /\ m \in V /\ F \in [Nat -> [V -> V]]
  BY OptionsAssumption
<1> HIDE DEF V, a, m, F
<1>2. PICK f \in [Nat -> V] : f[0] = a /\ \A n \in Nat : f[n + 1] = F[n][f[n]]
  BY <1>1, PrimitiveRecursion
<1>3. \A n \in Nat : f[n] = Body(f, n)
  <2> SUFFICES ASSUME NEW n \in Nat PROVE f[n] = Body(f, n)
    OBVIOUS
  <2>1. CASE n = 0
    BY <1>2, <2>1
  <2>2. CASE n # 0
    <3>1. PICK k \in Nat : n = k + 1
      BY <2>2
    <3>2. f[n] = F[k][f[k]] /\ f[k] \in V
      BY <1>2, <3>1
    <3>3. CASE k = 0
      BY <1>2, <3>1, <3>2, <3>3 DEF F, V
    <3>4. CASE k # 0
      BY <3>1, <3>2, <3>4 DEF F, V
    <3> QED BY <3>3, <3>4
  <2> QED BY <2>1, <2>2
<1>4. f = [n \in Nat |-> Body(f, n)]
  <2> HIDE DEF Body
  <2> QED BY <1>2, <1>3
<1>5. Doubled(s) = [n \in Nat |-> Body(Doubled(s), n)]
  BY <1>4 DEF Doubled, a, m
<1> DEFINE d == Doubled(s)
<1>6. \A n \in Nat : d[n] = Body(d, n)
  <2> HIDE DEF Body
  <2> QED BY <1>5
<1>7. d = [n \in Nat |-> d[n]]
  <2> HIDE DEF Body
  <2> QED BY <1>5 DEF d
<1> HIDE DEF d
<1> DEFINE S == {n \in Nat : d[n] \in V}
<1>8. Nat \subseteq S
  <2>1. 0 \in S
    BY <1>1, <1>6
  <2>2. ASSUME NEW n \in Nat, n \in S PROVE n + 1 \in S
    <3>1. (n + 1) - 1 = n /\ d[n] \in V /\ n + 1 \in Nat
      BY <2>2
    <3>2. d[n + 1] = IF n = 0 THEN a ELSE IF d[n] < m THEN 2 * d[n] ELSE d[n]
      BY <1>6, <3>1
    <3>3. \A x \in V : 2 * x \in V
      BY DEF V
    <3>4. d[n + 1] \in V
      <4> HIDE DEF S
      <4> QED BY <1>1, <3>1, <3>2, <3>3
    <3> QED BY <3>1, <3>4
  <2> HIDE DEF S
  <2> QED BY <2>1, <2>2, NatSetInduction
<1>9. d \in [Nat -> V]
  BY <1>7, <1>8
<1> QED BY <1>9 DEF d, V

(* The backoff after any number of failures is a positive delay. *)
LEMMA BackoffType ==
  ASSUME NEW s \in Sources, NEW n \in Nat
  PROVE  Backoff(s, n) \in Nat \ {0}
BY DoubledType, OptionsAssumption DEF Backoff

(***************************************************************************)
(* A jittered delay is a natural number and at most MaxJittered.           *)
(***************************************************************************)
LEMMA JitteredType ==
  ASSUME NEW d \in Nat \ {0}
  PROVE  /\ MaxJittered(d) \in Nat
         /\ \A x \in Jittered(d) : x \in Nat /\ x <= MaxJittered(d)
<1> DEFINE D == JitterDen
           low == d * (D - JitterNum)
           high == d * (D + JitterNum)
<1>1. D \in Nat \ {0} /\ JitterNum \in 1 .. D - 1
  BY OptionsAssumption
<1>2. low \in Nat /\ high \in Nat /\ high >= D
  <2>1. \A x \in Nat, y \in Nat : x * y \in Nat
    OBVIOUS
  <2>2. D - JitterNum \in Nat /\ D + JitterNum \in Nat /\ D + JitterNum >= D
    BY <1>1
  <2>3. low \in Nat /\ high \in Nat
    BY <2>1, <2>2
  <2>4. \A x \in Nat \ {0}, y \in Nat : x * y >= y
    OBVIOUS
  <2>5. high >= D + JitterNum
    BY <2>2, <2>4
  <2> QED BY <1>1, <2>2, <2>3, <2>5
<1> HIDE DEF D, low, high
<1>3. \A x \in Nat, y \in Nat \ {0} : x \div y \in Nat
  OBVIOUS
<1>4. \A x \in Nat, y \in Nat \ {0} : x >= y => (x + y - 1) \div y >= 1
  OBVIOUS
<1>5. low \div D \in Nat /\ (high + D - 1) \div D - 1 \in Nat
  <2>1. (high + D - 1) \in Nat /\ (high + D - 1) \div D >= 1
    BY <1>1, <1>2, <1>4
  <2>2. (high + D - 1) \div D \in Nat
    BY <1>1, <1>3, <2>1
  <2> QED BY <1>1, <1>2, <1>3, <2>1, <2>2
<1> QED BY <1>5 DEF Jittered, MinJittered, MaxJittered, D, low, high

(* The age limit is a natural number that the recursion defines. *)
LEMMA AgeLimitType ==
  ASSUME NEW s \in Sources
  PROVE  /\ AgeLimit(s) \in [Nat -> Nat]
         /\ AgeLimit(s)[0] = MaxJittered(Interval[s]) + Timeout[s]
         /\ \A k \in Nat : AgeLimit(s)[k + 1] =
              AgeLimit(s)[k] + MaxJittered(Backoff(s, k + 1)) + Timeout[s]
<1> DEFINE a == MaxJittered(Interval[s]) + Timeout[s]
           Add(k) == MaxJittered(Backoff(s, k))
           t == Timeout[s]
           Body(age, k) == IF k = 0 THEN a ELSE age[k - 1] + Add(k) + t
           F == [k \in Nat |-> [x \in Nat |-> x + Add(k + 1) + t]]
<1>1. a \in Nat /\ t \in Nat
  <2>1. Interval[s] \in Nat \ {0} /\ t \in Nat
    BY OptionsAssumption
  <2> QED BY <2>1, JitteredType
<1>2. \A k \in Nat : Add(k) \in Nat
  BY BackoffType, JitteredType
<1> HIDE DEF a, Add, t
<1>3. F \in [Nat -> [Nat -> Nat]]
  BY <1>1, <1>2
<1> HIDE DEF F
<1>4. PICK f \in [Nat -> Nat] : f[0] = a /\ \A k \in Nat : f[k + 1] = F[k][f[k]]
  <2> DEFINE V == Nat
  <2>1. a \in V /\ F \in [Nat -> [V -> V]]
    BY <1>1, <1>3
  <2> HIDE DEF V
  <2>2. \E f \in [Nat -> V] : f[0] = a /\ \A k \in Nat : f[k + 1] = F[k][f[k]]
    BY <2>1, PrimitiveRecursion, SMTT(60)
  <2> QED BY <2>2 DEF V
<1>5. \A k \in Nat : f[k] = Body(f, k)
  <2> SUFFICES ASSUME NEW k \in Nat PROVE f[k] = Body(f, k)
    OBVIOUS
  <2>1. CASE k = 0
    BY <1>4, <2>1
  <2>2. CASE k # 0
    <3>1. PICK j \in Nat : k = j + 1
      BY <2>2
    <3>2. f[k] = f[j] + Add(j + 1) + t
      BY <1>4, <3>1 DEF F
    <3> QED BY <3>1, <3>2
  <2> QED BY <2>1, <2>2
<1>6. f = [k \in Nat |-> Body(f, k)]
  <2> HIDE DEF Body
  <2> QED BY <1>4, <1>5
<1> DEFINE g == AgeLimit(s)
<1>7. g = [k \in Nat |-> Body(g, k)]
  BY <1>6 DEF AgeLimit, a, Add, t
<1> HIDE DEF g
<1>8. g = [k \in Nat |-> g[k]] /\ \A k \in Nat : g[k] = Body(g, k)
  <2> HIDE DEF Body
  <2> QED BY <1>7
<1>9. g[0] = a
  BY <1>8
<1>10. \A k \in Nat : g[k + 1] = g[k] + Add(k + 1) + t
  <2> SUFFICES ASSUME NEW k \in Nat PROVE g[k + 1] = g[k] + Add(k + 1) + t
    OBVIOUS
  <2>1. (k + 1) - 1 = k /\ k + 1 \in Nat /\ k + 1 # 0
    OBVIOUS
  <2> QED BY <1>8, <2>1
<1> DEFINE S == {k \in Nat : g[k] \in Nat}
<1>11. Nat \subseteq S
  <2>1. 0 \in S
    BY <1>1, <1>9
  <2>2. \A k \in Nat : k \in S => k + 1 \in S
    BY <1>1, <1>2, <1>10
  <2> HIDE DEF S
  <2> QED BY <2>1, <2>2, NatSetInduction
<1>12. g \in [Nat -> Nat]
  BY <1>8, <1>11
<1> QED BY <1>9, <1>10, <1>12 DEF g, a, Add, t

(***************************************************************************)
(* Every error is counted under a reason of the closed set, and under      *)
(* "canceled" only when it wraps context.Canceled.                         *)
(***************************************************************************)
LEMMA ReasonType ==
  ASSUME NEW err
  PROVE  /\ Reason(err) \in Reasons
         /\ Reason(err) = "canceled" => Wraps(err, {"canceled"})
BY DEF Reason, Classify, ClassifyStatus, Reasons

-----------------------------------------------------------------------------
(***************************************************************************)
(* Type correctness.                                                       *)
(***************************************************************************)
LEMMA InitType == Init => TypeOK
<1> SUFFICES ASSUME Init PROVE TypeOK
  OBVIOUS
<1>1. errors \in [Sources -> [Reasons -> Nat]]
  BY DEF Init
<1>2. result \in [Sources -> Errors \cup {NilSnapshot, Ok}]
  BY DEF Init
<1>3. /\ ctxDone \in BOOLEAN /\ pc \in [Sources -> Pcs]
      /\ up \in [Sources -> {0, 1}] /\ since \in [Sources -> Nat \cup {NoStamp}]
  BY DEF Init, Pcs
<1>4. /\ failures \in [Sources -> Nat] /\ left \in [Sources -> Nat]
      /\ snapshot \in [Sources -> Nat] /\ observed \in [Sources -> Nat]
  BY DEF Init
<1> QED BY <1>1, <1>2, <1>3, <1>4 DEF TypeOK

(* Every step keeps the types. *)
LEMMA NextType == TypeOK /\ [Next]_vars => TypeOK'
<1> SUFFICES ASSUME TypeOK, [Next]_vars PROVE TypeOK'
  OBVIOUS
<1> USE DEF TypeOK
<1>1. CASE Cancel
  BY <1>1 DEF Cancel
<1>2. CASE Tick
  <2>1. \A s \in Sources : left[s] - 1 \in Nat
    BY <1>2 DEF Tick
  <2> QED BY <1>2, <2>1 DEF Tick, NoStamp
<1>3. ASSUME NEW s \in Sources, Refresh(s) PROVE TypeOK'
  <2> USE DEF Goto, Pcs
  <2>1. CASE BeginRefresh(s)
    BY <2>1, OptionsAssumption DEF BeginRefresh
  <2>2. CASE FetchReturns(s)
    BY <2>2 DEF FetchReturns
  <2>3. CASE Abandon(s)
    BY <2>3 DEF Abandon
  <2>4. CASE Observe(s)
    BY <2>4 DEF Observe
  <2>5. CASE Publish(s)
    BY <2>5 DEF Publish
  <2>6. CASE MarkUp(s)
    BY <2>6 DEF MarkUp
  <2>7. CASE StampSuccess(s)
    BY <2>7 DEF StampSuccess
  <2>8. CASE MarkDown(s)
    BY <2>8 DEF MarkDown
  <2>9. CASE CountError(s)
    <3> DEFINE r == Reason(result[s])
    <3>1. r \in Reasons
      BY ReasonType
    <3> HIDE DEF r
    <3>2. errors' = [errors EXCEPT ![s] = [errors[s] EXCEPT ![r] = @ + 1]]
      BY <2>9 DEF CountError, r
    <3> QED BY <2>9, <3>1, <3>2 DEF CountError
  <2>10. CASE Stop(s)
    BY <2>10 DEF Stop
  <2>11. CASE ScheduleNext(s)
    <3>1. Jittered(Interval[s]) \subseteq Nat
      BY OptionsAssumption, JitteredType
    <3>2. Jittered(Backoff(s, failures[s] + 1)) \subseteq Nat
      BY BackoffType, JitteredType
    <3> QED BY <2>11, <3>1, <3>2 DEF ScheduleNext, NextFailures, NextDelay
  <2>12. CASE StopWaiting(s)
    BY <2>12 DEF StopWaiting
  <2>13. CASE TimerFires(s)
    BY <2>13 DEF TimerFires
  <2> QED BY <1>3, <2>1, <2>2, <2>3, <2>4, <2>5, <2>6, <2>7, <2>8, <2>9,
             <2>10, <2>11, <2>12, <2>13 DEF Refresh
<1>4. CASE UNCHANGED vars
  BY <1>4 DEF vars
<1> QED BY <1>1, <1>2, <1>3, <1>4 DEF Next, Terminating

(***************************************************************************)
(* The variables keep their types: in particular a delay is never          *)
(* negative and every error is counted under a label of the closed set.    *)
(***************************************************************************)
THEOREM TypeCorrect == Spec => []TypeOK
BY InitType, NextType, PTL DEF Spec

-----------------------------------------------------------------------------
(***************************************************************************)
(* The inductive invariant.  A step of one refresher disturbs only the     *)
(* part of the invariant about its own source.                             *)
(***************************************************************************)
SourceInv(s) ==
  AttemptInv(s) /\ ServingInv(s) /\ ReasonInv(s) /\ AgeInv(s) /\ BoundInv(s)

(* The inductive invariant holds initially. *)
LEMMA InitInv == Init => IInv
<1> SUFFICES ASSUME Init, NEW s \in Sources PROVE SourceInv(s)
  BY InitType DEF IInv, SourceInv
<1>1. AgeLimit(s)[0] \in Nat /\ -1 + Timeout[s] <= AgeLimit(s)[0]
  <2>1. MaxJittered(Interval[s]) \in Nat /\ Timeout[s] \in Nat
    BY OptionsAssumption, JitteredType
  <2> QED BY <2>1, AgeLimitType
<1> HIDE DEF AgeLimit
<1>2. AttemptInv(s) /\ ServingInv(s)
  BY DEF Init, AttemptInv, ServingInv, BetweenAttempts, Accounted, NoStamp
<1>3. ReasonInv(s)
  BY DEF Init, ReasonInv, Reasons
<1>4. AgeInv(s)
  BY <1>1 DEF Init, AgeInv, NoStamp
<1>5. BoundInv(s)
  BY OptionsAssumption DEF Init, BoundInv
<1> QED BY <1>2, <1>3, <1>4, <1>5 DEF SourceInv

(* What a step of one refresher leaves alone of another source. *)
LEMMA OtherSource ==
  ASSUME NEW s \in Sources, NEW t \in Sources, t # s,
         TypeOK, Refresh(s), SourceInv(t)
  PROVE  SourceInv(t)'
<1>1. /\ ctxDone' = ctxDone /\ pc'[t] = pc[t] /\ result'[t] = result[t]
      /\ failures'[t] = failures[t] /\ left'[t] = left[t]
      /\ snapshot'[t] = snapshot[t] /\ up'[t] = up[t] /\ since'[t] = since[t]
      /\ errors'[t] = errors[t] /\ observed'[t] = observed[t]
  BY DEF TypeOK, Refresh, Goto, BeginRefresh, FetchReturns, Abandon, Observe,
         Publish, MarkUp, StampSuccess, MarkDown, CountError, Stop,
         ScheduleNext, StopWaiting, TimerFires
<1> QED
  BY <1>1 DEF SourceInv, AttemptInv, BetweenAttempts, Accounted, Unrecorded,
              Published, ServingInv, ReasonInv, AgeInv, BoundInv

(* A step of a refresher keeps what its program counter says of its metrics. *)
LEMMA AttemptStep ==
  ASSUME NEW s \in Sources, TypeOK, Refresh(s), AttemptInv(s)
  PROVE  AttemptInv(s)'
<1> USE DEF TypeOK, Goto, AttemptInv
<1>1. CASE BeginRefresh(s)
  BY <1>1 DEF BeginRefresh, BetweenAttempts, Accounted
<1>2. CASE FetchReturns(s)
  BY <1>2 DEF FetchReturns, BetweenAttempts, Accounted
<1>3. CASE Abandon(s)
  BY <1>3 DEF Abandon
<1>4. CASE Observe(s)
  BY <1>4 DEF Observe, BetweenAttempts, Unrecorded, Accounted
<1>5. CASE Publish(s)
  BY <1>5 DEF Publish, Unrecorded, Accounted, Published
<1>6. CASE MarkUp(s)
  BY <1>6 DEF MarkUp, Published
<1>7. CASE StampSuccess(s)
  BY <1>7 DEF StampSuccess, Published
<1>8. CASE MarkDown(s)
  BY <1>8 DEF MarkDown, Unrecorded, Accounted
<1>9. CASE CountError(s)
  BY <1>9 DEF CountError, Unrecorded, Accounted
<1>10. CASE Stop(s)
  BY <1>10 DEF Stop
<1>11. CASE ScheduleNext(s)
  BY <1>11 DEF ScheduleNext, NextFailures, Published, Unrecorded, Accounted, BetweenAttempts, NoStamp
<1>12. CASE StopWaiting(s)
  BY <1>12 DEF StopWaiting
<1>13. CASE TimerFires(s)
  BY <1>13 DEF TimerFires, BetweenAttempts, Accounted
<1> QED BY <1>1, <1>2, <1>3, <1>4, <1>5, <1>6, <1>7, <1>8, <1>9, <1>10,
           <1>11, <1>12, <1>13 DEF Refresh

(* A step of a refresher keeps up at 0 until there is a snapshot. *)
LEMMA ServingStep ==
  ASSUME NEW s \in Sources, TypeOK, Refresh(s), AttemptInv(s), ServingInv(s)
  PROVE  ServingInv(s)'
<1> USE DEF TypeOK, Goto, ServingInv
<1>1. CASE Publish(s)
  BY <1>1 DEF Publish, AttemptInv, Unrecorded
<1>2. CASE MarkUp(s)
  BY <1>2 DEF MarkUp, AttemptInv, Published
<1>3. CASE MarkDown(s)
  BY <1>3 DEF MarkDown
<1>4. ASSUME up' = up, snapshot' = snapshot PROVE ServingInv(s)'
  BY <1>4
<1> QED BY <1>1, <1>2, <1>3, <1>4
           DEF Refresh, BeginRefresh, FetchReturns, Abandon, Observe,
               StampSuccess, CountError, Stop, ScheduleNext, StopWaiting, TimerFires

(* A step of a refresher counts no interrupted attempt. *)
LEMMA ReasonStep ==
  ASSUME NEW s \in Sources, TypeOK, Refresh(s), ReasonInv(s)
  PROVE  ReasonInv(s)'
<1> USE DEF TypeOK, Goto, ReasonInv
<1>1. CASE FetchReturns(s)
  BY <1>1 DEF FetchReturns
<1>2. CASE Observe(s)
  <2>1. Ok # {} /\ pc[s] = "fetched" /\ ~ Wraps(result[s], {"canceled"})
    BY <1>2 DEF Observe, Ok
  <2> QED BY <1>2, <2>1 DEF Observe
<1>3. CASE MarkDown(s)
  BY <1>3 DEF MarkDown
<1>4. CASE CountError(s)
  <2> DEFINE r == Reason(result[s])
  <2>1. r \in Reasons /\ r # "canceled"
    BY <1>4, ReasonType DEF CountError
  <2> HIDE DEF r
  <2>2. errors' = [errors EXCEPT ![s] = [errors[s] EXCEPT ![r] = @ + 1]]
    BY <1>4 DEF CountError, r
  <2>3. errors'[s]["canceled"] = errors[s]["canceled"]
    BY <2>1, <2>2
  <2> QED BY <1>4, <2>3 DEF CountError
<1>5. ASSUME /\ ctxDone' = ctxDone /\ errors' = errors /\ result' = result
             /\ pc'[s] \notin {"fetched", "markDown", "countError"}
      PROVE  ReasonInv(s)'
  BY <1>5
<1> QED BY <1>1, <1>2, <1>3, <1>4, <1>5
           DEF Refresh, BeginRefresh, Abandon, Publish, MarkUp, StampSuccess,
               Stop, ScheduleNext, StopWaiting, TimerFires

(* A step of a refresher keeps age and remaining time within the limit. *)
LEMMA AgeStep ==
  ASSUME NEW s \in Sources, TypeOK, Refresh(s), AttemptInv(s), AgeInv(s)
  PROVE  AgeInv(s)'
<1> DEFINE A == AgeLimit(s)
           limit == A[failures[s]]
<1>1. A \in [Nat -> Nat] /\ Timeout[s] \in Nat /\ limit \in Nat
  BY AgeLimitType, OptionsAssumption DEF TypeOK
<1>2. AgeInv(s) <=> /\ since[s] <= limit
                    /\ pc[s] = "waiting"  => since[s] + left[s] + Timeout[s] <= limit
                    /\ pc[s] = "refresh"  => since[s] + Timeout[s] <= limit
                    /\ pc[s] = "fetching" => since[s] + left[s] <= limit
  BY DEF AgeInv
<1>3. AgeInv(s)' <=> /\ since'[s] <= A[failures'[s]]
                     /\ pc'[s] = "waiting"  => since'[s] + left'[s] + Timeout[s] <= A[failures'[s]]
                     /\ pc'[s] = "refresh"  => since'[s] + Timeout[s] <= A[failures'[s]]
                     /\ pc'[s] = "fetching" => since'[s] + left'[s] <= A[failures'[s]]
  BY DEF AgeInv
<1>4. /\ A[0] = MaxJittered(Interval[s]) + Timeout[s]
      /\ A[failures[s] + 1] = limit + MaxJittered(Backoff(s, failures[s] + 1)) + Timeout[s]
  BY AgeLimitType DEF TypeOK
<1> HIDE DEF A
<1> USE <1>1, <1>2, <1>3 DEF TypeOK, Goto
<1>5. CASE BeginRefresh(s)
  BY <1>5 DEF BeginRefresh
<1>6. CASE StampSuccess(s)
  BY <1>6 DEF StampSuccess
<1>7. CASE ScheduleNext(s)
  <2> pc'[s] = "waiting" /\ since' = since
    BY <1>7 DEF ScheduleNext, NextFailures, NextDelay
  <2>1. CASE result[s] = Ok
    <3>1. since[s] = 0
      BY <1>7, <2>1 DEF ScheduleNext, NextFailures, NextDelay, AttemptInv
    <3>2. failures'[s] = 0 /\ left'[s] \in Jittered(Interval[s])
      BY <1>7, <2>1 DEF ScheduleNext, NextFailures, NextDelay
    <3>3. left'[s] \in Nat /\ left'[s] <= MaxJittered(Interval[s])
          /\ MaxJittered(Interval[s]) \in Nat
      BY <3>2, OptionsAssumption, JitteredType
    <3> QED BY <1>4, <3>1, <3>2, <3>3
  <2>2. CASE result[s] # Ok
    <3> DEFINE b == Backoff(s, failures[s] + 1)
    <3>1. failures'[s] = failures[s] + 1 /\ left'[s] \in Jittered(b)
      BY <1>7, <2>2 DEF ScheduleNext, NextFailures, NextDelay
    <3>2. b \in Nat \ {0}
      BY BackoffType
    <3> HIDE DEF b
    <3>3. left'[s] \in Nat /\ left'[s] <= MaxJittered(b) /\ MaxJittered(b) \in Nat
      BY <3>1, <3>2, JitteredType
    <3>4. A[failures'[s]] = limit + MaxJittered(b) + Timeout[s]
      BY <1>4, <3>1 DEF b
    <3>5. since[s] <= limit /\ since[s] \in Int
      BY DEF NoStamp
    <3> QED BY <3>3, <3>4, <3>5
  <2> QED BY <2>1, <2>2
<1>8. CASE TimerFires(s)
  <2>1. /\ pc[s] = "waiting" /\ left[s] = 0 /\ pc'[s] = "refresh"
        /\ since' = since /\ failures' = failures
    BY <1>8 DEF TimerFires
  <2>2. since[s] + Timeout[s] <= limit
    BY <2>1 DEF NoStamp
  <2> QED BY <2>1, <2>2
<1>9. ASSUME /\ since' = since /\ failures' = failures
             /\ pc'[s] \notin {"waiting", "refresh", "fetching"}
      PROVE  AgeInv(s)'
  BY <1>9
<1> QED BY <1>5, <1>6, <1>7, <1>8, <1>9
           DEF Refresh, FetchReturns, Abandon, Observe, Publish, MarkUp,
               MarkDown, CountError, Stop, StopWaiting

(* A step of a refresher keeps the bound on the recorded attempts. *)
LEMMA BoundStep ==
  ASSUME NEW s \in Sources, TypeOK, Refresh(s), BoundInv(s)
  PROVE  BoundInv(s)'
<1> USE DEF TypeOK, Goto, BoundInv
<1>1. CASE Observe(s)
  BY <1>1, OptionsAssumption DEF Observe
<1>2. CASE TimerFires(s)
  BY <1>2 DEF TimerFires
<1>3. CASE BeginRefresh(s) \/ FetchReturns(s)
  BY <1>3 DEF BeginRefresh, FetchReturns
<1>4. ASSUME observed' = observed, pc'[s] \notin {"refresh", "fetching", "fetched"}
      PROVE  BoundInv(s)'
  BY <1>4
<1> QED BY <1>1, <1>2, <1>3, <1>4
           DEF Refresh, Abandon, Publish, MarkUp, StampSuccess, MarkDown,
               CountError, Stop, ScheduleNext, StopWaiting

(* A step of a refresher keeps the invariant of its own source. *)
LEMMA SourceStep ==
  ASSUME NEW s \in Sources, TypeOK, Refresh(s), SourceInv(s)
  PROVE  SourceInv(s)'
BY AttemptStep, ServingStep, ReasonStep, AgeStep, BoundStep DEF SourceInv

(* The cancellation keeps the invariant of every source. *)
LEMMA CancelStep ==
  ASSUME NEW s \in Sources, TypeOK, Cancel, SourceInv(s)
  PROVE  SourceInv(s)'
BY DEF Cancel, SourceInv, AttemptInv, BetweenAttempts, Accounted, Unrecorded,
       Published, ServingInv, ReasonInv, AgeInv, BoundInv

(* The passing of time keeps the invariant of every source. *)
LEMMA TickStep ==
  ASSUME NEW s \in Sources, TypeOK, Tick, SourceInv(s)
  PROVE  SourceInv(s)'
<1> USE DEF TypeOK
<1>1. /\ pc[s] \in {"fetching", "waiting"} /\ left[s] > 0
      /\ left'[s] = left[s] - 1
      /\ since'[s] = IF since[s] = NoStamp THEN NoStamp ELSE since[s] + 1
      /\ UNCHANGED <<ctxDone, pc, result, failures, snapshot, up, errors, observed>>
  BY DEF Tick
<1>2. AttemptInv(s)'
  BY <1>1 DEF SourceInv, AttemptInv, BetweenAttempts, Accounted, NoStamp
<1>3. ServingInv(s)' /\ ReasonInv(s)' /\ BoundInv(s)'
  BY <1>1 DEF SourceInv, ServingInv, ReasonInv, BoundInv
<1>4. AgeInv(s)'
  <2> DEFINE limit == AgeLimit(s)[failures[s]]
  <2>1. limit \in Nat /\ Timeout[s] \in Nat
    BY AgeLimitType, OptionsAssumption
  <2>2. /\ since[s] <= limit
        /\ pc[s] = "waiting"  => since[s] + left[s] + Timeout[s] <= limit
        /\ pc[s] = "fetching" => since[s] + left[s] <= limit
    BY DEF SourceInv, AgeInv
  <2>3. limit' = limit
    BY <1>1
  <2> HIDE DEF limit
  <2>4. /\ since'[s] <= limit
        /\ pc[s] = "waiting"  => since'[s] + left'[s] + Timeout[s] <= limit
        /\ pc[s] = "fetching" => since'[s] + left'[s] <= limit
    BY <1>1, <2>1, <2>2 DEF NoStamp
  <2> QED BY <1>1, <2>3, <2>4 DEF AgeInv, limit
<1> QED BY <1>2, <1>3, <1>4 DEF SourceInv

(* The invariant is inductive. *)
LEMMA NextInv == IInv /\ [Next]_vars => IInv'
<1> SUFFICES ASSUME IInv, [Next]_vars, NEW t \in Sources PROVE SourceInv(t)'
  BY NextType DEF IInv, SourceInv
<1>1. TypeOK /\ SourceInv(t)
  BY DEF IInv, SourceInv
<1>2. CASE Cancel
  BY <1>1, <1>2, CancelStep
<1>3. CASE Tick
  BY <1>1, <1>3, TickStep
<1>4. ASSUME NEW s \in Sources, Refresh(s) PROVE SourceInv(t)'
  BY <1>1, <1>4, SourceStep, OtherSource
<1>5. CASE UNCHANGED vars
  BY <1>1, <1>5 DEF vars, SourceInv, AttemptInv, BetweenAttempts, Accounted,
                    Unrecorded, Published, ServingInv, ReasonInv, AgeInv, BoundInv
<1> QED BY <1>2, <1>3, <1>4, <1>5 DEF Next, Terminating

-----------------------------------------------------------------------------
(***************************************************************************)
(* The errors counted for a source add up with its refreshes: an invariant *)
(* of its own, inductive relative to IInv.                                 *)
(***************************************************************************)

(* Of the first n recorded attempts the failed ones, and no others, have   *)
(* been counted as errors: all of them exactly while there is no snapshot. *)
CountedOf(s, n) ==
  /\ failures[s] <= ErrorCount(s)
  /\ ErrorCount(s) <= n
  /\ (ErrorCount(s) = n) <=> (snapshot[s] = 0)

(* The last recorded attempt is a success. *)
CountedBefore(s) == failures[s] <= ErrorCount(s) /\ ErrorCount(s) < observed[s]

CountInv(s) ==
  /\ pc[s] \in {"refresh", "fetching", "fetched", "waiting"} => CountedOf(s, observed[s])
  /\ pc[s] \in {"publish", "markDown", "countError"} => CountedOf(s, observed[s] - 1)
  /\ pc[s] \in {"markUp", "stamp"} => CountedBefore(s)
  /\ (pc[s] = "refreshed" /\ ~ ctxDone) =>
       IF result[s] = Ok THEN CountedBefore(s)
       ELSE /\ failures[s] < ErrorCount(s)
            /\ CountedOf(s, observed[s])

(* The reasons are finitely many, and the errors are counted in numbers. *)
LEMMA CountOf ==
  ASSUME NEW e \in [Reasons -> Nat]
  PROVE  /\ IsFiniteSet(Reasons)
         /\ SumFunction(e) = SumFunctionOnSet(e, Reasons) /\ SumFunction(e) \in Int
<1>1. IsFiniteSet(Reasons)
  <2>1. /\ IsFiniteSet({}) /\ \A S, x : IsFiniteSet(S) => IsFiniteSet(S \cup {x})
    BY FS_EmptySet, FS_AddElement
  <2>2. IsFiniteSet({} \cup {"timeout"} \cup {"canceled"} \cup {"auth"} \cup {"rate_limited"}
                    \cup {"server"} \cup {"client"} \cup {"decode"} \cup {"network"} \cup {"unknown"})
    BY <2>1
  <2>3. Reasons = {} \cup {"timeout"} \cup {"canceled"} \cup {"auth"} \cup {"rate_limited"}
                  \cup {"server"} \cup {"client"} \cup {"decode"} \cup {"network"} \cup {"unknown"}
    BY DEF Reasons
  <2> QED BY <2>2, <2>3
<1>2. SumFunction(e) = SumFunctionOnSet(e, Reasons)
  BY DEF SumFunction
<1>3. \A r \in Reasons : e[r] \in Int
  OBVIOUS
<1> QED BY <1>1, <1>2, <1>3, SumOverSet

(* Counting one more error adds one to the count. *)
LEMMA CountOneMore ==
  ASSUME NEW e \in [Reasons -> Nat], NEW r \in Reasons
  PROVE  SumFunction([e EXCEPT ![r] = @ + 1]) = SumFunction(e) + 1
<1> DEFINE d == [e EXCEPT ![r] = @ + 1]
           others == Reasons \ {r}
<1>1. d \in [Reasons -> Nat] /\ d[r] = e[r] + 1 /\ \A x \in others : d[x] = e[x]
  OBVIOUS
<1> HIDE DEF d
<1>2. /\ IsFiniteSet(Reasons) /\ SumFunction(d) = SumFunctionOnSet(d, Reasons)
      /\ SumFunction(e) = SumFunctionOnSet(e, Reasons)
  BY <1>1, CountOf
<1>3. /\ SumFunctionOnSet(d, Reasons) = d[r] + SumFunctionOnSet(d, others)
      /\ SumFunctionOnSet(e, Reasons) = e[r] + SumFunctionOnSet(e, others)
  <2>1. (\A x \in Reasons : d[x] \in Int) /\ \A x \in Reasons : e[x] \in Int
    BY <1>1
  <2> QED BY <1>2, <2>1, SumOverSet
<1>4. IsFiniteSet(others) /\ \A x \in others : e[x] \in Int /\ d[x] = e[x]
  BY <1>1, <1>2, FS_Subset
<1> HIDE DEF others
<1>5. SumFunctionOnSet(d, others) = SumFunctionOnSet(e, others)
  BY <1>4, SumAgree
<1>6. SumFunctionOnSet(e, others) \in Int
  BY <1>4, SumOverSet
<1> QED BY <1>1, <1>2, <1>3, <1>5, <1>6 DEF d

(* No error has been counted initially. *)
LEMMA InitCount == Init => \A s \in Sources : CountInv(s)
<1> SUFFICES ASSUME Init, NEW s \in Sources PROVE CountInv(s)
  OBVIOUS
<1> DEFINE e == errors[s]
<1>1. e \in [Reasons -> Nat] /\ \A r \in Reasons : e[r] = 0
  BY DEF Init
<1> HIDE DEF e
<1>2. SumFunction(e) = 0
  BY <1>1, CountOf, SumZero
<1>3. ErrorCount(s) = 0
  BY <1>2 DEF ErrorCount, e
<1> QED BY <1>3 DEF Init, CountInv, CountedOf

(* A step of a refresher keeps the count of its own source. *)
LEMMA CountStep ==
  ASSUME NEW s \in Sources, TypeOK, Refresh(s), AttemptInv(s), CountInv(s)
  PROVE  CountInv(s)'
<1> USE DEF TypeOK, Goto
<1>1. ErrorCount(s) \in Int /\ errors[s] \in [Reasons -> Nat]
  BY CountOf DEF ErrorCount
<1>2. CASE CountError(s)
  <2> DEFINE r == Reason(result[s])
  <2>1. r \in Reasons
    BY ReasonType
  <2> HIDE DEF r
  <2>2. errors'[s] = [errors[s] EXCEPT ![r] = @ + 1]
    BY <1>2 DEF CountError, r
  <2>3. ErrorCount(s)' = ErrorCount(s) + 1
    BY <1>1, <2>1, <2>2, CountOneMore DEF ErrorCount
  <2> DEFINE n == ErrorCount(s)
             m == ErrorCount(s)'
  <2>4. n \in Int /\ m = n + 1 /\ failures[s] <= n /\ n <= observed[s] - 1
        /\ ((n = observed[s] - 1) <=> snapshot[s] = 0) /\ result[s] # Ok
        /\ failures[s] \in Int /\ observed[s] \in Int
    BY <1>1, <1>2, <2>3 DEF CountError, CountInv, CountedOf, AttemptInv
  <2>5. /\ pc'[s] = "refreshed" /\ failures' = failures /\ observed' = observed
        /\ snapshot' = snapshot /\ result' = result /\ ctxDone' = ctxDone
    BY <1>2 DEF CountError
  <2> HIDE DEF n, m
  <2>6. failures[s] < m /\ m <= observed[s] /\ ((m = observed[s]) <=> snapshot[s] = 0)
    BY ONLY <2>4
  <2> QED BY <2>4, <2>5, <2>6 DEF CountInv, CountedOf, m
<1>3. CASE errors' = errors
  <2>0. ErrorCount(s)' = ErrorCount(s)
    BY <1>3 DEF ErrorCount
  <2> USE <1>1, <2>0 DEF CountInv, CountedOf, CountedBefore
  <2> HIDE DEF ErrorCount
  <2>1. CASE BeginRefresh(s)
    BY <2>1 DEF BeginRefresh
  <2>2. CASE FetchReturns(s)
    BY <2>2 DEF FetchReturns
  <2>3. CASE Abandon(s)
    BY <2>3 DEF Abandon
  <2>4. CASE Observe(s)
    BY <2>4 DEF Observe
  <2>5. CASE Publish(s)
    BY <2>5 DEF Publish
  <2>6. CASE MarkUp(s)
    BY <2>6 DEF MarkUp
  <2>7. CASE StampSuccess(s)
    BY <2>7 DEF StampSuccess, AttemptInv
  <2>8. CASE MarkDown(s)
    BY <2>8 DEF MarkDown
  <2>9. CASE Stop(s)
    BY <2>9 DEF Stop
  <2>10. CASE ScheduleNext(s)
    <3>1. CASE result[s] = Ok
      BY <2>10, <3>1 DEF ScheduleNext, NextFailures, AttemptInv, Published
    <3>2. CASE result[s] # Ok
      BY <2>10, <3>2 DEF ScheduleNext, NextFailures
    <3> QED BY <3>1, <3>2
  <2>11. CASE StopWaiting(s)
    BY <2>11 DEF StopWaiting
  <2>12. CASE TimerFires(s)
    BY <2>12 DEF TimerFires
  <2>13. CASE CountError(s)
    BY <1>2, <2>13
  <2> QED BY <2>1, <2>2, <2>3, <2>4, <2>5, <2>6, <2>7, <2>8, <2>9, <2>10,
             <2>11, <2>12, <2>13 DEF Refresh
<1> QED BY <1>2, <1>3 DEF Refresh, BeginRefresh, FetchReturns, Abandon, Observe, Publish,
           MarkUp, StampSuccess, MarkDown, Stop, ScheduleNext, StopWaiting, TimerFires

(* Every other step leaves the count of a source alone. *)
LEMMA CountKept ==
  ASSUME NEW t \in Sources, CountInv(t),
         ctxDone' = ctxDone \/ ctxDone',
         pc'[t] = pc[t], result'[t] = result[t], failures'[t] = failures[t],
         snapshot'[t] = snapshot[t], errors'[t] = errors[t], observed'[t] = observed[t]
  PROVE  CountInv(t)'
BY DEF CountInv, CountedOf, CountedBefore, ErrorCount

(* With IInv, the count is inductive. *)
LEMMA NextCount ==
  IInv /\ (\A s \in Sources : CountInv(s)) /\ [Next]_vars => (\A s \in Sources : CountInv(s))'
<1> SUFFICES ASSUME IInv, \A s \in Sources : CountInv(s), [Next]_vars, NEW t \in Sources
             PROVE  CountInv(t)'
  OBVIOUS
<1>1. TypeOK /\ CountInv(t) /\ AttemptInv(t)
  BY DEF IInv
<1>2. CASE Cancel
  BY <1>1, <1>2, CountKept DEF Cancel
<1>3. CASE Tick
  BY <1>1, <1>3, CountKept DEF Tick
<1>4. ASSUME NEW s \in Sources, Refresh(s) PROVE CountInv(t)'
  <2>1. CASE s = t
    BY <1>1, <1>4, <2>1, CountStep
  <2>2. CASE s # t
    <3>1. /\ ctxDone' = ctxDone /\ pc'[t] = pc[t] /\ result'[t] = result[t]
          /\ failures'[t] = failures[t] /\ snapshot'[t] = snapshot[t]
          /\ errors'[t] = errors[t] /\ observed'[t] = observed[t]
      BY <1>1, <1>4, <2>2 DEF TypeOK, Refresh, Goto, BeginRefresh, FetchReturns, Abandon,
         Observe, Publish, MarkUp, StampSuccess, MarkDown, CountError, Stop,
         ScheduleNext, StopWaiting, TimerFires
    <3> QED BY <1>1, <3>1, CountKept
  <2> QED BY <2>1, <2>2
<1>5. CASE UNCHANGED vars
  BY <1>1, <1>5, CountKept DEF vars
<1> QED BY <1>2, <1>3, <1>4, <1>5 DEF Next, Terminating

-----------------------------------------------------------------------------
(* The inductive invariant holds in every reachable state. *)
THEOREM Invariance == Spec => []IInv
BY InitInv, NextInv, PTL DEF Spec

(***************************************************************************)
(* A source reported up serves a snapshot, at every instant a scrape can   *)
(* look.                                                                   *)
(***************************************************************************)
THEOREM UpImpliesServingHolds == Spec => []UpImpliesServing
<1>1. IInv => UpImpliesServing
  BY DEF IInv, ServingInv, UpImpliesServing
<1> QED BY <1>1, Invariance, PTL

(***************************************************************************)
(* Between attempts the served snapshot, the failure count, source_up and  *)
(* the success timestamp agree.                                            *)
(***************************************************************************)
THEOREM SettledStateAgreesHolds == Spec => []SettledStateAgrees
<1>1. IInv => SettledStateAgrees
  BY DEF IInv, AttemptInv, BetweenAttempts, Accounted, SettledStateAgrees
<1> QED BY <1>1, Invariance, PTL

(***************************************************************************)
(* A refresh interrupted by the shutdown is never counted as an error.     *)
(***************************************************************************)
THEOREM ShutdownNotCountedHolds == Spec => []ShutdownNotCounted
<1>1. IInv => ShutdownNotCounted
  BY DEF IInv, ReasonInv, ShutdownNotCounted
<1> QED BY <1>1, Invariance, PTL

(***************************************************************************)
(* The data is never older than the options allow after the failures seen  *)
(* since the last success.                                                 *)
(***************************************************************************)
THEOREM StalenessBoundedHolds == Spec => []StalenessBounded
<1>1. IInv => StalenessBounded
  BY DEF IInv, AgeInv, StalenessBounded
<1> QED BY <1>1, Invariance, PTL

(***************************************************************************)
(* Every recorded refresh is a success or is counted under one reason, and *)
(* the consecutive failures are among the errors.                          *)
(***************************************************************************)
THEOREM ErrorsAddUpHolds == Spec => []ErrorsAddUp
<1>1. (\A s \in Sources : CountInv(s)) => ErrorsAddUp
  BY DEF CountInv, CountedOf, ErrorsAddUp
<1> QED BY <1>1, Invariance, InitCount, NextCount, PTL DEF Spec

(***************************************************************************)
(* Refinement: the initial state of the refreshers is one of the last good *)
(* snapshot, and each of their steps is one of its steps or changes        *)
(* nothing a reader sees.  (Its liveness is model-checked.)                *)
(***************************************************************************)
LEMMA LgsInitial == Init => LGS!LgsInit
BY DEF Init, LGS!LgsInit

(* A step of a refresher is a step of the last good snapshot, or stutters. *)
LEMMA LgsStep == IInv /\ [Next]_vars => [LGS!LgsNext]_(LGS!lgsVars)
<1> SUFFICES ASSUME IInv, [Next]_vars PROVE [LGS!LgsNext]_(LGS!lgsVars)
  OBVIOUS
<1> DEFINE announcing == [s \in Sources |-> pc[s] = "markUp"]
<1>1. TypeOK
  BY DEF IInv
<1>2. ASSUME pc' = pc, snapshot' = snapshot, up' = up
      PROVE  UNCHANGED LGS!lgsVars
  BY <1>2 DEF LGS!lgsVars
<1>3. ASSUME NEW s \in Sources, Refresh(s)
      PROVE  [LGS!LgsNext]_(LGS!lgsVars)
  <2> USE <1>1 DEF TypeOK, Goto
  <2>1. CASE Publish(s)
    <3>1. snapshot[s] < observed[s] /\ observed[s] \in 1 .. MaxObserved
      BY <2>1 DEF Publish, IInv, AttemptInv, Unrecorded, Accounted, BoundInv
    <3>2. ~ announcing[s] /\ announcing' = [announcing EXCEPT ![s] = TRUE]
      BY <2>1 DEF Publish
    <3>3. LGS!PublishNewer(s)
      BY <2>1, <3>1, <3>2 DEF Publish, LGS!PublishNewer
    <3> QED BY <3>3 DEF LGS!LgsNext
  <2>2. CASE MarkUp(s)
    <3>1. announcing[s] /\ announcing' = [announcing EXCEPT ![s] = FALSE]
      BY <2>2 DEF MarkUp
    <3>2. LGS!ReportUp(s)
      BY <2>2, <3>1 DEF MarkUp, LGS!ReportUp
    <3> QED BY <3>2 DEF LGS!LgsNext
  <2>3. CASE MarkDown(s)
    <3>1. ~ announcing[s] /\ announcing' = announcing
      BY <2>3 DEF MarkDown
    <3>2. LGS!ReportDown(s)
      BY <2>3, <3>1 DEF MarkDown, LGS!ReportDown
    <3> QED BY <3>2 DEF LGS!LgsNext
  <2>4. ASSUME snapshot' = snapshot, up' = up, pc[s] # "markUp", pc'[s] # "markUp",
               pc' = [pc EXCEPT ![s] = pc'[s]]
        PROVE  UNCHANGED LGS!lgsVars
    <3>1. announcing' = announcing
      BY <2>4
    <3> QED BY <2>4, <3>1 DEF LGS!lgsVars
  <2> QED
    BY <1>3, <2>1, <2>2, <2>3, <2>4
       DEF Refresh, BeginRefresh, FetchReturns, Abandon, Observe, StampSuccess,
           CountError, Stop, ScheduleNext, StopWaiting, TimerFires
<1> QED BY <1>2, <1>3 DEF Next, Cancel, Tick, Terminating, vars

(* The refreshers implement the safety part of LastGoodSnapshot: what the  *)
(* collectors and the probe read is the last good snapshot (refresher.go,  *)
(* Snapshot and Ready).                                                    *)
THEOREM Refinement == Spec => LGS!LgsInit /\ [][LGS!LgsNext]_(LGS!lgsVars)
BY LgsInitial, LgsStep, Invariance, PTL DEF Spec
=============================================================================
