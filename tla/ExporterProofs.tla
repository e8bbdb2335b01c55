---------------------------- MODULE ExporterProofs ----------------------------
(***************************************************************************)
(* The life of the process, for any sources, delays and requests: its      *)
(* exit status tells the truth, and its refreshers are those of Refresher. *)
(* Before it, the start (Startup), for any flags and environment: what was *)
(* accepted runs, and what runs is what was asked for.                     *)
(***************************************************************************)
EXTENDS Exporter, Startup, SequenceTheorems, FiniteSetTheorems, TLAPS

RP == INSTANCE RefresherProofs

(***************************************************************************)
(* The composition: every step of the exporter is one of the refreshers,   *)
(* or changes nothing of theirs.                                           *)
(***************************************************************************)
LEMMA RefreshersStep == ctxDone \in BOOLEAN /\ [Next]_vars => [R!Next]_(R!vars)
<1> SUFFICES ASSUME ctxDone \in BOOLEAN, [Next]_vars PROVE [R!Next]_(R!vars)
  OBVIOUS
<1> USE DEF R!vars, refresherVars
<1>1. CASE Signal
  BY <1>1 DEF Signal, R!Next, R!Cancel
<1>2. CASE CollectServer
  <2>1. ctxDone' = ctxDone \/ (~ ctxDone /\ ctxDone' = TRUE)
    BY <1>2 DEF CollectServer
  <2>2. UNCHANGED refresherVars
    BY <1>2 DEF CollectServer
  <2> QED BY <2>1, <2>2 DEF R!Next, R!Cancel
<1>3. ASSUME NEW s \in Sources, RefresherStep(s) PROVE R!Next
  BY <1>3 DEF RefresherStep, R!Next
<1>4. CASE TimePasses
  BY <1>4 DEF TimePasses, R!Next
<1>5. CASE ListenerStep
  BY <1>5 DEF ListenerStep, S!Listen, S!ListenStarts, S!ListenFails, S!ServeClosed,
              S!ListenEnds, S!SendOutcome
<1>6. CASE ServerStep
  BY <1>6 DEF ServerStep, S!Run, S!ListenerStopped, S!BeginShutdown, S!ShutdownReturns,
              S!ShutdownTimesOut, S!Drain
<1>7. CASE ClientStep
  BY <1>7 DEF ClientStep, S!Environment, S!AcceptFails, S!ListenEnds, S!RequestArrives,
              S!RequestDone
<1>8. CASE Exit \/ Exited \/ UNCHANGED vars
  BY <1>8 DEF Exit, Exited, vars
<1> QED BY <1>1, <1>2, <1>3, <1>4, <1>5, <1>6, <1>7, <1>8 DEF Next

(* The types of the refreshers, by way of the proofs about them. *)
LEMMA RefresherTypes ==
  /\ R!Init => R!TypeOK
  /\ R!TypeOK /\ [R!Next]_(R!vars) => R!TypeOK'
<1>1. R!TypeOK <=> RP!TypeOK
  BY DEF R!TypeOK, RP!TypeOK, R!Pcs, RP!Pcs, R!Ok, RP!Ok, R!NilSnapshot, RP!NilSnapshot,
         R!NoStamp, RP!NoStamp, R!Reasons, RP!Reasons
<1>2. R!TypeOK' <=> RP!TypeOK'
  BY DEF R!TypeOK, RP!TypeOK, R!Pcs, RP!Pcs, R!Ok, RP!Ok, R!NilSnapshot, RP!NilSnapshot,
         R!NoStamp, RP!NoStamp, R!Reasons, RP!Reasons
<1> USE DEF RP!Kinds, R!Kinds, RP!StatusKinds, R!StatusKinds
<1>3. RP!Init => RP!TypeOK
  BY RP!InitType, ExporterAssumption
<1>4. RP!TypeOK /\ [RP!Next]_(RP!vars) => RP!TypeOK'
  BY RP!NextType, ExporterAssumption
<1>5. R!Init => RP!Init
  BY DEF R!Init, RP!Init, R!Ok, RP!Ok, R!NoStamp, RP!NoStamp, R!Reasons, RP!Reasons
<1>6. [R!Next]_(R!vars) => [RP!Next]_(RP!vars)
  <2>1. ASSUME NEW s \in Sources PROVE R!Refresh(s) <=> RP!Refresh(s)
    <3>1. R!BeginRefresh(s) <=> RP!BeginRefresh(s)
      BY DEF R!Goto, RP!Goto, R!BeginRefresh, RP!BeginRefresh
    <3>2. R!FetchReturns(s) <=> RP!FetchReturns(s)
      BY DEF R!Goto, RP!Goto, R!FetchReturns, RP!FetchReturns, R!Ok, RP!Ok, R!NilSnapshot, RP!NilSnapshot, R!Wraps, RP!Wraps
    <3>3. R!Abandon(s) <=> RP!Abandon(s)
      BY DEF R!Goto, RP!Goto, R!Abandon, RP!Abandon
    <3>4. R!Observe(s) <=> RP!Observe(s)
      BY DEF R!Goto, RP!Goto, R!Observe, RP!Observe, R!Ok, RP!Ok
    <3>5. R!Publish(s) <=> RP!Publish(s)
      BY DEF R!Goto, RP!Goto, R!Publish, RP!Publish
    <3>6. R!MarkUp(s) <=> RP!MarkUp(s)
      BY DEF R!Goto, RP!Goto, R!MarkUp, RP!MarkUp
    <3>7. R!StampSuccess(s) <=> RP!StampSuccess(s)
      BY DEF R!Goto, RP!Goto, R!StampSuccess, RP!StampSuccess
    <3>8. R!MarkDown(s) <=> RP!MarkDown(s)
      BY DEF R!Goto, RP!Goto, R!MarkDown, RP!MarkDown
    <3>9. R!CountError(s) <=> RP!CountError(s)
      BY DEF R!Goto, RP!Goto, R!CountError, RP!CountError, R!Reason, RP!Reason, R!Classify, RP!Classify, R!ClassifyStatus, RP!ClassifyStatus, R!Wraps, RP!Wraps
    <3>10. R!Stop(s) <=> RP!Stop(s)
      BY DEF R!Goto, RP!Goto, R!Stop, RP!Stop
    <3>11. R!ScheduleNext(s) <=> RP!ScheduleNext(s)
      BY DEF R!Goto, RP!Goto, R!ScheduleNext, RP!ScheduleNext, R!NextFailures, RP!NextFailures, R!NextDelay, RP!NextDelay, R!Jittered, RP!Jittered, R!MinJittered, RP!MinJittered, R!MaxJittered, RP!MaxJittered, R!Backoff, RP!Backoff, R!Doubled, RP!Doubled, R!Ok, RP!Ok
    <3>12. R!StopWaiting(s) <=> RP!StopWaiting(s)
      BY DEF R!Goto, RP!Goto, R!StopWaiting, RP!StopWaiting
    <3>13. R!TimerFires(s) <=> RP!TimerFires(s)
      BY DEF R!Goto, RP!Goto, R!TimerFires, RP!TimerFires
    <3> QED BY <3>1, <3>2, <3>3, <3>4, <3>5, <3>6, <3>7, <3>8, <3>9, <3>10, <3>11, <3>12, <3>13 DEF R!Refresh, RP!Refresh
  <2>2. R!Cancel <=> RP!Cancel
    BY DEF R!Cancel, RP!Cancel
  <2>3. R!Tick <=> RP!Tick
    BY DEF R!Tick, RP!Tick, R!NoStamp, RP!NoStamp
  <2>4. R!Terminating <=> RP!Terminating
    BY DEF R!Terminating, RP!Terminating, R!Terminated, RP!Terminated, R!vars, RP!vars
  <2> QED BY <2>1, <2>2, <2>3, <2>4 DEF R!Next, RP!Next, R!vars, RP!vars
<1> QED BY <1>1, <1>2, <1>3, <1>4, <1>5, <1>6

(***************************************************************************)
(* The inductive invariant.                                                *)
(***************************************************************************)

(* The listener: what ListenAndServe returned is in the channel until Run  *)
(* takes it, and is ErrServerClosed only because Run shut the server down. *)
ListenerInv ==
  /\ listener \in {"starting", "serving"} <=> listenErr = "nil"
  /\ listenErr = "closed" => inShutdown
  /\ errCh # S!Empty => listener = "sent" /\ errCh = listenErr
  /\ errCh = S!Empty /\ listener = "sent" => server = "returned"

(* Run: how far it has come, and why it returned what. *)
RunInv ==
  /\ server = "select" => ~ inShutdown
  /\ server \in {"shutdown", "drain"} => inShutdown /\ signaled
  /\ server = "drain" => S!InFlight = {}
  /\ server = "returned" /\ runErr = "nil" =>
       /\ signaled /\ inShutdown /\ S!InFlight = {}
       /\ listener = "sent" /\ listenErr = "closed"
  /\ server = "returned" /\ runErr = "listen" => listenErr = "failed"
  /\ server = "returned" /\ runErr = "shutdown" =>
       signaled /\ inShutdown /\ \E r \in Requests : request[r] # "idle"

(* The group: its context ends with a signal or the server, and its error  *)
(* is what the server returned.                                            *)
GroupInv ==
  /\ ctxDone => signaled \/ server = "returned"
  /\ collected => server = "returned" /\ groupErr = runErr
  /\ exit # "running" => /\ collected /\ R!Terminated
                         /\ exit = IF groupErr = "nil" THEN "0" ELSE "1"

ProcessInv == TypeOK /\ ListenerInv /\ RunInv /\ GroupInv

(* The invariant holds when the process starts. *)
LEMMA ProcessInit == Init => ProcessInv
<1> SUFFICES ASSUME Init PROVE ProcessInv
  OBVIOUS
<1>1. R!TypeOK
  BY RefresherTypes DEF Init
<1>2. S!TypeOK /\ ListenerInv /\ RunInv /\ GroupInv
  BY DEF Init, S!Init, S!TypeOK, S!ServerPcs, S!ListenerPcs, S!Empty, ListenerInv, RunInv, GroupInv
<1> QED BY <1>1, <1>2 DEF Init, ProcessInv, TypeOK

(* A step of the server, its listener or a client. *)
LEMMA ServerStepInv ==
  ASSUME ProcessInv, ListenerStep \/ ServerStep \/ ClientStep
  PROVE  /\ S!TypeOK' /\ ListenerInv' /\ RunInv'
         /\ UNCHANGED <<ctxDone, signaled>>
         /\ server = "returned" => server' = "returned" /\ runErr' = runErr
<1> USE DEF ProcessInv, TypeOK, S!TypeOK, S!ServerPcs, S!ListenerPcs, S!Empty,
            ListenerInv, RunInv, GroupInv, S!InFlight
<1>1. UNCHANGED <<ctxDone, signaled>>
  BY DEF ListenerStep, ServerStep, ClientStep, groupVars, S!Listen, S!ListenStarts,
         S!ListenFails, S!ServeClosed, S!ListenEnds, S!SendOutcome, S!Run,
         S!ListenerStopped, S!BeginShutdown, S!ShutdownReturns, S!ShutdownTimesOut,
         S!Drain, S!Environment, S!AcceptFails, S!RequestArrives, S!RequestDone
<1>2. CASE S!ListenStarts
  BY <1>1, <1>2 DEF S!ListenStarts
<1>3. CASE S!ListenFails \/ S!AcceptFails
  <2>1. /\ listener \in {"starting", "serving"} /\ listener' = "ended" /\ listenErr' = "failed"
        /\ UNCHANGED <<server, runErr, errCh, inShutdown, request>>
    BY <1>3 DEF S!ListenFails, S!AcceptFails, S!ListenEnds
  <2>2. errCh = "empty" /\ ~ (server = "returned" /\ runErr = "nil")
    BY <2>1
  <2> QED BY <1>1, <2>1, <2>2
<1>4. CASE S!ServeClosed
  BY <1>1, <1>4 DEF S!ServeClosed, S!ListenEnds
<1>5. CASE S!SendOutcome
  BY <1>1, <1>5 DEF S!SendOutcome
<1>6. CASE S!ListenerStopped
  BY <1>1, <1>6 DEF S!ListenerStopped, S!Return
<1>7. CASE S!BeginShutdown
  BY <1>1, <1>7 DEF S!BeginShutdown
<1>8. CASE S!ShutdownReturns
  BY <1>1, <1>8 DEF S!ShutdownReturns
<1>9. CASE S!ShutdownTimesOut
  BY <1>1, <1>9 DEF S!ShutdownTimesOut, S!Return
<1>10. CASE S!Drain
  BY <1>1, <1>10 DEF S!Drain, S!Return
<1>11. ASSUME NEW r \in Requests, S!RequestArrives(r)
       PROVE  /\ S!TypeOK' /\ ListenerInv' /\ RunInv'
              /\ UNCHANGED <<server, runErr>>
  BY <1>1, <1>11 DEF S!RequestArrives
<1>12. ASSUME NEW r \in Requests, S!RequestDone(r)
       PROVE  /\ S!TypeOK' /\ ListenerInv' /\ RunInv'
              /\ UNCHANGED <<server, runErr>>
  BY <1>1, <1>12 DEF S!RequestDone
<1> QED BY <1>1, <1>2, <1>3, <1>4, <1>5, <1>6, <1>7, <1>8, <1>9, <1>10, <1>11, <1>12
           DEF ListenerStep, ServerStep, ClientStep, S!Listen, S!Run, S!Environment

(* Every step of a member, of a client or of the clock keeps it. *)
LEMMA ProcessStep == ProcessInv /\ [Next]_vars => ProcessInv'
<1> SUFFICES ASSUME ProcessInv, [Next]_vars PROVE ProcessInv'
  OBVIOUS
<1>1. R!TypeOK'
  BY RefreshersStep, RefresherTypes DEF ProcessInv, TypeOK, R!TypeOK
<1> USE DEF ProcessInv, TypeOK
<1>2. CASE ListenerStep \/ ServerStep \/ ClientStep
  <2>1. UNCHANGED <<refresherVars, groupVars>> /\ Running
    BY <1>2 DEF ListenerStep, ServerStep, ClientStep
  <2>2. GroupInv'
    BY <1>2, <2>1, ServerStepInv DEF GroupInv, groupVars, Running
  <2> QED BY <1>1, <1>2, <2>1, <2>2, ServerStepInv DEF groupVars
<1>3. CASE Signal
  <2>1. S!TypeOK' /\ ListenerInv'
    BY <1>3 DEF Signal, serverVars, S!TypeOK, S!Empty, ListenerInv
  <2>2. RunInv'
    BY <1>3 DEF Signal, serverVars, RunInv, S!InFlight
  <2>3. GroupInv'
    BY <1>3 DEF Signal, serverVars, GroupInv, Running
  <2> QED BY <1>1, <1>3, <2>1, <2>2, <2>3 DEF Signal
<1>4. ASSUME ctxDone' = ctxDone, UNCHANGED <<serverVars, groupVars>>, Running
      PROVE  ProcessInv'
  <2>1. S!TypeOK' /\ ListenerInv'
    BY <1>4 DEF serverVars, groupVars, S!TypeOK, S!Empty, ListenerInv
  <2>2. RunInv'
    BY <1>4 DEF serverVars, groupVars, RunInv, S!InFlight
  <2>3. GroupInv'
    BY <1>4 DEF serverVars, groupVars, GroupInv, Running
  <2> QED BY <1>1, <1>4, <2>1, <2>2, <2>3 DEF groupVars
<1>5. CASE CollectServer
  <2>1. GroupInv'
    BY <1>5 DEF CollectServer, GroupInv, Running, serverVars
  <2>2. S!TypeOK' /\ ListenerInv' /\ RunInv'
    BY <1>5 DEF CollectServer, serverVars, S!TypeOK, S!Empty, ListenerInv, RunInv, S!InFlight
  <2>3. groupErr' \in {"nil", "listen", "shutdown"}
    BY <1>5 DEF CollectServer, S!TypeOK
  <2> QED BY <1>1, <1>5, <2>1, <2>2, <2>3 DEF CollectServer
<1>6. CASE Exit
  <2>1. GroupInv'
    BY <1>6 DEF Exit, GroupInv, serverVars, refresherVars, R!Terminated
  <2>2. S!TypeOK' /\ ListenerInv' /\ RunInv'
    BY <1>6 DEF Exit, serverVars, S!TypeOK, S!Empty, ListenerInv, RunInv, S!InFlight
  <2> QED BY <1>1, <1>6, <2>1, <2>2 DEF Exit
<1>7. CASE UNCHANGED vars
  <2>1. S!TypeOK' /\ ListenerInv'
    BY <1>7 DEF vars, serverVars, groupVars, S!TypeOK, S!Empty, ListenerInv
  <2>2. RunInv'
    BY <1>7 DEF vars, serverVars, groupVars, RunInv, S!InFlight
  <2>3. GroupInv'
    BY <1>7 DEF vars, serverVars, groupVars, refresherVars, GroupInv, R!Terminated
  <2> QED BY <1>1, <1>7, <2>1, <2>2, <2>3 DEF vars, groupVars
<1>8. ASSUME TimePasses \/ \E s \in Sources : RefresherStep(s)
      PROVE  ProcessInv'
  <2>1. ctxDone' = ctxDone
    BY <1>8 DEF TimePasses, RefresherStep, R!Tick, R!Refresh, R!BeginRefresh, R!FetchReturns,
                R!Abandon, R!Observe, R!Publish, R!MarkUp, R!StampSuccess, R!MarkDown,
                R!CountError, R!Stop, R!ScheduleNext, R!StopWaiting, R!TimerFires
  <2>2. UNCHANGED <<serverVars, groupVars>> /\ Running
    BY <1>8 DEF TimePasses, RefresherStep
  <2> QED BY <1>4, <2>1, <2>2
<1> QED BY <1>2, <1>3, <1>5, <1>6, <1>7, <1>8 DEF Next, Exited

(* It holds in every reachable state of the process. *)
LEMMA Invariance == Spec => []ProcessInv
BY ProcessInit, ProcessStep, PTL DEF Spec

-----------------------------------------------------------------------------
(* The variables have their types. *)
THEOREM TypeCorrect == Spec => []TypeOK
<1>1. ProcessInv => TypeOK
  BY DEF ProcessInv
<1> QED BY <1>1, Invariance, PTL

(* The safety part of RefresherSpec: what is proved of Refresher holds of  *)
(* the refreshers of the process, whatever its server does.                *)
THEOREM RefreshersImplemented == Spec => R!Init /\ [][R!Next]_(R!vars)
<1>1. Init => R!Init
  BY DEF Init
<1>2. ProcessInv /\ [Next]_vars => [R!Next]_(R!vars)
  BY RefreshersStep DEF ProcessInv, TypeOK, R!TypeOK
<1> QED BY <1>1, <1>2, Invariance, PTL DEF Spec

(* Status 0 is for a clean stop only. *)
THEOREM CleanExitHolds == Spec => []CleanExit
<1>1. ProcessInv => CleanExit
  <2> SUFFICES ASSUME ProcessInv, exit = "0"
               PROVE  /\ signaled /\ S!InFlight = {}
                      /\ listener = "sent" /\ listenErr = "closed" /\ R!Terminated
    BY DEF CleanExit
  <2>1. groupErr = "nil" /\ runErr = "nil" /\ server = "returned" /\ R!Terminated
    BY DEF ProcessInv, GroupInv
  <2> QED BY <2>1 DEF ProcessInv, RunInv
<1> QED BY <1>1, Invariance, PTL

(* Status 1 has a cause: a listener or a request, never the signal alone. *)
THEOREM FailureHasCauseHolds == Spec => []FailureHasCause
<1>1. ProcessInv => FailureHasCause
  <2> SUFFICES ASSUME ProcessInv, exit = "1"
               PROVE  \/ listenErr = "failed"
                      \/ signaled /\ groupErr = "shutdown" /\ \E r \in Requests : request[r] # "idle"
    BY DEF FailureHasCause
  <2>1. groupErr # "nil" /\ runErr = groupErr /\ server = "returned"
    BY DEF ProcessInv, GroupInv
  <2>2. groupErr \in {"listen", "shutdown"}
    BY <2>1 DEF ProcessInv, TypeOK
  <2> QED BY <2>1, <2>2 DEF ProcessInv, RunInv
<1> QED BY <1>1, Invariance, PTL

-----------------------------------------------------------------------------
(***************************************************************************)
(* The start of the process, for any flags, environment and files.         *)
(***************************************************************************)
(* The enabled sources that have been set up. *)
SetUp ==
  IF step <= 5 THEN <<>>
  ELSE IF step = 6 THEN Wanted("billing")
  ELSE IF step = 7 THEN Wanted("billing") \o Wanted("finops")
  ELSE Wanted("billing") \o Wanted("finops") \o Wanted("footprint")

(***************************************************************************)
(* The inductive invariant: what each step that has been taken checked,    *)
(* resolved or wired.                                                      *)
(***************************************************************************)
Progress ==
  /\ step \in 1 .. 9
  /\ \E start \in Starts : cfg = start.cfg /\ world = start.world
  /\ step > 1 => Problems(cfg) = {}
  /\ failed # {} => step \in {1, 3} \/ (step = 8 /\ ~ Plain(cfg.telemetryPath))

ClientResolved ==
  /\ client = Override(LoadProfile) /\ DOMAIN client = Credentials
  /\ \A f \in Credentials : client[f] \notin {Nil, ""}
Resolved == step > 3 => ClientResolved

Wired ==
  failed = {} =>
    /\ step > 4 => \A s \in Names : cfg.source[s].lookback <= lookback
    /\ readyFuncs = SetUp
    /\ runners = [i \in DOMAIN readyFuncs |-> Options(readyFuncs[i])]
    /\ registered \cap Names = {readyFuncs[i] : i \in DOMAIN readyFuncs}

StartInv == Progress /\ Resolved /\ Wired

(* The steps of run, in order. *)
LEMMA StepNames ==
  /\ Steps[1] = "parse" /\ Steps[2] = "metrics" /\ Steps[3] = "client"
  /\ Steps[4] = "periods" /\ Steps[5] = "billing" /\ Steps[6] = "finops"
  /\ Steps[7] = "footprint" /\ Steps[8] = "handler" /\ Steps[9] = "running"
BY DEF Steps

(* The position of run and its name. *)
LEMMA StepAt ==
  ASSUME step \in 1 .. 9
  PROVE  /\ At("parse") <=> step = 1 /\ failed = {}
         /\ At("metrics") <=> step = 2 /\ failed = {}
         /\ At("client") <=> step = 3 /\ failed = {}
         /\ At("periods") <=> step = 4 /\ failed = {}
         /\ At("billing") <=> step = 5 /\ failed = {}
         /\ At("finops") <=> step = 6 /\ failed = {}
         /\ At("footprint") <=> step = 7 /\ failed = {}
         /\ At("handler") <=> step = 8 /\ failed = {}
         /\ At("running") <=> step = 9 /\ failed = {}
<1>1. step \in {1, 2, 3, 4, 5, 6, 7, 8, 9}
  OBVIOUS
<1> QED BY <1>1, StepNames DEF At

(* What Validate accepts of an enabled source the refresher accepts, with  *)
(* its default backoff.                                                    *)
LEMMA ValidOptions ==
  ASSUME NEW start \in Starts, cfg = start.cfg, Problems(cfg) = {},
         NEW s \in Names
  PROVE  /\ cfg.source[s].lookback \in Int
         /\ cfg.maxSeries >= 1 /\ cfg.dailyOffsetDays >= 1
         /\ ValidPath(cfg.telemetryPath)
         /\ \E n \in Names : cfg.source[n].enabled
         /\ cfg.source[s].enabled =>
              LET o == Options(s)
              IN  /\ o.name = s /\ o.interval \in Nat \ {0} /\ o.timeout \in 1 .. o.interval
                  /\ o.minBackoff \in 1 .. o.maxBackoff /\ o.maxBackoff = o.interval
                  /\ RefresherAccepts(o)
<1>1. Typed(start)
  BY StartupAssumption
<1>2. /\ cfg.source[s].interval \in Int /\ cfg.source[s].timeout \in Int
      /\ cfg.source[s].lookback \in Int /\ cfg.maxSeries \in Int /\ cfg.dailyOffsetDays \in Int
  BY <1>1 DEF Typed
<1>3. /\ SourceProblems(cfg, s) = {}
      /\ Check("max-series", cfg.maxSeries >= 1) = {}
      /\ Check("daily-offset-days", cfg.dailyOffsetDays \in 1 .. 31) = {}
      /\ Check("telemetry-path", ValidPath(cfg.telemetryPath)) = {}
      /\ Check("enabled", \E n \in Names : cfg.source[n].enabled) = {}
  <2> DEFINE org == Check("organization-id", cfg.organizationID \in Uuids \cup {""})
             projects == Check("project-id", cfg.projectIDs \subseteq Uuids)
             http == Check("http-timeout", cfg.httpTimeout > 0)
             enabled == Check("enabled", \E n \in Names : cfg.source[n].enabled)
             sources == UNION {SourceProblems(cfg, n) : n \in Names}
             periods == Check("lookback-periods", \A n \in Names :
                          cfg.source[n].lookback \in 0 .. MaxLookbackPeriods)
             series == Check("max-series", cfg.maxSeries >= 1)
             offset == Check("daily-offset-days", cfg.dailyOffsetDays \in 1 .. 31)
             path == Check("telemetry-path", ValidPath(cfg.telemetryPath))
             shutdown == Check("shutdown-timeout", cfg.shutdownTimeout > 0)
  <2>1. org \cup projects \cup http \cup enabled \cup sources \cup periods \cup series
          \cup offset \cup path \cup shutdown = {}
    BY DEF Problems
  <2> HIDE DEF org, projects, http, enabled, sources, periods, series, offset, path, shutdown
  <2>2. \A A, B : A \cup B = {} => A = {} /\ B = {}
    OBVIOUS
  <2>3. sources = {} /\ series = {} /\ offset = {} /\ path = {} /\ enabled = {}
    BY <2>1, <2>2
  <2>4. SourceProblems(cfg, s) = {}
    BY <2>3 DEF sources
  <2> QED BY <2>3, <2>4 DEF series, offset, path, enabled
<1>4. /\ cfg.maxSeries >= 1 /\ cfg.dailyOffsetDays \in 1 .. 31
      /\ ValidPath(cfg.telemetryPath)
      /\ \E n \in Names : cfg.source[n].enabled
  BY <1>3 DEF Check
<1>5. ASSUME cfg.source[s].enabled
      PROVE  cfg.source[s].interval >= 4 /\ cfg.source[s].timeout > 0
             /\ cfg.source[s].timeout <= cfg.source[s].interval
  BY <1>3, <1>5 DEF SourceProblems, Check, Minute
<1> QED BY <1>2, <1>4, <1>5 DEF Options, RefresherAccepts, DefaultMinBackoff

(* What ServeMux panics on is not plain, once Validate has passed it. *)
LEMMA PanicsNotPlain ==
  ASSUME NEW path, path \in Seq([kind : SegmentKinds, text : STRING, name : STRING]),
         ValidPath(path), MuxPanics(path)
  PROVE  ~ Plain(path)
<1>1. Unclean(path) => ~ Plain(path)
  <2> SUFFICES ASSUME Unclean(path), Plain(path) PROVE FALSE
    OBVIOUS
  <2> DEFINE Dots == {".", ".."}
  <2>1. PICK i \in DOMAIN path :
          path[i].text \in Dots \/ (path[i].text = "" /\ i < Len(path))
    BY DEF Unclean
  <2>2. path[i].text \notin Dots /\ (path[i].text = "" => i = Len(path))
    BY DEF Plain
  <2> HIDE DEF Dots
  <2>3. path[i].text = "" /\ i < Len(path)
    BY <2>1, <2>2, Zenon
  <2>4. i = Len(path)
    BY <2>2, <2>3, Zenon
  <2>5. i < Len(path)
    BY <2>3, Zenon
  <2>6. Len(path) \in Nat
    OBVIOUS
  <2> QED BY <2>4, <2>5, <2>6
<1>2. Unparsable(path) => ~ Plain(path)
  <2>1. (\E i \in DOMAIN path : path[i].kind # "literal") => ~ Plain(path)
    BY DEF Plain
  <2> QED BY <2>1 DEF Unparsable
<1>3. BuiltIn(path) => ~ Plain(path)
  <2> SUFFICES ASSUME BuiltIn(path), Plain(path) PROVE FALSE
    OBVIOUS
  <2>1. Len(path) = 1 /\ 1 \in DOMAIN path
    BY DEF BuiltIn
  <2>2. path[1].kind = "literal" /\ path[1].name = path[1].text
    BY <2>1 DEF Plain
  <2>3. path[1].text \notin {"healthz", "readyz"}
    BY <2>1 DEF ValidPath
  <2> QED BY <2>2, <2>3 DEF BuiltIn
<1> QED BY <1>1, <1>2, <1>3 DEF MuxPanics

(* The credentials a client is made with are those its checks passed. *)
LEMMA CredentialsOf ==
  ASSUME NEW start \in Starts, cfg = start.cfg, world = start.world,
         ~ ProfileProblem
  PROVE  DOMAIN Override(LoadProfile) = Credentials
<1> DEFINE file == IF world.file = "missing" THEN NoProfile ELSE world.profiles[ProfileName]
<1>1. Typed(start)
  BY StartupAssumption
<1>2. DOMAIN file = Credentials
  <2>1. DOMAIN NoProfile = Credentials
    BY DEF NoProfile, Credentials
  <2>2. CASE world.file # "missing"
    <3>1. world.file = "present" /\ ProfileName \in DOMAIN world.profiles
      BY <1>1, <2>2 DEF ProfileProblem, Typed
    <3> QED BY <1>1, <2>2, <3>1 DEF Typed
  <2> QED BY <2>1, <2>2
<1> HIDE DEF file
<1>3. DOMAIN LoadProfile = Credentials
  BY <1>2 DEF LoadProfile, Merge, file
<1> QED BY <1>3 DEF Override

(* The process starts with nothing wired. *)
LEMMA StartsWired == StartInit => StartInv
<1>1. StartInit => Progress /\ Wired
  BY DEF StartInit, Progress, Wired, SetUp
<1>2. StartInit => Resolved
  BY DEF StartInit, Resolved
<1> QED BY <1>1, <1>2 DEF StartInv

(* A source is set up: it is refused by nobody and wired everywhere. *)
LEMMA SetupStep ==
  ASSUME StartInv, NEW s \in Names, SetupSource(s)
  PROVE  StartInv'
<1>0. PICK start \in Starts : cfg = start.cfg /\ world = start.world
  BY DEF StartInv, Progress
<1>1. /\ step \in 5 .. 7 /\ failed = {}
      /\ s = "billing" <=> step = 5
      /\ s = "finops" <=> step = 6
      /\ s = "footprint" <=> step = 7
  <2>1. step \in 1 .. 9 /\ At(s)
    BY DEF StartInv, Progress, SetupSource
  <2>2. CASE s = "billing"
    <3>1. step = 5 /\ failed = {}
      BY <2>1, <2>2, StepAt
    <3> QED BY <2>2, <3>1
  <2>3. CASE s = "finops"
    <3>1. step = 6 /\ failed = {}
      BY <2>1, <2>3, StepAt
    <3> QED BY <2>3, <3>1
  <2>4. CASE s = "footprint"
    <3>1. step = 7 /\ failed = {}
      BY <2>1, <2>4, StepAt
    <3> QED BY <2>4, <3>1
  <2>5. s = "billing" \/ s = "finops" \/ s = "footprint"
    BY DEF Names
  <2> QED BY <2>2, <2>3, <2>4, <2>5
<1>2. Problems(cfg) = {} /\ client.org # ""
  <2>1. step > 1 /\ step > 3
    BY <1>1
  <2>2. Problems(cfg) = {}
    BY <2>1 DEF StartInv, Progress
  <2>3. \A f \in Credentials : client[f] # ""
    BY <2>1 DEF StartInv, Resolved, ClientResolved
  <2> QED BY <2>2, <2>3 DEF Credentials
<1>3. /\ cfg' = cfg /\ world' = world /\ client' = client /\ lookback' = lookback
  BY DEF SetupSource, Proceed, Fail
<1>4. \A n : Wanted(n)' = Wanted(n) /\ Options(n)' = Options(n)
  BY <1>3 DEF Wanted, Options
<1>5. /\ readyFuncs = SetUp /\ readyFuncs \in Seq(Names)
      /\ runners = [i \in DOMAIN readyFuncs |-> Options(readyFuncs[i])]
      /\ registered \cap Names = {readyFuncs[i] : i \in DOMAIN readyFuncs}
      /\ \A n \in Names : cfg.source[n].lookback <= lookback
  <2>1. \A n \in Names : Wanted(n) \in Seq(Names)
    BY DEF Wanted
  <2>2. SetUp \in Seq(Names)
    BY <2>1 DEF SetUp, Names
  <2> QED BY <1>1, <2>2 DEF StartInv, Wired
<1>6. step' = step + 1 => SetUp' = SetUp \o Wanted(s)
  <2> SUFFICES ASSUME step' = step + 1 PROVE SetUp' = SetUp \o Wanted(s)
    OBVIOUS
  <2> DEFINE b == Wanted("billing")
             f == Wanted("finops")
             p == Wanted("footprint")
  <2>1. /\ b \in Seq({"billing"})
        /\ Wanted("billing")' = b /\ Wanted("finops")' = f /\ Wanted("footprint")' = p
    <3>1. b \in Seq({"billing"})
      <4>1. <<>> \in Seq({"billing"}) /\ <<"billing">> \in Seq({"billing"})
        OBVIOUS
      <4>2. b = <<>> \/ b = <<"billing">>
        BY DEF Wanted
      <4> QED BY <4>1, <4>2
    <3>2. Wanted("billing")' = b /\ Wanted("finops")' = f /\ Wanted("footprint")' = p
      BY <1>3 DEF Wanted
    <3> QED BY <3>1, <3>2
  <2>2. /\ step = 5 => SetUp = <<>> /\ SetUp' = b /\ Wanted(s) = b
        /\ step = 6 => SetUp = b /\ SetUp' = b \o f /\ Wanted(s) = f
        /\ step = 7 => SetUp = b \o f /\ SetUp' = (b \o f) \o p /\ Wanted(s) = p
    <3> QED BY <1>1, <2>1 DEF SetUp
  <2> HIDE DEF b, f, p
  <2>3. <<>> \o b = b
    BY <2>1
  <2>4. step = 5 \/ step = 6 \/ step = 7
    BY <1>1
  <2> QED BY <2>2, <2>3, <2>4
<1>7. step' = step + 1 /\ failed' = {} /\ Wired' => StartInv'
  <2>1. Problems(cfg)' = {}
    BY <1>2, <1>3
  <2>2. Override(LoadProfile)' = Override(LoadProfile)
    BY <1>3 DEF Override, LoadProfile, Merge, ProfileName
  <2>3. step' = step + 1 /\ failed' = {} => Progress'
    <3>1. (\E st \in Starts : cfg = st.cfg /\ world = st.world)'
      BY <1>0, <1>3
    <3>2. step' = step + 1 => step' \in 1 .. 9
      BY <1>1
    <3>3. (step > 1 => Problems(cfg) = {})'
      BY <2>1
    <3>4. failed' = {} => (failed # {} => step \in {1, 3} \/ (step = 8 /\ ~ Plain(cfg.telemetryPath)))'
      OBVIOUS
    <3> QED BY <3>1, <3>2, <3>3, <3>4 DEF Progress
  <2>4. step' = step + 1 => Resolved'
    <3>1. /\ client = Override(LoadProfile) /\ DOMAIN client = Credentials
          /\ \A f \in Credentials : client[f] \notin {Nil, ""}
      <4>1. step > 3 /\ Resolved
        BY <1>1 DEF StartInv
      <4> QED BY <4>1 DEF Resolved, ClientResolved
    <3>2. (client = Override(LoadProfile))'
      BY <1>3, <2>2, <3>1
    <3>3. (DOMAIN client = Credentials /\ \A f \in Credentials : client[f] \notin {Nil, ""})'
      BY <1>3, <3>1 DEF Credentials
    <3>4. ClientResolved'
      BY <3>2, <3>3 DEF ClientResolved
    <3> QED BY <3>4 DEF Resolved
  <2> QED BY <2>3, <2>4 DEF StartInv
<1>8. CASE ~ cfg.source[s].enabled
  <2>1. step' = step + 1 /\ failed' = failed /\ UNCHANGED <<registered, runners, readyFuncs>>
    BY <1>8 DEF SetupSource, Proceed, wiring
  <2>2. SetUp' = SetUp
    <3>1. Wanted(s) = <<>>
      BY <1>8 DEF Wanted
    <3>2. SetUp \o <<>> = SetUp
      BY <1>5
    <3> QED BY <1>6, <2>1, <3>1, <3>2
  <2>3. Wired'
    BY <1>3, <1>4, <1>5, <2>1, <2>2 DEF Wired, Names
  <2> QED BY <1>1, <1>7, <2>1, <2>3
<1>9. CASE cfg.source[s].enabled
  <2>1. SourceAccepts(s) /\ RefresherAccepts(Options(s))
    BY <1>0, <1>2, <1>9, ValidOptions DEF SourceAccepts
  <2>2. /\ step' = step + 1 /\ failed' = failed
        /\ runners' = Append(runners, Options(s))
        /\ readyFuncs' = Append(readyFuncs, s)
        /\ registered' = registered \cup Collectors(s)
    BY <1>9, <2>1 DEF SetupSource, Proceed
  <2>3. readyFuncs' = SetUp'
    <3>1. Wanted(s) = <<s>>
      BY <1>9 DEF Wanted
    <3> QED BY <1>5, <1>6, <2>2, <3>1
  <2>0. PICK n \in Nat : n = Len(readyFuncs)
    BY <1>5
  <2>4. /\ DOMAIN readyFuncs = 1 .. n /\ DOMAIN readyFuncs' = 1 .. n + 1
        /\ readyFuncs'[n + 1] = s /\ \A i \in 1 .. n : readyFuncs'[i] = readyFuncs[i]
    BY <1>5, <2>0, <2>2
  <2>5. runners' = [i \in DOMAIN readyFuncs |-> Options(readyFuncs[i])]'
    <3> DEFINE opts == {Options(x) : x \in Names}
    <3>1. runners \in [1 .. n -> opts]
      BY <1>5, <2>4
    <3>2. runners \in Seq(opts) /\ Len(runners) = n /\ Options(s) \in opts
      <4> HIDE DEF opts
      <4>1. runners \in Seq(opts) /\ Len(runners) = n
        BY <2>4, <3>1
      <4> QED BY <4>1 DEF opts
    <3> HIDE DEF opts
    <3>3. /\ DOMAIN runners' = 1 .. n + 1 /\ runners'[n + 1] = Options(s)
          /\ \A i \in 1 .. n : runners'[i] = runners[i]
          /\ runners' = [i \in DOMAIN runners' |-> runners'[i]]
      <4>1. /\ runners' \in Seq(opts) /\ Len(runners') = n + 1
            /\ runners'[n + 1] = Options(s)
            /\ \A i \in 1 .. n : runners'[i] = runners[i]
        BY <2>2, <2>4, <3>2, AppendProperties
      <4> QED BY <2>4, <4>1
    <3>4. \A i \in 1 .. n + 1 : runners'[i] = Options(readyFuncs[i])'
      <4>1. \A i \in 1 .. n : runners'[i] = Options(readyFuncs[i])
        BY <1>5, <2>4, <3>3
      <4>2. \A i \in 1 .. n : Options(readyFuncs[i])' = Options(readyFuncs[i])
        BY <1>3, <2>4 DEF Options
      <4>3. Options(readyFuncs[n + 1])' = Options(s)
        BY <1>3, <2>4 DEF Options
      <4> QED BY <2>4, <3>3, <4>1, <4>2, <4>3
    <3> QED BY <2>4, <3>3, <3>4
  <2>6. registered' \cap Names = {readyFuncs'[i] : i \in DOMAIN readyFuncs'}
    <3>1. {readyFuncs'[i] : i \in DOMAIN readyFuncs'}
            = {readyFuncs[i] : i \in DOMAIN readyFuncs} \cup {s}
      BY <2>4
    <3>2. Collectors(s) \cap Names = {s}
      BY DEF Collectors, Names
    <3> QED BY <1>5, <2>2, <3>1, <3>2
  <2>7. Wired'
    BY <1>3, <1>5, <2>3, <2>5, <2>6 DEF Wired, Names
  <2> QED BY <1>1, <1>7, <2>2, <2>7
<1> QED BY <1>8, <1>9

(* Until the sources are set up nothing is wired; after it, all of them.   *)
LEMMA KeepWired ==
  ASSUME StartInv, failed = {}, step' = step + 1, step' \in 1 .. 9, step \notin 5 .. 7,
         cfg' = cfg, readyFuncs' = readyFuncs, runners' = runners,
         registered' \cap Names = registered \cap Names,
         step' > 4 => \A s \in Names : (cfg.source[s].lookback <= lookback)'
  PROVE  Wired'
<1>1. step \in 1 .. 9 /\ Wired
  BY DEF StartInv, Progress
<1>2. /\ readyFuncs = SetUp
      /\ runners = [i \in DOMAIN readyFuncs |-> Options(readyFuncs[i])]
      /\ registered \cap Names = {readyFuncs[i] : i \in DOMAIN readyFuncs}
  BY <1>1 DEF Wired
<1>3. SetUp' = SetUp
  <2>1. Wanted("billing")' = Wanted("billing") /\ Wanted("finops")' = Wanted("finops")
        /\ Wanted("footprint")' = Wanted("footprint")
    BY DEF Wanted
  <2>2. step <= 4 \/ step = 8
    BY <1>1
  <2>3. CASE step <= 4
    BY <1>1, <2>3 DEF SetUp
  <2>4. CASE step = 8
    BY <1>1, <2>1, <2>4 DEF SetUp
  <2> QED BY <2>2, <2>3, <2>4
<1>4. readyFuncs' = SetUp'
  BY <1>2, <1>3
<1>5. runners' = [i \in DOMAIN readyFuncs |-> Options(readyFuncs[i])]'
  BY <1>2 DEF Options
<1>6. (registered \cap Names)' = {readyFuncs[i] : i \in DOMAIN readyFuncs}'
  BY <1>2 DEF Names
<1>7. (step > 4 => \A s \in Names : cfg.source[s].lookback <= lookback)'
  BY DEF Names
<1> QED BY <1>4, <1>5, <1>6, <1>7 DEF Wired

(* What the client was resolved from does not change after it is made.     *)
LEMMA KeepResolved ==
  ASSUME Resolved, step > 3, UNCHANGED <<cfg, world, client>>
  PROVE  Resolved'
<1>1. /\ client = Override(LoadProfile) /\ DOMAIN client = Credentials
      /\ \A f \in Credentials : client[f] \notin {Nil, ""}
  BY DEF Resolved, ClientResolved
<1>2. Override(LoadProfile)' = Override(LoadProfile)
  BY DEF Override, LoadProfile, Merge, ProfileName
<1>3. (client = Override(LoadProfile))'
  BY <1>1, <1>2
<1>4. (DOMAIN client = Credentials /\ \A f \in Credentials : client[f] \notin {Nil, ""})'
  BY <1>1 DEF Credentials
<1>5. ClientResolved'
  BY <1>3, <1>4 DEF ClientResolved
<1> QED BY <1>5 DEF Resolved

(* No step of run breaks the invariant. *)
LEMMA StepsWired == StartInv /\ [StartNext]_startVars => StartInv'
<1> SUFFICES ASSUME StartInv, [StartNext]_startVars PROVE StartInv'
  OBVIOUS
<1>0. PICK start \in Starts : cfg = start.cfg /\ world = start.world
  BY DEF StartInv, Progress
<1>1. step \in 1 .. 9 /\ Progress /\ Resolved /\ Wired
  BY DEF StartInv, Progress
<1>2. ASSUME UNCHANGED <<cfg, world>>, step' \in 1 .. 9,
             step' > 1 => Problems(cfg) = {},
             failed' = {} \/ step' \in {1, 3} \/ (step' = 8 /\ ~ Plain(cfg.telemetryPath))
      PROVE  Progress'
  <2>1. (\E st \in Starts : cfg = st.cfg /\ world = st.world)'
    BY <1>0, <1>2
  <2>2. (step > 1 => Problems(cfg) = {})'
    BY <1>2
  <2>3. (failed # {} => step \in {1, 3} \/ (step = 8 /\ ~ Plain(cfg.telemetryPath)))'
    BY <1>2 DEF Plain
  <2> QED BY <1>2, <2>1, <2>2, <2>3 DEF Progress
<1>3. ASSUME failed' # {} PROVE Wired'
  BY <1>3 DEF Wired
<1>4. step <= 3 /\ step' = step => Resolved'
  BY <1>1 DEF Resolved
<1>5. CASE ParseFlags
  <2>1. step = 1 /\ failed = {}
    BY <1>1, <1>5, StepAt DEF ParseFlags
  <2>2. UNCHANGED <<cfg, world, client, lookback, registered, runners, readyFuncs>>
    BY <1>5 DEF ParseFlags, wiring, Proceed, Fail
  <2>3. CASE step' = step /\ failed' # {}
    BY <1>2, <1>3, <1>4, <2>1, <2>2, <2>3 DEF StartInv
  <2>4. CASE Proceed /\ Problems(cfg) = {}
    <3>1. step' = 2 /\ failed' = {}
      BY <2>1, <2>4 DEF Proceed
    <3>2. Resolved'
      BY <3>1 DEF Resolved
    <3>3. Wired'
      BY <2>1, <2>2, <3>1, KeepWired DEF Names
    <3> QED BY <1>2, <2>2, <2>4, <3>1, <3>2, <3>3 DEF StartInv
  <2> QED BY <1>5, <2>3, <2>4 DEF ParseFlags, Fail
<1>6. CASE RegisterMetrics
  <2>1. step = 2 /\ failed = {}
    BY <1>1, <1>6, StepAt DEF RegisterMetrics
  <2>2. /\ UNCHANGED <<cfg, world, client, lookback, runners, readyFuncs>>
        /\ step' = 3 /\ failed' = {} /\ registered' \cap Names = {}
    BY <1>6, <2>1 DEF RegisterMetrics, Proceed, Names
  <2>3. registered \cap Names = {}
    BY <1>1, <2>1 DEF Wired, SetUp
  <2>4. Wired'
    BY <2>1, <2>2, <2>3, KeepWired
  <2>5. Resolved'
    BY <2>2 DEF Resolved
  <2>6. Problems(cfg) = {}
    BY <1>1, <2>1 DEF Progress
  <2> QED BY <1>2, <2>2, <2>4, <2>5, <2>6 DEF StartInv
<1>7. CASE MakeClient
  <2>1. step = 3 /\ failed = {} /\ Problems(cfg) = {}
    <3>1. step = 3 /\ failed = {}
      BY <1>1, <1>7, StepAt DEF MakeClient
    <3> QED BY <1>1, <3>1 DEF Progress
  <2>2. UNCHANGED <<cfg, world, lookback, registered, runners, readyFuncs>>
    BY <1>7 DEF MakeClient, wiring, Proceed, Fail
  <2>3. CASE step' = step /\ failed' # {} /\ client' = client
    BY <1>2, <1>3, <1>4, <2>1, <2>2, <2>3 DEF StartInv
  <2>4. CASE /\ Proceed /\ client' = Override(LoadProfile) /\ ~ ProfileProblem
             /\ \A f \in DOMAIN client' : client'[f] \notin {Nil, ""}
    <3>1. step' = 4 /\ failed' = {}
      <4>1. Proceed
        BY <2>4
      <4> QED BY ONLY <2>1, <4>1 DEF Proceed
    <3>2. Wired'
      BY <2>1, <2>2, <3>1, KeepWired
    <3>3. Resolved'
      <4>1. DOMAIN client' = Credentials
        BY <1>0, <2>4, CredentialsOf
      <4>2. Override(LoadProfile)' = Override(LoadProfile)
        BY <2>2 DEF Override, LoadProfile, Merge, ProfileName
      <4>3. (client = Override(LoadProfile))'
        BY <2>4, <4>2
      <4>4. (DOMAIN client = Credentials /\ \A f \in Credentials : client[f] \notin {Nil, ""})'
        BY <2>4, <4>1 DEF Credentials
      <4>5. ClientResolved'
        BY <4>3, <4>4 DEF ClientResolved
      <4> QED BY <4>5 DEF Resolved
    <3> QED BY <1>2, <2>1, <2>2, <3>1, <3>2, <3>3 DEF StartInv
  <2>5. \/ step' = step /\ failed' # {} /\ client' = client
        \/ /\ Proceed /\ client' = Override(LoadProfile) /\ ~ ProfileProblem
           /\ \A f \in DOMAIN client' : client'[f] \notin {Nil, ""}
    <3> DEFINE resolved == Override(LoadProfile)
    <3> HIDE DEF resolved
    <3>1. CASE ProfileProblem \/ (cfg.secretKeyFile # "" /\ world.secretFile # "filled")
      BY <1>7, <3>1 DEF MakeClient, Fail
    <3>2. CASE ~ ProfileProblem /\ ~ (cfg.secretKeyFile # "" /\ world.secretFile # "filled")
      <4>1. IF \E f \in DOMAIN resolved : resolved[f] \in {Nil, ""}
            THEN Fail({"credentials"}) /\ UNCHANGED client
            ELSE \/ Proceed /\ client' = resolved
                 \/ Fail({"SDK"}) /\ UNCHANGED client
        BY <1>7, <3>2 DEF MakeClient, resolved
      <4>2. CASE Fail({"credentials"}) /\ UNCHANGED client
        BY <4>2 DEF Fail
      <4>3. CASE Fail({"SDK"}) /\ UNCHANGED client
        BY <4>3 DEF Fail
      <4>4. CASE Proceed /\ client' = resolved
                 /\ ~ \E f \in DOMAIN resolved : resolved[f] \in {Nil, ""}
        BY <3>2, <4>4 DEF resolved
      <4> QED BY <4>1, <4>2, <4>3, <4>4
    <3> QED BY <3>1, <3>2
  <2> QED BY <2>3, <2>4, <2>5
<1>8. CASE RegisterPeriods
  <2>1. step = 4 /\ failed = {} /\ Problems(cfg) = {}
    <3>1. step = 4 /\ failed = {}
      BY <1>1, <1>8, StepAt DEF RegisterPeriods
    <3> QED BY <1>1, <3>1 DEF Progress
  <2>2. /\ UNCHANGED <<cfg, world, client, runners, readyFuncs>>
        /\ step' = 5 /\ failed' = {}
        /\ registered' \cap Names = registered \cap Names
    BY <1>8, <2>1 DEF RegisterPeriods, Proceed, Names
  <2>3. \A s \in Names : cfg.source[s].lookback <= lookback'
    <3>1. \A s \in Names : cfg.source[s].lookback \in Int
      BY <1>0, <2>1, ValidOptions
    <3> DEFINE lookbacks == {cfg.source[s].lookback : s \in Names}
    <3>2. lookback' = Max(lookbacks)
      BY ONLY <1>8 DEF RegisterPeriods
    <3>3. \E g \in lookbacks : \A x \in lookbacks : g >= x
      <4>1. PICK a \in Int : a = cfg.source["billing"].lookback
        BY <3>1 DEF Names
      <4>2. PICK b \in Int : b = cfg.source["finops"].lookback
        BY <3>1 DEF Names
      <4>3. PICK c \in Int : c = cfg.source["footprint"].lookback
        BY <3>1 DEF Names
      <4>4. lookbacks = {a, b, c}
        BY <4>1, <4>2, <4>3 DEF Names
      <4>5. \E g \in {a, b, c} : \A x \in {a, b, c} : g >= x
        OBVIOUS
      <4> QED BY ONLY <4>4, <4>5
    <3>4. \A s \in Names : cfg.source[s].lookback <= lookback'
      <4>1. \A x \in lookbacks : lookback' >= x
        BY <3>2, <3>3 DEF Max
      <4>2. lookback' \in lookbacks
        BY <3>2, <3>3 DEF Max
      <4> QED BY <3>1, <4>1, <4>2
    <3> QED BY <3>4
  <2>4. Wired'
    BY <2>1, <2>2, <2>3, KeepWired DEF Names
  <2> QED BY <1>1, <1>2, <2>1, <2>2, <2>4, KeepResolved DEF StartInv
<1>9. CASE BuildHandler
  <2>1. step = 8 /\ failed = {} /\ Problems(cfg) = {}
    <3>1. step = 8 /\ failed = {}
      BY <1>1, <1>9, StepAt DEF BuildHandler
    <3> QED BY <1>1, <3>1 DEF Progress
  <2>2. UNCHANGED <<cfg, world, client, lookback, registered, runners, readyFuncs>>
    BY <1>9 DEF BuildHandler, wiring, Proceed, Fail
  <2>3. Resolved'
    BY <1>1, <2>1, <2>2, KeepResolved
  <2>4. CASE Fail({"pattern"}) /\ MuxPanics(cfg.telemetryPath)
    <3>1. ~ Plain(cfg.telemetryPath)
      <4>1. "billing" \in Names
        BY DEF Names
      <4>2. ValidPath(cfg.telemetryPath)
        BY <1>0, <2>1, <4>1, ValidOptions
      <4>3. cfg.telemetryPath \in Seq([kind : SegmentKinds, text : STRING, name : STRING])
        BY <1>0, StartupAssumption DEF Typed
      <4> QED BY <2>4, <4>2, <4>3, PanicsNotPlain
    <3>2. step' = 8 /\ failed' # {}
      BY <2>1, <2>4 DEF Fail
    <3>3. Progress'
      <4>1. UNCHANGED <<cfg, world>>
        BY ONLY <2>2
      <4>2. step' \in 1 .. 9
        BY ONLY <3>2
      <4> QED BY ONLY <1>2, <2>1, <3>1, <3>2, <4>1, <4>2
    <3>4. Wired'
      BY <1>3, <3>2
    <3> QED BY <2>3, <3>3, <3>4 DEF StartInv
  <2>5. CASE Proceed
    <3>1. step' = 9 /\ failed' = {}
      BY <2>1, <2>5 DEF Proceed
    <3>2. \A s \in Names : cfg.source[s].lookback <= lookback
      BY <1>1, <2>1 DEF Wired
    <3>3. Wired'
      BY <2>1, <2>2, <3>1, <3>2, KeepWired DEF Names
    <3> QED BY <1>2, <2>1, <2>2, <2>3, <3>1, <3>3 DEF StartInv
  <2> QED BY <1>9, <2>4, <2>5 DEF BuildHandler
<1>10. CASE \E s \in Names : SetupSource(s)
  BY <1>10, SetupStep
<1>11. CASE UNCHANGED startVars
  <2>1. UNCHANGED <<cfg, world, step, failed, client, lookback, registered, runners, readyFuncs>>
    BY <1>11 DEF startVars, wiring
  <2>2. Progress'
    BY <1>1, <1>2, <2>1 DEF Progress
  <2>3. Resolved'
    BY <1>1, <1>4, <2>1, KeepResolved
  <2>4. Wired'
    <3>1. CASE failed # {}
      BY <1>3, <2>1, <3>1
    <3>2. CASE failed = {}
      <4>1. /\ readyFuncs = SetUp
            /\ runners = [i \in DOMAIN readyFuncs |-> Options(readyFuncs[i])]
            /\ registered \cap Names = {readyFuncs[i] : i \in DOMAIN readyFuncs}
            /\ step > 4 => \A s \in Names : cfg.source[s].lookback <= lookback
        BY <1>1, <3>2 DEF Wired
      <4>2. SetUp' = SetUp
        <5>1. Wanted("billing")' = Wanted("billing") /\ Wanted("finops")' = Wanted("finops")
              /\ Wanted("footprint")' = Wanted("footprint")
          BY <2>1 DEF Wanted
        <5> QED BY <2>1, <5>1 DEF SetUp
      <4>3. runners' = [i \in DOMAIN readyFuncs |-> Options(readyFuncs[i])]'
        BY <2>1, <4>1 DEF Options
      <4> QED BY <2>1, <4>1, <4>2, <4>3 DEF Wired, Names
    <3> QED BY <3>1, <3>2
  <2> QED BY <2>2, <2>3, <2>4 DEF StartInv
<1> QED BY <1>5, <1>6, <1>7, <1>8, <1>9, <1>10, <1>11 DEF StartNext

(* What has been resolved and wired is always what the steps so far checked. *)
LEMMA Started == StartSpec => []StartInv
BY StartsWired, StepsWired, PTL DEF StartSpec

(* No step after the checks of the flags and of the credentials refuses    *)
(* what they accepted, but for ServeMux, and that only telemetry paths     *)
(* that are not plain.                                                     *)
THEOREM ValidatedNeverRejectedHolds == StartSpec => []ValidatedNeverRejected
<1>1. StartInv => ValidatedNeverRejected
  BY StepNames DEF StartInv, Progress, ValidatedNeverRejected
<1> QED BY <1>1, Started, PTL

(* The most specific place of two, and of three. *)
LEMMA FirstOfTwo ==
  ASSUME NEW a, NEW b, a # Nil \/ b # Nil
  PROVE  MostSpecific(<<a, b>>) = IF a # Nil THEN a ELSE b
<1> DEFINE places == <<a, b>>
           first(i) == places[i] # Nil /\ \A j \in 1 .. i - 1 : places[j] = Nil
<1>1. DOMAIN places = {1, 2} /\ places[1] = a /\ places[2] = b
  OBVIOUS
<1>2. first(1) <=> a # Nil
  BY <1>1
<1>3. first(2) <=> b # Nil /\ a = Nil
  BY <1>1
<1> HIDE DEF first
<1>4. PICK i \in {1, 2} : i = (CHOOSE k \in {1, 2} : first(k)) /\ first(i)
  BY <1>2, <1>3
<1>5. MostSpecific(<<a, b>>) = places[i]
  BY <1>1, <1>4 DEF MostSpecific, first
<1> QED BY <1>1, <1>2, <1>3, <1>4, <1>5

LEMMA FirstOfThree ==
  ASSUME NEW a, NEW b, NEW c, a # Nil \/ b # Nil \/ c # Nil
  PROVE  MostSpecific(<<a, b, c>>) = IF a # Nil THEN a ELSE IF b # Nil THEN b ELSE c
<1> DEFINE places == <<a, b, c>>
           first(i) == places[i] # Nil /\ \A j \in 1 .. i - 1 : places[j] = Nil
<1>1. DOMAIN places = {1, 2, 3} /\ places[1] = a /\ places[2] = b /\ places[3] = c
  OBVIOUS
<1>2. first(1) <=> a # Nil
  BY <1>1
<1>3. first(2) <=> b # Nil /\ a = Nil
  BY <1>1
<1>4. first(3) <=> c # Nil /\ a = Nil /\ b = Nil
  BY <1>1
<1> HIDE DEF first
<1>5. PICK i \in {1, 2, 3} : i = (CHOOSE k \in {1, 2, 3} : first(k)) /\ first(i)
  BY <1>2, <1>3, <1>4
<1>6. MostSpecific(<<a, b, c>>) = places[i]
  BY <1>1, <1>5 DEF MostSpecific, first
<1> QED BY <1>1, <1>2, <1>3, <1>4, <1>5, <1>6

(* Each credential is that of the most specific place that has one: the    *)
(* flag, then the environment, then the profile of the file.               *)
LEMMA CredentialsAreMostSpecific ==
  ASSUME ClientResolved PROVE CredentialsResolved
<1> DEFINE file == IF world.file = "missing" THEN NoProfile ELSE world.profiles[ProfileName]
           merged == [f \in DOMAIN file |-> IF world.env[f] = Nil THEN file[f] ELSE world.env[f]]
<1>1. client = [merged EXCEPT !.secret = IF cfg.secretKeyFile = "" THEN @ ELSE "secret file",
                              !.org = IF cfg.organizationID = "" THEN @ ELSE "flag"]
  BY DEF ClientResolved, Override, LoadProfile, Merge
<1>2. DOMAIN client = {"access", "secret", "org"}
      /\ \A f \in {"access", "secret", "org"} : client[f] # Nil
  BY DEF ClientResolved, Credentials
<1>3. file.access = InFile("access") /\ file.secret = InFile("secret") /\ file.org = InFile("org")
  BY DEF NoProfile, InFile
<1>4. Nil # "secret file" /\ Nil # "flag"
  BY StartupAssumption
<1> HIDE DEF file
<1>5. DOMAIN file = {"access", "secret", "org"}
  BY <1>1, <1>2
<1>6. /\ client.access = IF world.env.access = Nil THEN file.access ELSE world.env.access
      /\ client.secret = IF cfg.secretKeyFile = ""
                         THEN IF world.env.secret = Nil THEN file.secret ELSE world.env.secret
                         ELSE "secret file"
      /\ client.org = IF cfg.organizationID = ""
                      THEN IF world.env.org = Nil THEN file.org ELSE world.env.org
                      ELSE "flag"
  BY <1>1, <1>5
<1>7. client.access = MostSpecific(AccessOf)
  <2>1. client.access # Nil
    BY <1>2
  <2>2. client.access = MostSpecific(<<world.env.access, InFile("access")>>)
    BY <1>3, <1>6, <2>1, FirstOfTwo
  <2> QED BY <2>2 DEF AccessOf
<1>8. client.secret = MostSpecific(SecretOf)
  <2>1. PICK a : a = IF cfg.secretKeyFile = "" THEN Nil ELSE "secret file"
    OBVIOUS
  <2>2. PICK b : b = world.env.secret
    OBVIOUS
  <2>3. PICK c : c = InFile("secret")
    OBVIOUS
  <2>4. client.secret # Nil /\ client.secret = IF a # Nil THEN a ELSE IF b # Nil THEN b ELSE c
    BY <1>2, <1>3, <1>4, <1>6, <2>1, <2>2, <2>3
  <2>5. client.secret = MostSpecific(<<a, b, c>>)
    BY ONLY <2>4, FirstOfThree
  <2> QED BY <2>1, <2>2, <2>3, <2>5 DEF SecretOf
<1>9. client.org = MostSpecific(OrgOf)
  <2>1. PICK a : a = IF cfg.organizationID = "" THEN Nil ELSE "flag"
    OBVIOUS
  <2>2. PICK b : b = world.env.org
    OBVIOUS
  <2>3. PICK c : c = InFile("org")
    OBVIOUS
  <2>4. client.org # Nil /\ client.org = IF a # Nil THEN a ELSE IF b # Nil THEN b ELSE c
    BY <1>2, <1>3, <1>4, <1>6, <2>1, <2>2, <2>3
  <2>5. client.org = MostSpecific(<<a, b, c>>)
    BY ONLY <2>4, FirstOfThree
  <2> QED BY <2>1, <2>2, <2>3, <2>5 DEF OrgOf
<1> QED BY <1>7, <1>8, <1>9 DEF CredentialsResolved

(* The sources that are set up are enabled, and at the end there is one.   *)
LEMMA SetUpIsEnabled ==
  ASSUME step \in 8 .. 9
  PROVE  LET Enabled == {n \in Names : cfg.source[n].enabled}
         IN  SetUp \in Seq(Enabled) /\ (Enabled # {} => SetUp # <<>>)
<1> DEFINE Enabled == {n \in Names : cfg.source[n].enabled}
           b == Wanted("billing")
           f == Wanted("finops")
           p == Wanted("footprint")
<1>1. b \in Seq(Enabled) /\ f \in Seq(Enabled) /\ p \in Seq(Enabled)
  <2>1. ASSUME NEW n \in Names PROVE Wanted(n) \in Seq(Enabled)
    <3>1. <<>> \in Seq(Enabled)
      OBVIOUS
    <3>2. cfg.source[n].enabled => n \in Enabled
      OBVIOUS
    <3> HIDE DEF Enabled
    <3>3. n \in Enabled => <<n>> \in Seq(Enabled)
      OBVIOUS
    <3> QED BY <3>1, <3>2, <3>3 DEF Wanted
  <2> QED BY <2>1 DEF Names
<1>2. Enabled # {} => b # <<>> \/ f # <<>> \/ p # <<>>
  BY DEF Names, Wanted
<1>3. SetUp = (b \o f) \o p
  <2> QED BY DEF SetUp
<1> HIDE DEF b, f, p, Enabled
<1>4. SetUp \in Seq(Enabled) /\ Len(SetUp) = Len(b) + Len(f) + Len(p)
  BY <1>1, <1>3
<1>5. Enabled # {} => SetUp # <<>>
  <2>1. b # <<>> => Len(b) > 0
    BY <1>1
  <2>2. f # <<>> => Len(f) > 0
    BY <1>1
  <2>3. p # <<>> => Len(p) > 0
    BY <1>1
  <2>4. Len(b) \in Nat /\ Len(f) \in Nat /\ Len(p) \in Nat
    BY <1>1
  <2> QED BY <1>2, <1>4, <2>1, <2>2, <2>3, <2>4
<1> QED BY <1>4, <1>5 DEF Enabled

(* A process that runs is the one that was asked for. *)
THEOREM RunsAsConfiguredHolds == StartSpec => []RunsAsConfigured
<1>1. StartInv => RunsAsConfigured
  <2> SUFFICES ASSUME StartInv, At("running") PROVE RunsAsConfigured
    BY DEF RunsAsConfigured
  <2>1. step = 9 /\ failed = {}
    BY StepAt DEF StartInv, Progress
  <2>2. PICK start \in Starts : cfg = start.cfg /\ world = start.world
    BY DEF StartInv, Progress
  <2>3. Problems(cfg) = {} /\ ClientResolved
    BY <2>1 DEF StartInv, Progress, Resolved
  <2>4. /\ readyFuncs = SetUp
        /\ runners = [i \in DOMAIN readyFuncs |-> Options(readyFuncs[i])]
        /\ registered \cap Names = {readyFuncs[i] : i \in DOMAIN readyFuncs}
        /\ \A s \in Names : cfg.source[s].lookback <= lookback
    BY <2>1 DEF StartInv, Wired
  <2>5. SetUp = EnabledNames
    <3> QED BY <2>1 DEF SetUp, EnabledNames
  <2>6. /\ SetUp # <<>>
        /\ \A i \in DOMAIN SetUp : SetUp[i] \in Names /\ cfg.source[SetUp[i]].enabled
    <3>1. PICK n \in Names : cfg.source[n].enabled
      <4>1. "billing" \in Names
        BY DEF Names
      <4> QED BY <2>2, <2>3, <4>1, ValidOptions
    <3>2. step \in 8 .. 9
      BY <2>1
    <3> DEFINE Enabled == {m \in Names : cfg.source[m].enabled}
    <3>3. Enabled # {}
      BY <3>1
    <3>4. SetUp \in Seq(Enabled) /\ SetUp # <<>>
      BY <3>2, <3>3, SetUpIsEnabled
    <3>5. \A i \in DOMAIN SetUp : SetUp[i] \in Enabled
      <4> HIDE DEF Enabled
      <4> QED BY <3>4
    <3> QED BY <3>4, <3>5
  <2>7. ASSUME NEW i \in DOMAIN runners
        PROVE  /\ runners[i].name = readyFuncs[i]
               /\ runners[i].timeout \in 1 .. runners[i].interval
               /\ runners[i].minBackoff \in 1 .. runners[i].maxBackoff
               /\ runners[i].maxBackoff = runners[i].interval
               /\ cfg.source[runners[i].name].lookback <= lookback
    <3>1. PICK n \in Names : n = readyFuncs[i] /\ cfg.source[n].enabled
      BY <2>4, <2>6
    <3>2. runners[i] = Options(n)
      BY <2>4, <3>1
    <3> QED BY <2>2, <2>3, <2>4, <3>1, <3>2, ValidOptions
  <2>8. [i \in DOMAIN runners |-> runners[i].name] = readyFuncs
    <3>1. DOMAIN runners = DOMAIN readyFuncs
      BY <2>4
    <3>2. readyFuncs = [i \in DOMAIN readyFuncs |-> readyFuncs[i]]
      <4>1. readyFuncs \in Seq({n \in Names : cfg.source[n].enabled})
        BY <2>1, <2>4, SetUpIsEnabled
      <4> QED BY <4>1
    <3> QED BY <2>7, <3>1, <3>2
  <2>9. RunsTheEnabled
    BY <2>4, <2>5, <2>6, <2>8 DEF RunsTheEnabled
  <2>10. DelaysInOrder
    BY <2>7 DEF DelaysInOrder
  <2>11. CredentialsResolved
    BY <2>3, CredentialsAreMostSpecific
  <2> QED BY <2>9, <2>10, <2>11 DEF RunsAsConfigured
<1> QED BY <1>1, Started, PTL
=============================================================================
