------------------------------ MODULE Exporter ------------------------------
(***************************************************************************)
(* The life of the exporter process                                        *)
(* (cmd/scaleway-finops-exporter/main.go, run): an errgroup with one       *)
(* goroutine per source running its refresher and one running the HTTP     *)
(* server, under a context that a signal or the first error cancels.       *)
(***************************************************************************)
EXTENDS Integers

CONSTANTS
  Sources, Errors, Interval, Timeout, MinBackoff, MaxBackoff,
  JitterNum, JitterDen, MaxObserved,      \* of Refresher
  Requests                                \* of Server

VARIABLES
  ctxDone,                                \* the group's context is canceled
  pc, result, failures, left, snapshot, up, since, errors, observed,
  server, runErr, listener, listenErr, errCh, inShutdown, request,
  signaled,                               \* SIGINT or SIGTERM was received
  collected,                              \* the group saw the server return
  groupErr,                               \* the first error of the group
  exit                                    \* the exit status

R == INSTANCE Refresher
S == INSTANCE Server

(* What Refresher assumes of its constants. *)
ASSUME ExporterAssumption ==
  /\ Errors \subseteq SUBSET R!Kinds
  /\ Interval   \in [Sources -> Nat \ {0}]
  /\ Timeout    \in [Sources -> Nat \ {0}]
  /\ MinBackoff \in [Sources -> Nat \ {0}]
  /\ MaxBackoff \in [Sources -> Nat \ {0}]
  /\ \A s \in Sources : MinBackoff[s] <= MaxBackoff[s]
  /\ JitterDen \in Nat \ {0}
  /\ JitterNum \in 1 .. JitterDen - 1
  /\ MaxObserved \in Nat \ {0}

refresherVars == <<pc, result, failures, left, snapshot, up, since, errors, observed>>
serverVars == <<server, runErr, listener, listenErr, errCh, inShutdown, request>>
groupVars == <<signaled, collected, groupErr, exit>>
vars == <<ctxDone, refresherVars, serverVars, groupVars>>

TypeOK ==
  /\ R!TypeOK /\ S!TypeOK
  /\ signaled \in BOOLEAN
  /\ collected \in BOOLEAN
  /\ groupErr \in {"nil", "listen", "shutdown"}
  /\ exit \in {"running", "0", "1"}

Init ==
  /\ R!Init /\ S!Init
  /\ signaled = FALSE
  /\ collected = FALSE
  /\ groupErr = "nil"
  /\ exit = "running"

Running == exit = "running"

(* signal.NotifyContext cancels the parent of the group's context. *)
Signal ==
  /\ Running /\ ~ signaled
  /\ signaled' = TRUE
  /\ ctxDone' = TRUE
  /\ UNCHANGED <<refresherVars, serverVars, collected, groupErr, exit>>

RefresherStep(s) ==
  /\ Running
  /\ R!Refresh(s)
  /\ UNCHANGED <<serverVars, groupVars>>

TimePasses ==
  /\ Running
  /\ R!Tick
  /\ UNCHANGED <<serverVars, groupVars>>

ListenerStep ==
  /\ Running
  /\ S!Listen
  /\ UNCHANGED <<refresherVars, groupVars>>

ServerStep ==
  /\ Running
  /\ S!Run
  /\ UNCHANGED <<refresherVars, groupVars>>

ClientStep ==
  /\ Running
  /\ S!Environment
  /\ UNCHANGED <<refresherVars, groupVars>>

(* Faulty: a plain WaitGroup, which cancels nothing. *)
CollectWithoutCancel ==
  /\ Running /\ ~ collected
  /\ server = "returned"
  /\ collected' = TRUE
  /\ groupErr' = runErr
  /\ UNCHANGED <<ctxDone, refresherVars, serverVars, signaled, exit>>

(* server.Run returned to its group: an error, the only one a member of    *)
(* the group can return, is kept and cancels the others.                   *)
CollectServer ==
  /\ Running /\ ~ collected
  /\ server = "returned"
  /\ collected' = TRUE
  /\ groupErr' = runErr
  /\ ctxDone' = (ctxDone \/ runErr # "nil")
  /\ UNCHANGED <<refresherVars, serverVars, signaled, exit>>

(* Faulty: main returns as soon as the server has. *)
ExitEarly ==
  /\ Running
  /\ collected
  /\ exit' = IF groupErr = "nil" THEN "0" ELSE "1"
  /\ UNCHANGED <<ctxDone, refresherVars, serverVars, signaled, collected, groupErr>>

(* g.Wait returns once every member has, and main exits. *)
Exit ==
  /\ Running
  /\ collected /\ \A s \in Sources : pc[s] = "stopped"
  /\ exit' = IF groupErr = "nil" THEN "0" ELSE "1"
  /\ UNCHANGED <<ctxDone, refresherVars, serverVars, signaled, collected, groupErr>>

Exited == ~ Running /\ UNCHANGED vars

Next ==
  \/ Signal \/ TimePasses \/ ListenerStep \/ ServerStep \/ ClientStep
  \/ CollectServer \/ Exit \/ Exited
  \/ \E s \in Sources : RefresherStep(s)

(* The fairness of the parts; the group collects what returned. *)
Fairness ==
  /\ WF_vars(TimePasses) /\ \A s \in Sources : WF_vars(RefresherStep(s))
  /\ WF_vars(ListenerStep) /\ WF_vars(ServerStep)
  /\ WF_vars(CollectServer) /\ WF_vars(Exit)

Spec == Init /\ [][Next]_vars /\ Fairness

-----------------------------------------------------------------------------
(***************************************************************************)
(* Safety.                                                                 *)
(***************************************************************************)

(* Status 0 is for a clean stop only: asked for by a signal, every request *)
(* answered, the listener closed by the shutdown, no refresher left.  An   *)
(* error of the listener at the moment of the signal is not swallowed,     *)
(* whichever case the select of server.Run takes.                          *)
CleanExit ==
  exit = "0" =>
    /\ signaled
    /\ S!InFlight = {}
    /\ listener = "sent" /\ listenErr = "closed"
    /\ R!Terminated

(* Status 1 has a cause: the listener failed, or a request accepted before *)
(* the signal outlived the shutdown timeout.  A signal alone never makes   *)
(* the exporter fail.                                                      *)
FailureHasCause ==
  exit = "1" =>
    \/ listenErr = "failed"
    \/ signaled /\ groupErr = "shutdown" /\ \E r \in Requests : request[r] # "idle"

(***************************************************************************)
(* Liveness.                                                               *)
(***************************************************************************)

(* A signal ends the process, even if a request never ends. *)
SignalEndsExporter == signaled ~> ~ Running

(* A listener that fails takes the whole exporter down, so that an         *)
(* orchestrator restarts it: it never goes on refreshing without serving.  *)
ListenFailureEndsExporter == listenErr = "failed" ~> ~ Running

(* The composed exporter implements the refreshers' specification.  When   *)
(* the process is gone its refreshers are, too.                            *)
RefresherSpec == R!Spec
=============================================================================
