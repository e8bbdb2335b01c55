------------------------------- MODULE Server -------------------------------
(***************************************************************************)
(* The HTTP server of the exporter (internal/server/server.go, Run).       *)
(*                                                                         *)
(* Run starts a goroutine that listens, serves and sends the outcome on    *)
(* errCh, a channel with room for one value, and itself waits for either   *)
(* that outcome or the end of its context, shuts the server down and       *)
(* collects the outcome.  net/http and web.ListenAndServe are modelled     *)
(* from how Run uses them: ListenAndServe ends with an error of its own or *)
(* with ErrServerClosed once Shutdown was called, also when Shutdown was   *)
(* called first.                                                           *)
(***************************************************************************)
EXTENDS Naturals

CONSTANT Requests     \* the HTTP requests of a behaviour

VARIABLES
  ctxDone,            \* the context Run was given is canceled
  server,             \* where Run stands
  runErr,             \* what Run returned
  listener,           \* where the listening goroutine stands
  listenErr,          \* what ListenAndServe returned
  errCh,              \* the buffered channel between the two
  inShutdown,         \* srv.Shutdown was called
  request             \* the life of each request

serverVars == <<server, runErr, listener, listenErr, errCh, inShutdown, request>>
vars == <<ctxDone, serverVars>>

ServerPcs == {"select", "shutdown", "drain", "returned"}
ListenerPcs == {"starting", "serving", "ended", "sent"}
Empty == "empty"

TypeOK ==
  /\ ctxDone \in BOOLEAN
  /\ server \in ServerPcs
  /\ runErr \in {"nil", "listen", "shutdown"}
  /\ listener \in ListenerPcs
  /\ listenErr \in {"nil", "failed", "closed"}
  /\ errCh \in {Empty, "failed", "closed"}
  /\ inShutdown \in BOOLEAN
  /\ request \in [Requests -> {"idle", "active", "done"}]

Init ==
  /\ ctxDone = FALSE
  /\ server = "select"
  /\ runErr = "nil"
  /\ listener = "starting"
  /\ listenErr = "nil"
  /\ errCh = Empty
  /\ inShutdown = FALSE
  /\ request = [r \in Requests |-> "idle"]

(***************************************************************************)
(* The listening goroutine.                                                *)
(***************************************************************************)

ListenStarts ==
  /\ listener = "starting" /\ ~ inShutdown
  /\ listener' = "serving"
  /\ UNCHANGED <<ctxDone, server, runErr, listenErr, errCh, inShutdown, request>>

ListenEnds(err) ==
  /\ listener' = "ended"
  /\ listenErr' = err
  /\ UNCHANGED <<ctxDone, server, runErr, errCh, inShutdown, request>>

(* The address is taken or the TLS configuration is invalid. *)
ListenFails == listener = "starting" /\ ListenEnds("failed")

(* The listener breaks while the server runs. *)
AcceptFails == listener = "serving" /\ ~ inShutdown /\ ListenEnds("failed")

(* Serve returns ErrServerClosed, whether it was serving or not yet. *)
ServeClosed == listener \in {"starting", "serving"} /\ inShutdown /\ ListenEnds("closed")

SendOutcome ==
  /\ listener = "ended" /\ errCh = Empty
  /\ listener' = "sent"
  /\ errCh' = listenErr
  /\ UNCHANGED <<ctxDone, server, runErr, listenErr, inShutdown, request>>

(***************************************************************************)
(* Run.                                                                    *)
(***************************************************************************)

Return(err) == server' = "returned" /\ runErr' = err

(* The select of Run takes either case when both are ready. *)
ListenerStopped ==
  /\ server = "select" /\ errCh # Empty
  /\ Return("listen")
  /\ errCh' = Empty
  /\ UNCHANGED <<ctxDone, listener, listenErr, inShutdown, request>>

BeginShutdown ==
  /\ server = "select" /\ ctxDone
  /\ server' = "shutdown"
  /\ inShutdown' = TRUE
  /\ UNCHANGED <<ctxDone, runErr, listener, listenErr, errCh, request>>

InFlight == {r \in Requests : request[r] = "active"}

ShutdownReturns ==
  /\ server = "shutdown" /\ InFlight = {}
  /\ server' = "drain"
  /\ UNCHANGED <<ctxDone, runErr, listener, listenErr, errCh, inShutdown, request>>

(* Faulty: Shutdown is given a context without a deadline. *)
ShutdownHangs == FALSE /\ UNCHANGED vars

ShutdownTimesOut ==
  /\ server = "shutdown" /\ InFlight # {}
  /\ Return("shutdown")
  /\ UNCHANGED <<ctxDone, listener, listenErr, errCh, inShutdown, request>>

(* Faulty: what ListenAndServe returned is ignored, ... *)
DrainAndIgnore ==
  /\ server = "drain" /\ errCh # Empty
  /\ Return("nil")
  /\ errCh' = Empty
  /\ UNCHANGED <<ctxDone, listener, listenErr, inShutdown, request>>

(* ... or is always taken for an error. *)
DrainAsError ==
  /\ server = "drain" /\ errCh # Empty
  /\ Return("listen")
  /\ errCh' = Empty
  /\ UNCHANGED <<ctxDone, listener, listenErr, inShutdown, request>>

(* Run collects the outcome of ListenAndServe: an error of its own is not  *)
(* lost when the context ended first.                                      *)
Drain ==
  /\ server = "drain" /\ errCh # Empty
  /\ Return(IF errCh = "closed" THEN "nil" ELSE "listen")
  /\ errCh' = Empty
  /\ UNCHANGED <<ctxDone, listener, listenErr, inShutdown, request>>

(***************************************************************************)
(* The clients.  A closed listener accepts nothing; the requests accepted  *)
(* before go on.                                                           *)
(***************************************************************************)

RequestArrives(r) ==
  /\ listener = "serving" /\ ~ inShutdown
  /\ request[r] = "idle"
  /\ request' = [request EXCEPT ![r] = "active"]
  /\ UNCHANGED <<ctxDone, server, runErr, listener, listenErr, errCh, inShutdown>>

RequestDone(r) ==
  /\ request[r] = "active"
  /\ request' = [request EXCEPT ![r] = "done"]
  /\ UNCHANGED <<ctxDone, server, runErr, listener, listenErr, errCh, inShutdown>>

-----------------------------------------------------------------------------

Listen == ListenStarts \/ ListenFails \/ ServeClosed \/ SendOutcome

Run == \/ ListenerStopped \/ BeginShutdown
       \/ ShutdownReturns \/ ShutdownTimesOut \/ Drain

Environment == AcceptFails \/ \E r \in Requests : RequestArrives(r) \/ RequestDone(r)

Next == Listen \/ Run \/ Environment

(* Both goroutines run; opening a socket does not block, and the shutdown  *)
(* has a deadline.  No request has to arrive or to end.                    *)
Fairness == WF_vars(Listen) /\ WF_vars(Run)
=============================================================================
