----------------------------- MODULE MCRefresher -----------------------------
(***************************************************************************)
(* An instance of Refresher for TLC: one source and several attempts, so   *)
(* that the backoff grows to 3, 6 and its cap.  As addSource leaves        *)
(* MaxBackoff unset, it is the interval.                                   *)
(***************************************************************************)
EXTENDS Refresher, TLC

CONSTANT billing

(* A timeout of the HTTP client (wrapped in a net.Error), an interrupted   *)
(* request, a failing service.                                             *)
MCErrors == { {"deadline", "net"}, {"canceled", "net"}, {"status_5xx"} }

MCInterval   == billing :> 8
MCTimeout    == billing :> 2
MCMinBackoff == billing :> 3
MCMaxBackoff == MCInterval
=============================================================================
