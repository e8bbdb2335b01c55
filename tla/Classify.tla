------------------------------ MODULE Classify ------------------------------
(***************************************************************************)
(* The errors a refresh can end with and the label they are counted under  *)
(* (internal/scaleway/errors.go).                                          *)
(*                                                                         *)
(* An error is modelled by what errors.Is and errors.As can find in its    *)
(* chain: the set of the kinds it wraps.  A chain may wrap several (an     *)
(* *url.Error around context.DeadlineExceeded is both a network error and  *)
(* a deadline), which is why the ORDER of the cases matters.               *)
(***************************************************************************)

(* The status codes classifyStatus tells apart. *)
StatusKinds == {"status_401_403", "status_429", "status_5xx",
                "status_4xx", "status_other"}

Kinds == {"deadline", "canceled", "denied", "permissions", "invalid_args",
          "not_found", "quotas", "precondition", "syntax", "type",
          "unexpected_eof", "net_timeout", "net"} \cup StatusKinds

(* The closed set of reason labels. *)
Reasons == {"timeout", "canceled", "auth", "rate_limited", "server",
            "client", "decode", "network", "unknown"}

Wraps(err, kinds) == err \cap kinds # {}

ClassifyStatus(err) ==
  IF      Wraps(err, {"status_401_403"}) THEN "auth"
  ELSE IF Wraps(err, {"status_429"})     THEN "rate_limited"
  ELSE IF Wraps(err, {"status_5xx"})     THEN "server"
  ELSE IF Wraps(err, {"status_4xx"})     THEN "client"
  ELSE "unknown"

(* The cases are tried in the order of the switch statement. *)
Classify(err) ==
  IF      Wraps(err, {"deadline"})                        THEN "timeout"
  ELSE IF Wraps(err, {"canceled"})                        THEN "canceled"
  ELSE IF Wraps(err, {"denied", "permissions"})           THEN "auth"
  ELSE IF Wraps(err, {"invalid_args", "not_found",
                      "quotas", "precondition"})          THEN "client"
  ELSE IF Wraps(err, StatusKinds)                         THEN ClassifyStatus(err)
  ELSE IF Wraps(err, {"syntax", "type", "unexpected_eof"}) THEN "decode"
  ELSE IF Wraps(err, {"net_timeout"})                     THEN "timeout"
  ELSE IF Wraps(err, {"net"})                             THEN "network"
  ELSE "unknown"
=============================================================================
