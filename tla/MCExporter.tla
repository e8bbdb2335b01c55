----------------------------- MODULE MCExporter -----------------------------
(***************************************************************************)
(* An instance of Exporter for TLC: two sources, each recording one        *)
(* refresh, and a client.                                                  *)
(***************************************************************************)
EXTENDS Exporter, TLC

CONSTANTS billing, finops

MCErrors == { {"canceled"}, {"status_5xx"} }
MCInterval == (billing :> 1) @@ (finops :> 1)
MCTimeout  == (billing :> 1) @@ (finops :> 1)
=============================================================================
