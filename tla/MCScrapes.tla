------------------------------ MODULE MCScrapes ------------------------------
(***************************************************************************)
(* An instance of Scrapes for TLC: one source publishes twice.             *)
(***************************************************************************)
EXTENDS Scrapes, TLC

CONSTANTS billing, finops

MCAttempts == (billing :> {1, 2}) @@ (finops :> {1})
MCReadyOrder == <<billing, finops>>
=============================================================================
