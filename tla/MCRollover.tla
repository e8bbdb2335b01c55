------------------------------ MODULE MCRollover ------------------------------
(***************************************************************************)
(* An instance of Rollover for TLC: one source without a lookback, as the  *)
(* FinOps source is by default, which shows no month but the current one,  *)
(* and a disabled one with a lookback.                                     *)
(***************************************************************************)
EXTENDS Rollover, TLC

CONSTANTS finops, billing

MCErrors == { {"status_5xx"} }

MCInterval   == finops :> 4
MCTimeout    == finops :> 2
MCMinBackoff == finops :> 2
MCMaxBackoff == MCInterval
MCLookback   == finops :> 0 @@ billing :> 1
=============================================================================
