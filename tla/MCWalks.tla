------------------------------- MODULE MCWalks -------------------------------
(***************************************************************************)
(* The walks of the billing and of the FinOps adapter, as the refreshers   *)
(* of the two sources run them: at the same time, sharing nothing.         *)
(***************************************************************************)
EXTENDS PageWalk, TokenWalk

MCItems == 1 .. 7

(* The walk does not look at the items: one list of each length will do.   *)
MCLists == {[i \in 1 .. n |-> i] : n \in 0 .. 7}

WalksInit == WalkInit /\ TokenInit

NumberedWalk == WalkNext /\ UNCHANGED tokenVars
ChargesWalk == TokenNext /\ UNCHANGED walkVars
WalksNext == NumberedWalk \/ ChargesWalk

WalksSpec == WalksInit /\ [][WalksNext]_<<walkVars, tokenVars>>
=============================================================================
