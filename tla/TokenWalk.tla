------------------------------ MODULE TokenWalk ------------------------------
(***************************************************************************)
(* The walk of the charges by the FinOps adapter                           *)
(* (internal/scaleway/finops.go, Charges): the token of each page asks for *)
(* the next one, until a page has none.  A token seen before, or too many  *)
(* pages, end the walk with an error.                                      *)
(*                                                                         *)
(* A page is identified by the token that asks for it; its charges follow  *)
(* from it and are not told apart further.  What token a page carries, and *)
(* whether a call succeeds, is the environment's choice.                   *)
(***************************************************************************)
EXTENDS Integers, Sequences, Functions

CONSTANTS
  Tokens,        \* the page tokens of the API
  NoToken,       \* the absent or empty token, which also asks for the first page
  MaxTokenPages  \* maxPages

ASSUME TokenWalkAssumption ==
  /\ NoToken \notin Tokens
  /\ MaxTokenPages \in Nat \ {0}

VARIABLES
  tokenWalk,   \* Charges is calling, has returned the charges or an error
  tokenPage,   \* the number of the page to ask for
  token,       \* req.PageToken
  seenTokens,
  charges      \* the pages whose charges were collected, in order

tokenVars == <<tokenWalk, tokenPage, token, seenTokens, charges>>

TokenTypeOK ==
  /\ tokenWalk \in {"calling", "returned", "failed", "repeated", "runaway"}
  /\ tokenPage \in 1 .. MaxTokenPages + 1
  /\ token \in Tokens \cup {NoToken}
  /\ seenTokens \subseteq Tokens
  /\ charges \in Seq(Tokens \cup {NoToken})

TokenInit ==
  /\ tokenWalk = "calling" /\ tokenPage = 1
  /\ token = NoToken
  /\ seenTokens = {} /\ charges = <<>>

-----------------------------------------------------------------------------

CallsCharges == tokenWalk = "calling" /\ tokenPage <= MaxTokenPages

(* A page without a token is the last one. *)
LastPage ==
  /\ CallsCharges
  /\ charges' = Append(charges, token)
  /\ tokenWalk' = "returned"
  /\ UNCHANGED <<tokenPage, token, seenTokens>>

(* Faulty: the token is not looked up among those seen. *)
NextPageUnchecked ==
  /\ CallsCharges
  /\ \E next \in Tokens :
       seenTokens' = seenTokens \cup {next} /\ token' = next
  /\ charges' = Append(charges, token)
  /\ tokenPage' = tokenPage + 1
  /\ UNCHANGED tokenWalk

NextPage ==
  /\ CallsCharges
  /\ \E next \in Tokens \ seenTokens :
       seenTokens' = seenTokens \cup {next} /\ token' = next
  /\ charges' = Append(charges, token)
  /\ tokenPage' = tokenPage + 1
  /\ UNCHANGED tokenWalk

(* The page carries a token that another one has carried. *)
RepeatedToken ==
  /\ CallsCharges /\ seenTokens # {}
  /\ charges' = Append(charges, token)
  /\ tokenWalk' = "repeated"
  /\ UNCHANGED <<tokenPage, token, seenTokens>>

CallFails ==
  /\ CallsCharges
  /\ tokenWalk' = "failed"
  /\ UNCHANGED <<tokenPage, token, seenTokens, charges>>

TooManyPages ==
  /\ tokenWalk = "calling" /\ tokenPage > MaxTokenPages
  /\ tokenWalk' = "runaway"
  /\ UNCHANGED <<tokenPage, token, seenTokens, charges>>

TokenNext == LastPage \/ NextPage \/ RepeatedToken \/ CallFails \/ TooManyPages

TokenSpec == TokenInit /\ [][TokenNext]_tokenVars

-----------------------------------------------------------------------------

(* No page is collected twice, so that no charge is counted twice, and the *)
(* walk makes at most MaxTokenPages calls, though the API may chain its tokens  *)
(* in a circle or never stop giving new ones.                              *)
NoPageTwice ==
  /\ IsInjective(charges)
  /\ Len(charges) <= MaxTokenPages
=============================================================================
