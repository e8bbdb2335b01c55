------------------------------- MODULE PageWalk -------------------------------
(***************************************************************************)
(* The walk of a numbered list by the billing adapter                      *)
(* (internal/scaleway/billing.go, paginate and the functions it calls):    *)
(* pages 1, 2, ... are asked for until one is empty or the number of items *)
(* reaches the total the API reports.                                      *)
(*                                                                         *)
(* The list behind the API may change between two calls, and the total it  *)
(* reports need not be that of the list: absent (0), too low, never to be  *)
(* reached, or another one on every page.  Both are the environment's.     *)
(***************************************************************************)
EXTENDS Integers, Sequences, FiniteSets, SequencesExt

CONSTANTS
  Items,      \* what the list may hold
  Lists,      \* the lists a walk may begin with
  PageSize,   \* Billing.pageSize
  MaxPages,   \* maxPages
  Totals,     \* the totals the API may report
  MaxChanges  \* bound: changes of the list during a walk

ASSUME PageWalkAssumption ==
  /\ IsFiniteSet(Items)
  /\ \A l \in Lists : l \in Seq(Items) /\ IsInjective(l)
  /\ PageSize \in Nat \ {0} /\ MaxPages \in Nat \ {0}
  /\ Totals \subseteq Nat /\ MaxChanges \in Nat

VARIABLES
  list,       \* the list behind the API
  walk,       \* paginate is calling, has returned nil or an error
  page,       \* the page to ask for
  seen,       \* the number of items received so far
  total,      \* the total the last page came with
  collected,  \* resp: the pages appended to the first one
  scalars,    \* the page whose other fields are kept, 0 for none
  removed,    \* history: the items removed since the walk began
  inserted,   \* history: the items inserted since then
  original,   \* history: the list when the walk began
  calls       \* history: the calls of the API so far

walkVars ==
  <<list, walk, page, seen, total, collected, scalars, removed, inserted, original, calls>>

WalkTypeOK ==
  /\ list \in Seq(Items) /\ original \in Lists
  /\ collected \in Seq(Items)
  /\ walk \in {"calling", "done", "failed", "runaway"}
  /\ page \in 1 .. MaxPages + 1
  /\ seen = Len(collected) /\ total \in Nat
  /\ scalars \in 0 .. 1
  /\ removed \subseteq Items /\ inserted \subseteq Items
  /\ calls \in Nat

WalkInit ==
  /\ list \in Lists /\ original = list
  /\ walk = "calling" /\ page = 1
  /\ seen = 0 /\ total = 0 /\ collected = <<>> /\ scalars = 0
  /\ removed = {} /\ inserted = {} /\ calls = 0

PageOf(n) == LET last == n * PageSize
             IN  SubSeq(list, last - PageSize + 1, IF last < Len(list) THEN last ELSE Len(list))

(* The page whose other fields are kept: the first. *)
KeptFields == IF scalars = 0 THEN page ELSE scalars

(* Faulty: the walk ends one item early. *)
ReachesEarly(n, t) == n >= t - 1

Reaches(n, t) == n >= t

(* Faulty: the loop has no limit. *)
CallsForever == walk = "calling"

(* The loop has a page to ask for. *)
Calls == walk = "calling" /\ page <= MaxPages

-----------------------------------------------------------------------------

(* A page arrives: it is the response, or is appended to it. *)
FetchPage ==
  /\ Calls
  /\ calls' = calls + 1
  /\ collected' = collected \o PageOf(page)
  /\ scalars' = KeptFields
  /\ seen' = seen + Len(PageOf(page))
  /\ total' \in Totals
  /\ IF PageOf(page) = <<>> \/ Reaches(seen', total')
     THEN walk' = "done" /\ UNCHANGED page
     ELSE page' = page + 1 /\ UNCHANGED walk
  /\ UNCHANGED <<list, removed, inserted, original>>

(* A call fails: so does the walk, and no list is returned. *)
PageFails ==
  /\ Calls
  /\ calls' = calls + 1
  /\ walk' = "failed"
  /\ UNCHANGED <<list, page, seen, total, collected, scalars, removed, inserted, original>>

(* The loop is over and no page was the last. *)
GiveUp ==
  /\ walk = "calling" /\ ~ Calls
  /\ walk' = "runaway"
  /\ UNCHANGED <<list, page, seen, total, collected, scalars, removed, inserted, original, calls>>

(* The list changes between two calls. *)
ItemInserted ==
  /\ walk = "calling" /\ Len(list) < Cardinality(Items)
  /\ Cardinality(removed \cup inserted) < MaxChanges
  /\ \E x \in Items \ (ToSet(list) \cup removed), i \in 1 .. Len(list) + 1 :
       list' = InsertAt(list, i, x) /\ inserted' = inserted \cup {x}
  /\ UNCHANGED <<walk, page, seen, total, collected, scalars, removed, original, calls>>

ItemRemoved ==
  /\ walk = "calling"
  /\ Cardinality(removed \cup inserted) < MaxChanges
  /\ \E i \in DOMAIN list :
       list' = RemoveAt(list, i) /\ removed' = removed \cup {list[i]}
  /\ UNCHANGED <<walk, page, seen, total, collected, scalars, inserted, original, calls>>

WalkNext == FetchPage \/ PageFails \/ GiveUp \/ ItemInserted \/ ItemRemoved

WalkSpec == WalkInit /\ [][WalkNext]_walkVars

-----------------------------------------------------------------------------

(* The total the API reports ends the walk before the end of the list. *)
Understated == total <= seen /\ seen < Len(list)

(* What a walk gets wrong has a cause: it misses an item only because      *)
(* another one was removed meanwhile or the API reported a total below the *)
(* length of the list (or none), and counts one twice only because another *)
(* was inserted.  Of a list that does not change it returns the beginning, *)
(* all of it unless the total is too low, with the other fields of its     *)
(* first page.                                                             *)
FaithfulWalk ==
  walk = "done" =>
    /\ removed = {} /\ ~ Understated => ToSet(original) \subseteq ToSet(collected)
    /\ inserted = {} => IsInjective(collected)
    /\ removed \cup inserted = {} =>
         /\ collected = SubSeq(original, 1, seen) /\ scalars = 1
         /\ ~ Understated => seen = Len(original)

(* However long the list is, however it grows and whatever total the API   *)
(* reports, a walk makes at most MaxPages calls.  It gives up only if none *)
(* of them was the last: every page had items, and they never reached the  *)
(* total, so a list that ends on the last page allowed is returned.        *)
WalkBounded ==
  /\ calls <= MaxPages
  /\ walk = "runaway" => calls = MaxPages /\ MaxPages <= seen /\ seen < total
=============================================================================
