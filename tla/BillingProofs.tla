----------------------------- MODULE BillingProofs -----------------------------
(***************************************************************************)
(* The billing data.  For any items, page size and limit, the walk of a    *)
(* numbered list by the adapter makes at most MaxPages calls, keeps count  *)
(* of what it received and, if the list did not change, received it all.   *)
(* For any reports, options and clock, a snapshot of the source is whole,  *)
(* a euro total is never silently wrong and current names win.             *)
(***************************************************************************)
EXTENDS Billing, PageWalk, SequenceTheorems, Recursion

(* A page is a part of the list. *)
LEMMA PageType ==
  ASSUME list \in Seq(Items), NEW n \in Nat \ {0}
  PROVE  PageOf(n) \in Seq(Items)
<1> DEFINE last == n * PageSize
           end == IF last < Len(list) THEN last ELSE Len(list)
<1>1. last \in Nat /\ last - PageSize + 1 >= 1
  <2>1. \A x, y \in Nat \ {0} : x * y \in Nat /\ x * y >= y
    OBVIOUS
  <2> QED BY <2>1, PageWalkAssumption
<1>2. last - PageSize + 1 \in Nat \ {0} /\ end \in Nat /\ end <= Len(list)
  BY <1>1, PageWalkAssumption
<1> DEFINE begin == last - PageSize + 1
<1> HIDE DEF last
<1>3. \A a \in Nat \ {0}, b \in Nat : b <= Len(list) => SubSeq(list, a, b) \in Seq(Items)
  OBVIOUS
<1> QED BY <1>2, <1>3 DEF PageOf, last

(* Inserting an item and removing one leave a sequence of items. *)
LEMMA ChangeType ==
  ASSUME list \in Seq(Items)
  PROVE  /\ \A x \in Items, i \in 1 .. Len(list) + 1 : InsertAt(list, i, x) \in Seq(Items)
         /\ \A i \in DOMAIN list : RemoveAt(list, i) \in Seq(Items) /\ list[i] \in Items
<1>1. \A a \in Nat \ {0}, b \in Nat : b <= Len(list) => SubSeq(list, a, b) \in Seq(Items)
  OBVIOUS
<1>2. \A i \in DOMAIN list : list[i] \in Items /\ i \in 1 .. Len(list)
  OBVIOUS
<1> QED BY <1>1, <1>2 DEF InsertAt, RemoveAt

(***************************************************************************)
(* The inductive invariant: the fields kept are none before the first call *)
(* returned, and those of page 1 from then on; while the walk goes on, no  *)
(* page was empty and the total is not reached.                            *)
(***************************************************************************)
CallsInv ==
  walk = "calling" =>
    /\ calls = page - 1 /\ calls <= seen
    /\ calls > 0 => seen < total

WalkInv == WalkTypeOK /\ (scalars = 0 => page = 1) /\ CallsInv /\ WalkBounded

(* The invariant holds before the first page is asked for. *)
LEMMA InitInv == WalkInit => WalkInv
BY PageWalkAssumption DEF WalkInit, WalkInv, WalkTypeOK, CallsInv, WalkBounded

(* Every page, error and change of the list keeps it. *)
LEMMA NextInv == WalkInv /\ [WalkNext]_walkVars => WalkInv'
<1> SUFFICES ASSUME WalkInv, [WalkNext]_walkVars PROVE WalkInv'
  OBVIOUS
<1> USE PageWalkAssumption DEF WalkInv, WalkTypeOK
<1>1. CASE FetchPage
  <2>0. page <= MaxPages /\ walk = "calling" /\ page \in Nat \ {0}
    BY <1>1 DEF FetchPage, Calls
  <2>1. PageOf(page) \in Seq(Items) /\ page \in Nat \ {0}
    BY PageType
  <2>2. /\ collected' \in Seq(Items)
        /\ Len(collected') = Len(collected) + Len(PageOf(page))
    BY <1>1, <2>1 DEF FetchPage
  <2>3. scalars' = 1
    BY <1>1 DEF FetchPage, KeptFields
  <2>4. page' \in 1 .. MaxPages + 1 /\ walk' \in {"calling", "done", "failed", "runaway"}
    BY <1>1, <2>0 DEF FetchPage
  <2>5. total' \in Nat /\ calls' = page /\ seen' = seen + Len(PageOf(page)) /\ seen \in Nat
    BY <1>1, <2>0 DEF FetchPage, CallsInv
  <2>6. WalkTypeOK' /\ (scalars' = 0 => page' = 1)
    BY <1>1, <2>1, <2>2, <2>3, <2>4, <2>5 DEF FetchPage
  <2>7. CallsInv'
    <3> SUFFICES ASSUME walk' = "calling"
                 PROVE  calls' = page' - 1 /\ calls' <= seen' /\ (calls' > 0 => seen' < total')
      BY DEF CallsInv
    <3>1. PageOf(page) # <<>> /\ ~ (seen' >= total') /\ page' = page + 1
      BY <1>1 DEF FetchPage, Reaches
    <3>2. Len(PageOf(page)) \in Nat \ {0}
      BY <2>1, <3>1
    <3>3. page - 1 <= seen
      BY <2>0 DEF CallsInv
    <3> QED BY <2>0, <2>5, <3>1, <3>2, <3>3
  <2>8. WalkBounded'
    BY <1>1, <2>0, <2>5 DEF WalkBounded, FetchPage
  <2> QED BY <2>6, <2>7, <2>8
<1>2. CASE PageFails
  BY <1>2 DEF PageFails, Calls, CallsInv, WalkBounded
<1>3. CASE GiveUp
  BY <1>3 DEF GiveUp, Calls, CallsInv, WalkBounded
<1>4. CASE ItemInserted
  BY <1>4, ChangeType DEF ItemInserted, CallsInv, WalkBounded
<1>5. CASE ItemRemoved
  BY <1>5, ChangeType DEF ItemRemoved, CallsInv, WalkBounded
<1>6. CASE UNCHANGED walkVars
  BY <1>6 DEF walkVars, CallsInv, WalkBounded
<1> QED BY <1>1, <1>2, <1>3, <1>4, <1>5, <1>6 DEF WalkNext

(* The variables have their types: in particular the items seen are the    *)
(* items collected, and the fields kept those of the first page.           *)
THEOREM WalkTypeCorrect == WalkSpec => []WalkTypeOK
<1>1. WalkInv => WalkTypeOK
  BY DEF WalkInv
<1> QED BY <1>1, InitInv, NextInv, PTL DEF WalkSpec

(* No more than MaxPages calls are made, whatever list and totals the API  *)
(* answers with, and a walk gives up only if none of them was the last.    *)
THEOREM WalkBoundedHolds == WalkSpec => []WalkBounded
<1>1. WalkInv => WalkBounded
  BY DEF WalkInv
<1> QED BY <1>1, InitInv, NextInv, PTL DEF WalkSpec
-----------------------------------------------------------------------------
(***************************************************************************)
(* What the pages collected so far say of the list.  Passed is the number  *)
(* of items before the page to ask for.                                    *)
(***************************************************************************)
Offset(n) == (n - 1) * PageSize
Passed == Offset(page)

(* An item not collected yet is still to come, unless one was removed. *)
NothingMissed ==
  removed = {} =>
    \A i \in DOMAIN original :
      \/ \E j \in DOMAIN collected : collected[j] = original[i]
      \/ \E p \in DOMAIN list : p > Passed /\ list[p] = original[i]

(* What is to come has not been collected, unless an item was inserted. *)
NothingTwice ==
  inserted = {} =>
    /\ \A p, q \in DOMAIN list : list[p] = list[q] => p = q
    /\ \A i, j \in DOMAIN collected : collected[i] = collected[j] => i = j
    /\ \A i \in DOMAIN collected, p \in DOMAIN list : p > Passed => collected[i] # list[p]

(* A list that does not change is collected from its first item on. *)
NothingElse ==
  removed \cup inserted = {} =>
    /\ list = original
    /\ Len(collected) = IF Passed < Len(list) THEN Passed ELSE Len(list)
    /\ \A i \in DOMAIN collected : collected[i] = list[i]

CallingInv ==
  /\ seen <= Passed
  /\ NothingMissed /\ NothingTwice /\ NothingElse

FaithInv ==
  /\ WalkInv
  /\ walk = "calling" => CallingInv
  /\ FaithfulWalk

(* Pages follow one another. *)
LEMMA OffsetType ==
  ASSUME NEW n \in Nat \ {0}
  PROVE  /\ Offset(n) \in Nat /\ Offset(n + 1) = Offset(n) + PageSize
         /\ n * PageSize = Offset(n) + PageSize /\ Offset(1) = 0
<1> DEFINE m == n - 1
<1>1. m \in Nat /\ n = m + 1 /\ PageSize \in Nat
  BY PageWalkAssumption
<1>2. \A x, y \in Nat : x * y \in Nat /\ (x + 1) * y = x * y + y /\ 0 * y = 0
  OBVIOUS
<1> HIDE DEF m
<1>3. Offset(n) = m * PageSize /\ Offset(n + 1) = n * PageSize /\ Offset(1) = 0 * PageSize
  BY <1>1 DEF Offset, m
<1> QED BY <1>1, <1>2, <1>3

(* A page holds the items that follow those of the pages before. *)
LEMMA PageItems ==
  ASSUME list \in Seq(Items), NEW n \in Nat \ {0}
  PROVE  LET lo == Offset(n)
         IN  /\ PageOf(n) \in Seq(Items)
             /\ Len(PageOf(n)) = IF Len(list) <= lo THEN 0
                                 ELSE IF Len(list) < lo + PageSize THEN Len(list) - lo
                                 ELSE PageSize
             /\ \A j \in 1 .. Len(PageOf(n)) :
                  lo + j \in DOMAIN list /\ PageOf(n)[j] = list[lo + j]
<1> DEFINE lo == Offset(n)
           hi == IF lo + PageSize < Len(list) THEN lo + PageSize ELSE Len(list)
<1>0. lo \in Nat /\ n * PageSize = lo + PageSize
  BY OffsetType
<1>1. lo \in Nat /\ PageSize \in Nat \ {0} /\ Len(list) \in Nat /\ DOMAIN list = 1 .. Len(list)
  BY <1>0, PageWalkAssumption
<1> HIDE DEF lo
<1>2. PageOf(n) = SubSeq(list, lo + 1, hi)
  <2> DEFINE last == n * PageSize
  <2>1. PageOf(n) = SubSeq(list, last - PageSize + 1, IF last < Len(list) THEN last ELSE Len(list))
    BY DEF PageOf
  <2>2. last = lo + PageSize
    BY <1>0
  <2> HIDE DEF last
  <2>3. last - PageSize + 1 = lo + 1
    BY <1>1, <2>2
  <2> QED BY <2>1, <2>2, <2>3
<1>3. hi \in Nat /\ hi <= Len(list) /\ \A i \in lo + 1 .. hi : i \in DOMAIN list /\ list[i] \in Items
  BY <1>1
<1> DEFINE P == PageOf(n)
           a == lo + 1
<1>4. a \in Int /\ hi \in Int
  BY <1>1, <1>3
<1> HIDE DEF hi
<1>5. /\ P \in Seq(Items)
      /\ Len(P) = IF a <= hi THEN hi - a + 1 ELSE 0
      /\ \A i \in 1 .. hi - a + 1 : P[i] = list[a + i - 1]
  <2> HIDE DEF a
  <2>1. \A i \in a .. hi : list[i] \in Items
    BY <1>3 DEF a
  <2> QED BY <1>2, <1>4, <2>1, SubSeqProperties DEF a
<1> HIDE DEF P
<1>6. ASSUME NEW j \in 1 .. Len(P)
      PROVE  lo + j \in DOMAIN list /\ P[j] = list[lo + j]
  <2>1. j \in 1 .. hi - a + 1 /\ lo + j \in lo + 1 .. hi /\ a + j - 1 = lo + j
    BY <1>1, <1>3, <1>5
  <2> QED BY <1>3, <1>5, <2>1
<1>7. Len(P) = IF Len(list) <= lo THEN 0
               ELSE IF Len(list) < lo + PageSize THEN Len(list) - lo ELSE PageSize
  <2>1. a = lo + 1 /\ hi = IF lo + PageSize < Len(list) THEN lo + PageSize ELSE Len(list)
    BY DEF hi
  <2> HIDE DEF a
  <2>2. Len(P) = IF a <= hi THEN hi - a + 1 ELSE 0
    BY <1>5
  <2> DEFINE L == Len(list)
             k == Len(P)
  <2>3. L \in Nat /\ lo \in Nat /\ PageSize \in Nat \ {0}
    BY <1>1
  <2> HIDE DEF L, k
  <2>4. CASE L <= lo
    BY <2>1, <2>2, <2>3, <2>4 DEF L, k
  <2>5. CASE lo < L /\ L < lo + PageSize
    BY <2>1, <2>2, <2>3, <2>5 DEF L, k
  <2>6. CASE lo + PageSize <= L
    BY <2>1, <2>2, <2>3, <2>6 DEF L, k
  <2> QED BY <2>3, <2>4, <2>5, <2>6 DEF L, k
<1> QED BY <1>5, <1>6, <1>7 DEF P, lo

(* Inserting an item moves the others to the right. *)
LEMMA InsertItems ==
  ASSUME list \in Seq(Items), NEW x \in Items, NEW i \in 1 .. Len(list) + 1
  PROVE  LET new == InsertAt(list, i, x)
         IN  /\ Len(new) = Len(list) + 1
             /\ \A p \in DOMAIN list : new[IF p < i THEN p ELSE p + 1] = list[p]
<1> DEFINE front == SubSeq(list, 1, i - 1)
           after == SubSeq(list, i, Len(list))
           prefix == front \o <<x>>
<1>0. Len(list) \in Nat /\ DOMAIN list = 1 .. Len(list) /\ \A p \in 1 .. Len(list) : list[p] \in Items
  OBVIOUS
<1>1. /\ front \in Seq(Items) /\ Len(front) = i - 1
      /\ \A p \in 1 .. i - 1 : front[p] = list[p]
  <2>1. \A p \in 1 .. i - 1 : list[p] \in Items
    BY <1>0
  <2>2. 1 \in Int /\ i - 1 \in Int
    OBVIOUS
  <2>3. /\ front \in Seq(Items) /\ Len(front) = IF 1 <= i - 1 THEN (i - 1) - 1 + 1 ELSE 0
        /\ \A p \in 1 .. (i - 1) - 1 + 1 : front[p] = list[1 + p - 1]
    BY <2>1, <2>2, SubSeqProperties
  <2> HIDE DEF front
  <2> QED BY <2>3
<1>2. /\ after \in Seq(Items) /\ Len(after) = Len(list) - i + 1
      /\ \A p \in 1 .. Len(list) - i + 1 : after[p] = list[i + p - 1]
  <2>1. \A p \in i .. Len(list) : list[p] \in Items
    BY <1>0
  <2>2. i \in Int /\ Len(list) \in Int
    OBVIOUS
  <2>3. /\ after \in Seq(Items) /\ Len(after) = IF i <= Len(list) THEN Len(list) - i + 1 ELSE 0
        /\ \A p \in 1 .. Len(list) - i + 1 : after[p] = list[i + p - 1]
    BY <2>1, <2>2, SubSeqProperties
  <2> HIDE DEF after
  <2> QED BY <1>0, <2>3
<1> HIDE DEF front, after
<1>3. /\ prefix \in Seq(Items) /\ Len(prefix) = i
      /\ \A p \in 1 .. i - 1 : prefix[p] = list[p]
  <2>1. <<x>> \in Seq(Items) /\ Len(<<x>>) = 1
    OBVIOUS
  <2>2. /\ prefix \in Seq(Items) /\ Len(prefix) = Len(front) + Len(<<x>>)
        /\ \A p \in 1 .. Len(front) + Len(<<x>>) :
             prefix[p] = IF p <= Len(front) THEN front[p] ELSE <<x>>[p - Len(front)]
    BY <1>1, <2>1, ConcatProperties
  <2> HIDE DEF prefix
  <2> QED BY <1>1, <2>1, <2>2
<1> HIDE DEF prefix
<1> DEFINE new == prefix \o after
<1>4. /\ Len(new) = Len(prefix) + Len(after)
      /\ \A p \in 1 .. Len(prefix) + Len(after) :
           new[p] = IF p <= Len(prefix) THEN prefix[p] ELSE after[p - Len(prefix)]
  BY <1>2, <1>3, ConcatProperties
<1> HIDE DEF new
<1>5. Len(new) = Len(list) + 1
  BY <1>0, <1>2, <1>3, <1>4
<1>6. ASSUME NEW p \in DOMAIN list
      PROVE  new[IF p < i THEN p ELSE p + 1] = list[p]
  <2>1. CASE p < i
    BY <1>0, <1>2, <1>3, <1>4, <2>1
  <2>2. CASE p >= i
    <3>1. p + 1 \in 1 .. Len(prefix) + Len(after) /\ ~ (p + 1 <= Len(prefix))
          /\ p + 1 - i \in 1 .. Len(list) - i + 1 /\ i + (p + 1 - i) - 1 = p
      BY <1>0, <1>2, <1>3, <2>2
    <3>2. new[p + 1] = after[p + 1 - i]
      BY <1>3, <1>4, <3>1
    <3>3. after[p + 1 - i] = list[p]
      BY <1>2, <3>1
    <3> QED BY <1>0, <2>2, <3>2, <3>3
  <2> QED BY <1>0, <2>1, <2>2
<1> QED BY <1>5, <1>6 DEF InsertAt, new, prefix, front, after

(* Removing an item moves the ones after it to the left. *)
LEMMA RemoveItems ==
  ASSUME list \in Seq(Items), NEW i \in DOMAIN list
  PROVE  LET new == RemoveAt(list, i)
         IN  /\ Len(new) = Len(list) - 1
             /\ \A p \in 1 .. Len(list) - 1 : new[p] = list[IF p < i THEN p ELSE p + 1]
<1> DEFINE front == SubSeq(list, 1, i - 1)
           after == SubSeq(list, i + 1, Len(list))
           new == front \o after
<1>0. Len(list) \in Nat /\ DOMAIN list = 1 .. Len(list) /\ i \in 1 .. Len(list)
      /\ \A p \in 1 .. Len(list) : list[p] \in Items
  OBVIOUS
<1>1. /\ front \in Seq(Items) /\ Len(front) = i - 1
      /\ \A p \in 1 .. i - 1 : front[p] = list[p]
  <2>1. \A p \in 1 .. i - 1 : list[p] \in Items
    BY <1>0
  <2>2. 1 \in Int /\ i - 1 \in Int
    BY <1>0
  <2>3. /\ front \in Seq(Items) /\ Len(front) = IF 1 <= i - 1 THEN (i - 1) - 1 + 1 ELSE 0
        /\ \A p \in 1 .. (i - 1) - 1 + 1 : front[p] = list[1 + p - 1]
    BY <2>1, <2>2, SubSeqProperties
  <2> HIDE DEF front
  <2> QED BY <1>0, <2>3
<1>2. /\ after \in Seq(Items) /\ Len(after) = Len(list) - i
      /\ \A p \in 1 .. Len(list) - i : after[p] = list[i + p]
  <2>1. \A p \in i + 1 .. Len(list) : list[p] \in Items
    BY <1>0
  <2>2. i + 1 \in Int /\ Len(list) \in Int
    BY <1>0
  <2> DEFINE a == i + 1
  <2>3. /\ after \in Seq(Items) /\ Len(after) = IF a <= Len(list) THEN Len(list) - a + 1 ELSE 0
        /\ \A p \in 1 .. Len(list) - a + 1 : after[p] = list[a + p - 1]
    <3> HIDE DEF a
    <3> QED BY <2>1, <2>2, SubSeqProperties DEF a
  <2> HIDE DEF after, a
  <2>4. a = i + 1 /\ a <= Len(list) + 1 /\ a \in Int
    BY <1>0 DEF a
  <2>5. Len(after) = Len(list) - i
    BY <1>0, <2>3, <2>4
  <2>6. ASSUME NEW p \in 1 .. Len(list) - i PROVE after[p] = list[i + p]
    <3>1. p \in 1 .. Len(list) - a + 1 /\ a + p - 1 = i + p
      BY <1>0, <2>4
    <3> QED BY <2>3, <3>1
  <2> QED BY <2>3, <2>5, <2>6
<1> HIDE DEF front, after
<1>3. /\ Len(new) = Len(front) + Len(after)
      /\ \A p \in 1 .. Len(front) + Len(after) :
           new[p] = IF p <= Len(front) THEN front[p] ELSE after[p - Len(front)]
  BY <1>1, <1>2, ConcatProperties
<1> HIDE DEF new
<1>4. Len(new) = Len(list) - 1
  BY <1>0, <1>1, <1>2, <1>3
<1>5. ASSUME NEW p \in 1 .. Len(list) - 1
      PROVE  new[p] = list[IF p < i THEN p ELSE p + 1]
  <2>1. CASE p < i
    <3>1. p \in 1 .. i - 1 /\ p <= Len(front) /\ p \in 1 .. Len(front) + Len(after)
      BY <1>0, <1>1, <1>2, <2>1
    <3>2. new[p] = front[p] /\ front[p] = list[p]
      BY <1>1, <1>3, <3>1
    <3> QED BY <2>1, <3>2
  <2>2. CASE p >= i
    <3> DEFINE q == p - (i - 1)
    <3>1. p \in 1 .. Len(front) + Len(after) /\ ~ (p <= Len(front))
          /\ q \in 1 .. Len(list) - i /\ i + q = p + 1 /\ q = p - Len(front)
      BY <1>0, <1>1, <1>2, <2>2
    <3> HIDE DEF q
    <3>2. new[p] = after[q]
      BY <1>3, <3>1
    <3>3. after[q] = list[p + 1]
      BY <1>2, <3>1
    <3>4. ~ (p < i)
      BY <1>0, <2>2
    <3> QED BY <3>2, <3>3, <3>4
  <2> QED BY <1>0, <2>1, <2>2
<1> QED BY <1>4, <1>5 DEF RemoveAt, new, front, after

(* What a page leaves behind, hi being the items before the next one: the  *)
(* walk ends only when no item follows.                                    *)
LEMMA PageCollected ==
  ASSUME WalkInv, CallingInv, NEW hi \in Nat, hi = Passed + PageSize,
         collected' = collected \o PageOf(page), seen' = seen + Len(PageOf(page))
  PROVE  /\ seen' <= hi
         /\ DOMAIN collected' = 1 .. Len(collected')
         /\ PageOf(page) = <<>> => Len(list) <= hi
         /\ removed = {} =>
              \A i \in DOMAIN original :
                \/ \E j \in DOMAIN collected' : collected'[j] = original[i]
                \/ \E p \in DOMAIN list : p > hi /\ list[p] = original[i]
         /\ inserted = {} =>
              /\ \A i, j \in DOMAIN collected' : collected'[i] = collected'[j] => i = j
              /\ \A i \in DOMAIN collected', p \in DOMAIN list : p > hi => collected'[i] # list[p]
         /\ removed \cup inserted = {} =>
              /\ Len(collected') = IF hi < Len(list) THEN hi ELSE Len(list)
              /\ \A i \in DOMAIN collected' : collected'[i] = list[i]
<1> DEFINE P == PageOf(page)
           L == Len(list)
           lo == Passed
           m == Len(collected)
           k == Len(P)
<1>0. /\ list \in Seq(Items) /\ collected \in Seq(Items) /\ page \in Nat \ {0} /\ seen = m
      /\ PageSize \in Nat \ {0}
  BY PageWalkAssumption DEF WalkInv, WalkTypeOK
<1>1. L \in Nat /\ m \in Nat /\ DOMAIN list = 1 .. L /\ DOMAIN collected = 1 .. m
  BY <1>0
<1>2. lo \in Nat /\ hi = lo + PageSize
  BY <1>0, OffsetType DEF Passed
<1>3. /\ P \in Seq(Items) /\ k \in Nat
      /\ k = IF L <= lo THEN 0 ELSE IF L < lo + PageSize THEN L - lo ELSE PageSize
      /\ \A j \in 1 .. k : lo + j \in DOMAIN list /\ P[j] = list[lo + j]
  <2>1. /\ P \in Seq(Items)
        /\ k = IF L <= lo THEN 0 ELSE IF L < lo + PageSize THEN L - lo ELSE PageSize
        /\ \A j \in 1 .. k : lo + j \in DOMAIN list /\ P[j] = list[lo + j]
    BY <1>0, PageItems DEF Passed
  <2>2. k \in Nat
    BY <2>1
  <2> QED BY <2>1, <2>2
<1>4. P = <<>> => k = 0
  BY <1>3
<1> HIDE DEF P, lo
<1>5. /\ collected' \in Seq(Items) /\ Len(collected') = m + k
      /\ \A i \in 1 .. m + k :
           collected'[i] = IF i <= m THEN collected[i] ELSE P[i - m]
  <2> DEFINE Q == collected \o P
  <2>1. collected' = Q
    BY DEF P
  <2>2. /\ Q \in Seq(Items) /\ Len(Q) = Len(collected) + Len(P)
        /\ \A i \in 1 .. Len(collected) + Len(P) :
             Q[i] = IF i <= Len(collected) THEN collected[i] ELSE P[i - Len(collected)]
    BY <1>0, <1>3, ConcatProperties
  <2> HIDE DEF Q
  <2> QED BY <2>1, <2>2
<1>6. DOMAIN collected' = 1 .. m + k /\ DOMAIN collected' = 1 .. Len(collected')
  BY <1>5
<1>7. seen' = m + k /\ m <= lo
  BY <1>0 DEF CallingInv, P, lo
<1> HIDE DEF L, m, k
<1>8. k <= PageSize /\ m + k <= hi
  BY <1>0, <1>1, <1>2, <1>3, <1>7
<1>9. ASSUME NEW i \in 1 .. m
      PROVE  i \in DOMAIN collected' /\ collected'[i] = collected[i] /\ i \in DOMAIN collected
  BY <1>1, <1>3, <1>5, <1>6
<1>10. ASSUME NEW i \in DOMAIN collected', ~ (i \in 1 .. m)
       PROVE  /\ lo + (i - m) \in DOMAIN list /\ collected'[i] = list[lo + (i - m)]
              /\ lo < lo + (i - m) /\ lo + (i - m) <= hi /\ i - m \in Int
  <2> DEFINE j == i - m
  <2>1. j \in 1 .. k /\ ~ (i <= m) /\ i \in 1 .. m + k
    BY <1>1, <1>3, <1>6, <1>10
  <2> HIDE DEF j
  <2>2. collected'[i] = P[j]
    BY <1>5, <2>1 DEF j
  <2>3. lo + j \in DOMAIN list /\ P[j] = list[lo + j]
    BY <1>3, <2>1
  <2>4. lo < lo + j /\ lo + j <= hi
    BY <1>0, <1>2, <1>3, <1>8, <2>1
  <2> QED BY <2>1, <2>2, <2>3, <2>4 DEF j
<1>11. ASSUME NEW p \in DOMAIN list, p > lo, ~ (p > hi)
       PROVE  \E j \in DOMAIN collected' : collected'[j] = list[p]
  <2> DEFINE j == p - lo
  <2>1. j \in 1 .. k /\ lo + j = p
    BY <1>0, <1>1, <1>2, <1>3, <1>11
  <2> HIDE DEF j
  <2>2. m + j \in DOMAIN collected' /\ ~ (m + j <= m) /\ m + j \in 1 .. m + k /\ (m + j) - m = j
    BY <1>1, <1>3, <1>6, <2>1
  <2>3. collected'[m + j] = P[j] /\ P[j] = list[lo + j]
    BY <1>3, <1>5, <2>1, <2>2
  <2> QED BY <2>1, <2>2, <2>3
<1>12. P = <<>> => L <= hi
  BY <1>0, <1>1, <1>2, <1>3, <1>4
<1>13. ASSUME removed = {}, NEW i \in DOMAIN original
       PROVE  \/ \E j \in DOMAIN collected' : collected'[j] = original[i]
              \/ \E p \in DOMAIN list : p > hi /\ list[p] = original[i]
  <2>1. \/ \E j \in DOMAIN collected : collected[j] = original[i]
        \/ \E p \in DOMAIN list : p > lo /\ list[p] = original[i]
    BY <1>13 DEF CallingInv, NothingMissed, lo
  <2>2. ASSUME NEW j \in DOMAIN collected, collected[j] = original[i]
        PROVE  \E x \in DOMAIN collected' : collected'[x] = original[i]
    BY <1>1, <1>9, <2>2
  <2> QED BY <1>11, <2>1, <2>2
<1>14. ASSUME inserted = {}
       PROVE  /\ \A i, j \in DOMAIN collected' : collected'[i] = collected'[j] => i = j
              /\ \A i \in DOMAIN collected', p \in DOMAIN list : p > hi => collected'[i] # list[p]
  <2>1. /\ \A p, q \in DOMAIN list : list[p] = list[q] => p = q
        /\ \A i, j \in DOMAIN collected : collected[i] = collected[j] => i = j
        /\ \A i \in DOMAIN collected, p \in DOMAIN list : p > lo => collected[i] # list[p]
    BY <1>14 DEF CallingInv, NothingTwice, lo
  <2>2. ASSUME NEW i \in DOMAIN collected', NEW j \in DOMAIN collected',
               collected'[i] = collected'[j]
        PROVE  i = j
    <3>0. i \in Int /\ j \in Int
      BY <1>6
    <3>1. CASE i \in 1 .. m /\ j \in 1 .. m
      BY <1>9, <2>1, <2>2, <3>1
    <3>2. CASE i \in 1 .. m /\ ~ (j \in 1 .. m)
      BY <1>1, <1>2, <1>9, <1>10, <2>1, <2>2, <3>2
    <3>3. CASE ~ (i \in 1 .. m) /\ j \in 1 .. m
      BY <1>1, <1>2, <1>9, <1>10, <2>1, <2>2, <3>3
    <3>4. CASE ~ (i \in 1 .. m) /\ ~ (j \in 1 .. m)
      <4>1. /\ lo + (i - m) \in DOMAIN list /\ lo + (j - m) \in DOMAIN list
            /\ list[lo + (i - m)] = list[lo + (j - m)]
        BY <1>10, <2>2, <3>4
      <4>2. lo + (i - m) = lo + (j - m)
        BY <2>1, <4>1
      <4> QED BY <1>1, <1>2, <3>0, <4>2
    <3> QED BY <3>1, <3>2, <3>3, <3>4
  <2>3. ASSUME NEW i \in DOMAIN collected', NEW p \in DOMAIN list, p > hi
        PROVE  collected'[i] # list[p]
    <3>0. p \in Int /\ p > lo
      BY <1>0, <1>1, <1>2, <2>3
    <3>1. CASE i \in 1 .. m
      BY <1>9, <2>1, <2>3, <3>0, <3>1
    <3>2. CASE ~ (i \in 1 .. m)
      <4> DEFINE q == lo + (i - m)
      <4>1. q \in DOMAIN list /\ collected'[i] = list[q] /\ q <= hi /\ q \in Int
        BY <1>1, <1>10, <3>2
      <4> HIDE DEF q
      <4>2. q # p
        BY <1>2, <2>3, <3>0, <4>1
      <4> QED BY <2>1, <4>1, <4>2
    <3> QED BY <3>1, <3>2
  <2> QED BY <2>2, <2>3
<1>15. ASSUME removed \cup inserted = {}
       PROVE  /\ Len(collected') = IF hi < L THEN hi ELSE L
              /\ \A i \in DOMAIN collected' : collected'[i] = list[i]
  <2>1. /\ m = IF lo < L THEN lo ELSE L
        /\ \A i \in DOMAIN collected : collected[i] = list[i]
    BY <1>15 DEF CallingInv, NothingElse, lo, m, L
  <2>2. Len(collected') = IF hi < L THEN hi ELSE L
    <3>1. m + k = IF hi < L THEN hi ELSE L
      <4>0. /\ L \in Nat /\ lo \in Nat /\ PageSize \in Nat \ {0} /\ hi = lo + PageSize
            /\ k = IF L <= lo THEN 0 ELSE IF L < lo + PageSize THEN L - lo ELSE PageSize
            /\ m = IF lo < L THEN lo ELSE L
        BY <1>0, <1>1, <1>2, <1>3, <2>1
      <4>1. CASE L <= lo
        BY <4>0, <4>1
      <4>2. CASE lo < L /\ L < lo + PageSize
        BY <4>0, <4>2
      <4>3. CASE lo + PageSize <= L
        BY <4>0, <4>3
      <4> QED BY <4>0, <4>1, <4>2, <4>3
    <3> QED BY <1>5, <3>1
  <2>3. ASSUME NEW i \in DOMAIN collected' PROVE collected'[i] = list[i]
    <3>1. CASE i \in 1 .. m
      BY <1>9, <2>1, <3>1
    <3>2. CASE ~ (i \in 1 .. m)
      <4>1. k # 0 /\ i \in Int
        BY <1>1, <1>3, <1>6, <3>2
      <4>2. lo = m
        BY <1>1, <1>2, <1>3, <2>1, <4>1
      <4>3. lo + (i - m) = i
        BY <1>1, <4>1, <4>2
      <4> QED BY <1>10, <3>2, <4>3
    <3> QED BY <3>1, <3>2
  <2> QED BY <2>2, <2>3
<1> QED BY <1>6, <1>7, <1>8, <1>12, <1>13, <1>14, <1>15 DEF P, L

(* A page that ends the walk leaves nothing behind it, and one that does   *)
(* not is followed by the next.                                            *)
LEMMA FetchFaithful ==
  ASSUME WalkInv, CallingInv, FetchPage
  PROVE  (walk' = "calling" => CallingInv') /\ FaithfulWalk'
<1>0. page \in Nat \ {0} /\ list \in Seq(Items) /\ Len(list) \in Nat /\ PageSize \in Nat \ {0}
  BY PageWalkAssumption DEF WalkInv, WalkTypeOK
<1>1. PICK hi \in Nat : hi = Passed + PageSize /\ hi = Offset(page + 1)
  <2>1. Offset(page) \in Nat /\ Offset(page + 1) = Offset(page) + PageSize
    BY <1>0, OffsetType
  <2> QED BY <1>0, <2>1 DEF Passed
<1>2. /\ collected' = collected \o PageOf(page) /\ seen' = seen + Len(PageOf(page))
      /\ list' = list /\ removed' = removed /\ inserted' = inserted /\ original' = original
  BY DEF FetchPage
<1>3. /\ seen' <= hi
      /\ DOMAIN collected' = 1 .. Len(collected')
      /\ PageOf(page) = <<>> => Len(list) <= hi
      /\ removed = {} =>
           \A i \in DOMAIN original :
             \/ \E j \in DOMAIN collected' : collected'[j] = original[i]
             \/ \E p \in DOMAIN list : p > hi /\ list[p] = original[i]
      /\ inserted = {} =>
           /\ \A i, j \in DOMAIN collected' : collected'[i] = collected'[j] => i = j
           /\ \A i \in DOMAIN collected', p \in DOMAIN list : p > hi => collected'[i] # list[p]
      /\ removed \cup inserted = {} =>
           /\ Len(collected') = IF hi < Len(list) THEN hi ELSE Len(list)
           /\ \A i \in DOMAIN collected' : collected'[i] = list[i]
  BY <1>1, <1>2, PageCollected
<1>4. IF PageOf(page) = <<>> \/ Reaches(seen', total')
      THEN walk' = "done" /\ UNCHANGED page
      ELSE page' = page + 1 /\ UNCHANGED walk
  BY DEF FetchPage
<1>5. total' \in Nat /\ seen' \in Nat /\ seen' = Len(collected') /\ collected' \in Seq(Items)
  <2>1. WalkInv'
    BY NextInv DEF WalkNext
  <2> QED BY <2>1 DEF WalkInv, WalkTypeOK
<1>6. CASE PageOf(page) = <<>> \/ Reaches(seen', total')
  <2>0. walk' = "done"
    BY <1>4, <1>6
  <2>1. ~ Understated' => Len(list) <= hi
    <3>1. CASE PageOf(page) = <<>>
      BY <1>3, <3>1
    <3>2. CASE seen' >= total'
      BY <1>0, <1>1, <1>2, <1>3, <1>5, <3>2 DEF Understated
    <3> QED BY <1>6, <3>1, <3>2 DEF Reaches
  <2>3. removed = {} /\ ~ Understated' => ToSet(original) \subseteq ToSet(collected')
    <3> SUFFICES ASSUME removed = {}, ~ Understated', NEW i \in DOMAIN original
                 PROVE  \E j \in DOMAIN collected' : collected'[j] = original[i]
      BY DEF ToSet
    <3>1. ~ \E p \in DOMAIN list : p > hi
      BY <1>0, <2>1
    <3> QED BY <1>3, <3>1
  <2>4. ASSUME removed \cup inserted = {}
        PROVE  /\ collected' = SubSeq(original, 1, seen')
               /\ ~ Understated' => seen' = Len(original)
    <3>1. list = original
      BY <2>4 DEF CallingInv, NothingElse
    <3>2. /\ seen' = IF hi < Len(list) THEN hi ELSE Len(list)
          /\ \A i \in 1 .. seen' : collected'[i] = list[i]
      BY <1>3, <1>5, <2>4
    <3>3. seen' <= Len(list) /\ (~ Understated' => seen' = Len(list))
      BY <1>0, <1>1, <2>1, <3>2
    <3>4. collected' = SubSeq(list, 1, seen')
      <4> DEFINE n == seen'
                 prefix == SubSeq(list, 1, n)
      <4>1. n \in Nat /\ n <= Len(list) /\ DOMAIN collected' = 1 .. n
        BY <1>3, <1>5, <3>3
      <4> HIDE DEF n
      <4>2. \A i \in 1 .. n : list[i] \in Items
        BY <1>0, <4>1
      <4>3. DOMAIN prefix = 1 .. n /\ prefix \in Seq(Items) /\ \A i \in 1 .. n : prefix[i] = list[i]
        <5>1. 1 \in Int /\ n \in Int
          BY <4>1
        <5>2. /\ prefix \in Seq(Items)
              /\ Len(prefix) = IF 1 <= n THEN n - 1 + 1 ELSE 0
              /\ \A i \in 1 .. n - 1 + 1 : prefix[i] = list[1 + i - 1]
          BY <4>2, <5>1, SubSeqProperties
        <5> HIDE DEF prefix
        <5> QED BY <4>1, <5>2
      <4> HIDE DEF prefix
      <4>4. \A i \in 1 .. n : collected'[i] = prefix[i]
        BY <3>2, <4>3 DEF n
      <4>5. collected' = prefix
        BY <1>5, <4>1, <4>3, <4>4
      <4> QED BY <4>5 DEF prefix, n
    <3> QED BY <3>1, <3>3, <3>4
  <2>5. scalars' = 1
    BY DEF FetchPage, KeptFields, WalkInv, WalkTypeOK
  <2>6. inserted = {} => IsInjective(collected')
    BY <1>3 DEF IsInjective
  <2> QED BY <1>2, <2>0, <2>3, <2>4, <2>5, <2>6 DEF FaithfulWalk
<1>7. CASE ~ (PageOf(page) = <<>> \/ Reaches(seen', total'))
  <2>1. page' = page + 1 /\ walk' = "calling"
    BY <1>4, <1>7 DEF FetchPage, Calls
  <2>2. Passed' = hi
    BY <1>1, <2>1 DEF Passed, Offset
  <2>3. NothingMissed' /\ NothingTwice'
    BY <1>2, <1>3, <2>2 DEF NothingMissed, NothingTwice, CallingInv
  <2>4. NothingElse'
    BY <1>2, <1>3, <2>2 DEF NothingElse, CallingInv
  <2> QED BY <1>3, <2>1, <2>2, <2>3, <2>4 DEF CallingInv, FaithfulWalk
<1> QED BY <1>6, <1>7

(* An insertion can only push items towards the pages to come. *)
LEMMA InsertFaithful ==
  ASSUME WalkInv, CallingInv, ItemInserted
  PROVE  CallingInv'
<1>0. /\ page \in Nat \ {0} /\ list \in Seq(Items) /\ Len(list) \in Nat
      /\ DOMAIN list = 1 .. Len(list)
  BY DEF WalkInv, WalkTypeOK
<1>1. PICK x \in Items \ (ToSet(list) \cup removed), i \in 1 .. Len(list) + 1 :
        list' = InsertAt(list, i, x) /\ inserted' = inserted \cup {x}
  BY DEF ItemInserted
<1>2. /\ Len(list') = Len(list) + 1
      /\ \A p \in DOMAIN list : list'[IF p < i THEN p ELSE p + 1] = list[p]
  BY <1>0, <1>1, InsertItems
<1>3. list' \in Seq(Items) /\ DOMAIN list' = 1 .. Len(list) + 1
  BY <1>0, <1>1, <1>2, ChangeType
<1>4. inserted' # {} /\ removed' \cup inserted' # {}
  BY <1>1
<1>5. /\ Passed' = Passed /\ Passed \in Nat /\ seen' = seen /\ collected' = collected
      /\ original' = original /\ removed' = removed
  BY <1>0, OffsetType DEF ItemInserted, Passed, Offset
<1>6. ASSUME NEW p \in DOMAIN list, p > Passed
      PROVE  \E q \in DOMAIN list' : q > Passed /\ list'[q] = list[p]
  <2> DEFINE q == IF p < i THEN p ELSE p + 1
  <2>1. q \in DOMAIN list' /\ q > Passed
    BY <1>0, <1>3, <1>5, <1>6
  <2>2. list'[q] = list[p]
    BY <1>2
  <2> QED BY <2>1, <2>2
<1>7. NothingMissed'
  <2> SUFFICES ASSUME removed = {}, NEW j \in DOMAIN original
               PROVE  \/ \E y \in DOMAIN collected : collected[y] = original[j]
                      \/ \E q \in DOMAIN list' : q > Passed /\ list'[q] = original[j]
    BY <1>5 DEF NothingMissed
  <2>1. \/ \E y \in DOMAIN collected : collected[y] = original[j]
        \/ \E p \in DOMAIN list : p > Passed /\ list[p] = original[j]
    BY DEF CallingInv, NothingMissed
  <2> QED BY <1>6, <2>1
<1> QED BY <1>4, <1>5, <1>7 DEF CallingInv, NothingTwice, NothingElse

(* A removal brings no item back among the pages to come. *)
LEMMA RemoveFaithful ==
  ASSUME WalkInv, CallingInv, ItemRemoved
  PROVE  CallingInv'
<1>0. /\ page \in Nat \ {0} /\ list \in Seq(Items) /\ Len(list) \in Nat
      /\ DOMAIN list = 1 .. Len(list)
  BY DEF WalkInv, WalkTypeOK
<1>1. PICK i \in DOMAIN list : list' = RemoveAt(list, i) /\ removed' = removed \cup {list[i]}
  BY DEF ItemRemoved
<1>2. /\ Len(list') = Len(list) - 1
      /\ \A p \in 1 .. Len(list) - 1 : list'[p] = list[IF p < i THEN p ELSE p + 1]
  BY <1>0, <1>1, RemoveItems
<1>3. list' \in Seq(Items) /\ DOMAIN list' = 1 .. Len(list) - 1
  BY <1>0, <1>1, <1>2, ChangeType
<1>4. removed' # {} /\ removed' \cup inserted' # {}
  BY <1>1
<1>5. /\ Passed' = Passed /\ Passed \in Nat /\ seen' = seen /\ collected' = collected
      /\ original' = original /\ inserted' = inserted
  BY <1>0, OffsetType DEF ItemRemoved, Passed, Offset
<1> DEFINE Old(p) == IF p < i THEN p ELSE p + 1
<1>6. ASSUME NEW p \in DOMAIN list'
      PROVE  Old(p) \in DOMAIN list /\ list'[p] = list[Old(p)] /\ (p > Passed => Old(p) > Passed)
  BY <1>0, <1>2, <1>3, <1>5
<1>7. ASSUME NEW p \in DOMAIN list', NEW q \in DOMAIN list', Old(p) = Old(q)
      PROVE  p = q
  BY <1>0, <1>3, <1>7
<1> HIDE DEF Old
<1>8. NothingTwice'
  <2> SUFFICES ASSUME inserted = {}
               PROVE  /\ \A p, q \in DOMAIN list' : list'[p] = list'[q] => p = q
                      /\ \A y, z \in DOMAIN collected : collected[y] = collected[z] => y = z
                      /\ \A y \in DOMAIN collected, p \in DOMAIN list' :
                           p > Passed => collected[y] # list'[p]
    BY <1>5 DEF NothingTwice
  <2>1. /\ \A p, q \in DOMAIN list : list[p] = list[q] => p = q
        /\ \A y, z \in DOMAIN collected : collected[y] = collected[z] => y = z
        /\ \A y \in DOMAIN collected, p \in DOMAIN list : p > Passed => collected[y] # list[p]
    BY DEF CallingInv, NothingTwice
  <2> QED BY <1>6, <1>7, <2>1
<1> QED BY <1>4, <1>5, <1>8 DEF CallingInv, NothingMissed, NothingElse

(* The walk begins with everything to come, and no item listed twice. *)
LEMMA FaithInit == WalkInit => FaithInv
<1> SUFFICES ASSUME WalkInit PROVE FaithInv
  OBVIOUS
<1>1. WalkInv /\ list \in Seq(Items) /\ original = list /\ collected = <<>> /\ page = 1 /\ seen = 0
  BY InitInv DEF WalkInit, WalkInv, WalkTypeOK
<1>2. \A p, q \in DOMAIN list : list[p] = list[q] => p = q
  BY PageWalkAssumption DEF WalkInit, IsInjective
<1>3. Passed = 0
  BY <1>1, OffsetType DEF Passed
<1>4. DOMAIN list = 1 .. Len(list) /\ Len(list) \in Nat /\ DOMAIN collected = {} /\ Len(collected) = 0
  BY <1>1
<1>5. NothingMissed /\ NothingTwice
  BY <1>1, <1>2, <1>3, <1>4 DEF NothingMissed, NothingTwice
<1>6. NothingElse
  BY <1>1, <1>3, <1>4 DEF NothingElse
<1> QED BY <1>1, <1>3, <1>5, <1>6 DEF FaithInv, CallingInv, FaithfulWalk, WalkInit

(* Pages, errors and changes of the list keep what has been collected      *)
(* faithful to the list.                                                   *)
LEMMA FaithNext == FaithInv /\ [WalkNext]_walkVars => FaithInv'
<1> SUFFICES ASSUME FaithInv, [WalkNext]_walkVars PROVE FaithInv'
  OBVIOUS
<1>0. WalkInv' /\ WalkInv /\ (walk = "calling" => CallingInv)
  BY NextInv DEF FaithInv
<1>1. CASE FetchPage
  BY <1>0, <1>1, FetchFaithful DEF FaithInv, FetchPage, Calls
<1>2. CASE PageFails
  BY <1>0, <1>2 DEF PageFails, FaithInv, FaithfulWalk
<1>3. CASE GiveUp
  BY <1>0, <1>3 DEF GiveUp, FaithInv, FaithfulWalk
<1>4. CASE ItemInserted
  <2>1. walk = "calling" /\ walk' = walk
    BY <1>4 DEF ItemInserted
  <2> QED BY <1>0, <1>4, <2>1, InsertFaithful DEF FaithInv, FaithfulWalk
<1>5. CASE ItemRemoved
  <2>1. walk = "calling" /\ walk' = walk
    BY <1>5 DEF ItemRemoved
  <2> QED BY <1>0, <1>5, <2>1, RemoveFaithful DEF FaithInv, FaithfulWalk
<1>6. CASE UNCHANGED walkVars
  BY <1>0, <1>6 DEF walkVars, FaithInv, FaithfulWalk, Understated, CallingInv, NothingMissed, NothingTwice,
                    NothingElse, Passed, Offset
<1> QED BY <1>1, <1>2, <1>3, <1>4, <1>5, <1>6 DEF WalkNext

(* An item is missed only because another one was removed during the walk  *)
(* or the total was too low, and collected twice only because another one  *)
(* was inserted; of a list that does not change the beginning is returned, *)
(* and all of it unless the total was too low.                             *)
THEOREM FaithfulWalkHolds == WalkSpec => []FaithfulWalk
<1>1. FaithInv => FaithfulWalk
  BY DEF FaithInv
<1> QED BY <1>1, FaithInit, FaithNext, PTL DEF WalkSpec

-----------------------------------------------------------------------------
(***************************************************************************)
(* The source.                                                             *)
(***************************************************************************)

(* The sum of a function is that over its domain. *)
LEMMA SumOfFunction == \A f : SumFunction(f) = SumFunctionOnSet(f, DOMAIN f)
BY DEF SumFunction, SumFunctionOnSet, FoldFunctionOnSet, MapThenFoldSet

(* The positions of a list are finitely many natural numbers. *)
LEMMA PositionsAreFinite ==
  ASSUME NEW lines, IsList(lines), NEW A \in SUBSET DOMAIN lines
  PROVE  IsFiniteSet(A) /\ A \in SUBSET Nat /\ \A i \in A : lines[i].amount \in Int
<1>1. IsFiniteSet(1 .. Len(lines)) /\ DOMAIN lines = 1 .. Len(lines)
  BY FS_Interval DEF IsList
<1> QED BY <1>1, FS_Subset DEF IsList

Amounts(lines) == [i \in DOMAIN lines |-> lines[i].amount]

(* A total is a sum of the amounts of the list. *)
LEMMA TotalIsSum ==
  ASSUME NEW lines, IsList(lines), NEW A \in SUBSET DOMAIN lines
  PROVE  Total(lines, A) = SumFunctionOnSet(Amounts(lines), A) /\ Total(lines, A) \in Int
<1> DEFINE h == [i \in A |-> lines[i].amount]
           f == Amounts(lines)
<1>1. IsFiniteSet(A) /\ \A i \in A : f[i] \in Int /\ h[i] = f[i]
  BY PositionsAreFinite DEF Amounts
<1>2. Total(lines, A) = SumFunctionOnSet(h, A)
  <2>1. DOMAIN h = A
    OBVIOUS
  <2>2. Total(lines, A) = SumFunctionOnSet(h, DOMAIN h)
    BY SumOfFunction DEF Total
  <2> QED BY <2>1, <2>2
<1> HIDE DEF h, f
<1>3. SumFunctionOnSet(h, A) = SumFunctionOnSet(f, A) /\ SumFunctionOnSet(f, A) \in Int
  BY <1>1, SumAgree, SumOverSet
<1> QED BY <1>2, <1>3 DEF f

(* What adds nothing to a total may be left out of it. *)
LEMMA TotalWithout ==
  ASSUME NEW lines, IsList(lines), NEW A \in SUBSET DOMAIN lines, NEW C \in SUBSET A,
         \A i \in A \ C : lines[i].amount = 0
  PROVE  Total(lines, A) = Total(lines, C)
<1> DEFINE f == Amounts(lines)
           Z == A \ C
<1>1. /\ IsFiniteSet(A) /\ IsFiniteSet(C) /\ IsFiniteSet(Z)
      /\ \A i \in A : f[i] \in Int
      /\ \A i \in Z : f[i] = 0
  BY PositionsAreFinite DEF Amounts
<1>2. /\ Total(lines, A) = SumFunctionOnSet(f, A)
      /\ Total(lines, C) = SumFunctionOnSet(f, C)
  BY TotalIsSum
<1>3. A = C \cup Z /\ C \cap Z = {}
  OBVIOUS
<1> HIDE DEF f, Z
<1>4. SumFunctionOnSet(f, Z) = 0
  BY <1>1, SumZero
<1>5. SumFunctionOnSet(f, C \cup Z) = SumFunctionOnSet(f, C) + SumFunctionOnSet(f, Z)
  BY <1>1, <1>3, SumUnion
<1>6. SumFunctionOnSet(f, C) \in Int
  BY <1>1, <1>3, SumOverSet
<1> QED BY <1>2, <1>3, <1>4, <1>5, <1>6

(* The totals of the groups of some positions make the total of them all.  *)
LEMMA TotalOfGroups ==
  ASSUME NEW lines, IsList(lines), NEW A \in SUBSET DOMAIN lines, NEW key,
         NEW h, \A k \in {key[i] : i \in A} : h[k] = Total(lines, {i \in A : key[i] = k}),
         DOMAIN key = A, key = [i \in A |-> key[i]]
  PROVE  /\ \A k \in {key[i] : i \in A} : h[k] \in Int
         /\ SumFunctionOnSet(h, {key[i] : i \in A}) = Total(lines, A)
<1> DEFINE f == Amounts(lines)
           K == {key[i] : i \in A}
           Same(k) == {i \in A : key[i] = k}
<1>1. IsFiniteSet(A) /\ \A i \in A : f[i] \in Int
  BY PositionsAreFinite DEF Amounts
<1>2. IsFiniteSet(K) /\ \A i \in A : key[i] \in K
  BY <1>1, FiniteImage
<1>3. ASSUME NEW k \in K PROVE h[k] = SumFunctionOnSet(f, Same(k)) /\ h[k] \in Int
  <2>1. Same(k) \in SUBSET DOMAIN lines /\ h[k] = Total(lines, Same(k))
    OBVIOUS
  <2> QED BY <2>1, TotalIsSum
<1>4. Total(lines, A) = SumFunctionOnSet(f, A)
  BY TotalIsSum
<1>5. \A k \in K : h[k] = SumFunctionOnSet(f, {i \in A : key[i] = k})
  BY <1>3
<1>6. \A k : SumFunctionOnSet(f, Same(k)) \in Int
  <2>1. \A k : Same(k) \in SUBSET DOMAIN lines
    OBVIOUS
  <2> HIDE DEF Same, f
  <2> QED BY <2>1, TotalIsSum DEF f
<1> HIDE DEF f, K
<1>7. SumFunctionOnSet(h, K) = SumFunctionOnSet(f, A)
  <2>1. IsFiniteSet(A) /\ \A i \in A : f[i] \in Int
    BY <1>1
  <2>2. IsFiniteSet(K) /\ \A i \in A : key[i] \in K
    BY <1>2
  <2>3. \A k \in K : h[k] \in Int
    BY <1>3 DEF K
  <2>4. \A k : SumFunctionOnSet(f, {i \in A : key[i] = k}) \in Int
    BY <1>6
  <2> QED BY ONLY <1>5, <2>1, <2>2, <2>3, <2>4, SumPartition
<1> QED BY <1>3, <1>4, <1>7 DEF K

(* The series of a period's consumption add up to the rows used. *)
LEMMA ConsumptionTotal ==
  ASSUME NEW rows, IsList(rows)
  PROVE  /\ \A k \in DOMAIN ConsumptionSeries(rows) : ConsumptionSeries(rows)[k] \in Int
         /\ SumFunction(ConsumptionSeries(rows)) = Total(rows, Used(rows))
<1> DEFINE used == Used(rows)
           key == [i \in used |-> Key(rows[i])]
           K == {key[i] : i \in used}
           h == ConsumptionSeries(rows)
<1>1. used \in SUBSET DOMAIN rows
  BY DEF Used
<1>2. DOMAIN h = K
  <2>1. K = {Key(rows[i]) : i \in used}
    OBVIOUS
  <2> QED BY <2>1 DEF ConsumptionSeries
<1>3. ASSUME NEW k \in K PROVE h[k] = Total(rows, {i \in used : key[i] = k})
  <2>1. {i \in used : key[i] = k} = {i \in used : Key(rows[i]) = k}
    OBVIOUS
  <2>2. k \in {Key(rows[i]) : i \in used}
    OBVIOUS
  <2>3. h[k] = Total(rows, {i \in used : Key(rows[i]) = k})
    BY <2>2 DEF ConsumptionSeries
  <2> QED BY <2>1, <2>3
<1>4. DOMAIN key = used /\ key = [i \in used |-> key[i]]
  OBVIOUS
<1> HIDE DEF used, key, h
<1>5. /\ \A k \in K : h[k] \in Int
      /\ SumFunctionOnSet(h, K) = Total(rows, used)
  BY <1>1, <1>3, <1>4, TotalOfGroups
<1> QED BY <1>2, <1>5, SumOfFunction DEF h, used

(* So do the series of its taxes. *)
LEMMA TaxTotal ==
  ASSUME NEW lines, IsList(lines)
  PROVE  LET taxes == TaxSeries(lines)
         IN  /\ \A d \in DOMAIN taxes : taxes[d].euros \in Int
             /\ SumFunction([d \in DOMAIN taxes |-> taxes[d].euros])
                  = Total(lines, UsedTaxes(lines))
<1> DEFINE used == UsedTaxes(lines)
           key == [i \in used |-> lines[i].description]
           K == {key[i] : i \in used}
           taxes == TaxSeries(lines)
           h == [d \in DOMAIN taxes |-> taxes[d].euros]
<1>1. used \in SUBSET DOMAIN lines
  BY DEF UsedTaxes
<1>2. DOMAIN taxes = K
  <2>1. K = {lines[i].description : i \in used}
    OBVIOUS
  <2> QED BY <2>1 DEF TaxSeries
<1>3. ASSUME NEW d \in K PROVE h[d] = Total(lines, {i \in used : key[i] = d})
  <2>1. {i \in used : key[i] = d} = {i \in used : lines[i].description = d}
    OBVIOUS
  <2>2. d \in {lines[i].description : i \in used}
    OBVIOUS
  <2>3. taxes[d].euros = Total(lines, {i \in used : lines[i].description = d})
    BY <2>2 DEF TaxSeries
  <2>4. h[d] = taxes[d].euros
    BY <1>2
  <2> QED BY <2>1, <2>3, <2>4
<1>4. DOMAIN key = used /\ key = [i \in used |-> key[i]]
  OBVIOUS
<1>5. DOMAIN h = K /\ \A d \in K : h[d] = taxes[d].euros
  BY <1>2
<1> HIDE DEF used, key, taxes, h
<1>6. /\ \A d \in K : h[d] \in Int
      /\ SumFunctionOnSet(h, K) = Total(lines, used)
  BY <1>1, <1>3, <1>4, TotalOfGroups
<1>7. SumFunction(h) = Total(lines, used) /\ \A d \in DOMAIN taxes : taxes[d].euros \in Int
  BY <1>2, <1>5, <1>6, SumOfFunction
<1> QED BY <1>7 DEF h, taxes, used

(* What is used is in euros, or zero. *)
LEMMA UsedIsEuros ==
  ASSUME NEW lines, IsList(lines)
  PROVE  /\ Total(lines, Used(lines))
              = Total(lines, {j \in DOMAIN lines : lines[j].currency = "EUR" /\ Selected(lines[j])})
         /\ Total(lines, UsedTaxes(lines))
              = Total(lines, {j \in DOMAIN lines : lines[j].currency = "EUR"})
<1>1. ASSUME NEW A \in SUBSET DOMAIN lines, NEW C \in SUBSET A,
             \A i \in A : lines[i].currency = "EUR" \/ lines[i].amount = 0,
             \A i \in A : lines[i].currency = "EUR" => i \in C
      PROVE  Total(lines, A) = Total(lines, C)
  BY <1>1, TotalWithout
<1>2. Total(lines, Used(lines))
        = Total(lines, {j \in DOMAIN lines : lines[j].currency = "EUR" /\ Selected(lines[j])})
  BY <1>1 DEF Used, AcceptCurrency
<1>3. Total(lines, UsedTaxes(lines))
        = Total(lines, {j \in DOMAIN lines : lines[j].currency = "EUR"})
  BY <1>1 DEF UsedTaxes, AcceptCurrency
<1> QED BY <1>2, <1>3

(* If nothing is skipped every row of a selected project and every tax is used. *)
LEMMA SkippedType ==
  ASSUME NEW rows, IsList(rows), NEW lines, IsList(lines)
  PROVE  /\ Skipped(rows, lines) \in Nat
         /\ Skipped(rows, lines) = 0 =>
              /\ Used(rows) = {j \in DOMAIN rows : Selected(rows[j])}
              /\ UsedTaxes(lines) = DOMAIN lines
<1> DEFINE dropped == {i \in DOMAIN rows : Selected(rows[i])} \ Used(rows)
           droppedTaxes == DOMAIN lines \ UsedTaxes(lines)
<1>1. IsFiniteSet(dropped) /\ IsFiniteSet(droppedTaxes)
  BY PositionsAreFinite
<1>2. Skipped(rows, lines) = Cardinality(dropped) + Cardinality(droppedTaxes)
  BY DEF Skipped
<1>3. Used(rows) \in SUBSET {i \in DOMAIN rows : Selected(rows[i])}
      /\ UsedTaxes(lines) \in SUBSET DOMAIN lines
  BY DEF Used, UsedTaxes
<1>4. dropped = {} => Used(rows) = {j \in DOMAIN rows : Selected(rows[j])}
  BY <1>3
<1>5. droppedTaxes = {} => UsedTaxes(lines) = DOMAIN lines
  BY <1>3
<1> HIDE DEF dropped, droppedTaxes
<1>6. /\ Cardinality(dropped) \in Nat /\ Cardinality(droppedTaxes) \in Nat
      /\ Cardinality(dropped) = 0 => dropped = {}
      /\ Cardinality(droppedTaxes) = 0 => droppedTaxes = {}
  BY <1>1, FS_CardinalityType, FS_EmptySet
<1> QED BY <1>2, <1>4, <1>5, <1>6

(* The rows that describe a SKU have a first. *)
LEMMA FirstDescription ==
  ASSUME NEW rows, IsList(rows), NEW s \in SKUs(rows)
  PROVE  /\ Min(Describing(rows, s)) \in Describing(rows, s)
         /\ \A l \in Describing(rows, s) : Min(Describing(rows, s)) <= l
<1> DEFINE D == Describing(rows, s)
<1>1. D # {}
  BY DEF Describing, SKUs
<1>2. PICK n \in Nat : D \in SUBSET (1 .. n)
  <2>1. Len(rows) \in Nat /\ DOMAIN rows = 1 .. Len(rows)
    BY DEF IsList
  <2> QED BY <2>1 DEF Describing, Used
<1> HIDE DEF D
<1>3. \E m \in D : \A l \in D : m <= l
  <2> DEFINE mirror == {n - l : l \in D}
  <2>1. mirror \in SUBSET (0 .. n) /\ mirror # {}
    <3>1. \A l \in D : l \in 1 .. n /\ n - l \in 0 .. n
      BY <1>2
    <3> QED BY <1>1, <3>1
  <2> HIDE DEF mirror
  <2>2. PICK x \in mirror : \A y \in mirror : x >= y
    BY <2>1, BoundedSetHasGreatest
  <2> USE DEF mirror
  <2>3. PICK m \in D : x = n - m
    OBVIOUS
  <2>4. \A l \in D : n - m >= n - l
    BY <2>2, <2>3
  <2> QED BY <1>2, <2>4
<1>4. Min(D) \in D /\ \A l \in D : Min(D) <= l
  BY <1>3 DEF Min
<1> QED BY <1>4 DEF D

(* Appending to a sequence of anything. *)
IsSeq(s) == Len(s) \in Nat /\ s = [i \in 1 .. Len(s) |-> s[i]]

LEMMA AppendSeq ==
  ASSUME NEW s, IsSeq(s), NEW e
  PROVE  /\ IsSeq(Append(s, e)) /\ Len(Append(s, e)) = Len(s) + 1
         /\ DOMAIN s = 1 .. Len(s) /\ DOMAIN Append(s, e) = 1 .. Len(s) + 1
         /\ Append(s, e)[Len(s) + 1] = e
         /\ \A i \in 1 .. Len(s) : Append(s, e)[i] = s[i]
<1>1. PICK n \in Nat : n = Len(s)
  BY DEF IsSeq
<1>2. PICK V : V = {s[i] : i \in 1 .. n} \cup {e}
  OBVIOUS
<1>3. s \in [1 .. n -> V] /\ e \in V
  BY <1>1, <1>2 DEF IsSeq
<1>4. s \in Seq(V)
  BY <1>3
<1>5. /\ Append(s, e) \in Seq(V) /\ Len(Append(s, e)) = n + 1
      /\ Append(s, e)[n + 1] = e /\ \A i \in 1 .. n : Append(s, e)[i] = s[i]
  BY <1>1, <1>3, <1>4, AppendProperties
<1>6. IsSeq(Append(s, e)) /\ DOMAIN Append(s, e) = 1 .. n + 1
  <2>1. PICK t \in Seq(V) : t = Append(s, e)
    BY <1>5
  <2>2. Len(t) \in Nat /\ DOMAIN t = 1 .. Len(t) /\ t = [i \in 1 .. Len(t) |-> t[i]]
    OBVIOUS
  <2> QED BY <1>5, <2>1, <2>2 DEF IsSeq
<1> QED BY <1>1, <1>4, <1>5, <1>6

(***************************************************************************)
(* The inductive invariant: the months are counted down from the one the   *)
(* clock showed, each period is what its reports aggregate to, a row that  *)
(* was skipped has been counted, and the SKUs are those of the periods.    *)
(***************************************************************************)
FetchInv ==
  /\ now \in 0 .. LastMonth /\ start \in 0 .. LastMonth /\ ctxDone \in BOOLEAN
  /\ pc \in {"idle", "consumptions", "taxes"} \cup Ended
  /\ fetches \in 0 .. MaxFetches
  /\ skipped \in Nat /\ before \in 0 .. skipped
  /\ pc = "taxes" => \E c \in ConsumptionReports :
                          pending = [month |-> start - Len(periods), report |-> c]
  /\ pc # "taxes" => pending = <<>>
  /\ IsSeq(periods) /\ IsSeq(replies) /\ Len(replies) = Len(periods)
  /\ Len(periods) \in 0 .. Lookback + (IF pc \in {"consumptions", "returned"} THEN 1 ELSE 0)
  /\ pc = "returned" => Len(periods) = Lookback + 1

PeriodInv(i) ==
  LET rows == replies[i].rows
      lines == replies[i].lines
  IN  /\ IsList(rows) /\ IsList(lines)
      /\ periods[i].month = start - (i - 1)
      /\ replies[i].consumptions = periods[i].month /\ replies[i].taxes = periods[i].month
      /\ periods[i].consumption = ConsumptionSeries(rows)
      /\ periods[i].taxes = TaxSeries(lines)
      /\ Skipped(rows, lines) # 0 => before < skipped

Named(known, reports, s) ==
  \E i \in DOMAIN reports : \E j \in Describing(reports[i].rows, s) :
    /\ known[s] = reports[i].rows[j].product
    /\ \A k \in DOMAIN reports : \A l \in Describing(reports[k].rows, s) :
         i < k \/ (i = k /\ j <= l)
NamesInv(known, reports) ==
  /\ DOMAIN known = UNION {SKUs(reports[i].rows) : i \in DOMAIN reports}
  /\ \A s \in DOMAIN known : Named(known, reports, s)

SourceInv == FetchInv /\ (\A i \in 1 .. Len(periods) : PeriodInv(i)) /\ NamesInv(skus, replies)

(* Without a period there is nothing to hold. *)
LEMMA NothingFetched ==
  ASSUME FetchInv, periods = <<>>, replies = <<>>, skus = <<>>
  PROVE  SourceInv
<1>1. 1 .. Len(periods) = {} /\ DOMAIN replies = {} /\ DOMAIN skus = {}
  OBVIOUS
<1> QED BY <1>1 DEF SourceInv, NamesInv

(* No period has been asked for. *)
LEMMA SourceInit == Init => SourceInv
<1> SUFFICES ASSUME Init PROVE SourceInv
  OBVIOUS
<1>1. IsSeq(<<>>) /\ Len(<<>>) = 0
  BY DEF IsSeq
<1>2. FetchInv
  <2>1. /\ now = 0 /\ start = 0 /\ ctxDone \in BOOLEAN /\ pc = "idle" /\ pending = <<>>
        /\ skipped = 0 /\ before = 0 /\ fetches = 0
        /\ Lookback \in Nat /\ LastMonth \in Nat /\ MaxFetches \in Nat
    BY BillingAssumption DEF Init, NoReport
  <2>2. /\ IsSeq(periods) /\ IsSeq(replies)
        /\ Len(periods) = 0 /\ Len(replies) = 0
    BY <1>1 DEF Init
  <2>3. Len(periods) \in 0 .. Lookback + (IF pc \in {"consumptions", "returned"} THEN 1 ELSE 0)
    BY <2>1, <2>2
  <2> QED BY <2>1, <2>2, <2>3 DEF FetchInv
<1> QED BY <1>2, NothingFetched DEF Init

(* A period is added: it is whole, and the periods before it keep theirs.  *)
LEMMA PeriodStep ==
  ASSUME SourceInv, TaxesReturn
  PROVE  SourceInv'
<1>0. pc = "taxes" /\ FetchInv
  BY DEF TaxesReturn, SourceInv
<1>1. PICK t \in TaxReports :
        /\ periods' = Append(periods, Aggregate(Month, pending.report, t))
        /\ skus' = Describe(skus, pending.report.rows)
        /\ skipped' = skipped + Skipped(pending.report.rows, t.taxes)
        /\ replies' = Append(replies, [consumptions |-> pending.month, taxes |-> Month,
                                       rows |-> pending.report.rows, lines |-> t.taxes])
  BY DEF TaxesReturn
<1>2. PICK n \in 0 .. Lookback : n = Len(periods) /\ n = Len(replies)
  <2>1. Lookback \in Nat
    BY BillingAssumption
  <2>2. Len(periods) \in 0 .. Lookback /\ Len(replies) = Len(periods)
    BY <1>0, <2>1 DEF FetchInv
  <2> QED BY <2>2
<1>3. PICK c \in ConsumptionReports : pending = [month |-> start - n, report |-> c]
  BY <1>0, <1>2 DEF FetchInv
<1>4. /\ n \in Nat /\ Lookback \in Nat /\ LastMonth \in Nat /\ MaxFetches \in Nat
      /\ IsList(c.rows) /\ IsList(t.taxes)
  BY <1>2, BillingAssumption
<1>5. PICK rows : rows = c.rows
  OBVIOUS
<1>6. PICK lines : lines = t.taxes
  OBVIOUS
<1>7. /\ UNCHANGED <<now, ctxDone, start, fetches, before>>
      /\ pending' = <<>> /\ pc' = "consumptions"
  BY DEF TaxesReturn, NoReport
<1>8. /\ IsSeq(periods') /\ Len(periods') = n + 1
      /\ IsSeq(replies') /\ Len(replies') = n + 1
      /\ DOMAIN replies = 1 .. n /\ DOMAIN replies' = 1 .. n + 1
      /\ \A i \in 1 .. n : periods'[i] = periods[i] /\ replies'[i] = replies[i]
  BY <1>0, <1>1, <1>2, AppendSeq DEF FetchInv
<1>9. /\ periods'[n + 1].month = start - n
      /\ periods'[n + 1].consumption = ConsumptionSeries(rows)
      /\ periods'[n + 1].taxes = TaxSeries(lines)
      /\ replies'[n + 1] = [consumptions |-> start - n, taxes |-> start - n,
                            rows |-> rows, lines |-> lines]
  <2>1. Month = start - n
    BY <1>2 DEF Month
  <2>2. periods'[n + 1] = Aggregate(start - n, c, t)
    BY <1>0, <1>1, <1>2, <1>3, <2>1, AppendSeq DEF FetchInv
  <2>3. replies'[n + 1] = [consumptions |-> start - n, taxes |-> start - n,
                           rows |-> rows, lines |-> lines]
    BY <1>0, <1>1, <1>2, <1>3, <1>5, <1>6, <2>1, AppendSeq DEF FetchInv
  <2> QED BY <1>5, <1>6, <2>2, <2>3 DEF Aggregate
<1>10. PICK new \in Nat : new = Skipped(rows, lines) /\ skipped' = skipped + new
  BY <1>1, <1>3, <1>4, <1>5, <1>6, SkippedType
<1>11. FetchInv'
  <2>1. skipped' \in Nat /\ before' \in 0 .. skipped'
    BY <1>0, <1>7, <1>10 DEF FetchInv
  <2>2. Len(periods') \in 0 .. Lookback + 1
    BY <1>2, <1>4, <1>8
  <2>3. /\ now' \in 0 .. LastMonth /\ start' \in 0 .. LastMonth /\ ctxDone' \in BOOLEAN
        /\ fetches' \in 0 .. MaxFetches
    BY <1>0, <1>7 DEF FetchInv
  <2> QED BY <1>7, <1>8, <2>1, <2>2, <2>3 DEF FetchInv
<1>12. ASSUME NEW i \in 1 .. n + 1 PROVE PeriodInv(i)'
  <2>1. CASE i \in 1 .. n
    <3>1. PeriodInv(i)
      BY <1>2, <2>1 DEF SourceInv
    <3>2. periods'[i] = periods[i] /\ replies'[i] = replies[i]
      BY <1>8, <2>1
    <3>3. before < skipped => before' < skipped'
      BY <1>0, <1>7, <1>10 DEF FetchInv
    <3> QED BY <1>7, <3>1, <3>2, <3>3 DEF PeriodInv
  <2>2. CASE i = n + 1
    <3>1. /\ replies'[i].rows = rows /\ replies'[i].lines = lines
          /\ replies'[i].consumptions = start - n /\ replies'[i].taxes = start - n
      BY <1>9, <2>2
    <3>2. start - n = start - (i - 1)
      BY <1>2, <2>2
    <3>3. Skipped(rows, lines) # 0 => before' < skipped'
      BY <1>0, <1>7, <1>10 DEF FetchInv
    <3> QED BY <1>4, <1>5, <1>6, <1>7, <1>9, <2>2, <3>1, <3>2, <3>3 DEF PeriodInv
  <2> QED BY <1>4, <2>1, <2>2
<1>13. NamesInv(skus', replies')
  <2>1. DOMAIN skus = UNION {SKUs(replies[i].rows) : i \in 1 .. n}
        /\ \A s \in DOMAIN skus : Named(skus, replies, s)
    BY <1>8 DEF SourceInv, NamesInv
  <2>2. skus' = [s \in DOMAIN skus \cup SKUs(rows) |->
                   IF s \in DOMAIN skus THEN skus[s]
                   ELSE rows[Min(Describing(rows, s))].product]
    BY <1>1, <1>3, <1>5 DEF Describe
  <2>3. \A i \in 1 .. n : replies'[i].rows = replies[i].rows
    BY <1>8
  <2>4. replies'[n + 1].rows = rows
    BY <1>9
  <2>5. DOMAIN skus' = UNION {SKUs(replies'[i].rows) : i \in 1 .. n + 1}
    <3>1. 1 .. n + 1 = (1 .. n) \cup {n + 1}
      BY <1>4
    <3>2. ASSUME NEW s PROVE s \in DOMAIN skus' <=> \E i \in 1 .. n + 1 : s \in SKUs(replies'[i].rows)
      <4>1. s \in DOMAIN skus' <=> (s \in DOMAIN skus \/ s \in SKUs(rows))
        BY <2>2
      <4>2. s \in DOMAIN skus <=> \E i \in 1 .. n : s \in SKUs(replies[i].rows)
        BY <2>1
      <4> QED BY <2>3, <2>4, <3>1, <4>1, <4>2
    <3> QED BY <3>2
  <2>6. ASSUME NEW s \in DOMAIN skus' PROVE Named(skus', replies', s)
    <3>1. CASE s \in DOMAIN skus
      <4>1. PICK i \in 1 .. n : \E j \in Describing(replies[i].rows, s) :
              /\ skus[s] = replies[i].rows[j].product
              /\ \A k \in 1 .. n : \A l \in Describing(replies[k].rows, s) :
                   i < k \/ (i = k /\ j <= l)
        BY <1>8, <2>1, <3>1 DEF Named
      <4>2. PICK j \in Describing(replies[i].rows, s) :
              /\ skus[s] = replies[i].rows[j].product
              /\ \A k \in 1 .. n : \A l \in Describing(replies[k].rows, s) :
                   i < k \/ (i = k /\ j <= l)
        BY <4>1
      <4>3. i \in 1 .. n + 1 /\ i < n + 1
        BY <1>4
      <4>4. j \in Describing(replies'[i].rows, s) /\ skus'[s] = replies'[i].rows[j].product
        BY <2>2, <2>3, <3>1, <4>2
      <4>5. ASSUME NEW k \in 1 .. n + 1, NEW l \in Describing(replies'[k].rows, s)
            PROVE  i < k \/ (i = k /\ j <= l)
        <5>1. CASE k \in 1 .. n
          BY <2>3, <4>2, <5>1
        <5>2. CASE k = n + 1
          BY <4>3, <5>2
        <5> QED BY <1>4, <5>1, <5>2
      <4> QED BY <1>8, <4>3, <4>4, <4>5 DEF Named
    <3>2. CASE s \notin DOMAIN skus
      <4>1. s \in SKUs(rows)
        BY <2>2, <3>2
      <4>2. PICK j \in Describing(rows, s) :
              /\ j = Min(Describing(rows, s))
              /\ \A l \in Describing(rows, s) : j <= l
        BY <1>4, <1>5, <4>1, FirstDescription
      <4>3. skus'[s] = rows[j].product
        BY <2>2, <3>2, <4>1, <4>2
      <4>4. \A i \in 1 .. n : Describing(replies[i].rows, s) = {}
        <5>1. s # NoName
          BY <4>1 DEF SKUs
        <5>2. \A i \in 1 .. n : s \notin SKUs(replies[i].rows)
          BY <2>1, <3>2
        <5> QED BY <5>1, <5>2 DEF SKUs, Describing
      <4>5. ASSUME NEW k \in 1 .. n + 1, NEW l \in Describing(replies'[k].rows, s)
            PROVE  n + 1 < k \/ (n + 1 = k /\ j <= l)
        <5>1. CASE k \in 1 .. n
          BY <2>3, <4>4, <5>1
        <5>2. CASE k = n + 1
          BY <2>4, <4>2, <5>2
        <5> QED BY <1>4, <5>1, <5>2
      <4>6. n + 1 \in 1 .. n + 1 /\ j \in Describing(replies'[n + 1].rows, s)
            /\ skus'[s] = replies'[n + 1].rows[j].product
        BY <1>4, <2>4, <4>2, <4>3
      <4> QED BY <1>8, <4>5, <4>6 DEF Named
    <3> QED BY <3>1, <3>2
  <2> QED BY <1>8, <2>5, <2>6 DEF NamesInv
<1> QED BY <1>8, <1>11, <1>12, <1>13 DEF SourceInv

(* What is fetched stays as it is while none of it changes. *)
LEMMA KeepFetched ==
  ASSUME SourceInv, FetchInv', UNCHANGED <<start, periods, skus, replies, skipped, before>>
  PROVE  SourceInv'
<1>1. ASSUME NEW i \in 1 .. Len(periods) PROVE PeriodInv(i)'
  <2>1. PeriodInv(i)
    BY DEF SourceInv
  <2> QED BY <2>1 DEF PeriodInv
<1>2. NamesInv(skus', replies')
  <2>1. NamesInv(skus, replies)
    BY DEF SourceInv
  <2> QED BY <2>1
<1> QED BY <1>1, <1>2 DEF SourceInv

(* No step of Fetch, of the clock or of the shutdown breaks the invariant. *)
LEMMA SourceNext == SourceInv /\ [Next]_vars => SourceInv'
<1> SUFFICES ASSUME SourceInv, [Next]_vars PROVE SourceInv'
  OBVIOUS
<1>0. /\ FetchInv
      /\ Lookback \in Nat /\ LastMonth \in Nat /\ MaxFetches \in Nat
  BY BillingAssumption DEF SourceInv
<1>1. IsSeq(<<>>) /\ Len(<<>>) = 0
  BY DEF IsSeq
<1>2. CASE StartFetch
  <2>1. FetchInv'
    BY <1>0, <1>1, <1>2 DEF StartFetch, Ended, FetchInv
  <2>2. (periods = <<>> /\ replies = <<>> /\ skus = <<>>)'
    BY <1>2 DEF StartFetch
  <2>3. 1 .. Len(periods') = {} /\ DOMAIN replies' = {} /\ DOMAIN skus' = {}
    BY <2>2
  <2> QED BY <2>1, <2>3 DEF SourceInv, NamesInv
<1>3. CASE ConsumptionsReturn
  <2>1. FetchInv'
    BY <1>0, <1>3 DEF ConsumptionsReturn, Month, Ended, FetchInv
  <2> QED BY <1>3, <2>1, KeepFetched DEF ConsumptionsReturn
<1>4. CASE TaxesReturn
  BY <1>4, PeriodStep
<1>5. CASE CallFails
  <2>1. FetchInv'
    BY <1>0, <1>1, <1>5 DEF CallFails, Ended, NoReport, FetchInv
  <2>2. (periods = <<>> /\ replies = <<>> /\ skus = <<>>)'
    BY <1>5 DEF CallFails
  <2>3. 1 .. Len(periods') = {} /\ DOMAIN replies' = {} /\ DOMAIN skus' = {}
    BY <2>2
  <2> QED BY <2>1, <2>3 DEF SourceInv, NamesInv
<1>6. CASE FetchReturns
  <2>1. FetchInv'
    BY <1>0, <1>6 DEF FetchReturns, Ended, FetchInv
  <2> QED BY <1>6, <2>1, KeepFetched DEF FetchReturns
<1>7. CASE MonthEnds \/ Shutdown \/ UNCHANGED vars
  <2>1. FetchInv'
    <3>1. UNCHANGED <<pc, start, pending, periods, skipped, fetches, replies, before>>
      BY <1>7 DEF MonthEnds, Shutdown, vars
    <3>2. now \in 0 .. LastMonth /\ ctxDone \in BOOLEAN
      BY <1>0 DEF FetchInv
    <3>3. now' \in 0 .. LastMonth
      BY <1>0, <1>7, <3>2 DEF MonthEnds, Shutdown, vars
    <3>4. ctxDone' \in BOOLEAN
      BY <1>7, <3>2 DEF MonthEnds, Shutdown, vars
    <3> QED BY <1>0, <3>1, <3>3, <3>4 DEF FetchInv
  <2> QED BY <1>7, <2>1, KeepFetched DEF MonthEnds, Shutdown, vars
<1> QED BY <1>2, <1>3, <1>4, <1>5, <1>6, <1>7 DEF Next

(* The invariant always holds. *)
LEMMA SourceInvariance == Spec => []SourceInv
BY SourceInit, SourceNext, PTL DEF Spec

(* The source keeps its types, and every series has an amount. *)
THEOREM TypeCorrect == Spec => []TypeOK
<1>1. SourceInv => TypeOK
  <2> SUFFICES ASSUME SourceInv PROVE TypeOK
    OBVIOUS
  <2>1. FetchInv /\ Lookback \in Nat
    BY BillingAssumption DEF SourceInv
  <2>2. (pc = "taxes") <=> (pending # NoReport)
    <3>1. \A m, c : [month |-> m, report |-> c] # <<>>
      OBVIOUS
    <3> QED BY <2>1, <3>1 DEF FetchInv, NoReport
  <2>3. Len(periods) \in 0 .. Lookback + (IF pc \in {"consumptions", "returned"} THEN 1 ELSE 0)
    BY <2>1 DEF FetchInv
  <2>4. ASSUME NEW i \in DOMAIN periods
        PROVE  /\ \A k \in DOMAIN periods[i].consumption : periods[i].consumption[k] \in Int
               /\ \A d \in DOMAIN periods[i].taxes : periods[i].taxes[d].euros \in Int
    <3>1. i \in 1 .. Len(periods)
      BY <2>1 DEF FetchInv, IsSeq
    <3>2. PeriodInv(i)
      BY <3>1 DEF SourceInv
    <3> QED BY <3>2, ConsumptionTotal, TaxTotal DEF PeriodInv
  <2>5. NoName \notin DOMAIN skus
    BY DEF SourceInv, NamesInv, SKUs
  <2> QED BY <2>1, <2>2, <2>3, <2>4, <2>5 DEF TypeOK, FetchInv
<1> QED BY <1>1, SourceInvariance, PTL

(* A snapshot covers every configured period, each built from the reports  *)
(* of its own month.                                                       *)
THEOREM SnapshotWholeHolds == Spec => []SnapshotWhole
<1>1. SourceInv => SnapshotWhole
  <2> SUFFICES ASSUME SourceInv, pc = "returned" PROVE SnapshotWhole
    BY DEF SnapshotWhole
  <2>1. Len(periods) = Lookback + 1 /\ DOMAIN periods = 1 .. Len(periods)
    BY DEF SourceInv, FetchInv, IsSeq
  <2>2. \A i \in 1 .. Len(periods) : PeriodInv(i)
    BY DEF SourceInv
  <2> QED BY <2>1, <2>2 DEF SnapshotWhole, PeriodInv
<1> QED BY <1>1, SourceInvariance, PTL

(* The euro series add up to the euro rows of the selected projects and to *)
(* the euro taxes; if that is not all the API reported, a skipped row has  *)
(* been counted.                                                           *)
THEOREM NeverSilentlyWrongHolds == Spec => []NeverSilentlyWrong
<1>1. SourceInv => NeverSilentlyWrong
  <2> SUFFICES ASSUME SourceInv PROVE NeverSilentlyWrong
    OBVIOUS
  <2>1. skipped \in Nat /\ before \in Nat /\ DOMAIN periods = 1 .. Len(periods)
    BY DEF SourceInv, FetchInv, IsSeq
  <2>2. ASSUME NEW i \in DOMAIN periods, NEW rows, rows = replies[i].rows,
               NEW lines, lines = replies[i].lines
        PROVE  /\ Consumed(periods[i])
                    = Total(rows, {j \in DOMAIN rows :
                                       rows[j].currency = "EUR" /\ Selected(rows[j])})
               /\ Taxed(periods[i])
                    = Total(lines, {j \in DOMAIN lines : lines[j].currency = "EUR"})
               /\ \/ skipped > before
                  \/ /\ Consumed(periods[i])
                          = Total(rows, {j \in DOMAIN rows : Selected(rows[j])})
                     /\ Taxed(periods[i]) = Total(lines, DOMAIN lines)
    <3>1. /\ IsList(rows) /\ IsList(lines)
          /\ periods[i].consumption = ConsumptionSeries(rows)
          /\ periods[i].taxes = TaxSeries(lines)
          /\ Skipped(rows, lines) # 0 => before < skipped
      BY <2>1, <2>2 DEF SourceInv, PeriodInv
    <3>2. Consumed(periods[i]) = Total(rows, Used(rows))
      BY <3>1, ConsumptionTotal DEF Consumed
    <3>3. Taxed(periods[i]) = Total(lines, UsedTaxes(lines))
      BY <3>1, TaxTotal DEF Taxed
    <3>4. ~ (skipped > before) => Skipped(rows, lines) = 0
      BY <2>1, <3>1
    <3>5. Consumed(periods[i]) = Total(rows, {j \in DOMAIN rows :
                                           rows[j].currency = "EUR" /\ Selected(rows[j])})
      BY <3>1, <3>2, UsedIsEuros
    <3>6. Taxed(periods[i]) = Total(lines, {j \in DOMAIN lines : lines[j].currency = "EUR"})
      BY <3>1, <3>3, UsedIsEuros
    <3>7. ~ (skipped > before) => /\ Used(rows) = {j \in DOMAIN rows : Selected(rows[j])}
                                  /\ UsedTaxes(lines) = DOMAIN lines
      BY <3>1, <3>4, SkippedType
    <3>8. \/ skipped > before
          \/ /\ Consumed(periods[i]) = Total(rows, {j \in DOMAIN rows : Selected(rows[j])})
             /\ Taxed(periods[i]) = Total(lines, DOMAIN lines)
      BY <3>2, <3>3, <3>7
    <3> QED BY <3>5, <3>6, <3>8
  <2> QED BY <2>2 DEF NeverSilentlyWrong, OnlyEuros
<1> QED BY <1>1, SourceInvariance, PTL

(* Every SKU of a snapshot is described by its first row in the most       *)
(* recent period that has one.                                             *)
THEOREM CurrentNamesWinHolds == Spec => []CurrentNamesWin
<1>1. SourceInv => CurrentNamesWin
  BY DEF SourceInv, NamesInv, Named, CurrentNamesWin
<1> QED BY <1>1, SourceInvariance, PTL
=============================================================================
