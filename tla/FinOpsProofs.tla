----------------------------- MODULE FinOpsProofs -----------------------------
(***************************************************************************)
(* For any charges, options and clock, a snapshot of the FinOps source is  *)
(* whole, its totals are exact, what is folded does not depend on chance   *)
(* and what is missing has been counted.  The walk of the adapter collects *)
(* no page twice.                                                          *)
(***************************************************************************)
EXTENDS FinOps, TokenWalk, SequenceTheorems, Recursion

(***************************************************************************)
(* Sorting: a finite set has one enumeration in a strict total order, in   *)
(* which an element follows those before it in the order.                  *)
(***************************************************************************)
StrictTotalOrder(R, S) ==
  /\ \A x \in S : <<x, x>> \notin R
  /\ \A x, y \in S : x = y \/ <<x, y>> \in R \/ <<y, x>> \in R
  /\ \A x, y, z \in S : <<x, y>> \in R /\ <<y, z>> \in R => <<x, z>> \in R

Smaller(R, S, x) == {y \in S : <<y, x>> \in R}

(* The elements below x are fewer than those below an element above x. *)
LEMMA SmallerGrows ==
  ASSUME NEW S, IsFiniteSet(S), NEW R, StrictTotalOrder(R, S), NEW x \in S
  PROVE  /\ Cardinality(Smaller(R, S, x)) \in 0 .. Cardinality(S) - 1
         /\ \A y \in S : <<x, y>> \in R =>
              Cardinality(Smaller(R, S, x)) < Cardinality(Smaller(R, S, y))
<1>1. \A T \in SUBSET S : IsFiniteSet(T) /\ Cardinality(T) \in Nat
  BY FS_Subset, FS_CardinalityType
<1> DEFINE X == Smaller(R, S, x)
<1>2. X \in SUBSET S /\ x \notin X
  BY DEF StrictTotalOrder, Smaller
<1>3. IsFiniteSet(X) /\ Cardinality(X \cup {x}) = Cardinality(X) + 1
  BY <1>1, <1>2, FS_AddElement
<1>4. ASSUME NEW T \in SUBSET S, X \cup {x} \in SUBSET T
      PROVE  Cardinality(X) < Cardinality(T)
  <2>1. IsFiniteSet(T)
    BY <1>1
  <2>2. Cardinality(X \cup {x}) <= Cardinality(T)
    BY <1>4, <2>1, FS_Subset
  <2> QED BY <1>1, <1>2, <1>3, <2>2
<1>5. ASSUME NEW y \in S, <<x, y>> \in R
      PROVE  Cardinality(X) < Cardinality(Smaller(R, S, y))
  <2>1. X \cup {x} \in SUBSET Smaller(R, S, y)
    BY <1>5 DEF StrictTotalOrder, Smaller
  <2>2. Smaller(R, S, y) \in SUBSET S
    BY DEF Smaller
  <2> QED BY <1>4, <2>1, <2>2
<1>6. Cardinality(X) < Cardinality(S)
  BY <1>2, <1>4
<1> QED BY <1>1, <1>2, <1>5, <1>6

(* A strict total order sorts any finite set. *)
LEMMA SortExists ==
  ASSUME NEW S, IsFiniteSet(S), NEW R, StrictTotalOrder(R, S)
  PROVE  \E seq \in SetToSeqs(S) :
           \A i, j \in DOMAIN seq : i < j => <<seq[i], seq[j]>> \in R
<1> DEFINE n == Cardinality(S)
           Rank(x) == Cardinality(Smaller(R, S, x)) + 1
           rank == [x \in S |-> Rank(x)]
<1>1. n \in Nat
  BY FS_CardinalityType
<1>2. ASSUME NEW x \in S
      PROVE  Rank(x) \in 1 .. n /\ \A y \in S : <<x, y>> \in R => Rank(x) < Rank(y)
  <2>1. /\ Cardinality(Smaller(R, S, x)) \in 0 .. Cardinality(S) - 1
        /\ \A y \in S : /\ Cardinality(Smaller(R, S, y)) \in 0 .. Cardinality(S) - 1
                        /\ <<x, y>> \in R =>
                             Cardinality(Smaller(R, S, x)) < Cardinality(Smaller(R, S, y))
    BY SmallerGrows
  <2> QED BY <1>1, <2>1
<1>3. rank \in [S -> 1 .. n]
  BY <1>2
<1>4. rank \in Injection(S, 1 .. n)
  <2>1. ASSUME NEW x \in S, NEW y \in S, x # y PROVE rank[x] # rank[y]
    <3>1. <<x, y>> \in R \/ <<y, x>> \in R
      BY <2>1 DEF StrictTotalOrder
    <3>2. Rank(x) < Rank(y) \/ Rank(y) < Rank(x)
      BY <1>2, <3>1
    <3>3. Rank(x) \in 1 .. n /\ Rank(y) \in 1 .. n
      BY <1>2
    <3> HIDE DEF Rank, n
    <3> QED BY <1>1, <3>2, <3>3
  <2> HIDE DEF rank
  <2> QED BY <1>3, <2>1 DEF Injection, IsInjective
<1>5. rank \in Surjection(S, 1 .. n)
  <2>1. IsFiniteSet(1 .. n) /\ Cardinality(1 .. n) = n
    BY <1>1, FS_Interval
  <2> HIDE DEF rank
  <2> QED BY <1>4, <2>1, FS_Injection
<1>6. \A i \in 1 .. n : \E x \in S : Rank(x) = i
  BY <1>5 DEF Surjection
<1> DEFINE seq == [i \in 1 .. n |-> CHOOSE x \in S : Rank(x) = i]
<1>7. \A i \in 1 .. n : seq[i] \in S /\ Rank(seq[i]) = i
  <2> HIDE DEF Rank
  <2> QED BY <1>6
<1>8. ASSUME NEW i \in 1 .. n, NEW j \in 1 .. n, i < j PROVE <<seq[i], seq[j]>> \in R
  <2>1. seq[i] \in S /\ seq[j] \in S /\ Rank(seq[i]) = i /\ Rank(seq[j]) = j
    BY <1>7
  <2> HIDE DEF seq, Rank
  <2>2. seq[i] # seq[j] /\ ~ (j < i)
    BY <1>1, <1>8, <2>1
  <2>3. ~ (<<seq[j], seq[i]>> \in R)
    BY <1>2, <2>1, <2>2
  <2> QED BY <2>1, <2>2, <2>3 DEF StrictTotalOrder
<1>9. seq \in SetToSeqs(S)
  <2>1. seq \in [1 .. n -> S]
    BY <1>7
  <2>2. \A i, j \in 1 .. n : i # j => seq[i] # seq[j]
    <3> HIDE DEF seq, Rank
    <3> QED BY <1>7
  <2> HIDE DEF seq
  <2> QED BY <2>1, <2>2 DEF SetToSeqs
<1>10. DOMAIN seq = 1 .. n
  OBVIOUS
<1> HIDE DEF seq
<1> QED BY <1>8, <1>9, <1>10

(* An enumeration of a finite set has all its elements. *)
LEMMA EnumerationOf ==
  ASSUME NEW S, IsFiniteSet(S), NEW seq \in SetToSeqs(S)
  PROVE  /\ Cardinality(S) \in Nat /\ seq \in [1 .. Cardinality(S) -> S]
         /\ seq \in Seq(S) /\ Len(seq) = Cardinality(S) /\ DOMAIN seq = 1 .. Cardinality(S)
         /\ \A i, j \in DOMAIN seq : seq[i] = seq[j] => i = j
         /\ ToSet(seq) = S
<1> DEFINE n == Cardinality(S)
<1>1. n \in Nat
  BY FS_CardinalityType
<1>2. seq \in [1 .. n -> S] /\ \A i, j \in 1 .. n : i # j => seq[i] # seq[j]
  BY DEF SetToSeqs
<1>3. seq \in Injection(1 .. n, S)
  BY <1>2 DEF Injection, IsInjective
<1>4. seq \in Surjection(1 .. n, S)
  <2>1. IsFiniteSet(1 .. n) /\ Cardinality(1 .. n) = n
    BY <1>1, FS_Interval
  <2> QED BY <1>3, <2>1, FS_Injection
<1>5. ToSet(seq) = S
  BY <1>2, <1>4 DEF Surjection, ToSet
<1> QED BY <1>1, <1>2, <1>5

(* In a sorted enumeration the i-th element has i - 1 below it. *)
LEMMA SortedRank ==
  ASSUME NEW S, IsFiniteSet(S), NEW R, StrictTotalOrder(R, S), NEW seq \in SetToSeqs(S),
         \A i, j \in DOMAIN seq : i < j => ~ (<<seq[j], seq[i]>> \in R),
         NEW i \in DOMAIN seq
  PROVE  Cardinality(Smaller(R, S, seq[i])) = i - 1
<1> DEFINE n == Cardinality(S)
<1>1. /\ n \in Nat /\ seq \in [1 .. n -> S] /\ DOMAIN seq = 1 .. n
      /\ \A k, l \in 1 .. n : seq[k] = seq[l] => k = l
      /\ \A x \in S : \E k \in 1 .. n : seq[k] = x
  <2>1. ToSet(seq) = S
    BY EnumerationOf
  <2> QED BY <2>1, EnumerationOf DEF ToSet
<1> HIDE DEF n
<1> DEFINE X == Smaller(R, S, seq[i])
           first == [k \in 1 .. i - 1 |-> seq[k]]
<1>2. \A k \in 1 .. n : <<seq[k], seq[i]>> \in R <=> k < i
  <2> SUFFICES ASSUME NEW k \in 1 .. n PROVE <<seq[k], seq[i]>> \in R <=> k < i
    OBVIOUS
  <2>1. i \in 1 .. n
    BY <1>1
  <2>2. CASE k < i
    <3>1. seq[k] # seq[i] /\ seq[k] \in S /\ seq[i] \in S
      BY <1>1, <2>1, <2>2
    <3>2. ~ (<<seq[i], seq[k]>> \in R)
      BY <1>1, <2>1, <2>2
    <3> QED BY <2>2, <3>1, <3>2 DEF StrictTotalOrder
  <2>3. CASE k = i
    BY <1>1, <2>1, <2>3 DEF StrictTotalOrder
  <2>4. CASE k > i
    BY <1>1, <2>1, <2>4
  <2> QED BY <1>1, <2>1, <2>2, <2>3, <2>4
<1>3. X = {seq[k] : k \in 1 .. i - 1}
  <2>1. i \in 1 .. n
    BY <1>1
  <2>2. ASSUME NEW x \in X PROVE x \in {seq[k] : k \in 1 .. i - 1}
    <3>1. PICK k \in 1 .. n : seq[k] = x
      BY <1>1 DEF Smaller
    <3>2. k < i
      BY <1>2, <3>1 DEF Smaller
    <3> QED BY <1>1, <2>1, <3>1, <3>2
  <2>3. ASSUME NEW k \in 1 .. i - 1 PROVE seq[k] \in X
    <3>1. k \in 1 .. n /\ k < i
      BY <1>1, <2>1
    <3> QED BY <1>1, <1>2, <3>1 DEF Smaller
  <2> QED BY <2>2, <2>3
<1>4. first \in Bijection(1 .. i - 1, X)
  <2>1. \A k \in 1 .. i - 1 : k \in 1 .. n
    BY <1>1
  <2>2. first \in [1 .. i - 1 -> X] /\ \A x \in X : \E k \in 1 .. i - 1 : first[k] = x
    BY <1>3
  <2>3. \A k, l \in 1 .. i - 1 : first[k] = first[l] => k = l
    BY <1>1, <2>1
  <2> HIDE DEF first, X
  <2> QED BY <2>2, <2>3 DEF Bijection, Injection, Surjection, IsInjective
<1>5. i - 1 \in Nat /\ IsFiniteSet(1 .. i - 1) /\ Cardinality(1 .. i - 1) = i - 1
  BY <1>1, FS_Interval
<1>6. ExistsBijection(1 .. i - 1, X)
  BY <1>4 DEF ExistsBijection
<1> HIDE DEF X
<1>7. Cardinality(X) = Cardinality(1 .. i - 1)
  BY <1>5, <1>6, FS_Bijection
<1> QED BY <1>5, <1>7 DEF X

(***************************************************************************)
(* What aggregate may return.                                              *)
(***************************************************************************)

(* The series of a reply are finitely many. *)
LEMMA SeriesFinite ==
  ASSUME NEW reply \in SUBSET Charges
  PROVE  /\ IsFiniteSet(reply) /\ IsFiniteSet(AllSeries(reply))
         /\ Cardinality(AllSeries(reply)) \in Nat
<1>1. IsFiniteSet(reply)
  BY FinOpsAssumption, FS_Subset
<1>2. IsFiniteSet(Accepted(reply))
  BY <1>1, FS_Subset DEF Accepted
<1> DEFINE accepted == Accepted(reply)
           key == [c \in accepted |-> Key(c)]
           Keys == {key[c] : c \in accepted}
<1>3. IsFiniteSet(Keys)
  <2>1. DOMAIN key = accepted /\ key = [c \in accepted |-> key[c]]
    OBVIOUS
  <2> HIDE DEF key, accepted
  <2> QED BY <1>2, <2>1, FiniteImage DEF accepted
<1>4. Keys = {Key(c) : c \in accepted}
  OBVIOUS
<1> HIDE DEF Keys
<1> DEFINE one == [k \in Keys |-> [labels |-> k, euros |-> Total({c \in accepted : Key(c) = k})]]
<1>5. IsFiniteSet({one[k] : k \in Keys})
  <2>1. DOMAIN one = Keys /\ one = [k \in Keys |-> one[k]]
    OBVIOUS
  <2> HIDE DEF one
  <2> QED BY <1>3, <2>1, FiniteImage
<1>6. AllSeries(reply) = {one[k] : k \in Keys}
  BY <1>4 DEF AllSeries
<1> QED BY <1>1, <1>5, <1>6, FS_CardinalityType

(* A sort keeps every entry. *)
LEMMA SortingOf ==
  ASSUME NEW S, IsFiniteSet(S), NEW sorted \in Sortings(S)
  PROVE  /\ sorted \in Seq(S) /\ Len(sorted) = Cardinality(S)
         /\ \A i, j \in DOMAIN sorted : sorted[i] = sorted[j] => i = j
<1>1. Cardinality(S) \in Nat
  BY FS_CardinalityType
<1>2. /\ sorted \in [1 .. Cardinality(S) -> S]
      /\ \A i, j \in 1 .. Cardinality(S) : i # j => sorted[i] # sorted[j]
  BY DEF Sortings, SetToSeqs
<1> QED BY <1>1, <1>2

(***************************************************************************)
(* The labels of series and their order.                                   *)
(***************************************************************************)
Labels == Nat \X Nat \X Nat \X Nat

(* Labels are compared one after the other. *)
LEMMA LabelsLessIs ==
  ASSUME NEW a \in Labels, NEW b \in Labels
  PROVE  LabelsLess(a, b) <=>
           \/ a[1] < b[1]
           \/ a[1] = b[1] /\ a[2] < b[2]
           \/ a[1] = b[1] /\ a[2] = b[2] /\ a[3] < b[3]
           \/ a[1] = b[1] /\ a[2] = b[2] /\ a[3] = b[3] /\ a[4] < b[4]
<1>1. DOMAIN a = {1, 2, 3, 4}
  BY DEF Labels
<1>2. /\ 1 .. 1 - 1 = {} /\ 1 .. 2 - 1 = {1}
      /\ 1 .. 3 - 1 = {1, 2} /\ 1 .. 4 - 1 = {1, 2, 3}
  OBVIOUS
<1> DEFINE Differs(i) == a[i] < b[i] /\ \A j \in 1 .. i - 1 : a[j] = b[j]
<1>3. LabelsLess(a, b) <=> Differs(1) \/ Differs(2) \/ Differs(3) \/ Differs(4)
  BY <1>1 DEF LabelsLess
<1>4. /\ Differs(1) <=> a[1] < b[1]
      /\ Differs(2) <=> a[2] < b[2] /\ a[1] = b[1]
      /\ Differs(3) <=> a[3] < b[3] /\ a[1] = b[1] /\ a[2] = b[2]
      /\ Differs(4) <=> a[4] < b[4] /\ a[1] = b[1] /\ a[2] = b[2] /\ a[3] = b[3]
  BY <1>2
<1> HIDE DEF Differs
<1> QED BY <1>3, <1>4

(* The comparison is a strict total order. *)
LEMMA LabelsOrdered ==
  /\ \A a \in Labels : ~ LabelsLess(a, a)
  /\ \A a, b \in Labels : a = b \/ LabelsLess(a, b) \/ LabelsLess(b, a)
  /\ \A a, b, c \in Labels : LabelsLess(a, b) /\ LabelsLess(b, c) => LabelsLess(a, c)
<1>1. \A a \in Labels : a[1] \in Nat /\ a[2] \in Nat /\ a[3] \in Nat /\ a[4] \in Nat
  BY DEF Labels
<1>2. \A a \in Labels : ~ LabelsLess(a, a)
  BY <1>1, LabelsLessIs
<1>3. ASSUME NEW a \in Labels, NEW b \in Labels, a # b
      PROVE  LabelsLess(a, b) \/ LabelsLess(b, a)
  <2>1. a[1] # b[1] \/ a[2] # b[2] \/ a[3] # b[3] \/ a[4] # b[4]
    BY <1>3 DEF Labels
  <2> QED BY <1>1, <2>1, LabelsLessIs
<1>4. ASSUME NEW a \in Labels, NEW b \in Labels, NEW c \in Labels,
             LabelsLess(a, b), LabelsLess(b, c)
      PROVE  LabelsLess(a, c)
  BY <1>1, <1>4, LabelsLessIs
<1> QED BY <1>2, <1>3, <1>4

(* The series of a reply have distinct labels. *)
LEMMA SeriesLabels ==
  ASSUME NEW reply \in SUBSET Charges
  PROVE  /\ \A x \in AllSeries(reply) : x.labels \in Labels
         /\ \A x \in AllSeries(reply) : \E c \in Accepted(reply) : x.labels = Key(c)
         /\ \A x, y \in AllSeries(reply) : x.labels = y.labels => x = y
<1>1. \A c \in Charges : Key(c) \in Labels
  BY FinOpsAssumption DEF Key, Labels
<1>2. Accepted(reply) \subseteq Charges
  BY DEF Accepted
<1> DEFINE Series(k) == [labels |-> k, euros |-> Total({c \in Accepted(reply) : Key(c) = k})]
<1>3. \A k : Series(k).labels = k
  OBVIOUS
<1>4. \A x \in AllSeries(reply) : \E c \in Accepted(reply) : x = Series(Key(c))
  BY DEF AllSeries
<1> HIDE DEF Series
<1> QED BY <1>1, <1>2, <1>3, <1>4 DEF Accepted

(* Any of them are sorted by labels in one way. *)
LEMMA SortedSeries ==
  ASSUME NEW reply \in SUBSET Charges, NEW S \in SUBSET AllSeries(reply)
  PROVE  SortedByLabels(S) \in SetToSeqs(S)
<1> DEFINE R == {xy \in S \X S : LabelsLess(xy[1].labels, xy[2].labels)}
<1>1. \A x, y \in S : <<x, y>> \in R <=> LabelsLess(x.labels, y.labels)
  OBVIOUS
<1>2. \A x, y \in S : x.labels \in Labels /\ (x.labels = y.labels => x = y)
  BY SeriesLabels
<1> HIDE DEF R
<1>3. StrictTotalOrder(R, S)
  BY <1>1, <1>2, LabelsOrdered DEF StrictTotalOrder
<1>4. IsFiniteSet(S)
  BY SeriesFinite, FS_Subset
<1>5. PICK seq \in SetToSeqs(S) : \A i, j \in DOMAIN seq : i < j => <<seq[i], seq[j]>> \in R
  BY <1>3, <1>4, SortExists
<1>6. seq \in [DOMAIN seq -> S]
  BY <1>4, EnumerationOf
<1>7. \A i, j \in DOMAIN seq : i < j => LabelsLess(seq[i].labels, seq[j].labels)
  BY <1>1, <1>5, <1>6
<1>8. \A a, b \in Labels : LabelsLess(a, b) => ~ LabelsLess(b, a)
  BY LabelsOrdered
<1>9. \A i \in DOMAIN seq : seq[i].labels \in Labels
  BY <1>2, <1>6
<1>10. \A i, j \in DOMAIN seq : i < j => ~ LabelsLess(seq[j].labels, seq[i].labels)
  BY <1>7, <1>8, <1>9
<1> QED BY <1>10 DEF SortedByLabels

(***************************************************************************)
(* The sums of charges and of series.                                      *)
(***************************************************************************)
Amount == [c \in Charges |-> c.amount]

(* The total of charges is a sum over the amounts. *)
LEMMA TotalIsSum ==
  ASSUME NEW T \in SUBSET Charges
  PROVE  /\ IsFiniteSet(T) /\ \A c \in T : Amount[c] = c.amount /\ Amount[c] \in Int
         /\ Total(T) = SumFunctionOnSet(Amount, T) /\ Total(T) \in Int
<1> DEFINE own == [c \in T |-> c.amount]
<1>1. IsFiniteSet(T) /\ \A c \in T : Amount[c] = own[c] /\ Amount[c] \in Int /\ Amount[c] = c.amount
  BY FinOpsAssumption, FS_Subset DEF Amount
<1>2. Total(T) = SumFunctionOnSet(own, T)
  BY DEF Total, SumFunction
<1> HIDE DEF own
<1>3. SumFunctionOnSet(own, T) = SumFunctionOnSet(Amount, T)
  BY <1>1, SumAgree
<1>4. SumFunctionOnSet(Amount, T) \in Int
  BY <1>1, SumOverSet
<1> QED BY <1>1, <1>2, <1>3, <1>4

EurosOf(S) == [x \in S |-> x.euros]

(* The total of series is a sum over their amounts. *)
LEMMA EurosIsSum ==
  ASSUME NEW S, IsFiniteSet(S), \A x \in S : x.euros \in Int, NEW T \in SUBSET S
  PROVE  /\ Euros(T) = SumFunctionOnSet(EurosOf(S), T) /\ Euros(T) \in Int
         /\ IsFiniteSet(T) /\ \A x \in S : EurosOf(S)[x] \in Int /\ EurosOf(S)[x] = x.euros
<1> DEFINE own == [x \in T |-> x.euros]
           f == EurosOf(S)
<1>1. /\ IsFiniteSet(T) /\ \A x \in T : f[x] = own[x] /\ f[x] \in Int
      /\ \A x \in S : f[x] \in Int /\ f[x] = x.euros
  BY FS_Subset DEF EurosOf
<1>2. Euros(T) = SumFunctionOnSet(own, T)
  BY DEF Euros, SumFunction
<1> HIDE DEF own, f
<1>3. SumFunctionOnSet(own, T) = SumFunctionOnSet(f, T)
  BY <1>1, SumAgree
<1>4. SumFunctionOnSet(f, T) \in Int
  BY <1>1, SumOverSet
<1> QED BY <1>1, <1>2, <1>3, <1>4 DEF f

(* The amount of a series is a number, and all of them add up to the euro  *)
(* charges of the reply.                                                   *)
LEMMA SeriesEuros ==
  ASSUME NEW reply \in SUBSET Charges
  PROVE  /\ \A x \in AllSeries(reply) : x.euros \in Int
         /\ Euros(AllSeries(reply)) = Total({c \in reply : c.currency = "EUR"})
<1> DEFINE accepted == Accepted(reply)
           all == AllSeries(reply)
           Series(k) == [labels |-> k, euros |-> Total({c \in accepted : Key(c) = k})]
           key == [c \in accepted |-> Series(Key(c))]
<1>1. accepted \in SUBSET Charges
  BY DEF Accepted
<1>2. all = {Series(Key(c)) : c \in accepted}
  BY DEF AllSeries
<1>3. \A k : {c \in accepted : Key(c) = k} \in SUBSET Charges
  BY <1>1
<1>4. \A x \in all : x.euros \in Int
  <2>1. \A k : Series(k).euros \in Int
    BY <1>3, TotalIsSum
  <2> HIDE DEF Series, accepted, all
  <2> QED BY <1>2, <2>1
<1>5. Euros(all) = Total(accepted)
  <2>1. IsFiniteSet(all)
    BY SeriesFinite
  <2>2. /\ Euros(all) = SumFunctionOnSet(EurosOf(all), all)
        /\ \A x \in all : EurosOf(all)[x] = x.euros
    <3> HIDE DEF all
    <3> QED BY <1>4, <2>1, EurosIsSum
  <2>3. /\ Total(accepted) = SumFunctionOnSet(Amount, accepted) /\ IsFiniteSet(accepted)
        /\ \A c \in accepted : Amount[c] \in Int
    <3> HIDE DEF accepted
    <3> QED BY <1>1, TotalIsSum
  <2>4. \A c \in accepted : key[c] \in all
    BY <1>2
  <2>5. ASSUME NEW x \in all
        PROVE  EurosOf(all)[x] = SumFunctionOnSet(Amount, {c \in accepted : key[c] = x})
    <3>1. PICK d \in accepted : x = Series(Key(d))
      BY <1>2
    <3>2. {c \in accepted : key[c] = x} = {c \in accepted : Key(c) = Key(d)}
      <4>1. \A c \in accepted : key[c] = x <=> Key(c) = Key(d)
        <5>1. \A k : Series(k).labels = k
          OBVIOUS
        <5> HIDE DEF Series, accepted
        <5> QED BY <3>1, <5>1
      <4> HIDE DEF key, accepted
      <4> QED BY <4>1
    <3>3. x.euros = Total({c \in accepted : Key(c) = Key(d)})
      BY <3>1
    <3>4. Total({c \in accepted : Key(c) = Key(d)})
            = SumFunctionOnSet(Amount, {c \in accepted : Key(c) = Key(d)})
      BY <1>3, TotalIsSum
    <3> HIDE DEF accepted, all, key
    <3> QED BY <2>2, <3>2, <3>3, <3>4
  <2> DEFINE h == EurosOf(all)
  <2> HIDE DEF accepted, all, key, h
  <2>6. SumFunctionOnSet(h, all) = SumFunctionOnSet(Amount, accepted)
    BY <2>1, <2>3, <2>4, <2>5, SumPartition DEF h
  <2> QED BY <2>2, <2>3, <2>6 DEF h
<1>6. Total(accepted) = Total({c \in reply : c.currency = "EUR"})
  <2> DEFINE euro == {c \in reply : c.currency = "EUR"}
             zero == {c \in accepted : c.currency # "EUR"}
  <2>1. accepted = euro \cup zero /\ euro \cap zero = {}
    BY DEF Accepted
  <2>2. euro \in SUBSET Charges /\ zero \in SUBSET Charges /\ \A c \in zero : c.amount = 0
    BY DEF Accepted
  <2> HIDE DEF accepted, euro, zero
  <2>3. /\ IsFiniteSet(euro) /\ IsFiniteSet(zero) /\ \A c \in euro \cup zero : Amount[c] \in Int
        /\ \A c \in zero : Amount[c] = 0
        /\ Total(euro) = SumFunctionOnSet(Amount, euro) /\ Total(euro) \in Int
        /\ Total(accepted) = SumFunctionOnSet(Amount, accepted)
    BY <1>1, <2>2, TotalIsSum
  <2>4. SumFunctionOnSet(Amount, zero) = 0
    BY <2>3, SumZero
  <2>5. SumFunctionOnSet(Amount, accepted)
          = SumFunctionOnSet(Amount, euro) + SumFunctionOnSet(Amount, zero)
    BY <2>1, <2>3, SumUnion
  <2>6. Total(accepted) = Total(euro)
    BY <2>3, <2>4, <2>5
  <2> QED BY <2>6 DEF euro
<1> QED BY <1>4, <1>5, <1>6

(* A period is that of its month, and says how many series were folded. *)
LEMMA AggregateOf ==
  ASSUME NEW month \in Int, NEW reply \in SUBSET Charges, NEW p \in Aggregates(month, reply)
  PROVE  /\ p.month = month /\ p.folded \in Nat
         /\ p.folded > 0 <=> Exceeds(reply)
<1> DEFINE all == AllSeries(reply)
           n == Cardinality(all)
<1>1. IsFiniteSet(all) /\ n \in Nat /\ MaxSeries \in Nat \ {0}
  BY SeriesFinite, FinOpsAssumption
<1> HIDE DEF all, n
<1>2. CASE n > MaxSeries
  <2>1. PICK sorted \in Sortings(all) :
          p = [month |-> month, updated |-> Updated(reply),
               series |-> Fold(sorted).series, folded |-> Fold(sorted).folded]
    BY <1>2 DEF Aggregates, all, n
  <2>2. sorted \in Seq(all) /\ Len(sorted) = n
    BY <1>1, SortingOf DEF n
  <2>3. Fold(sorted).folded = Len(SubSeq(sorted, Keep + 1, Len(sorted)))
    BY DEF Fold
  <2>4. Len(SubSeq(sorted, Keep + 1, Len(sorted))) = n - Keep
    BY <1>1, <1>2, <2>2 DEF Keep
  <2> QED BY <1>1, <1>2, <2>1, <2>3, <2>4 DEF Keep, Exceeds, n, all
<1>3. CASE ~ (n > MaxSeries)
  <2>1. p = [month |-> month, updated |-> Updated(reply),
             series |-> SortedByLabels(all), folded |-> 0]
    BY <1>3 DEF Aggregates, all, n
  <2> QED BY <1>3, <2>1 DEF Exceeds, n, all
<1> QED BY <1>2, <1>3

(***************************************************************************)
(* What is kept of a reply over the limit.                                 *)
(***************************************************************************)

(* The elements of a part of an enumeration. *)
LEMMA PartOf ==
  ASSUME NEW S, NEW seq \in Seq(S), NEW a \in 1 .. Len(seq) + 1, NEW b \in 0 .. Len(seq)
  PROVE  ToSet(SubSeq(seq, a, b)) = {seq[i] : i \in a .. b}
<1> DEFINE part == SubSeq(seq, a, b)
<1>1. Len(seq) \in Nat /\ a \in Int /\ b \in Int /\ \A i \in a .. b : seq[i] \in S
  OBVIOUS
<1>2. /\ part \in Seq(S) /\ Len(part) = IF a <= b THEN b - a + 1 ELSE 0
      /\ \A i \in 1 .. b - a + 1 : part[i] = seq[a + i - 1]
  BY <1>1, SubSeqProperties
<1> HIDE DEF part
<1>3. DOMAIN part = 1 .. b - a + 1
  BY <1>1, <1>2
<1>4. ASSUME NEW i \in a .. b PROVE \E j \in DOMAIN part : part[j] = seq[i]
  <2> DEFINE j == i - a + 1
  <2>1. j \in 1 .. b - a + 1 /\ a + j - 1 = i
    BY <1>1
  <2> HIDE DEF j
  <2> QED BY <1>2, <1>3, <2>1
<1>5. ASSUME NEW j \in DOMAIN part PROVE \E i \in a .. b : part[j] = seq[i]
  <2>1. a + j - 1 \in a .. b
    BY <1>1, <1>3
  <2> QED BY <1>2, <1>3, <2>1
<1>6. ToSet(part) = {part[j] : j \in DOMAIN part}
  BY DEF ToSet
<1>7. ToSet(part) = {seq[i] : i \in a .. b}
  <2>1. \A x \in ToSet(part) : x \in {seq[i] : i \in a .. b}
    BY <1>5, <1>6
  <2>2. \A x \in {seq[i] : i \in a .. b} : x \in ToSet(part)
    BY <1>4, <1>6
  <2> QED BY <2>1, <2>2
<1> QED BY <1>7 DEF part

BeforeOn(S) == {xy \in S \X S : Before(xy[1], xy[2])}

(* Series are ordered by magnitude and labels. *)
LEMMA BeforeOrdered ==
  ASSUME NEW reply \in SUBSET Charges
  PROVE  LET all == AllSeries(reply)
         IN  /\ StrictTotalOrder(BeforeOn(all), all)
             /\ \A x, y \in all : <<x, y>> \in BeforeOn(all) <=> Before(x, y)
<1> DEFINE all == AllSeries(reply)
<1>1. \A x, y \in all : <<x, y>> \in BeforeOn(all) <=> Before(x, y)
  BY DEF BeforeOn
<1>2. \A x \in all : x.labels \in Labels /\ Magnitude(x) \in Nat
  <2>1. \A x \in all : x.labels \in Labels /\ x.euros \in Int
    BY SeriesLabels, SeriesEuros
  <2>2. \A x : x.euros \in Int => Magnitude(x) \in Nat
    BY DEF Magnitude
  <2> HIDE DEF all
  <2> QED BY <2>1, <2>2
<1>3. \A x, y \in all : x.labels = y.labels => x = y
  BY SeriesLabels
<1> HIDE DEF all
<1>4. ASSUME NEW x \in all PROVE ~ Before(x, x)
  BY <1>2, LabelsOrdered DEF Before
<1>5. ASSUME NEW x \in all, NEW y \in all PROVE x = y \/ Before(x, y) \/ Before(y, x)
  BY <1>2, <1>3, LabelsOrdered DEF Before
<1>6. ASSUME NEW x \in all, NEW y \in all, NEW z \in all, Before(x, y), Before(y, z)
      PROVE  Before(x, z)
  <2>1. LabelsLess(x.labels, y.labels) /\ LabelsLess(y.labels, z.labels)
          => LabelsLess(x.labels, z.labels)
    BY <1>2, LabelsOrdered
  <2> QED BY <1>2, <1>6, <2>1 DEF Before
<1>7. StrictTotalOrder(BeforeOn(all), all)
  BY <1>1, <1>4, <1>5, <1>6 DEF StrictTotalOrder
<1> QED BY <1>1, <1>7 DEF all

OtherSeries(euros) == [labels |-> OtherLabels, euros |-> euros]

(* An element without repetitions is in a part where its position is. *)
LEMMA InPart ==
  ASSUME NEW seq, NEW D, NEW A, A \subseteq D,
         \A i, j \in D : seq[i] = seq[j] => i = j
  PROVE  \A i \in D : seq[i] \in {seq[j] : j \in A} <=> i \in A
OBVIOUS

(* A period has all series of the reply, or the largest and the sum of the *)
(* others.                                                                 *)
LEMMA PeriodSeries ==
  ASSUME NEW month \in Int, NEW reply \in SUBSET Charges, NEW p \in Aggregates(month, reply)
  PROVE  LET all == AllSeries(reply)
         IN  IF ~ Exceeds(reply) THEN p.series \in SetToSeqs(all)
             ELSE \E kept \in SUBSET all : \E own \in SetToSeqs(kept) :
                    /\ p.series = Append(own, OtherSeries(Euros(all \ kept)))
                    /\ Cardinality(kept) <= Keep
                    /\ \A x \in all :
                         x \in kept <=> Cardinality({y \in all : Before(y, x)}) < Keep
<1> DEFINE all == AllSeries(reply)
           n == Cardinality(all)
<1>1. IsFiniteSet(all) /\ n \in Nat /\ MaxSeries \in Nat \ {0} /\ Keep \in Nat
  BY SeriesFinite, FinOpsAssumption DEF Keep
<1>2. CASE ~ Exceeds(reply)
  <2>1. p = [month |-> month, updated |-> Updated(reply),
             series |-> SortedByLabels(all), folded |-> 0]
    BY <1>2 DEF Aggregates, Exceeds
  <2> QED BY <1>2, <2>1, SortedSeries
<1>3. CASE Exceeds(reply)
  <2>1. PICK sorted \in Sortings(all) :
          p = [month |-> month, updated |-> Updated(reply),
               series |-> Fold(sorted).series, folded |-> Fold(sorted).folded]
    BY <1>3 DEF Aggregates, Exceeds
  <2>2. n > MaxSeries
    BY <1>3 DEF Exceeds
  <2>3. sorted \in SetToSeqs(all) /\ \A i, j \in DOMAIN sorted : i < j => ~ Before(sorted[j], sorted[i])
    BY DEF Sortings
  <2> HIDE DEF all, n
  <2>4. /\ sorted \in Seq(all) /\ Len(sorted) = n /\ DOMAIN sorted = 1 .. n
        /\ \A i, j \in DOMAIN sorted : sorted[i] = sorted[j] => i = j
        /\ \A x \in all : \E i \in 1 .. n : sorted[i] = x
        /\ \A i \in 1 .. n : sorted[i] \in all
    <3>1. /\ sorted \in Seq(all) /\ Len(sorted) = n /\ DOMAIN sorted = 1 .. n
          /\ \A i, j \in DOMAIN sorted : sorted[i] = sorted[j] => i = j
          /\ ToSet(sorted) = all
      BY <1>1, <2>3, EnumerationOf DEF n
    <3> QED BY <3>1 DEF ToSet
  <2>5. ASSUME NEW i \in 1 .. n
        PROVE  Cardinality({y \in all : Before(y, sorted[i])}) = i - 1
    <3> DEFINE R == BeforeOn(all)
    <3>1. StrictTotalOrder(R, all) /\ \A x, y \in all : <<x, y>> \in R <=> Before(x, y)
      BY BeforeOrdered DEF all
    <3> HIDE DEF R
    <3>2. \A k, j \in DOMAIN sorted : k < j => ~ (<<sorted[j], sorted[k]>> \in R)
      BY <2>3, <2>4, <3>1
    <3>3. Cardinality(Smaller(R, all, sorted[i])) = i - 1
      <4>1. IsFiniteSet(all) /\ sorted \in SetToSeqs(all) /\ i \in DOMAIN sorted
        BY <1>1, <2>3, <2>4
      <4> QED BY <3>1, <3>2, <4>1, SortedRank
    <3>4. Smaller(R, all, sorted[i]) = {y \in all : Before(y, sorted[i])}
      BY <2>4, <3>1 DEF Smaller
    <3> QED BY <3>3, <3>4
  <2> DEFINE kept == {sorted[i] : i \in 1 .. Keep}
             rest == {sorted[i] : i \in Keep + 1 .. n}
             own == SortedByLabels(kept)
  <2>6. Keep < n /\ Keep \in 0 .. n /\ Keep + 1 \in 1 .. n + 1
    BY <1>1, <2>2 DEF Keep
  <2>7. \A i \in 1 .. n : /\ sorted[i] \in kept <=> i \in 1 .. Keep
                          /\ sorted[i] \in rest <=> i \in Keep + 1 .. n
    <3>1. 1 .. Keep \subseteq 1 .. n /\ Keep + 1 .. n \subseteq 1 .. n
      BY <1>1, <2>6
    <3>2. \A i, j \in 1 .. n : sorted[i] = sorted[j] => i = j
      BY <2>4
    <3> HIDE DEF Keep
    <3>3. \A i \in 1 .. n : sorted[i] \in {sorted[j] : j \in 1 .. Keep} <=> i \in 1 .. Keep
      BY ONLY <3>1, <3>2, InPart
    <3>4. \A i \in 1 .. n :
            sorted[i] \in {sorted[j] : j \in Keep + 1 .. n} <=> i \in Keep + 1 .. n
      BY ONLY <3>1, <3>2, InPart
    <3>5. \A i \in 1 .. n : sorted[i] \in kept <=> i \in 1 .. Keep
      BY ONLY <3>3 DEF kept
    <3>6. \A i \in 1 .. n : sorted[i] \in rest <=> i \in Keep + 1 .. n
      BY ONLY <3>4 DEF rest
    <3> HIDE DEF kept, rest
    <3> QED BY ONLY <3>5, <3>6
  <2>8. kept \in SUBSET all /\ rest = all \ kept
    <3>1. ASSUME NEW x \in all PROVE x \in rest <=> x \notin kept
      <4>1. PICK i \in 1 .. n : sorted[i] = x
        BY <2>4
      <4> HIDE DEF kept, rest
      <4>2. x \in kept <=> i \in 1 .. Keep
        BY ONLY <2>7, <4>1
      <4>3. x \in rest <=> i \in Keep + 1 .. n
        BY ONLY <2>7, <4>1
      <4> QED BY <1>1, <2>6, <4>2, <4>3
    <3>2. kept \in SUBSET all /\ rest \in SUBSET all
      BY <1>1, <2>4, <2>6
    <3> HIDE DEF kept, rest
    <3> QED BY <3>1, <3>2
  <2>9. \A x \in all : x \in kept <=> Cardinality({y \in all : Before(y, x)}) < Keep
    <3> SUFFICES ASSUME NEW x \in all
                 PROVE  x \in kept <=> Cardinality({y \in all : Before(y, x)}) < Keep
      OBVIOUS
    <3>1. PICK i \in 1 .. n : sorted[i] = x
      BY <2>4
    <3>2. x \in kept <=> i <= Keep
      <4> HIDE DEF kept, rest
      <4>1. x \in kept <=> i \in 1 .. Keep
        BY ONLY <2>7, <3>1
      <4> QED BY <1>1, <2>6, <4>1
    <3>3. Cardinality({y \in all : Before(y, x)}) = i - 1
      BY <2>5, <3>1
    <3> HIDE DEF kept
    <3> QED BY <1>1, <3>2, <3>3
  <2>10. Cardinality(kept) <= Keep
    <3> DEFINE first == [i \in 1 .. Keep |-> sorted[i]]
    <3>1. IsFiniteSet(1 .. Keep) /\ Cardinality(1 .. Keep) = Keep
      BY <1>1, FS_Interval
    <3>2. DOMAIN first = 1 .. Keep /\ first = [i \in 1 .. Keep |-> first[i]]
      OBVIOUS
    <3>3. kept = {first[i] : i \in 1 .. Keep}
      OBVIOUS
    <3> HIDE DEF first, kept
    <3>4. Cardinality({first[i] : i \in 1 .. Keep}) <= Cardinality(1 .. Keep)
      BY <3>1, <3>2, FiniteImage
    <3> QED BY <3>1, <3>3, <3>4
  <2>11. own \in SetToSeqs(kept)
    <3> HIDE DEF kept
    <3> QED BY <2>8, SortedSeries DEF all
  <2>12. p.series = Append(own, OtherSeries(Euros(all \ kept)))
    <3>1. /\ ToSet(SubSeq(sorted, 1, Keep)) = kept
          /\ ToSet(SubSeq(sorted, Keep + 1, Len(sorted))) = rest
      <4>1. 1 \in 1 .. Len(sorted) + 1 /\ Keep \in 0 .. Len(sorted)
            /\ Keep + 1 \in 1 .. Len(sorted) + 1 /\ Len(sorted) \in 0 .. Len(sorted)
        BY <1>1, <2>4, <2>6
      <4>2. ASSUME NEW a \in 1 .. Len(sorted) + 1, NEW b \in 0 .. Len(sorted)
            PROVE  ToSet(SubSeq(sorted, a, b)) = {sorted[i] : i \in a .. b}
        <5>1. sorted \in Seq(all)
          BY <2>4
        <5> HIDE DEF kept, rest, own
        <5> QED BY ONLY <5>1, <4>2, PartOf
      <4>3. /\ ToSet(SubSeq(sorted, 1, Keep)) = {sorted[i] : i \in 1 .. Keep}
            /\ ToSet(SubSeq(sorted, Keep + 1, Len(sorted)))
                 = {sorted[i] : i \in Keep + 1 .. Len(sorted)}
        BY <4>1, <4>2
      <4> QED BY <2>4, <4>3
    <3>2. Fold(sorted).series
            = Append(SortedByLabels(ToSet(SubSeq(sorted, 1, Keep))),
                     OtherSeries(Euros(ToSet(SubSeq(sorted, Keep + 1, Len(sorted))))))
      BY DEF Fold, OtherSeries
    <3> HIDE DEF kept, rest
    <3>3. p.series = Append(SortedByLabels(kept), OtherSeries(Euros(rest)))
      BY <2>1, <3>1, <3>2
    <3> QED BY <2>8, <3>3
  <2> HIDE DEF kept, own
  <2> QED BY <1>3, <2>8, <2>9, <2>10, <2>11, <2>12 DEF all
<1> QED BY <1>2, <1>3

(* The amounts of an enumeration of series add up to theirs. *)
LEMMA EnumerationEuros ==
  ASSUME NEW S, IsFiniteSet(S), \A x \in S : x.euros \in Int, NEW seq \in SetToSeqs(S),
         NEW h, \A j \in DOMAIN seq : h[j] = seq[j].euros
  PROVE  SumFunctionOnSet(h, DOMAIN seq) = Euros(S)
<1> DEFINE f == EurosOf(S)
           D == DOMAIN seq
<1>1. /\ Euros(S) = SumFunctionOnSet(f, S) /\ \A x \in S : f[x] \in Int /\ f[x] = x.euros
  <2>1. S \in SUBSET S
    OBVIOUS
  <2> QED BY <2>1, EurosIsSum
<1>2. /\ Cardinality(S) \in Nat /\ D = 1 .. Cardinality(S)
      /\ \A i, j \in D : seq[i] = seq[j] => i = j
      /\ S = {seq[j] : j \in D}
  BY EnumerationOf DEF ToSet
<1>3. IsFiniteSet(D)
  <2> DEFINE n == Cardinality(S)
  <2> HIDE DEF n
  <2>1. n \in Nat /\ D = 1 .. n
    BY <1>2 DEF n
  <2>2. IsFiniteSet(1 .. n)
    BY <2>1, FS_Interval
  <2> QED BY <2>1, <2>2
<1> HIDE DEF f, D
<1>4. \A j \in D : h[j] = f[seq[j]]
  BY <1>1, <1>2 DEF D
<1>5. SumFunctionOnSet(h, D) = SumFunctionOnSet(f, S)
  <2>1. (\A x \in S : f[x] \in Int) /\ \A i, j \in D : seq[i] = seq[j] => i = j
    BY <1>1, <1>2
  <2>2. IsFiniteSet(S) /\ S = {seq[j] : j \in D}
    BY <1>2
  <2> QED BY ONLY <2>1, <2>2, <1>3, <1>4, SumReindex
<1> QED BY <1>1, <1>5 DEF D

(* The series of a period over the limit, one by one. *)
LEMMA OwnThenOther ==
  ASSUME NEW S, IsFiniteSet(S), NEW own \in SetToSeqs(S), NEW x
  PROVE  LET n == Cardinality(S)
             seq == Append(own, x)
         IN  /\ n \in Nat /\ Len(seq) = n + 1 /\ DOMAIN seq = 1 .. n + 1 /\ DOMAIN own = 1 .. n
             /\ \A j \in 1 .. n : seq[j] = own[j] /\ own[j] \in S
             /\ \A j, k \in 1 .. n : own[j] = own[k] => j = k
             /\ seq[n + 1] = x
             /\ {seq[j] : j \in 1 .. n} = S
<1> DEFINE n == Cardinality(S)
<1>1. /\ n \in Nat /\ own \in Seq(S) /\ Len(own) = n /\ DOMAIN own = 1 .. n
      /\ \A i, j \in DOMAIN own : own[i] = own[j] => i = j
      /\ S = {own[j] : j \in DOMAIN own}
  BY EnumerationOf DEF ToSet
<1> DEFINE seq == Append(own, x)
<1>2. Len(seq) = n + 1 /\ DOMAIN seq = 1 .. n + 1 /\ seq[n + 1] = x
      /\ \A j \in 1 .. n : seq[j] = own[j]
  <2>1. own \in Seq(S \cup {x}) /\ x \in S \cup {x}
    <3>1. own \in [1 .. n -> S \cup {x}]
      BY EnumerationOf
    <3> HIDE DEF n
    <3> QED BY <1>1, <3>1
  <2> HIDE DEF n
  <2> QED BY <1>1, <2>1, AppendProperties
<1> HIDE DEF seq, n
<1>3. {seq[j] : j \in 1 .. n} = S
  BY <1>1, <1>2
<1> QED BY <1>1, <1>2, <1>3 DEF seq, n

(* A period has numbers for amounts, and they add up to the euro charges   *)
(* of the reply.                                                           *)
LEMMA PeriodTotal ==
  ASSUME NEW month \in Int, NEW reply \in SUBSET Charges, NEW p \in Aggregates(month, reply)
  PROVE  /\ \A j \in DOMAIN p.series : p.series[j].euros \in Int
         /\ SumFunction([j \in DOMAIN p.series |-> p.series[j].euros])
              = Total({c \in reply : c.currency = "EUR"})
<1> DEFINE all == AllSeries(reply)
           D == DOMAIN p.series
           h == [j \in D |-> p.series[j].euros]
<1>1. IsFiniteSet(all) /\ \A x \in all : x.euros \in Int
  BY SeriesFinite, SeriesEuros
<1>2. SumFunction(h) = SumFunctionOnSet(h, D)
  BY DEF SumFunction
<1>3. \A j \in D : h[j] = p.series[j].euros
  OBVIOUS
<1>4. (\A j \in D : p.series[j].euros \in Int) /\ SumFunctionOnSet(h, D) = Euros(all)
  <2> HIDE DEF h
  <2>1. CASE ~ Exceeds(reply)
    <3>1. p.series \in SetToSeqs(all)
      BY <2>1, PeriodSeries
    <3> HIDE DEF all
    <3>2. SumFunctionOnSet(h, D) = Euros(all)
      BY <1>1, <1>3, <3>1, EnumerationEuros
    <3>3. p.series \in [DOMAIN p.series -> all]
      BY <1>1, <3>1, EnumerationOf
    <3> QED BY <1>1, <3>2, <3>3
  <2>2. CASE Exceeds(reply)
    <3>1. PICK kept \in SUBSET all : \E own \in SetToSeqs(kept) :
            p.series = Append(own, OtherSeries(Euros(all \ kept)))
      BY <2>2, PeriodSeries
    <3>2. PICK own \in SetToSeqs(kept) : p.series = Append(own, OtherSeries(Euros(all \ kept)))
      BY <3>1
    <3> HIDE DEF all
    <3>3. /\ IsFiniteSet(kept) /\ \A x \in kept : x.euros \in Int
          /\ Euros(all \ kept) \in Int /\ Euros(all) = Euros(kept) + Euros(all \ kept)
      <4> DEFINE f == EurosOf(all)
                 rest == all \ kept
      <4>1. /\ Euros(all) = SumFunctionOnSet(f, all)
            /\ Euros(kept) = SumFunctionOnSet(f, kept) /\ IsFiniteSet(kept)
            /\ Euros(rest) = SumFunctionOnSet(f, rest) /\ Euros(rest) \in Int /\ IsFiniteSet(rest)
            /\ \A x \in all : f[x] \in Int
        <5>1. kept \in SUBSET all /\ rest \in SUBSET all /\ all \in SUBSET all
          OBVIOUS
        <5> HIDE DEF rest
        <5> QED BY <1>1, <5>1, EurosIsSum
      <4>2. kept \cap rest = {} /\ all = kept \cup rest
        OBVIOUS
      <4> HIDE DEF f
      <4>3. SumFunctionOnSet(f, kept \cup rest)
              = SumFunctionOnSet(f, kept) + SumFunctionOnSet(f, rest)
        <5> HIDE DEF rest
        <5> QED BY <4>1, <4>2, SumUnion
      <4> QED BY <1>1, <4>1, <4>2, <4>3
    <3> DEFINE n == Cardinality(kept)
               other == OtherSeries(Euros(all \ kept))
    <3>4. other.euros = Euros(all \ kept)
      BY DEF OtherSeries
    <3> HIDE DEF other
    <3>5. /\ n \in Nat /\ D = 1 .. n + 1 /\ DOMAIN own = 1 .. n
          /\ \A j \in 1 .. n : p.series[j] = own[j] /\ own[j] \in kept
          /\ p.series[n + 1] = other
      BY <3>2, <3>3, OwnThenOther DEF other
    <3> HIDE DEF n, D
    <3>6. \A j \in D : p.series[j].euros \in Int
      BY <3>3, <3>4, <3>5
    <3>7. \A j \in DOMAIN own : h[j] = own[j].euros
      BY <1>3, <3>5
    <3>8. SumFunctionOnSet(h, 1 .. n) = Euros(kept)
      <4>1. SumFunctionOnSet(h, DOMAIN own) = Euros(kept)
        BY <3>2, <3>3, <3>7, EnumerationEuros
      <4> QED BY <3>5, <4>1
    <3>9. SumFunctionOnSet(h, 1 .. n + 1) = SumFunctionOnSet(h, 1 .. n) + h[n + 1]
      <4>1. /\ IsFiniteSet(1 .. n) /\ n + 1 \notin 1 .. n /\ 1 .. n + 1 = (1 .. n) \cup {n + 1}
        <5>1. n \in Nat
          BY <3>5
        <5>2. IsFiniteSet(1 .. n)
          BY <5>1, FS_Interval
        <5> QED BY <5>1, <5>2
      <4>2. \A j \in 1 .. n + 1 : h[j] \in Int
        BY <1>3, <3>5, <3>6
      <4>3. \A y \in (1 .. n) \cup {n + 1} : h[y] \in Int
        BY <4>1, <4>2
      <4>4. SumFunctionOnSet(h, (1 .. n) \cup {n + 1}) = SumFunctionOnSet(h, 1 .. n) + h[n + 1]
        BY <4>1, <4>3, SumAdd
      <4> QED BY <4>1, <4>4
    <3>10. h[n + 1] = Euros(all \ kept)
      BY <1>3, <3>4, <3>5
    <3> QED BY <3>3, <3>5, <3>6, <3>8, <3>9, <3>10
  <2> QED BY <2>1, <2>2
<1> HIDE DEF h, D
<1>5. SumFunction(h) = Total({c \in reply : c.currency = "EUR"})
  BY <1>2, <1>4, SeriesEuros
<1> QED BY <1>4, <1>5 DEF h, D

(* A period is within the limit, and what it keeps of a reply over the     *)
(* limit are the largest series.                                           *)
LEMMA PeriodKept ==
  ASSUME NEW month \in Int, NEW reply \in SUBSET Charges, NEW p \in Aggregates(month, reply)
  PROVE  LET all == AllSeries(reply)
             n == Len(p.series)
         IN  /\ n <= MaxSeries
             /\ p.folded > 0 =>
                  ToSet(SubSeq(p.series, 1, n - 1)) =
                    {x \in all : Cardinality({y \in all : Before(y, x)}) < MaxSeries - 1}
<1> DEFINE all == AllSeries(reply)
<1>1. IsFiniteSet(all) /\ Cardinality(all) \in Nat /\ MaxSeries \in Nat \ {0}
  BY SeriesFinite, FinOpsAssumption
<1>2. p.folded > 0 <=> Exceeds(reply)
  BY AggregateOf
<1>3. CASE ~ Exceeds(reply)
  <2>1. p.series \in SetToSeqs(all) /\ Cardinality(all) <= MaxSeries
    BY <1>1, <1>3, PeriodSeries DEF Exceeds
  <2> HIDE DEF all
  <2>2. Len(p.series) = Cardinality(all)
    BY <1>1, <2>1, EnumerationOf
  <2> QED BY <1>2, <1>3, <2>1, <2>2
<1>4. CASE Exceeds(reply)
  <2>1. PICK kept \in SUBSET all :
          /\ \E own \in SetToSeqs(kept) : p.series = Append(own, OtherSeries(Euros(all \ kept)))
          /\ Cardinality(kept) <= Keep
          /\ \A x \in all : x \in kept <=> Cardinality({y \in all : Before(y, x)}) < Keep
    BY <1>4, PeriodSeries
  <2> DEFINE other == OtherSeries(Euros(all \ kept))
  <2>2. PICK own \in SetToSeqs(kept) : p.series = Append(own, other)
    BY <2>1
  <2> DEFINE largest == {x \in all : Cardinality({y \in all : Before(y, x)}) < MaxSeries - 1}
  <2>3. kept = largest
    <3>1. \A x \in all : x \in kept <=> x \in largest
      BY <2>1 DEF Keep
    <3>2. kept \in SUBSET all /\ largest \in SUBSET all
      OBVIOUS
    <3> HIDE DEF largest
    <3> QED BY <3>1, <3>2
  <2> HIDE DEF all, other, largest
  <2> DEFINE n == Cardinality(kept)
             seq == Append(own, other)
  <2>4. IsFiniteSet(kept)
    BY <1>1, FS_Subset
  <2>5. /\ n \in Nat /\ Len(seq) = n + 1 /\ DOMAIN seq = 1 .. n + 1
        /\ {seq[j] : j \in 1 .. n} = kept
    BY <2>4, OwnThenOther
  <2>6. seq \in Seq(kept \cup {other})
    <3>1. /\ \A j \in 1 .. n : seq[j] \in kept
          /\ seq[n + 1] = other
      BY <2>4, OwnThenOther
    <3>2. own \in [1 .. n -> kept \cup {other}]
      BY <2>4, EnumerationOf
    <3>3. own \in Seq(kept \cup {other}) /\ other \in kept \cup {other}
      <4> HIDE DEF n, seq
      <4> QED BY <2>5, <3>2
    <3> QED BY <3>3, AppendProperties
  <2> HIDE DEF n, seq
  <2>7. ToSet(SubSeq(seq, 1, n)) = kept
    <3>1. 1 \in 1 .. Len(seq) + 1 /\ n \in 0 .. Len(seq)
      BY <2>5
    <3>2. ToSet(SubSeq(seq, 1, n)) = {seq[j] : j \in 1 .. n}
      BY <2>6, <3>1, PartOf
    <3> QED BY <2>5, <3>2
  <2>8. p.series = seq /\ Len(p.series) - 1 = n /\ Len(p.series) = n + 1
    BY <2>2, <2>5 DEF seq
  <2>9. n + 1 <= MaxSeries
    BY <1>1, <2>1, <2>5 DEF Keep, n
  <2> QED BY <2>3, <2>7, <2>8, <2>9 DEF largest, all
<1> QED BY <1>3, <1>4

(* No two series of a period have the same labels, but for the folded one  *)
(* and one of charges that have its labels.                                *)
LEMMA PeriodLabels ==
  ASSUME NEW month \in Int, NEW reply \in SUBSET Charges, NEW p \in Aggregates(month, reply),
         NEW j \in DOMAIN p.series, NEW k \in DOMAIN p.series, j # k,
         p.series[j].labels = p.series[k].labels
  PROVE  /\ p.folded > 0 /\ Len(p.series) \in {j, k}
         /\ p.series[j].labels = OtherLabels
         /\ \E c \in Accepted(reply) : Key(c) = OtherLabels
<1> DEFINE all == AllSeries(reply)
<1>1. /\ IsFiniteSet(all)
      /\ \A x, y \in all : x.labels = y.labels => x = y
      /\ \A x \in all : \E c \in Accepted(reply) : x.labels = Key(c)
  BY SeriesFinite, SeriesLabels
<1>2. CASE ~ Exceeds(reply)
  <2>1. p.series \in SetToSeqs(all)
    BY <1>2, PeriodSeries
  <2> HIDE DEF all
  <2>2. /\ p.series \in [DOMAIN p.series -> all]
        /\ \A i, l \in DOMAIN p.series : p.series[i] = p.series[l] => i = l
    BY <1>1, <2>1, EnumerationOf
  <2>3. p.series[j] \in all /\ p.series[k] \in all
    BY <2>2
  <2> QED BY <1>1, <2>2, <2>3
<1>3. CASE Exceeds(reply)
  <2>1. PICK kept \in SUBSET all : \E own \in SetToSeqs(kept) :
          p.series = Append(own, OtherSeries(Euros(all \ kept)))
    BY <1>3, PeriodSeries
  <2> DEFINE other == OtherSeries(Euros(all \ kept))
  <2>2. PICK own \in SetToSeqs(kept) : p.series = Append(own, other)
    BY <2>1
  <2>3. other.labels = OtherLabels
    BY DEF OtherSeries
  <2> HIDE DEF all, other
  <2> DEFINE n == Cardinality(kept)
             seq == Append(own, other)
  <2>4. IsFiniteSet(kept)
    BY <1>1, FS_Subset
  <2>5. /\ n \in Nat /\ DOMAIN seq = 1 .. n + 1
        /\ \A i \in 1 .. n : seq[i] = own[i] /\ own[i] \in kept
        /\ \A i, l \in 1 .. n : own[i] = own[l] => i = l
        /\ seq[n + 1] = other
    BY <2>4, OwnThenOther
  <2>6. p.series = seq
    BY <2>2
  <2>6a. Len(p.series) = n + 1
    BY <2>5, <2>6
  <2> HIDE DEF n, seq
  <2> SUFFICES /\ n + 1 \in {j, k} /\ p.series[j].labels = OtherLabels
               /\ \E c \in Accepted(reply) : Key(c) = OtherLabels
    <3>1. Len(p.series) = n + 1
      BY <2>6a
    <3> QED BY <1>3, <3>1, AggregateOf
  <2>7. (j \in 1 .. n \/ j = n + 1) /\ (k \in 1 .. n \/ k = n + 1)
    BY <2>5, <2>6
  <2>8. CASE j \in 1 .. n /\ k \in 1 .. n
    <3>1. seq[j] \in all /\ seq[k] \in all /\ seq[j] = own[j] /\ seq[k] = own[k]
      BY <2>5, <2>8
    <3>2. seq[j] = seq[k]
      BY <1>1, <2>6, <3>1
    <3> QED BY <2>5, <2>8, <3>1, <3>2
  <2>9. CASE j \in 1 .. n /\ k = n + 1
    <3>1. seq[j] \in all /\ seq[k] = other
      BY <2>5, <2>9
    <3>2. seq[j].labels = OtherLabels
      BY <2>3, <2>6, <3>1
    <3> QED BY <1>1, <2>6, <2>9, <3>1, <3>2
  <2>10. CASE j = n + 1 /\ k \in 1 .. n
    <3>1. seq[k] \in all /\ seq[j] = other
      BY <2>5, <2>10
    <3>2. seq[k].labels = OtherLabels /\ seq[j].labels = OtherLabels
      BY <2>3, <2>6, <3>1
    <3> QED BY <1>1, <2>6, <2>10, <3>1, <3>2
  <2> QED BY <2>5, <2>7, <2>8, <2>9, <2>10
<1> QED BY <1>2, <1>3

(* The update of a period is a number. *)
LEMMA PeriodUpdated ==
  ASSUME NEW month \in Int, NEW reply \in SUBSET Charges, NEW p \in Aggregates(month, reply)
  PROVE  p.updated \in Nat
<1>1. p.updated = Updated(reply)
  <2> DEFINE F(f) == [month |-> month, updated |-> Updated(reply),
                      series |-> f.series, folded |-> f.folded]
  <2>1. \A f : F(f).updated = Updated(reply)
    OBVIOUS
  <2>2. \E f : p = F(f)
    BY DEF Aggregates
  <2> HIDE DEF F
  <2> QED BY <2>1, <2>2
<1> DEFINE at == [c \in reply |-> c.updated]
           times == {at[c] : c \in reply}
<1>2. IsFiniteSet(times)
  <2>1. IsFiniteSet(reply) /\ DOMAIN at = reply /\ at = [c \in reply |-> at[c]]
    BY SeriesFinite
  <2> HIDE DEF at
  <2> QED BY <2>1, FiniteImage
<1>3. times \in SUBSET Nat /\ {0} \cup {c.updated : c \in reply} = times \cup {0}
  BY FinOpsAssumption
<1> HIDE DEF times
<1>4. \E x \in times \cup {0} : \A y \in times \cup {0} : x >= y
  <2>1. IsFiniteSet(times \cup {0})
    BY <1>2, FS_AddElement
  <2>2. times \cup {0} \in SUBSET Int /\ times \cup {0} # {}
    BY <1>3
  <2> QED BY <2>1, <2>2, FiniteSetHasGreatest
<1>5. Updated(reply) \in times \cup {0}
  <2>1. Updated(reply) = CHOOSE x \in times \cup {0} : \A y \in times \cup {0} : x >= y
    BY <1>3 DEF Updated, Max
  <2> DEFINE R == times \cup {0}
  <2>2. (CHOOSE x \in R : \A y \in R : x >= y) \in R
    <3>1. \E x \in R : \A y \in R : x >= y
      BY <1>4
    <3> HIDE DEF R
    <3> QED BY ONLY <3>1
  <2> QED BY <2>1, <2>2
<1> QED
  <2>1. times \cup {0} \subseteq Nat
    BY <1>3
  <2> QED BY ONLY <1>1, <1>5, <2>1

(***************************************************************************)
(* The inductive invariant: each period is the aggregate of what the API   *)
(* answered for its month, counted back from the one read when Fetch was   *)
(* called, and the counters grew by what these answers are missing.        *)
(***************************************************************************)
AnyPeriod == UNION {Aggregates(m, r) : m \in Int, r \in SUBSET Charges}

Shape ==
  /\ now \in 0 .. LastMonth /\ start \in 0 .. LastMonth
  /\ pc \in {"idle", "querying", "returned", "failed"}
  /\ fetches \in 0 .. MaxFetches
  /\ skipped \in Nat /\ limitExceeded \in Nat
  /\ before \in [skipped : Nat, limitExceeded : Nat]
  /\ periods \in Seq(AnyPeriod) /\ replies \in Seq(SUBSET Charges)
  /\ Len(periods) = Len(replies) /\ Len(periods) <= Lookback + 1
  /\ pc = "returned" => Len(periods) = Lookback + 1

Aggregated ==
  \A i \in DOMAIN periods : periods[i] \in Aggregates(start - (i - 1), replies[i])

SomeMissing == \E i \in DOMAIN replies : \E c \in replies[i] : c.currency # "EUR" /\ c.amount # 0

Counted ==
  pc \in {"querying", "returned"} =>
    /\ skipped >= before.skipped
    /\ SomeMissing => skipped > before.skipped
    /\ limitExceeded - before.limitExceeded =
         Cardinality({i \in DOMAIN periods : periods[i].folded > 0})

FetchInv == Shape /\ Aggregated /\ Counted

(* The source starts with nothing fetched. *)
LEMMA FetchInit == Init => FetchInv
<1> SUFFICES ASSUME Init PROVE FetchInv
  OBVIOUS
<1>1. Shape
  BY FinOpsAssumption DEF Init, Shape
<1> QED BY <1>1 DEF Init, FetchInv, Aggregated, Counted

(* One more period: what is missing from it is counted with it. *)
LEMMA FetchCharges == FetchInv /\ ChargesReturn => FetchInv'
<1> SUFFICES ASSUME FetchInv, ChargesReturn PROVE FetchInv'
  OBVIOUS
<1>0. /\ periods \in Seq(AnyPeriod) /\ replies \in Seq(SUBSET Charges)
      /\ Len(periods) = Len(replies) /\ Len(periods) \in Nat /\ Len(periods) < Lookback + 1
      /\ skipped \in Nat /\ limitExceeded \in Nat /\ Lookback \in Nat
      /\ before \in [skipped : Nat, limitExceeded : Nat]
      /\ pc = "querying" /\ pc' = pc /\ start' = start /\ before' = before /\ start \in Nat
  BY FinOpsAssumption DEF FetchInv, Shape, ChargesReturn, More
<1> DEFINE n == Len(periods)
<1>1. PICK reply \in SUBSET Charges :
        /\ \E p \in Aggregates(Month, reply) : periods' = Append(periods, p)
        /\ replies' = Append(replies, reply)
        /\ skipped' = skipped + Cardinality(reply \ Accepted(reply))
        /\ limitExceeded' = limitExceeded + IF Exceeds(reply) THEN 1 ELSE 0
  BY DEF ChargesReturn
<1>2. PICK p \in Aggregates(Month, reply) : periods' = Append(periods, p)
  BY <1>1
<1>3. Month = start - n /\ Month \in Int
  BY <1>0 DEF Month
<1>4. p \in AnyPeriod
  BY <1>2, <1>3 DEF AnyPeriod
<1>5. p.folded \in Nat /\ (p.folded > 0 <=> Exceeds(reply))
  BY <1>2, <1>3, AggregateOf
<1> HIDE DEF n
<1>6. /\ n \in Nat /\ DOMAIN periods = 1 .. n /\ DOMAIN replies = 1 .. n
      /\ DOMAIN periods' = 1 .. n + 1 /\ DOMAIN replies' = 1 .. n + 1
      /\ periods' \in Seq(AnyPeriod) /\ replies' \in Seq(SUBSET Charges)
      /\ Len(periods') = n + 1 /\ Len(replies') = n + 1
      /\ \A i \in 1 .. n : periods'[i] = periods[i] /\ replies'[i] = replies[i]
      /\ periods'[n + 1] = p /\ replies'[n + 1] = reply
  BY <1>0, <1>1, <1>2, <1>4 DEF n
<1>7. Cardinality(reply \ Accepted(reply)) \in Nat
      /\ (reply \ Accepted(reply) # {} => Cardinality(reply \ Accepted(reply)) > 0)
  <2>1. IsFiniteSet(reply \ Accepted(reply))
    BY SeriesFinite, FS_Subset
  <2>2. Cardinality(reply \ Accepted(reply)) \in Nat
    BY <2>1, FS_CardinalityType
  <2> QED BY <2>1, <2>2, FS_EmptySet
<1>8. Shape'
  <2>1. skipped' \in Nat
    BY <1>0, <1>1, <1>7
  <2>2. limitExceeded' \in Nat
    BY <1>0, <1>1
  <2>3. n + 1 <= Lookback + 1
    BY <1>0, <1>6 DEF n
  <2> QED BY <1>0, <1>6, <2>1, <2>2, <2>3 DEF FetchInv, Shape, ChargesReturn
<1>9. Aggregated'
  <2> SUFFICES ASSUME NEW i \in 1 .. n + 1
               PROVE  periods'[i] \in Aggregates(start - (i - 1), replies'[i])
    BY <1>0, <1>6 DEF Aggregated
  <2>1. CASE i \in 1 .. n
    BY <1>6, <2>1 DEF FetchInv, Aggregated
  <2>2. CASE i = n + 1
    <3>1. start - (i - 1) = Month
      BY <1>0, <1>3, <1>6, <2>2
    <3> QED BY <1>2, <1>6, <2>2, <3>1
  <2> QED BY <1>6, <2>1, <2>2
<1>10. skipped' >= before.skipped /\ (SomeMissing' => skipped' > before.skipped)
  <2>1. skipped >= before.skipped /\ (SomeMissing => skipped > before.skipped)
    BY <1>0 DEF FetchInv, Counted
  <2>2. skipped' >= skipped /\ before.skipped \in Nat /\ skipped' \in Nat
    BY <1>0, <1>1, <1>7
  <2>3. ASSUME NEW i \in 1 .. n + 1, NEW c \in replies'[i], c.currency # "EUR", c.amount # 0
        PROVE  skipped' > before.skipped
    <3>1. CASE i \in 1 .. n
      <4>1. SomeMissing
        BY <1>6, <2>3, <3>1 DEF SomeMissing
      <4> QED BY <1>0, <2>1, <2>2, <4>1
    <3>2. CASE i = n + 1
      <4>1. c \in reply \ Accepted(reply)
        BY <1>6, <2>3, <3>2 DEF Accepted
      <4>2. skipped' > skipped
        BY <1>0, <1>1, <1>7, <4>1
      <4> QED BY <1>0, <2>1, <2>2, <4>2
    <3> QED BY <1>6, <3>1, <3>2
  <2> QED BY <1>0, <1>6, <2>1, <2>2, <2>3 DEF SomeMissing
<1>11. limitExceeded' - before.limitExceeded
         = Cardinality({i \in DOMAIN periods' : periods'[i].folded > 0})
  <2> DEFINE old == {i \in 1 .. n : periods[i].folded > 0}
             new == {i \in 1 .. n + 1 : periods'[i].folded > 0}
  <2>1. limitExceeded - before.limitExceeded = Cardinality(old)
    BY <1>0, <1>6 DEF FetchInv, Counted
  <2>2. IsFiniteSet(old) /\ Cardinality(old) \in Nat
    <3>1. IsFiniteSet(1 .. n)
      BY <1>6, FS_Interval
    <3>2. old \in SUBSET (1 .. n)
      OBVIOUS
    <3> QED BY <3>1, <3>2, FS_Subset, FS_CardinalityType
  <2>3. n + 1 \notin old
    BY <1>6
  <2>4. CASE Exceeds(reply)
    <3>1. new = old \cup {n + 1}
      BY <1>5, <1>6, <2>4
    <3> HIDE DEF new, old
    <3>2. Cardinality(new) = Cardinality(old) + 1
      BY <2>2, <2>3, <3>1, FS_AddElement
    <3>3. limitExceeded' = limitExceeded + 1 /\ before.limitExceeded \in Nat
      BY <1>0, <1>1, <2>4
    <3>4. limitExceeded' - before.limitExceeded = Cardinality(new)
      BY <1>0, <2>1, <2>2, <3>2, <3>3
    <3> QED BY <1>6, <3>4 DEF new
  <2>5. CASE ~ Exceeds(reply)
    <3>1. new = old
      BY <1>5, <1>6, <2>5
    <3> HIDE DEF new, old
    <3>2. limitExceeded' = limitExceeded
      BY <1>0, <1>1, <2>5
    <3> QED BY <1>6, <2>1, <3>1, <3>2 DEF new
  <2> QED BY <2>4, <2>5
<1> QED BY <1>0, <1>8, <1>9, <1>10, <1>11 DEF FetchInv, Counted

(* Every step keeps the invariant. *)
LEMMA FetchNext == FetchInv /\ [Next]_vars => FetchInv'
<1> SUFFICES ASSUME FetchInv, [Next]_vars PROVE FetchInv'
  OBVIOUS
<1>0. LastMonth \in Nat /\ MaxFetches \in Nat /\ Lookback \in Nat
  BY FinOpsAssumption
<1>1. CASE StartFetch
  <2>1. /\ periods' = <<>> /\ replies' = <<>> /\ Len(<<>>) = 0
        /\ <<>> \in Seq(AnyPeriod) /\ <<>> \in Seq(SUBSET Charges)
    BY <1>1 DEF StartFetch
  <2>2. Shape'
    BY <1>0, <1>1, <2>1 DEF StartFetch, FetchInv, Shape
  <2>3. Aggregated' /\ ~ SomeMissing'
    BY <2>1 DEF Aggregated, SomeMissing
  <2>4. {i \in DOMAIN periods' : periods'[i].folded > 0} = {}
    BY <2>1
  <2>5. Counted'
    BY <1>1, <2>3, <2>4, FS_EmptySet DEF StartFetch, FetchInv, Shape, Counted
  <2> QED BY <2>2, <2>3, <2>5 DEF FetchInv
<1>2. CASE ChargesReturn
  BY <1>2, FetchCharges
<1>3. CASE ChargesFail
  <2>1. /\ periods' = <<>> /\ replies' = <<>> /\ Len(<<>>) = 0
        /\ <<>> \in Seq(AnyPeriod) /\ <<>> \in Seq(SUBSET Charges)
    BY <1>3 DEF ChargesFail
  <2>2. Shape'
    BY <1>0, <1>3, <2>1 DEF ChargesFail, FetchInv, Shape
  <2> QED BY <1>3, <2>1, <2>2 DEF ChargesFail, FetchInv, Aggregated, Counted
<1>4. CASE FetchReturns
  BY <1>4 DEF FetchReturns, FetchInv, Shape, Aggregated, Counted, SomeMissing
<1>5. CASE MonthEnds
  <2>1. Shape'
    BY <1>0, <1>5 DEF MonthEnds, FetchInv, Shape
  <2> QED BY <1>5, <2>1 DEF MonthEnds, FetchInv, Aggregated, Counted, SomeMissing
<1>6. CASE UNCHANGED vars
  BY <1>6 DEF vars, FetchInv, Shape, Aggregated, Counted, SomeMissing
<1> QED BY <1>1, <1>2, <1>3, <1>4, <1>5, <1>6 DEF Next

(* A snapshot of the FinOps source (finops.go, Fetch) covers every         *)
(* configured period, each the month before the previous one, though a     *)
(* month may end while Fetch runs and any call may fail.                   *)
THEOREM SnapshotWholeHolds == Spec => []SnapshotWhole
<1>1. FetchInv => SnapshotWhole
  <2> SUFFICES ASSUME FetchInv, pc = "returned"
               PROVE  /\ Len(periods) = Lookback + 1
                      /\ periods[1].month = start
                      /\ \A i \in 2 .. Len(periods) : periods[i].month = periods[i - 1].month - 1
    BY DEF SnapshotWhole
  <2>1. /\ Len(periods) = Lookback + 1 /\ Lookback \in Nat /\ start \in Int
        /\ periods \in Seq(AnyPeriod) /\ replies \in Seq(SUBSET Charges)
        /\ Len(replies) = Len(periods)
    BY FinOpsAssumption DEF FetchInv, Shape
  <2>2. ASSUME NEW i \in 1 .. Len(periods) PROVE periods[i].month = start - (i - 1)
    <3>1. start - (i - 1) \in Int /\ replies[i] \in SUBSET Charges
      BY <2>1
    <3>2. periods[i] \in Aggregates(start - (i - 1), replies[i])
      BY <2>1 DEF FetchInv, Aggregated
    <3> QED BY <3>1, <3>2, AggregateOf
  <2> QED BY <2>1, <2>2
<1> QED BY <1>1, FetchInit, FetchNext, PTL DEF Spec

(* A snapshot whose euro totals are incomplete, or whose series are        *)
(* folded, has been counted as such since its Fetch was called.            *)
THEOREM IncompleteIsCountedHolds == Spec => []IncompleteIsCounted
<1>1. FetchInv => IncompleteIsCounted
  BY DEF FetchInv, Counted, SomeMissing, IncompleteIsCounted
<1> QED BY <1>1, FetchInit, FetchNext, PTL DEF Spec

(* Each period is an aggregate of what was answered for it. *)
LEMMA PeriodOf ==
  ASSUME FetchInv, NEW i \in DOMAIN periods
  PROVE  /\ start - (i - 1) \in Int /\ replies[i] \in SUBSET Charges
         /\ periods[i] \in Aggregates(start - (i - 1), replies[i])
<1>1. /\ start \in Int /\ periods \in Seq(AnyPeriod) /\ replies \in Seq(SUBSET Charges)
      /\ Len(replies) = Len(periods)
  BY FinOpsAssumption DEF FetchInv, Shape
<1>2. i \in 1 .. Len(periods)
  BY <1>1
<1> QED BY <1>1, <1>2 DEF FetchInv, Aggregated

(* The total of a period is the total of the euro charges the API returned *)
(* for it, folded or not (finops.go, aggregate and fold), for any charges  *)
(* and any limit.                                                          *)
THEOREM TotalExactHolds == Spec => []TotalExact
<1>1. FetchInv => TotalExact
  BY PeriodOf, PeriodTotal DEF TotalExact
<1> QED BY <1>1, FetchInit, FetchNext, PTL DEF Spec

(* A period never has more than MaxSeries series, and what is kept of a    *)
(* period over the limit (finops.go, fold) is a function of the charges:   *)
(* the sort and the map behind it, in whatever order, decide nothing.      *)
THEOREM KeptAreTheLargestHolds == Spec => []KeptAreTheLargest
<1>1. FetchInv => KeptAreTheLargest
  BY PeriodOf, PeriodKept DEF KeptAreTheLargest
<1> QED BY <1>1, FetchInit, FetchNext, PTL DEF Spec

(* No two series of a period have the same labels, so that the scrape      *)
(* keeps them all, but for the folded one (finops.go, otherSKU) and one of *)
(* charges that have its labels.                                           *)
THEOREM LabelsUniqueHolds == Spec => []LabelsUnique
<1>1. FetchInv => LabelsUnique
  BY PeriodOf, PeriodLabels DEF LabelsUnique
<1> QED BY <1>1, FetchInit, FetchNext, PTL DEF Spec

(* The variables of the source keep their types: the amounts are numbers   *)
(* and no period is beyond the configured ones, for any charges.           *)
THEOREM TypeCorrect == Spec => []TypeOK
<1>1. FetchInv => TypeOK
  <2> SUFFICES ASSUME FetchInv PROVE TypeOK
    OBVIOUS
  <2>1. /\ now \in 0 .. LastMonth /\ start \in 0 .. LastMonth
        /\ pc \in {"idle", "querying", "returned", "failed"}
        /\ replies \in Seq(SUBSET Charges)
        /\ fetches \in 0 .. MaxFetches /\ skipped \in Nat /\ limitExceeded \in Nat
    BY DEF FetchInv, Shape
  <2>2. Len(periods) \in 0 .. Lookback + 1
    BY FinOpsAssumption DEF FetchInv, Shape
  <2>3. ASSUME NEW i \in DOMAIN periods
        PROVE  /\ periods[i].month \in Int /\ periods[i].updated \in Nat
               /\ periods[i].folded \in Nat
               /\ \A j \in DOMAIN periods[i].series : periods[i].series[j].euros \in Int
    <3> DEFINE month == start - (i - 1)
               reply == replies[i]
               p == periods[i]
    <3>1. month \in Int /\ reply \in SUBSET Charges /\ p \in Aggregates(month, reply)
      BY PeriodOf
    <3> HIDE DEF month, reply, p
    <3>2. p.month = month /\ p.folded \in Nat
      BY <3>1, AggregateOf
    <3>3. p.updated \in Nat
      BY <3>1, PeriodUpdated
    <3>4. \A j \in DOMAIN p.series : p.series[j].euros \in Int
      BY <3>1, PeriodTotal
    <3> QED BY <3>1, <3>2, <3>3, <3>4 DEF p
  <2> QED BY <2>1, <2>2, <2>3 DEF TypeOK
<1> QED BY <1>1, FetchInit, FetchNext, PTL DEF Spec

-----------------------------------------------------------------------------
(***************************************************************************)
(* The walk of the adapter that answers Fetch (internal/scaleway,          *)
(* Charges), for any set of tokens and any limit.                          *)
(***************************************************************************)
(* The inductive invariant: the pages collected are those of the tokens    *)
(* seen, the token to ask for next is new, and tokenPage counts the calls. *)
WalkInv ==
  /\ TokenTypeOK
  /\ \A i \in DOMAIN charges : charges[i] \in seenTokens \cup {NoToken}
  /\ token \in seenTokens \cup {NoToken}
  /\ IsInjective(charges)
  /\ Len(charges) <= MaxTokenPages
  /\ tokenWalk = "calling" => /\ Len(charges) = tokenPage - 1
                              /\ \A i \in DOMAIN charges : charges[i] # token

(* The walk starts with nothing collected. *)
LEMMA WalkStarts == TokenInit => WalkInv
BY TokenWalkAssumption DEF TokenInit, WalkInv, TokenTypeOK, IsInjective

(* Collecting the page of a new token keeps the pages distinct. *)
LEMMA CollectNew ==
  ASSUME NEW S, NEW seq \in Seq(S), NEW t \in S, IsInjective(seq),
         \A i \in DOMAIN seq : seq[i] # t
  PROVE  IsInjective(Append(seq, t))
<1>1. DOMAIN seq = 1 .. Len(seq) /\ Len(seq) \in Nat
  OBVIOUS
<1>2. DOMAIN Append(seq, t) = 1 .. Len(seq) + 1
  BY <1>1
<1>3. \A i \in 1 .. Len(seq) : Append(seq, t)[i] = seq[i]
  BY <1>1
<1>4. Append(seq, t)[Len(seq) + 1] = t
  BY <1>1
<1> QED
  BY <1>1, <1>2, <1>3, <1>4 DEF IsInjective

(* Every step keeps the walk's invariant. *)
LEMMA WalkSteps == WalkInv /\ [TokenNext]_tokenVars => WalkInv'
<1> SUFFICES ASSUME WalkInv, [TokenNext]_tokenVars PROVE WalkInv'
  OBVIOUS
<1> USE TokenWalkAssumption
<1> DEFINE AllTokens == Tokens \cup {NoToken}
<1>0. /\ charges \in Seq(AllTokens) /\ token \in AllTokens
      /\ DOMAIN charges = 1 .. Len(charges) /\ Len(charges) \in Nat
      /\ tokenPage \in 1 .. MaxTokenPages + 1
  BY DEF WalkInv, TokenTypeOK
<1>1. ASSUME CallsCharges, charges' = Append(charges, token)
      PROVE  /\ charges' \in Seq(AllTokens)
             /\ IsInjective(charges')
             /\ Len(charges') = tokenPage /\ tokenPage <= MaxTokenPages
             /\ DOMAIN charges' = 1 .. Len(charges) + 1
             /\ \A i \in DOMAIN charges' : charges'[i] \in seenTokens \cup {NoToken}
  <2>1. IsInjective(charges')
    BY <1>0, <1>1, CollectNew DEF WalkInv, CallsCharges
  <2>2. \A i \in 1 .. Len(charges) : charges'[i] = charges[i]
    BY <1>0, <1>1
  <2>3. charges'[Len(charges) + 1] = token
    BY <1>0, <1>1
  <2> QED
    BY <1>0, <1>1, <2>1, <2>2, <2>3 DEF WalkInv, CallsCharges
<1>2. CASE LastPage
  BY <1>0, <1>1, <1>2 DEF LastPage, WalkInv, TokenTypeOK
<1>3. CASE NextPage
  <2>1. PICK next \in Tokens \ seenTokens :
          seenTokens' = seenTokens \cup {next} /\ token' = next
    BY <1>3 DEF NextPage
  <2>2. \A i \in DOMAIN charges' : charges'[i] # next
    BY <1>1, <1>3, <2>1 DEF NextPage
  <2> QED
    BY <1>0, <1>1, <1>3, <2>1, <2>2 DEF NextPage, CallsCharges, WalkInv, TokenTypeOK
<1>4. CASE RepeatedToken
  BY <1>0, <1>1, <1>4 DEF RepeatedToken, WalkInv, TokenTypeOK
<1>5. CASE CallFails
  BY <1>5 DEF CallFails, WalkInv, TokenTypeOK
<1>6. CASE TooManyPages
  BY <1>6 DEF TooManyPages, WalkInv, TokenTypeOK
<1>7. CASE UNCHANGED tokenVars
  BY <1>7 DEF tokenVars, WalkInv, TokenTypeOK
<1> QED
  BY <1>2, <1>3, <1>4, <1>5, <1>6, <1>7 DEF TokenNext

(* The walk ends its calls at the limit whatever happens to them; in       *)
(* particular its page number never exceeds the limit by more than one.    *)
THEOREM WalkTypeCorrect == TokenSpec => []TokenTypeOK
<1>1. WalkInv => TokenTypeOK
  BY DEF WalkInv
<1> QED BY <1>1, WalkStarts, WalkSteps, PTL DEF TokenSpec

(* The walk of the charges (finops.go, Charges) never collects a page      *)
(* twice, whatever tokens the API returns, nor makes more than maxPages    *)
(* calls.                                                                  *)
THEOREM NoPageTwiceHolds == TokenSpec => []NoPageTwice
<1>1. WalkInv => NoPageTwice
  BY DEF WalkInv, NoPageTwice
<1> QED BY <1>1, WalkStarts, WalkSteps, PTL DEF TokenSpec
=============================================================================
