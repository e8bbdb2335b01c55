------------------------------ MODULE Recursion ------------------------------
(***************************************************************************)
(* Induction and recursion in a form every prover can use: the induction   *)
(* is over a set, not over an operator, and the step of a recursion is a   *)
(* function.  They rest on the strict subset order of finite sets being    *)
(* well-founded.  What follows from them of sums (SumFunction, SumOverSet) *)
(* is what the proofs about error counters and euro totals need.           *)
(***************************************************************************)
EXTENDS Integers, Functions, FiniteSetTheorems, TLAPS

(***************************************************************************)
(* A set that holds 0 and the successor of each of its numbers holds every *)
(* natural number: otherwise the intervals 0 .. n - 1 of the numbers n it  *)
(* lacks would have no minimal element.                                    *)
(***************************************************************************)
THEOREM NatSetInduction ==
  ASSUME NEW S, 0 \in S, \A n \in Nat : n \in S => n + 1 \in S
  PROVE  Nat \subseteq S
<1> DEFINE T == Nat \ S
           Below(n) == 0 .. n - 1
           Images == {Below(n) : n \in T}
<1>1. SUFFICES ASSUME T # {} PROVE FALSE
  OBVIOUS
<1>2. Images \subseteq FiniteSubsetsOf(Nat)
  <2> SUFFICES ASSUME NEW n \in T PROVE Below(n) \in FiniteSubsetsOf(Nat)
    OBVIOUS
  <2>1. n - 1 \in Int /\ Below(n) \subseteq Nat
    OBVIOUS
  <2>2. IsFiniteSet(Below(n))
    BY <2>1, FS_Interval
  <2> HIDE DEF Below
  <2> QED BY <2>1, <2>2 DEF FiniteSubsetsOf
<1>3. PICK x \in Images : \A y \in Images : ~ (<<y, x>> \in StrictSubsetOrdering(Nat))
  <2>1. Images # {}
    BY <1>1
  <2> HIDE DEF Images
  <2> QED BY <1>2, <2>1, FS_StrictSubsetOrderingWellFounded, WFMin
<1>4. PICK n \in T : x = Below(n)
  OBVIOUS
<1>5. n \in Nat /\ n # 0 /\ n - 1 \in Nat /\ n \notin S
  OBVIOUS
<1>6. Below(n - 1) \subseteq Below(n) /\ n - 1 \in Below(n) /\ n - 1 \notin Below(n - 1)
      /\ Below(n) \subseteq Nat
  BY <1>5
<1>7. <<Below(n - 1), Below(n)>> \in StrictSubsetOrdering(Nat)
  <2> HIDE DEF Below
  <2> QED BY <1>6 DEF StrictSubsetOrdering
<1>8. n - 1 \in S
  BY <1>3, <1>4, <1>5, <1>7
<1> QED BY <1>5, <1>8

(***************************************************************************)
(* A set of subsets of a finite set that holds the empty one, and with     *)
(* each of its members that member and one element more, holds them all.   *)
(***************************************************************************)
THEOREM FiniteSetInduction ==
  ASSUME NEW S, IsFiniteSet(S), NEW G, {} \in G,
         \A T \in SUBSET S, x \in S : T \in G /\ x \notin T => T \cup {x} \in G
  PROVE  SUBSET S \subseteq G
<1> DEFINE N == {n \in Nat : \A T \in SUBSET S : Cardinality(T) = n => T \in G}
<1>1. \A T \in SUBSET S : IsFiniteSet(T) /\ Cardinality(T) \in Nat
  BY FS_Subset, FS_CardinalityType
<1>2. 0 \in N
  BY <1>1, FS_EmptySet
<1>3. ASSUME NEW n \in Nat, n \in N PROVE n + 1 \in N
  <2> SUFFICES ASSUME NEW T \in SUBSET S, Cardinality(T) = n + 1 PROVE T \in G
    OBVIOUS
  <2>1. PICK x \in T : TRUE
    BY <1>1, FS_EmptySet
  <2> DEFINE U == T \ {x}
  <2>2. Cardinality(U) = n
    <3>1. IsFiniteSet(T) /\ Cardinality(T) = n + 1
      BY <1>1
    <3>2. Cardinality(U) = Cardinality(T) - 1
      BY <2>1, <3>1, FS_RemoveElement
    <3> QED BY <3>1, <3>2
  <2>3. U \in SUBSET S /\ x \in S /\ x \notin U /\ T = U \cup {x}
    BY <2>1
  <2> HIDE DEF U
  <2>4. U \in G
    BY <1>3, <2>2, <2>3
  <2> QED BY <2>3, <2>4
<1>4. Nat \subseteq N
  <2> HIDE DEF N
  <2> QED BY <1>2, <1>3, NatSetInduction
<1> QED BY <1>1, <1>4

(* A finite set of numbers that is not empty has a greatest element. *)
THEOREM FiniteSetHasGreatest ==
  ASSUME NEW S \in SUBSET Int, IsFiniteSet(S), S # {}
  PROVE  \E x \in S : \A y \in S : x >= y
<1> DEFINE Greatest(T) == \E x \in T : \A y \in T : x >= y
           G == {T \in SUBSET S : T = {} \/ Greatest(T)}
<1>1. {} \in G
  OBVIOUS
<1>2. ASSUME NEW T \in SUBSET S, NEW x \in S, T \in G, x \notin T
      PROVE  T \cup {x} \in G
  <2>1. Greatest(T \cup {x})
    <3>1. CASE T = {}
      BY <3>1
    <3>2. CASE Greatest(T)
      <4>1. PICK m \in T : \A y \in T : m >= y
        BY <3>2
      <4>2. CASE x >= m
        <5>1. \A y \in T \cup {x} : x >= y
          BY <4>1, <4>2
        <5> QED BY <5>1
      <4>3. CASE m >= x
        <5>1. \A y \in T \cup {x} : m >= y
          BY <4>1, <4>3
        <5> QED BY <4>1, <5>1
      <4> QED BY <4>2, <4>3
    <3> QED BY <1>2, <3>1, <3>2
  <2> HIDE DEF Greatest
  <2> QED BY <2>1
<1>3. SUBSET S \subseteq G
  <2> HIDE DEF G
  <2> QED BY <1>1, <1>2, FiniteSetInduction
<1> QED BY <1>3

(* The values of a function on a finite set are finitely many. *)
THEOREM FiniteImage ==
  ASSUME NEW S, IsFiniteSet(S), NEW f, DOMAIN f = S, f = [x \in S |-> f[x]]
  PROVE  /\ IsFiniteSet({f[x] : x \in S})
         /\ Cardinality({f[x] : x \in S}) <= Cardinality(S)
<1> DEFINE T == {f[x] : x \in S}
<1>1. f \in Surjection(S, T)
  BY DEF Surjection
<1> HIDE DEF T
<1>2. IsFiniteSet(T) /\ Cardinality(T) <= Cardinality(S)
  BY <1>1, FS_Surjection
<1> QED BY <1>2 DEF T

(* A set of natural numbers that a number bounds has a greatest element.   *)
THEOREM BoundedSetHasGreatest ==
  ASSUME NEW b \in Nat, NEW S \in SUBSET (0 .. b), S # {}
  PROVE  \E x \in S : \A y \in S : x >= y
<1> DEFINE Greatest(T) == \E x \in T : \A y \in T : x >= y
           G == {n \in Nat : \A T \in SUBSET (0 .. n) : T # {} => Greatest(T)}
<1>1. 0 \in G
  <2> SUFFICES ASSUME NEW T \in SUBSET (0 .. 0), T # {} PROVE Greatest(T)
    OBVIOUS
  <2>1. PICK x \in T : TRUE
    OBVIOUS
  <2>2. \A y \in T : y = 0
    OBVIOUS
  <2> QED BY <2>1, <2>2
<1>2. ASSUME NEW n \in Nat, n \in G PROVE n + 1 \in G
  <2> SUFFICES ASSUME NEW T \in SUBSET (0 .. n + 1), T # {} PROVE Greatest(T)
    OBVIOUS
  <2>1. CASE n + 1 \in T
    BY <2>1
  <2>2. CASE n + 1 \notin T
    <3>1. T \in SUBSET (0 .. n)
      BY <2>2
    <3> HIDE DEF Greatest
    <3> QED BY <1>2, <3>1
  <2> QED BY <2>1, <2>2
<1>3. Nat \subseteq G
  <2> HIDE DEF G
  <2> QED BY <1>1, <1>2, NatSetInduction
<1> QED BY <1>3

(***************************************************************************)
(* A function is defined by recursion from its first value and a step: any *)
(* number of its values exist, they agree, and so define the whole.        *)
(***************************************************************************)
THEOREM PrimitiveRecursion ==
  ASSUME NEW V, NEW a \in V, NEW F \in [Nat -> [V -> V]]
  PROVE  \E f \in [Nat -> V] :
           f[0] = a /\ \A n \in Nat : f[n + 1] = F[n][f[n]]
<1> DEFINE Starts(n, g) == /\ g \in [Nat -> V]
                           /\ g[0] = a
                           /\ \A i \in 0 .. n - 1 : g[i + 1] = F[i][g[i]]
           Defined == {n \in Nat : \E g : Starts(n, g)}
           Agreeing == {n \in Nat : \A m \in Nat : \A g, h :
                          n <= m /\ Starts(n, g) /\ Starts(m, h) => g[n] = h[n]}
<1>1. Nat \subseteq Defined
  <2>1. 0 \in Defined
    <3>1. Starts(0, [i \in Nat |-> a])
      OBVIOUS
    <3> QED BY <3>1
  <2>2. ASSUME NEW n \in Nat, n \in Defined PROVE n + 1 \in Defined
    <3>1. PICK g : Starts(n, g)
      BY <2>2
    <3> DEFINE h == [g EXCEPT ![n + 1] = F[n][g[n]]]
    <3>2. F[n][g[n]] \in V /\ h \in [Nat -> V] /\ h[n + 1] = F[n][g[n]]
          /\ \A i \in 0 .. n : h[i] = g[i]
      BY <3>1
    <3>3. \A i \in 0 .. n : h[i + 1] = F[i][h[i]]
      <4> SUFFICES ASSUME NEW i \in 0 .. n PROVE h[i + 1] = F[i][h[i]]
        OBVIOUS
      <4>1. CASE i = n
        BY <4>1, <3>2
      <4>2. CASE i < n
        BY <4>2, <3>1, <3>2
      <4> QED BY <4>1, <4>2
    <3>4. h[0] = a
      BY <3>1, <3>2
    <3>5. Starts(n + 1, h)
      <4> HIDE DEF h
      <4> QED BY <3>2, <3>3, <3>4
    <3> HIDE DEF Starts, h
    <3> QED BY <3>5
  <2> HIDE DEF Defined
  <2> QED BY <2>1, <2>2, NatSetInduction
<1>2. Nat \subseteq Agreeing
  <2>1. 0 \in Agreeing
    OBVIOUS
  <2>2. ASSUME NEW n \in Nat, n \in Agreeing PROVE n + 1 \in Agreeing
    <3>1. ASSUME NEW m \in Nat, NEW g, NEW h, n + 1 <= m,
                 Starts(n + 1, g), Starts(m, h)
          PROVE  g[n + 1] = h[n + 1]
      <4>1. Starts(n, g) /\ n <= m
        BY <3>1
      <4>2. g[n] = h[n]
        <5> HIDE DEF Starts
        <5> QED BY <2>2, <3>1, <4>1
      <4> QED BY <3>1, <4>2
    <3> HIDE DEF Starts
    <3> QED BY <3>1
  <2> HIDE DEF Agreeing
  <2> QED BY <2>1, <2>2, NatSetInduction
<1> DEFINE G(n) == CHOOSE g : Starts(n, g)
           f == [n \in Nat |-> G(n)[n]]
<1>3. \A n \in Nat : Starts(n, G(n))
  BY <1>1
<1>4. f \in [Nat -> V] /\ f[0] = a
  BY <1>3
<1>5. ASSUME NEW n \in Nat PROVE f[n + 1] = F[n][f[n]]
  <2> DEFINE g == G(n) h == G(n + 1)
  <2>1. Starts(n, g) /\ Starts(n + 1, h)
    <3> HIDE DEF Starts, G
    <3> QED BY <1>3
  <2>2. n \in Agreeing
    BY <1>2
  <2> HIDE DEF g, h
  <2>3. g[n] = h[n]
    <3> HIDE DEF Starts
    <3> QED BY <2>1, <2>2
  <2>4. h[n + 1] = F[n][h[n]]
    BY <2>1
  <2>5. f[n] = g[n] /\ f[n + 1] = h[n + 1]
    BY DEF g, h
  <2> QED BY <2>3, <2>4, <2>5
<1> QED BY <1>4, <1>5
-----------------------------------------------------------------------------
(***************************************************************************)
(* Sums over finite sets: SumFunctionOnSet folds a function over a set in  *)
(* an order of its own choice, on which the sum does not depend.           *)
(***************************************************************************)
Chosen(T) == CHOOSE x \in T : TRUE

(* g gives each subset of S what the fold computes for it. *)
Folds(g, f, S) ==
  g = [T \in SUBSET S |-> IF T = {} THEN 0 ELSE f[Chosen(T)] + g[T \ {Chosen(T)}]]

(* A fold exists. *)
LEMMA FoldExists ==
  ASSUME NEW S, IsFiniteSet(S), NEW f, \A x \in S : f[x] \in Int
  PROVE  \E g \in [SUBSET S -> Int] : Folds(g, f, S)
<1> DEFINE V == [SUBSET S -> Int]
           zero == [T \in SUBSET S |-> 0]
           Next(v) == [T \in SUBSET S |-> IF T = {} THEN 0 ELSE f[Chosen(T)] + v[T \ {Chosen(T)}]]
           F == [n \in Nat |-> [v \in V |-> Next(v)]]
<1>1. \A T \in SUBSET S : T # {} => Chosen(T) \in T
  BY DEF Chosen
<1>2. ASSUME NEW v \in V PROVE Next(v) \in V
  <2>1. ASSUME NEW T \in SUBSET S, T # {} PROVE f[Chosen(T)] + v[T \ {Chosen(T)}] \in Int
    BY <1>1, <2>1
  <2> QED BY <2>1
<1>3. zero \in V /\ F \in [Nat -> [V -> V]]
  <2>1. zero \in V
    OBVIOUS
  <2> HIDE DEF V, Next, zero
  <2> QED BY <1>2, <2>1
<1>4. PICK h \in [Nat -> V] : h[0] = zero /\ \A n \in Nat : h[n + 1] = F[n][h[n]]
  <2> HIDE DEF V, F, zero
  <2> QED BY <1>3, PrimitiveRecursion
<1>5. \A n \in Nat : h[n + 1] = Next(h[n]) /\ h[n] \in V
  BY <1>4
<1> DEFINE g == [T \in SUBSET S |-> h[Cardinality(T)][T]]
<1>6. \A T \in SUBSET S : IsFiniteSet(T) /\ Cardinality(T) \in Nat
  BY FS_Subset, FS_CardinalityType
<1>7. g \in V
  BY <1>5, <1>6
<1>8. ASSUME NEW T \in SUBSET S
      PROVE  g[T] = IF T = {} THEN 0 ELSE f[Chosen(T)] + g[T \ {Chosen(T)}]
  <2>1. CASE T = {}
    <3>1. g[T] = zero[T]
      BY <1>4, <2>1, FS_EmptySet
    <3> QED BY <2>1, <3>1
  <2>2. CASE T # {}
    <3> DEFINE x == Chosen(T)
               U == T \ {x}
               n == Cardinality(U)
    <3>1. x \in T
      BY <1>1, <2>2
    <3>2. IsFiniteSet(T)
      BY <1>6
    <3>3. U \in SUBSET S
      OBVIOUS
    <3>4. n \in Nat /\ Cardinality(T) = n + 1
      <4>1. n = Cardinality(T) - 1
        BY <3>1, <3>2, FS_RemoveElement
      <4> QED BY <1>6, <3>3, <4>1
    <3>5. g[T] = h[n + 1][T] /\ g[U] = h[n][U]
      BY <3>3, <3>4
    <3>6. h[n + 1][T] = f[x] + h[n][U]
      BY <1>5, <2>2, <3>4
    <3> QED BY <2>2, <3>5, <3>6
  <2> QED BY <2>1, <2>2
<1>9. Folds(g, f, S)
  <2> DEFINE r == [T \in SUBSET S |-> IF T = {} THEN 0 ELSE f[Chosen(T)] + g[T \ {Chosen(T)}]]
  <2>1. \A T \in SUBSET S : g[T] = r[T]
    BY <1>8
  <2>2. g = [T \in SUBSET S |-> g[T]]
    OBVIOUS
  <2> HIDE DEF g
  <2>3. g = r
    BY <2>1, <2>2
  <2> QED BY <2>3 DEF Folds
<1> QED BY <1>7, <1>9

(* Folds agree on the subsets they share. *)
LEMMA FoldsAgree ==
  ASSUME NEW S, IsFiniteSet(S), NEW f, NEW T \in SUBSET S,
         NEW g, Folds(g, f, S), NEW k, Folds(k, f, T)
  PROVE  g[T] = k[T]
<1> DEFINE N == {n \in Nat : \A U \in SUBSET T : Cardinality(U) = n => g[U] = k[U]}
<1>1. \A U \in SUBSET T : IsFiniteSet(U) /\ Cardinality(U) \in Nat /\ U \in SUBSET S
  BY FS_Subset, FS_CardinalityType
<1>2. ASSUME NEW U \in SUBSET T
      PROVE  /\ g[U] = IF U = {} THEN 0 ELSE f[Chosen(U)] + g[U \ {Chosen(U)}]
             /\ k[U] = IF U = {} THEN 0 ELSE f[Chosen(U)] + k[U \ {Chosen(U)}]
  BY DEF Folds
<1>3. 0 \in N
  BY <1>1, <1>2, FS_EmptySet
<1>4. ASSUME NEW n \in Nat, n \in N PROVE n + 1 \in N
  <2> SUFFICES ASSUME NEW U \in SUBSET T, Cardinality(U) = n + 1 PROVE g[U] = k[U]
    OBVIOUS
  <2>1. U # {}
    BY FS_EmptySet
  <2> DEFINE x == Chosen(U)
             W == U \ {x}
  <2>2. x \in U /\ IsFiniteSet(U)
    BY <1>1, <2>1 DEF Chosen
  <2>3. W \in SUBSET T /\ Cardinality(W) = n
    <3>1. Cardinality(W) = Cardinality(U) - 1
      BY <2>2, FS_RemoveElement
    <3> QED BY <3>1
  <2>4. g[W] = k[W]
    <3> HIDE DEF W
    <3> QED BY <1>4, <2>3
  <2> QED BY <1>2, <2>1, <2>4
<1>5. Nat \subseteq N
  <2> HIDE DEF N
  <2> QED BY <1>3, <1>4, NatSetInduction
<1> QED BY <1>1, <1>5

(* The sum over a set is that of a fold over any set that includes it. *)
LEMMA SumIsFold ==
  ASSUME NEW S, IsFiniteSet(S), NEW f, \A x \in S : f[x] \in Int,
         NEW g, Folds(g, f, S), NEW T \in SUBSET S
  PROVE  SumFunctionOnSet(f, T) = g[T]
<1>1. SumFunctionOnSet(f, T) = (CHOOSE k : Folds(k, f, T))[T]
  BY DEF SumFunctionOnSet, FoldFunctionOnSet, MapThenFoldSet, Folds, Chosen
<1>2. IsFiniteSet(T) /\ \A x \in T : f[x] \in Int
  BY FS_Subset
<1>3. \E k : Folds(k, f, T)
  BY <1>2, FoldExists
<1> DEFINE k == CHOOSE k : Folds(k, f, T)
<1>4. Folds(k, f, T)
  BY <1>3
<1> HIDE DEF k
<1>5. g[T] = k[T]
  BY <1>4, FoldsAgree
<1> QED BY <1>1, <1>5 DEF k

(***************************************************************************)
(* A sum is a number, that of no elements is 0, and any element can be     *)
(* taken out of it.                                                        *)
(***************************************************************************)
THEOREM SumOverSet ==
  ASSUME NEW S, IsFiniteSet(S), NEW f, \A x \in S : f[x] \in Int
  PROVE  /\ SumFunctionOnSet(f, S) \in Int
         /\ SumFunctionOnSet(f, {}) = 0
         /\ \A x \in S : SumFunctionOnSet(f, S) = f[x] + SumFunctionOnSet(f, S \ {x})
<1>1. PICK g \in [SUBSET S -> Int] : Folds(g, f, S)
  BY FoldExists
<1>2. \A T \in SUBSET S : SumFunctionOnSet(f, T) = g[T]
  BY <1>1, SumIsFold
<1>3. ASSUME NEW T \in SUBSET S
      PROVE  g[T] = IF T = {} THEN 0 ELSE f[Chosen(T)] + g[T \ {Chosen(T)}]
  BY <1>1 DEF Folds
<1> DEFINE N == {n \in Nat : \A T \in SUBSET S : Cardinality(T) = n =>
                               \A x \in T : g[T] = f[x] + g[T \ {x}]}
<1>4. \A T \in SUBSET S : IsFiniteSet(T) /\ Cardinality(T) \in Nat
  BY FS_Subset, FS_CardinalityType
<1>5. 0 \in N
  BY <1>4, FS_EmptySet
<1>6. ASSUME NEW n \in Nat, n \in N PROVE n + 1 \in N
  <2> SUFFICES ASSUME NEW T \in SUBSET S, Cardinality(T) = n + 1, NEW x \in T
               PROVE  g[T] = f[x] + g[T \ {x}]
    OBVIOUS
  <2> DEFINE y == Chosen(T)
             X == T \ {x}
             Y == T \ {y}
             Z == X \ {y}
  <2>1. y \in T
    BY DEF Chosen
  <2>2. g[T] = f[y] + g[Y]
    BY <1>3
  <2>3. CASE x = y
    BY <2>2, <2>3
  <2>4. CASE x # y
    <3>1. IsFiniteSet(T)
      BY <1>4
    <3>2. Cardinality(X) = n /\ Cardinality(Y) = n
      <4>1. Cardinality(X) = Cardinality(T) - 1
        BY <3>1, FS_RemoveElement
      <4>2. Cardinality(Y) = Cardinality(T) - 1
        BY <2>1, <3>1, FS_RemoveElement
      <4> QED BY <4>1, <4>2
    <3>3. /\ X \in SUBSET S /\ Y \in SUBSET S /\ y \in X /\ x \in Y
          /\ Z = X \ {y} /\ Z = Y \ {x} /\ Z \in SUBSET S
      BY <2>1, <2>4
    <3>4. f[x] \in Int /\ f[y] \in Int
      BY <2>1
    <3> HIDE DEF X, Y, Z, y
    <3>5. g[X] = f[y] + g[Z] /\ g[Y] = f[x] + g[Z]
      BY <1>6, <3>2, <3>3
    <3>6. g[Z] \in Int
      BY <1>1, <3>3
    <3>7. g[T] = f[x] + g[X]
      BY <2>2, <3>4, <3>5, <3>6
    <3> QED BY <3>7 DEF X
  <2> QED BY <2>3, <2>4
<1>7. Nat \subseteq N
  <2> HIDE DEF N
  <2> QED BY <1>5, <1>6, NatSetInduction
<1>8. ASSUME NEW x \in S PROVE g[S] = f[x] + g[S \ {x}]
  BY <1>4, <1>7
<1> QED BY <1>1, <1>2, <1>3, <1>8

(* One element more adds its value to a sum. *)
THEOREM SumAdd ==
  ASSUME NEW T, IsFiniteSet(T), NEW x, x \notin T, NEW f, \A y \in T \cup {x} : f[y] \in Int
  PROVE  SumFunctionOnSet(f, T \cup {x}) = SumFunctionOnSet(f, T) + f[x]
<1> DEFINE S == T \cup {x}
<1>1. IsFiniteSet(S) /\ x \in S /\ T = S \ {x}
  BY FS_AddElement
<1>2. SumFunctionOnSet(f, T) \in Int
  BY SumOverSet
<1> HIDE DEF S
<1>3. \A y \in S : f[y] \in Int
  BY DEF S
<1>4. SumFunctionOnSet(f, S) = f[x] + SumFunctionOnSet(f, S \ {x})
  BY <1>1, <1>3, SumOverSet
<1>5. f[x] \in Int
  BY <1>1, <1>3
<1>6. SumFunctionOnSet(f, S) = SumFunctionOnSet(f, T) + f[x]
  BY <1>1, <1>2, <1>4, <1>5
<1> QED BY <1>6 DEF S

(* Equal values have equal sums. *)
THEOREM SumAgree ==
  ASSUME NEW S, IsFiniteSet(S), NEW f, NEW h, \A x \in S : f[x] \in Int /\ h[x] = f[x]
  PROVE  SumFunctionOnSet(h, S) = SumFunctionOnSet(f, S)
<1> DEFINE G == {T \in SUBSET S : SumFunctionOnSet(h, T) = SumFunctionOnSet(f, T)}
<1>1. {} \in G
  BY SumOverSet
<1>2. ASSUME NEW T \in SUBSET S, NEW x \in S, T \in G, x \notin T
      PROVE  T \cup {x} \in G
  <2>1. IsFiniteSet(T) /\ \A y \in T \cup {x} : f[y] \in Int /\ h[y] \in Int
    BY FS_Subset
  <2>2. /\ SumFunctionOnSet(f, T \cup {x}) = SumFunctionOnSet(f, T) + f[x]
        /\ SumFunctionOnSet(h, T \cup {x}) = SumFunctionOnSet(h, T) + h[x]
    BY <1>2, <2>1, SumAdd
  <2> QED BY <1>2, <2>2
<1>3. SUBSET S \subseteq G
  <2> HIDE DEF G
  <2> QED BY <1>1, <1>2, FiniteSetInduction
<1> QED BY <1>3

(* The sum of nothing but zeros. *)
THEOREM SumZero ==
  ASSUME NEW S, IsFiniteSet(S), NEW f, \A x \in S : f[x] = 0
  PROVE  SumFunctionOnSet(f, S) = 0
<1> DEFINE G == {T \in SUBSET S : SumFunctionOnSet(f, T) = 0}
<1>1. {} \in G
  BY SumOverSet
<1>2. ASSUME NEW T \in SUBSET S, NEW x \in S, T \in G, x \notin T
      PROVE  T \cup {x} \in G
  <2>1. IsFiniteSet(T) /\ \A y \in T \cup {x} : f[y] \in Int
    BY FS_Subset
  <2>2. SumFunctionOnSet(f, T \cup {x}) = SumFunctionOnSet(f, T) + f[x]
    BY <1>2, <2>1, SumAdd
  <2> QED BY <1>2, <2>2
<1>3. SUBSET S \subseteq G
  <2> HIDE DEF G
  <2> QED BY <1>1, <1>2, FiniteSetInduction
<1> QED BY <1>3

(* The sum over two sets without a common element. *)
THEOREM SumUnion ==
  ASSUME NEW R, IsFiniteSet(R), NEW S, IsFiniteSet(S), R \cap S = {},
         NEW f, \A x \in R \cup S : f[x] \in Int
  PROVE  SumFunctionOnSet(f, R \cup S) = SumFunctionOnSet(f, R) + SumFunctionOnSet(f, S)
<1> DEFINE Splits(T) == SumFunctionOnSet(f, R \cup T)
                          = SumFunctionOnSet(f, R) + SumFunctionOnSet(f, T)
           G == {T \in SUBSET S : Splits(T)}
<1>0. SumFunctionOnSet(f, R) \in Int
  BY SumOverSet
<1>1. {} \in G
  <2>1. SumFunctionOnSet(f, {}) = 0
    BY SumOverSet
  <2>2. R \cup {} = R
    OBVIOUS
  <2> QED BY <1>0, <2>1, <2>2
<1>2. ASSUME NEW T \in SUBSET S, NEW x \in S, T \in G, x \notin T
      PROVE  T \cup {x} \in G
  <2>1. IsFiniteSet(T) /\ IsFiniteSet(R \cup T)
    BY FS_Subset, FS_Union
  <2>2. x \notin R \cup T /\ f[x] \in Int
    BY <1>2
  <2>3. SumFunctionOnSet(f, T) \in Int
    BY <2>1, SumOverSet
  <2>4. SumFunctionOnSet(f, T \cup {x}) = SumFunctionOnSet(f, T) + f[x]
    BY <1>2, <2>1, SumAdd
  <2>5. SumFunctionOnSet(f, (R \cup T) \cup {x}) = SumFunctionOnSet(f, R \cup T) + f[x]
    <3> DEFINE U == R \cup T
    <3>1. \A y \in U \cup {x} : f[y] \in Int
      OBVIOUS
    <3>2. IsFiniteSet(U) /\ x \notin U
      BY <2>1, <2>2
    <3> HIDE DEF U
    <3>3. SumFunctionOnSet(f, U \cup {x}) = SumFunctionOnSet(f, U) + f[x]
      BY <3>1, <3>2, SumAdd
    <3> QED BY <3>3 DEF U
  <2>6. (R \cup T) \cup {x} = R \cup (T \cup {x})
    OBVIOUS
  <2>7. SumFunctionOnSet(f, R \cup T) = SumFunctionOnSet(f, R) + SumFunctionOnSet(f, T)
    BY <1>2
  <2>8. SumFunctionOnSet(f, R \cup (T \cup {x})) = SumFunctionOnSet(f, R \cup T) + f[x]
    BY <2>5, <2>6
  <2> DEFINE U == T \cup {x}
  <2>9. Splits(U) /\ U \in SUBSET S
    <3>1. U \in SUBSET S
      OBVIOUS
    <3> HIDE DEF U
    <3>2. /\ SumFunctionOnSet(f, R \cup U) = SumFunctionOnSet(f, R \cup T) + f[x]
          /\ SumFunctionOnSet(f, U) = SumFunctionOnSet(f, T) + f[x]
      BY <2>4, <2>8 DEF U
    <3> QED BY <1>0, <2>2, <2>3, <2>7, <3>1, <3>2
  <2> HIDE DEF Splits, U
  <2>10. U \in G
    BY <2>9
  <2> QED BY <2>10 DEF U
<1>3. SUBSET S \subseteq G
  <2>1. \A T \in SUBSET S, x \in S : T \in G /\ x \notin T => T \cup {x} \in G
    <3> HIDE DEF G
    <3> QED BY <1>2
  <2> HIDE DEF G
  <2>2. IsFiniteSet(S)
    OBVIOUS
  <2> QED BY ONLY <1>1, <2>1, <2>2, FiniteSetInduction
<1> QED BY <1>3

(* The sum over the parts of a set is the sum over the set. *)
THEOREM SumPartition ==
  ASSUME NEW S, IsFiniteSet(S), NEW f, \A x \in S : f[x] \in Int,
         NEW K, IsFiniteSet(K), NEW key, \A x \in S : key[x] \in K,
         NEW h, \A k \in K : h[k] = SumFunctionOnSet(f, {x \in S : key[x] = k})
  PROVE  SumFunctionOnSet(h, K) = SumFunctionOnSet(f, S)
<1> DEFINE Part(L) == {x \in S : key[x] \in L}
           Same(L) == SumFunctionOnSet(h, L) = SumFunctionOnSet(f, Part(L))
           G == {L \in SUBSET K : Same(L)}
<1>0. ASSUME NEW L \in SUBSET K
      PROVE  IsFiniteSet(L) /\ IsFiniteSet(Part(L)) /\ Part(L) \in SUBSET S
  BY FS_Subset
<1>1. ASSUME NEW k \in K
      PROVE  h[k] = SumFunctionOnSet(f, Part({k})) /\ h[k] \in Int
  <2>1. Part({k}) = {x \in S : key[x] = k}
    OBVIOUS
  <2>2. SumFunctionOnSet(f, Part({k})) \in Int
    <3>1. IsFiniteSet(Part({k})) /\ \A x \in Part({k}) : f[x] \in Int
      BY <1>0
    <3> HIDE DEF Part
    <3> QED BY <3>1, SumOverSet
  <2> QED BY <2>1, <2>2
<1>2. {} \in G
  <2>1. Part({}) = {}
    OBVIOUS
  <2>2. SumFunctionOnSet(f, {}) = 0
    BY SumOverSet
  <2>3. SumFunctionOnSet(h, {}) = 0
    <3> HIDE DEF Part
    <3> QED BY <1>1, SumOverSet
  <2> QED BY <2>1, <2>2, <2>3
<1>3. ASSUME NEW L \in SUBSET K, NEW k \in K, L \in G, k \notin L
      PROVE  L \cup {k} \in G
  <2>1. Part(L \cup {k}) = Part(L) \cup Part({k}) /\ Part(L) \cap Part({k}) = {}
    BY <1>3
  <2>2. IsFiniteSet(L) /\ IsFiniteSet(Part(L)) /\ IsFiniteSet(Part({k}))
    BY <1>0
  <2>3. \A x \in Part(L) \cup Part({k}) : f[x] \in Int
    OBVIOUS
  <2>4. SumFunctionOnSet(h, L) = SumFunctionOnSet(f, Part(L))
    BY <1>3
  <2> HIDE DEF Part
  <2>5. SumFunctionOnSet(f, Part(L) \cup Part({k}))
          = SumFunctionOnSet(f, Part(L)) + SumFunctionOnSet(f, Part({k}))
    <3> DEFINE A == Part(L)
               B == Part({k})
    <3>1. IsFiniteSet(A) /\ IsFiniteSet(B) /\ A \cap B = {} /\ \A x \in A \cup B : f[x] \in Int
      BY <2>1, <2>2, <2>3
    <3> HIDE DEF A, B
    <3>2. SumFunctionOnSet(f, A \cup B) = SumFunctionOnSet(f, A) + SumFunctionOnSet(f, B)
      BY <3>1, SumUnion
    <3> QED BY <3>2 DEF A, B
  <2>6. SumFunctionOnSet(h, L \cup {k}) = SumFunctionOnSet(h, L) + h[k]
    <3>1. \A y \in L \cup {k} : h[y] \in Int
      BY <1>1
    <3> QED BY <1>3, <2>2, <3>1, SumAdd
  <2>7. Same(L \cup {k})
    BY <1>1, <2>1, <2>4, <2>5, <2>6
  <2> HIDE DEF Same
  <2> QED BY <2>7
<1>4. SUBSET K \subseteq G
  <2> HIDE DEF G
  <2> QED BY <1>2, <1>3, FiniteSetInduction
<1>5. Part(K) = S
  OBVIOUS
<1>6. Same(K)
  <2> HIDE DEF Same
  <2> QED BY <1>4
<1> QED BY <1>5, <1>6

(* A common factor of the values is one of their sum. *)
THEOREM SumScaled ==
  ASSUME NEW S, IsFiniteSet(S), NEW f, \A x \in S : f[x] \in Int, NEW c \in Int,
         NEW h, \A x \in S : h[x] = c * f[x]
  PROVE  SumFunctionOnSet(h, S) = c * SumFunctionOnSet(f, S)
<1> DEFINE G == {T \in SUBSET S : SumFunctionOnSet(h, T) = c * SumFunctionOnSet(f, T)}
<1>1. {} \in G
  <2>1. SumFunctionOnSet(f, {}) = 0 /\ SumFunctionOnSet(h, {}) = 0
    BY FS_EmptySet, SumOverSet
  <2> QED BY <2>1
<1>2. ASSUME NEW T \in SUBSET S, NEW x \in S, T \in G, x \notin T
      PROVE  T \cup {x} \in G
  <2>1. IsFiniteSet(T) /\ \A y \in T \cup {x} : f[y] \in Int /\ h[y] \in Int
    BY FS_Subset
  <2>2. /\ SumFunctionOnSet(f, T \cup {x}) = SumFunctionOnSet(f, T) + f[x]
        /\ SumFunctionOnSet(h, T \cup {x}) = SumFunctionOnSet(h, T) + h[x]
    BY <1>2, <2>1, SumAdd
  <2>3. SumFunctionOnSet(f, T) \in Int
    BY <2>1, SumOverSet
  <2>4. \A m, n \in Int : c * (m + n) = c * m + c * n
    OBVIOUS
  <2>5. SumFunctionOnSet(h, T \cup {x}) = c * (SumFunctionOnSet(f, T) + f[x])
    BY <1>2, <2>2, <2>3, <2>4
  <2> QED BY <2>2, <2>5
<1>3. SUBSET S \subseteq G
  <2> HIDE DEF G
  <2> QED BY <1>1, <1>2, FiniteSetInduction
<1> QED BY <1>3

(* A sum may be taken over other names of its elements. *)
THEOREM SumReindex ==
  ASSUME NEW S, IsFiniteSet(S), NEW b, \A x, y \in S : b[x] = b[y] => x = y,
         NEW T, IsFiniteSet(T), T = {b[x] : x \in S},
         NEW f, \A t \in T : f[t] \in Int,
         NEW h, \A x \in S : h[x] = f[b[x]]
  PROVE  SumFunctionOnSet(h, S) = SumFunctionOnSet(f, T)
<1>1. \A x \in S : h[x] \in Int /\ b[x] \in T
  OBVIOUS
<1>2. ASSUME NEW t \in T
      PROVE  f[t] = SumFunctionOnSet(h, {x \in S : b[x] = t})
  <2>1. PICK x \in S : t = b[x]
    OBVIOUS
  <2>2. {y \in S : b[y] = t} = {} \cup {x}
    BY <2>1
  <2>3. SumFunctionOnSet(h, {}) = 0
    BY <1>1, SumOverSet
  <2>4. SumFunctionOnSet(h, {} \cup {x}) = SumFunctionOnSet(h, {}) + h[x]
    BY <1>1, SumAdd, FS_EmptySet
  <2>5. SumFunctionOnSet(h, {y \in S : b[y] = t}) = 0 + h[x]
    BY <2>2, <2>3, <2>4
  <2> QED BY <1>1, <2>1, <2>5
<1> QED BY <1>1, <1>2, SumPartition
=============================================================================
