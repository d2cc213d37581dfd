------------------------------ MODULE SetLemmas ------------------------------
(* The least and the greatest of a set of natural numbers, how many of its    *)
(* elements can have few below them, and that what is ordered can be sorted.  *)
EXTENDS Naturals, FiniteSets, FiniteSetsExt, FiniteSetTheorems, WellFoundedInduction, TLAPS

\* A set of natural numbers that is not empty has a least element.
LEMMA LeastExists ==
  ASSUME NEW S \in SUBSET Nat, S # {}
  PROVE  \E x \in S : \A y \in S : x <= y
<1>1. \E x \in S : \A y \in S : <<y, x>> \notin OpToRel(<, Nat)
  BY NatLessThanWellFounded, WFMin, Zenon
<1>2. PICK x \in S : \A y \in S : <<y, x>> \notin OpToRel(<, Nat)
  BY <1>1
<1>3. ASSUME NEW y \in S PROVE ~(y < x)
  BY <1>2 DEF OpToRel
<1> QED BY <1>3

\* A finite one has a greatest element: the one with the fewest elements above it.
LEMMA GreatestExists ==
  ASSUME NEW S \in SUBSET Nat, S # {}, IsFiniteSet(S)
  PROVE  \E x \in S : \A y \in S : x >= y
<1> DEFINE Above(x) == {y \in S : y > x}
           Counts == {Cardinality(Above(x)) : x \in S}
<1>1. \A x \in S : IsFiniteSet(Above(x)) /\ Cardinality(Above(x)) \in Nat
  BY FS_Subset, FS_CardinalityType
<1>2. Counts \in SUBSET Nat /\ Counts # {}
  BY <1>1
<1>3. PICK n \in Counts : \A m \in Counts : n <= m
  BY <1>2, LeastExists
<1>4. PICK x \in S : n = Cardinality(Above(x))
  BY <1>3
<1>5. ASSUME NEW y \in S, ~(x >= y) PROVE FALSE
  <2> x \in Nat /\ y \in Nat /\ S \subseteq Nat
    OBVIOUS
  <2>0. y > x /\ ~(y > y)
    BY <1>5
  <2>1. Above(y) \in SUBSET Above(x) /\ y \in Above(x) /\ y \notin Above(y)
    <3>1. ASSUME NEW z \in Above(y) PROVE z \in Above(x)
      <4> z \in Nat /\ z > y
        OBVIOUS
      <4> QED BY <2>0
    <3>2. y \in Above(x) /\ y \notin Above(y)
      BY <2>0
    <3> HIDE DEF Above
    <3> QED BY <3>1, <3>2
  <2>2. Cardinality(Above(y)) <= Cardinality(Above(x)) /\ Cardinality(Above(y)) # Cardinality(Above(x))
    <3> HIDE DEF Above
    <3> QED BY <1>1, <2>1, FS_Subset
  <2>3. Cardinality(Above(x)) <= Cardinality(Above(y))
    BY <1>3, <1>4
  <2> QED
    <3> HIDE DEF Above
    <3> QED BY <1>1, <2>2, <2>3
<1> QED BY <1>5

\* Min and Max are what their names say.
LEMMA MinIsLeast ==
  ASSUME NEW S \in SUBSET Nat, S # {}
  PROVE  Min(S) \in S /\ \A y \in S : Min(S) <= y
BY LeastExists DEF Min

LEMMA MaxIsGreatest ==
  ASSUME NEW S \in SUBSET Nat, S # {}, IsFiniteSet(S)
  PROVE  Max(S) \in S /\ \A y \in S : Max(S) >= y
BY GreatestExists DEF Max

\* Of the elements with fewer than n smaller ones there are at most n.
LEMMA FewBelow ==
  ASSUME NEW S \in SUBSET Nat, IsFiniteSet(S), NEW n \in Nat
  PROVE  LET T == {d \in S : Cardinality({e \in S : e < d}) < n}
         IN  IsFiniteSet(T) /\ Cardinality(T) <= n
<1> DEFINE Below(d) == {e \in S : e < d}
           T == {d \in S : Cardinality(Below(d)) < n}
<1> SUFFICES IsFiniteSet(T) /\ Cardinality(T) <= n
  OBVIOUS
<1>1. IsFiniteSet(T)
  BY FS_Subset
<1>2. CASE T = {}
  <2> HIDE DEF T
  <2> QED BY <1>1, <1>2, FS_EmptySet
<1>3. CASE T # {}
  <2>1. PICK x \in T : \A y \in T : x >= y
    BY <1>1, <1>3, GreatestExists
  <2>2. IsFiniteSet(Below(x)) /\ Cardinality(Below(x)) \in Nat
    BY FS_Subset, FS_CardinalityType
  <2>3. Cardinality(Below(x)) < n /\ x \in Nat
    OBVIOUS
  <2>4. T \in SUBSET (Below(x) \cup {x})
    <3> SUFFICES ASSUME NEW y \in T PROVE y < x \/ y = x
      OBVIOUS
    <3> y \in Nat /\ x \in Nat
      OBVIOUS
    <3> QED BY <2>1
  <2>5. x \notin Below(x)
    OBVIOUS
  <2>6. IsFiniteSet(Below(x) \cup {x}) /\ Cardinality(Below(x) \cup {x}) = Cardinality(Below(x)) + 1
    <3> HIDE DEF Below
    <3> QED BY <2>2, <2>5, FS_AddElement
  <2>7. Cardinality(T) <= Cardinality(Below(x) \cup {x}) /\ Cardinality(T) \in Nat
    <3> HIDE DEF Below, T
    <3> QED BY <1>1, <2>4, <2>6, FS_Subset, FS_CardinalityType
  <2> QED
    <3> HIDE DEF Below, T
    <3> QED BY <1>1, <2>2, <2>3, <2>6, <2>7
<1> QED BY <1>2, <1>3, <1>1

\* What is ordered can be sorted: as many come before an element as its place says.
LEMMA SortingExists ==
  ASSUME NEW n \in Nat, NEW R \in SUBSET ((1..n) \X (1..n)),
         \A x \in 1..n : <<x, x>> \notin R,
         \A x, y \in 1..n : x # y => <<x, y>> \in R \/ <<y, x>> \in R,
         \A x, y, z \in 1..n : <<x, y>> \in R /\ <<y, z>> \in R => <<x, z>> \in R
  PROVE  \E p \in Bijection(1..n, 1..n) : \A i, k \in 1..n : i < k => <<p[i], p[k]>> \in R
<1> DEFINE S == 1..n
           Less(x) == {y \in S : <<y, x>> \in R}
           rank == [x \in S |-> Cardinality(Less(x)) + 1]
           p == [i \in S |-> CHOOSE x \in S : rank[x] = i]
<1>1. IsFiniteSet(S) /\ Cardinality(S) = n
  BY FS_Interval
<1>2. \A x \in S : IsFiniteSet(Less(x)) /\ Cardinality(Less(x)) \in Nat
  <2> TAKE x \in S
  <2>1. Less(x) \in SUBSET S
    OBVIOUS
  <2> HIDE DEF Less, S
  <2>2. IsFiniteSet(Less(x))
    BY <1>1, <2>1, FS_Subset
  <2> QED BY <2>2, FS_CardinalityType
<1>3. \A x, y \in S : <<x, y>> \in R => rank[x] < rank[y]
  <2> SUFFICES ASSUME NEW x \in S, NEW y \in S, <<x, y>> \in R PROVE rank[x] < rank[y]
    OBVIOUS
  <2>1. x \notin Less(x) /\ Less(x) \cup {x} \in SUBSET Less(y)
    OBVIOUS
  <2>2. rank[x] = Cardinality(Less(x)) + 1 /\ rank[y] = Cardinality(Less(y)) + 1
    OBVIOUS
  <2> HIDE DEF Less, S, rank
  <2>3. Cardinality(Less(x) \cup {x}) = Cardinality(Less(x)) + 1
    BY <1>2, <2>1, FS_AddElement
  <2>4. Cardinality(Less(x) \cup {x}) <= Cardinality(Less(y))
    BY <1>2, <2>1, FS_Subset
  <2> QED BY <1>2, <2>2, <2>3, <2>4
<1>4. \A x \in S : rank[x] \in S
  <2> TAKE x \in S
  <2>1. x \notin Less(x) /\ Less(x) \cup {x} \in SUBSET S /\ rank[x] = Cardinality(Less(x)) + 1
    OBVIOUS
  <2> HIDE DEF Less, S, rank
  <2>2. Cardinality(Less(x) \cup {x}) = Cardinality(Less(x)) + 1
    BY <1>2, <2>1, FS_AddElement
  <2>3. Cardinality(Less(x) \cup {x}) <= n
    BY <1>1, <2>1, FS_Subset
  <2> QED BY <1>2, <2>1, <2>2, <2>3 DEF S
<1>5. rank \in Injection(S, S)
  <2>1. rank \in [S -> S]
    BY <1>4
  <2>2. \A x, y \in S : rank[x] \in Int
    BY <1>4
  <2>3. \A x, y \in S : rank[x] = rank[y] => x = y
    <3> SUFFICES ASSUME NEW x \in S, NEW y \in S, rank[x] = rank[y], x # y PROVE FALSE
      OBVIOUS
    <3>1. <<x, y>> \in R \/ <<y, x>> \in R
      OBVIOUS
    <3> HIDE DEF rank, S
    <3>2. rank[x] < rank[y] \/ rank[y] < rank[x]
      BY <1>3, <3>1
    <3> QED BY <2>2, <3>2
  <2>4. DOMAIN rank = S
    OBVIOUS
  <2> HIDE DEF rank, S
  <2> QED BY <2>1, <2>3, <2>4 DEF Injection, IsInjective
<1>6. rank \in Surjection(S, S)
  <2> HIDE DEF rank, S
  <2> QED BY <1>1, <1>5, FS_Injection
<1>7. \A i \in S : \E x \in S : rank[x] = i
  <2> HIDE DEF rank, S
  <2> QED BY <1>6 DEF Surjection
<1>8. \A i \in S : p[i] \in S /\ rank[p[i]] = i
  <2> HIDE DEF rank, S
  <2> QED BY <1>7
<1>9. \A x, y \in S : rank[x] = rank[y] => x = y
  <2>1. DOMAIN rank = S
    OBVIOUS
  <2> HIDE DEF rank, S
  <2> QED BY <1>5, <2>1 DEF Injection, IsInjective
<1>10. p \in [S -> S] /\ DOMAIN p = S
  BY <1>8
<1> HIDE DEF p, rank
<1>11. p \in Bijection(S, S)
  <2> HIDE DEF S
  <2>1. \A x, y \in S : p[x] = p[y] => x = y
    BY <1>8
  <2>2. \A x \in S : p[rank[x]] = x /\ rank[x] \in S
    BY <1>4, <1>8, <1>9
  <2> QED BY <1>10, <2>1, <2>2 DEF Bijection, Injection, IsInjective, Surjection
<1>12. \A i, k \in S : i < k => <<p[i], p[k]>> \in R
  <2> SUFFICES ASSUME NEW i \in S, NEW k \in S, i < k, <<p[i], p[k]>> \notin R PROVE FALSE
    OBVIOUS
  <2>1. p[i] # p[k]
    BY <1>8
  <2>2. <<p[k], p[i]>> \in R
    BY <1>8, <2>1
  <2>3. rank[p[k]] < rank[p[i]]
    BY <1>3, <1>8, <2>2
  <2> QED BY <1>8, <2>3
<1> QED BY <1>11, <1>12

=============================================================================
