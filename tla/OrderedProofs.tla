---------------------------- MODULE OrderedProofs ----------------------------
(***************************************************************************)
(* What the first rows of an order are: the facts behind ORDER BY and      *)
(* LIMIT that the proofs about alerts, pages and publications use.         *)
(***************************************************************************)
EXTENDS Ordered, FiniteSetTheorems, TLAPS

\* R is a strict order of all members of S.
Orders(R, S) ==
    /\ \A i \in S : <<i, i>> \notin R
    /\ \A i, j \in S : i # j => <<i, j>> \in R \/ <<j, i>> \in R
    /\ \A i, j, k \in S : <<i, j>> \in R /\ <<j, k>> \in R => <<i, k>> \in R

Ahead(R, S, i) == {j \in S : <<j, i>> \in R}
FirstIn(R, S, n) == {i \in S : Cardinality(Ahead(R, S, i)) < n}

\* In a finite ordered set every member has its own rank, below the size of the
\* set, and a member before another one has the smaller rank.
LEMMA Ranks ==
    ASSUME NEW S, IsFiniteSet(S), NEW R, Orders(R, S)
    PROVE  /\ \A i \in S : /\ Ahead(R, S, i) \subseteq S \ {i}
                           /\ IsFiniteSet(Ahead(R, S, i))
                           /\ Cardinality(Ahead(R, S, i)) \in 0..Cardinality(S) - 1
           /\ \A i, j \in S : <<i, j>> \in R => Cardinality(Ahead(R, S, i)) < Cardinality(Ahead(R, S, j))
<1>1. ASSUME NEW i \in S
      PROVE  /\ Ahead(R, S, i) \subseteq S \ {i} /\ IsFiniteSet(Ahead(R, S, i))
             /\ Cardinality(Ahead(R, S, i)) \in 0..Cardinality(S) - 1
  <2>1. Ahead(R, S, i) \in SUBSET (S \ {i})
    BY Zenon DEF Ahead, Orders
  <2>2. /\ IsFiniteSet(S \ {i}) /\ Cardinality(S \ {i}) = Cardinality(S) - 1
        /\ Cardinality(S) \in Nat
    BY FS_RemoveElement, FS_CardinalityType, Zenon
  <2>3. /\ IsFiniteSet(Ahead(R, S, i)) /\ Cardinality(Ahead(R, S, i)) <= Cardinality(S \ {i})
        /\ Cardinality(Ahead(R, S, i)) \in Nat
    BY <2>1, <2>2, FS_Subset, FS_CardinalityType, Zenon
  <2> QED
    BY <2>1, <2>2, <2>3
<1>2. ASSUME NEW i \in S, NEW j \in S, <<i, j>> \in R
      PROVE  Cardinality(Ahead(R, S, i)) < Cardinality(Ahead(R, S, j))
  <2>1. Ahead(R, S, i) \cup {i} \in SUBSET Ahead(R, S, j)
    BY <1>2, Zenon DEF Ahead, Orders
  <2>2. i \notin Ahead(R, S, i)
    BY <1>1, Zenon
  <2>3. Cardinality(Ahead(R, S, i) \cup {i}) = Cardinality(Ahead(R, S, i)) + 1
    BY <1>1, <2>2, FS_AddElement, Zenon
  <2>4. Cardinality(Ahead(R, S, i) \cup {i}) <= Cardinality(Ahead(R, S, j))
    BY <1>1, <2>1, FS_Subset, Zenon
  <2> QED
    BY <1>1, <2>3, <2>4
<1> QED
  BY <1>1, <1>2, Zenon

\* The first n rows are before the others, and they are n unless there are fewer.
LEMMA FirstFacts ==
    ASSUME NEW S, IsFiniteSet(S), NEW R, Orders(R, S), NEW n \in Nat
    PROVE  /\ \A i \in FirstIn(R, S, n), j \in S : <<j, i>> \in R => j \in FirstIn(R, S, n)
           /\ \A i \in FirstIn(R, S, n), j \in S \ FirstIn(R, S, n) : <<i, j>> \in R
           /\ Cardinality(S) <= n => FirstIn(R, S, n) = S
           /\ Cardinality(FirstIn(R, S, n)) = IF Cardinality(S) <= n THEN Cardinality(S) ELSE n
<1> DEFINE rank(i) == Cardinality(Ahead(R, S, i))
<1>1. /\ \A i \in S : rank(i) \in 0..Cardinality(S) - 1
      /\ \A i, j \in S : <<i, j>> \in R => rank(i) < rank(j)
  BY Ranks, Zenon
<1>2. Cardinality(S) \in Nat
  BY FS_CardinalityType, Zenon
<1>3. FirstIn(R, S, n) = {i \in S : rank(i) < n}
  BY Zenon DEF FirstIn
<1>4. \A i, j \in S : i # j => <<i, j>> \in R \/ <<j, i>> \in R
  BY Zenon DEF Orders
<1> HIDE DEF rank
<1>5. \A i \in FirstIn(R, S, n), j \in S : <<j, i>> \in R => j \in FirstIn(R, S, n)
  BY <1>1, <1>2, <1>3
<1>6. \A i \in FirstIn(R, S, n), j \in S \ FirstIn(R, S, n) : <<i, j>> \in R
  BY <1>3, <1>4, <1>5, Zenon
<1>7. Cardinality(S) <= n => FirstIn(R, S, n) = S
  BY <1>1, <1>2, <1>3
<1>8. ASSUME ~(Cardinality(S) <= n)
      PROVE  Cardinality(FirstIn(R, S, n)) = n
  <2> DEFINE all == [i \in S |-> rank(i)]
             few == [i \in FirstIn(R, S, n) |-> rank(i)]
             N == Cardinality(S)
  <2>1. \A i, j \in S : rank(i) = rank(j) => i = j
    <3>1. \A i, j \in S : rank(i) \in Int /\ (rank(i) < rank(j) => rank(i) # rank(j) /\ rank(j) # rank(i))
      BY <1>1, <1>2
    <3> QED
      BY <1>1, <1>4, <3>1, Zenon
  <2>2. all \in Injection(S, 0..N - 1)
    BY <1>1, <2>1, Zenon DEF Injection, IsInjective
  <2>3. IsFiniteSet(0..N - 1) /\ Cardinality(0..N - 1) = N
    BY <1>2, FS_Interval
  <2>4. all \in Surjection(S, 0..N - 1)
    BY <2>2, <2>3, FS_Injection, Zenon
  <2>5. \A k \in 0..N - 1 : \E i \in S : rank(i) = k
    BY <2>4, Zenon DEF Surjection
  <2>6. FirstIn(R, S, n) \subseteq S
    BY Zenon DEF FirstIn
  <2>7. few \in Injection(FirstIn(R, S, n), 0..n - 1)
    BY <1>1, <1>2, <1>3, <2>1, <2>6 DEF Injection, IsInjective
  <2>8. \A k \in 0..n - 1 : \E i \in FirstIn(R, S, n) : few[i] = k
    <3> SUFFICES ASSUME NEW k \in 0..n - 1
                 PROVE  \E i \in FirstIn(R, S, n) : few[i] = k
      BY Zenon
    <3>1. k \in 0..N - 1 /\ k < n
      BY <1>2, <1>8
    <3>2. PICK i \in S : rank(i) = k
      BY <2>5, <3>1, Zenon
    <3>3. i \in FirstIn(R, S, n)
      BY <1>3, <3>1, <3>2, Zenon
    <3> QED
      BY <3>2, <3>3, Zenon
  <2>9. few \in Surjection(FirstIn(R, S, n), 0..n - 1)
    BY <2>7, <2>8, Zenon DEF Injection, Surjection
  <2>10. IsFiniteSet(0..n - 1) /\ Cardinality(0..n - 1) = n
    BY FS_Interval
  <2> QED
    BY <2>7, <2>9, <2>10, FS_Injection, Zenon
<1> QED
  BY <1>5, <1>6, <1>7, <1>8, Zenon

\* The first rows of the first rows.
LEMMA FirstOfFirst ==
    ASSUME NEW S, IsFiniteSet(S), NEW R, Orders(R, S), NEW m \in Nat, NEW n \in Nat, n <= m
    PROVE  FirstIn(R, FirstIn(R, S, m), n) = FirstIn(R, S, n)
<1>1. \A i \in FirstIn(R, S, m) : Ahead(R, FirstIn(R, S, m), i) = Ahead(R, S, i)
  <2>1. FirstIn(R, S, m) \subseteq S
    BY Zenon DEF FirstIn
  <2> QED
    BY <2>1, FirstFacts, Zenon DEF Ahead
<1>2. FirstIn(R, S, n) \subseteq FirstIn(R, S, m)
  <2>1. \A i \in S : Cardinality(Ahead(R, S, i)) \in Nat
    BY Ranks, FS_CardinalityType, Zenon
  <2> QED
    BY <2>1 DEF FirstIn
<1>3. FirstIn(R, FirstIn(R, S, m), n) = {i \in FirstIn(R, S, m) : Cardinality(Ahead(R, S, i)) < n}
  BY <1>1, Zenon DEF FirstIn
<1> QED
  BY <1>2, <1>3, Zenon DEF FirstIn

\* A finite ordered set has a last member.
LEMMA LastExists ==
    ASSUME NEW S, IsFiniteSet(S), NEW R, Orders(R, S), S # {}
    PROVE  \E i \in S : \A j \in S \ {i} : <<j, i>> \in R
<1> DEFINE N == Cardinality(S)
<1>1. N \in Nat /\ N # 0
  BY FS_CardinalityType, FS_EmptySet, Zenon
<1>2. FirstIn(R, S, N - 1) # S
  BY <1>1, FirstFacts, FS_CardinalityType
<1>3. PICK i \in S : i \notin FirstIn(R, S, N - 1)
  BY <1>2, Zenon DEF FirstIn
<1>4. /\ IsFiniteSet(S \ {i}) /\ Cardinality(S \ {i}) = N - 1
      /\ Ahead(R, S, i) \in SUBSET (S \ {i}) /\ Cardinality(Ahead(R, S, i)) \in 0..N - 1
  BY Ranks, FS_RemoveElement, Zenon
<1>5. ~(Cardinality(Ahead(R, S, i)) < N - 1)
  BY <1>3, Zenon DEF FirstIn
<1>6. Ahead(R, S, i) = S \ {i}
  <2>1. Cardinality(S \ {i}) = Cardinality(Ahead(R, S, i))
    BY <1>1, <1>4, <1>5
  <2> QED
    BY <1>4, <2>1, FS_Subset, Zenon
<1> QED
  BY <1>6, Zenon DEF Ahead
=============================================================================
