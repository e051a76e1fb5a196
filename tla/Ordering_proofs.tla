-------------------------- MODULE Ordering_proofs ---------------------------
(***************************************************************************)
(* Lemmas about Arranged: a finite set is enumerated completely, once and  *)
(* in order.  Each member has a rank, the number of those before it; ranks *)
(* grow along the order, so that as many members as places have different  *)
(* ranks and every place is taken.                                         *)
(***************************************************************************)
EXTENDS Ordering, Sequences, FiniteSetTheorems, TLAPS

\* B is a strict total order of S.
Orders(B, S) ==
  /\ \A a \in S : <<a, a>> \notin B
  /\ \A a, b, c \in S : <<a, b>> \in B /\ <<b, c>> \in B => <<a, c>> \in B
  /\ \A a, b \in S : a = b \/ <<a, b>> \in B \/ <<b, a>> \in B

Ahead(S, B, a) == {j \in S : <<j, a>> \in B}

\* The ranks grow along the order, and are places.
LEMMA RanksGrow ==
  ASSUME NEW S, IsFiniteSet(S), NEW B, Orders(B, S)
  PROVE  /\ Cardinality(S) \in Nat
         /\ \A a \in S : /\ Cardinality(Ahead(S, B, a)) \in Nat
                         /\ Cardinality(Ahead(S, B, a)) < Cardinality(S)
         /\ \A a, b \in S : <<a, b>> \in B =>
              Cardinality(Ahead(S, B, a)) < Cardinality(Ahead(S, B, b))
  <1>1. Cardinality(S) \in Nat
    BY FS_CardinalityType
  <1>2. ASSUME NEW T, IsFiniteSet(T), NEW R \in SUBSET T, NEW x \in T, x \notin R
        PROVE  Cardinality(R) \in Nat /\ Cardinality(R) < Cardinality(T)
    <2>1. R \in SUBSET (T \ {x})
      BY <1>2
    <2>2. /\ IsFiniteSet(T \ {x}) /\ Cardinality(T \ {x}) = Cardinality(T) - 1
          /\ Cardinality(T) \in Nat
      BY <1>2, FS_RemoveElement, FS_CardinalityType
    <2>3. Cardinality(R) \in Nat /\ Cardinality(R) <= Cardinality(T \ {x})
      BY <2>1, <2>2, FS_Subset, FS_CardinalityType
    <2> QED
      BY <2>2, <2>3
  <1>3. ASSUME NEW a \in S
        PROVE  /\ Cardinality(Ahead(S, B, a)) \in Nat
               /\ Cardinality(Ahead(S, B, a)) < Cardinality(S)
    <2>1. Ahead(S, B, a) \in SUBSET S /\ a \notin Ahead(S, B, a)
      BY DEF Ahead, Orders
    <2> QED
      BY <1>2, <2>1
  <1>4. ASSUME NEW a \in S, NEW b \in S, <<a, b>> \in B
        PROVE  Cardinality(Ahead(S, B, a)) < Cardinality(Ahead(S, B, b))
    <2>1. /\ Ahead(S, B, a) \in SUBSET Ahead(S, B, b)
          /\ a \in Ahead(S, B, b) /\ a \notin Ahead(S, B, a)
      BY <1>4 DEF Ahead, Orders
    <2>2. IsFiniteSet(Ahead(S, B, b))
      BY FS_Subset DEF Ahead
    <2> QED
      BY <1>2, <2>1, <2>2
  <1> QED
    BY <1>1, <1>3, <1>4

\* Every place is the rank of one member.
LEMMA RanksAreTaken ==
  ASSUME NEW S, IsFiniteSet(S), NEW B, Orders(B, S)
  PROVE  \A k \in 1..Cardinality(S) : \E a \in S :
           /\ Cardinality(Ahead(S, B, a)) = k - 1
           /\ \A b \in S : Cardinality(Ahead(S, B, b)) = k - 1 => b = a
  <1> DEFINE n == Cardinality(S)
             r == [a \in S |-> Cardinality(Ahead(S, B, a)) + 1]
  <1>1. n \in Nat /\ IsFiniteSet(1..n) /\ Cardinality(1..n) = n
    BY RanksGrow, FS_Interval
  <1>2. r \in [S -> 1..n]
    BY RanksGrow
  <1>3. ASSUME NEW a \in S, NEW b \in S, r[a] = r[b]
        PROVE  a = b
    <2>1. Cardinality(Ahead(S, B, a)) = Cardinality(Ahead(S, B, b))
      BY <1>3, RanksGrow
    <2>2. <<a, b>> \notin B /\ <<b, a>> \notin B
      BY <2>1, RanksGrow
    <2> QED
      BY <2>2 DEF Orders
  <1>4. r \in Injection(S, 1..n)
    <2> HIDE DEF r, n
    <2> QED
      BY <1>2, <1>3 DEF Injection, IsInjective
  <1>5. r \in Surjection(S, 1..n)
    <2> HIDE DEF r, n
    <2>1. Cardinality(S) = Cardinality(1..n)
      BY <1>1 DEF n
    <2> QED
      BY <1>1, <1>4, <2>1, FS_Injection
  <1>6. ASSUME NEW k \in 1..n
        PROVE  \E a \in S : /\ Cardinality(Ahead(S, B, a)) = k - 1
                            /\ \A b \in S : Cardinality(Ahead(S, B, b)) = k - 1 => b = a
    <2>1. PICK a \in S : r[a] = k
      BY <1>5 DEF Surjection
    <2>2. Cardinality(Ahead(S, B, a)) = k - 1
      BY <2>1, RanksGrow
    <2>3. ASSUME NEW b \in S, Cardinality(Ahead(S, B, b)) = k - 1 PROVE b = a
      BY <1>3, <2>2, <2>3
    <2> QED
      BY <2>2, <2>3
  <1> QED
    BY <1>6

\* A sort by a strict total order (the ranking of correlate, the merge of its
\* timeline) lists every member of its set, once, and in this order.
THEOREM ArrangedInOrder ==
  ASSUME NEW S, IsFiniteSet(S), NEW B, Orders(B, S)
  PROVE  /\ Cardinality(S) \in Nat
         /\ Arranged(S, B) \in Seq(S) /\ Len(Arranged(S, B)) = Cardinality(S)
         /\ DOMAIN Arranged(S, B) = 1..Cardinality(S)
         /\ \A a \in S : \E k \in 1..Cardinality(S) : Arranged(S, B)[k] = a
         /\ \A k, l \in 1..Cardinality(S) :
              /\ k < l => <<Arranged(S, B)[k], Arranged(S, B)[l]>> \in B
              /\ k # l => Arranged(S, B)[k] # Arranged(S, B)[l]
  <1> DEFINE n == Cardinality(S)
             f == Arranged(S, B)
             R(a) == Cardinality(Ahead(S, B, a))
  <1>1. n \in Nat
    BY RanksGrow
  <1>2. f = [k \in 1..n |-> CHOOSE i \in S : R(i) = k - 1]
    BY DEF Arranged, Ahead
  <1>3. ASSUME NEW k \in 1..n PROVE f[k] \in S /\ R(f[k]) = k - 1
    <2>1. \E i \in S : R(i) = k - 1
      BY RanksAreTaken
    <2>2. f[k] = CHOOSE i \in S : R(i) = k - 1
      BY <1>2
    <2> HIDE DEF f, R
    <2> QED
      BY <2>1, <2>2
  <1>4. f \in [1..n -> S]
    BY <1>2, <1>3
  <1>5. f \in Seq(S) /\ Len(f) = n /\ DOMAIN f = 1..n
    <2> HIDE DEF f, n
    <2> QED
      BY <1>1, <1>4
  <1>6. ASSUME NEW a \in S PROVE \E k \in 1..n : f[k] = a
    <2>1. R(a) \in Nat /\ R(a) < n
      BY RanksGrow
    <2>2. R(a) + 1 \in 1..n
      BY <1>1, <2>1
    <2> DEFINE k == R(a) + 1
    <2>3. k \in 1..n /\ R(a) = k - 1
      BY <2>1, <2>2
    <2> HIDE DEF k
    <2>4. f[k] \in S /\ R(f[k]) = k - 1
      BY <1>3, <2>3
    <2>5. f[k] = a
      <3> HIDE DEF f
      <3> QED
        BY <2>3, <2>4, RanksAreTaken
    <2> QED
      BY <2>3, <2>5
  <1>7. ASSUME NEW k \in 1..n, NEW l \in 1..n, k < l
        PROVE  <<f[k], f[l]>> \in B /\ f[k] # f[l]
    <2> DEFINE x == f[k]
               y == f[l]
    <2>1. /\ x \in S /\ Cardinality(Ahead(S, B, x)) = k - 1
          /\ y \in S /\ Cardinality(Ahead(S, B, y)) = l - 1
      BY <1>3
    <2> HIDE DEF x, y
    <2>2. x # y
      BY <1>7, <2>1
    <2>3. <<y, x>> \notin B
      BY <1>7, <2>1, RanksGrow
    <2>4. <<x, y>> \in B
      BY <2>1, <2>2, <2>3 DEF Orders
    <2> QED
      BY <2>2, <2>4 DEF x, y
  <1>8. ASSUME NEW k \in 1..n, NEW l \in 1..n, k # l
        PROVE  f[k] # f[l]
    <2>1. k \in Nat /\ l \in Nat
      BY <1>1
    <2>2. k < l \/ l < k
      BY <1>8, <2>1
    <2> HIDE DEF f, n
    <2> QED
      BY <1>7, <2>2
  <1> HIDE DEF f, n
  <1>9. /\ n \in Nat /\ f \in Seq(S) /\ Len(f) = n /\ DOMAIN f = 1..n
        /\ \A a \in S : \E k \in 1..n : f[k] = a
        /\ \A k, l \in 1..n : (k < l => <<f[k], f[l]>> \in B) /\ (k # l => f[k] # f[l])
    BY <1>1, <1>5, <1>6, <1>7, <1>8
  <1> QED
    BY <1>9 DEF f, n

\* A finite set that is not empty has a first member.
LEMMA SomeIsFirst ==
  ASSUME NEW S, IsFiniteSet(S), S # {}, NEW B, Orders(B, S)
  PROVE  \E a \in S : \A b \in S : b = a \/ <<a, b>> \in B
  <1> DEFINE n == Cardinality(S)
             f == Arranged(S, B)
  <1>1. /\ n \in Nat /\ f \in Seq(S) /\ Len(f) = n
        /\ \A a \in S : \E k \in 1..n : f[k] = a
        /\ \A k, l \in 1..n : k < l => <<f[k], f[l]>> \in B
    BY ArrangedInOrder
  <1> HIDE DEF n, f
  <1>2. 1 \in 1..n
    BY <1>1
  <1>3. f[1] \in S
    BY <1>1, <1>2
  <1>4. ASSUME NEW b \in S PROVE b = f[1] \/ <<f[1], b>> \in B
    <2>1. PICK k \in 1..n : f[k] = b
      BY <1>1
    <2> QED
      BY <1>1, <1>2, <2>1
  <1> QED
    BY <1>3, <1>4
=============================================================================
