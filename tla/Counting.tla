------------------------------- MODULE Counting ------------------------------
(***************************************************************************)
(* Facts about finite sets of numbers that the proofs of several components *)
(* cite: a least and a greatest member, the size of an interval, and an    *)
(* enumeration in order.                                                   *)
(***************************************************************************)
EXTENDS FiniteSetTheorems, TLAPS

(* A set of numbers that is not empty has a least member.                   *)
LEMMA LeastNat ==
    ASSUME NEW S \in SUBSET Nat, S # {}
    PROVE  \E n \in S : \A m \in S : n <= m
<1> DEFINE Less == {q \in Nat \X Nat : q[1] < q[2]}
<1>1. IsWellFoundedOn(Less, Nat)
  BY NatLessThanWellFounded, Zenon DEF OpToRel
<1>2. ASSUME NEW m \in Nat, NEW n \in Nat, m < n PROVE <<m, n>> \in Less
  <2> DEFINE p == <<m, n>>
  <2>1. p \in Nat \X Nat /\ p[1] = m /\ p[2] = n
    OBVIOUS
  <2> HIDE DEF p
  <2>2. p \in Less
    <3>1. p[1] < p[2]
      BY <2>1, <1>2
    <3> QED BY <2>1, <3>1
  <2> QED BY <2>2 DEF p
<1> HIDE DEF Less
<1>3. PICK n \in S : \A m \in S : ~(<<m, n>> \in Less)
  BY <1>1, WFMin, Zenon
<1>4. ASSUME NEW m \in S PROVE n <= m
  <2>1. ~(m < n)
    BY <1>2, <1>3
  <2> QED BY <2>1
<1> QED BY <1>4

(* One that is bounded has a greatest.                                      *)
LEMMA GreatestNat ==
    ASSUME NEW S \in SUBSET Nat, S # {}, NEW b \in Nat, \A m \in S : m <= b
    PROVE  \E n \in S : \A m \in S : m <= n
<1> DEFINE D == {k \in Nat : \E m \in S : k = b - m}
<1>1. D \in SUBSET Nat /\ D # {}
  <2>1. PICK m \in S : TRUE
    OBVIOUS
  <2>2. b - m \in Nat
    OBVIOUS
  <2>3. b - m \in D
    BY <2>2
  <2> QED BY <2>3
<1>2. PICK d \in D : \A e \in D : d <= e
  <2> HIDE DEF D
  <2> QED BY <1>1, LeastNat
<1>3. PICK n \in S : d = b - n
  OBVIOUS
<1>4. ASSUME NEW m \in S PROVE m <= n
  <2>1. b - m \in D
    OBVIOUS
  <2>2. d <= b - m
    BY <1>2, <2>1
  <2> QED BY <1>3, <2>2
<1> QED BY <1>4

(* The members of 1..n up to i are i in number.                             *)
LEMMA CardUpto ==
    ASSUME NEW i \in Nat
    PROVE  IsFiniteSet(1..i) /\ Cardinality(1..i) = i
<1>1. IsFiniteSet(1..i) /\ Cardinality(1..i) = IF 1 > i THEN 0 ELSE i - 1 + 1
  BY FS_Interval, 1 \in Int
<1> QED BY <1>1

(* A finite set with a strict total order has an enumeration in that order:  *)
(* the place of a member is the number of members up to it.                 *)
LEMMA SortedEnumeration ==
    ASSUME NEW S, IsFiniteSet(S), NEW R,
           \A a \in S : <<a, a>> \notin R,
           \A a, b \in S : a # b => <<a, b>> \in R \/ <<b, a>> \in R,
           \A a, b, c \in S : <<a, b>> \in R /\ <<b, c>> \in R => <<a, c>> \in R
    PROVE  \E f \in [1..Cardinality(S) -> S] :
              \A i, j \in 1..Cardinality(S) : i < j => <<f[i], f[j]>> \in R
<1> DEFINE n == Cardinality(S)
           Upon(a) == {x \in S : x = a \/ <<x, a>> \in R}
           rank == [a \in S |-> Cardinality(Upon(a))]
<1>1. n \in Nat /\ IsFiniteSet(1..n) /\ Cardinality(1..n) = n
  BY FS_CardinalityType, CardUpto
<1>2. ASSUME NEW a \in S
      PROVE  /\ IsFiniteSet(Upon(a)) /\ Cardinality(Upon(a)) \in 1..n
  <2>1. Upon(a) \in SUBSET S /\ a \in Upon(a)
    OBVIOUS
  <2> HIDE DEF Upon
  <2>2. IsFiniteSet(Upon(a)) /\ Cardinality(Upon(a)) <= n
    BY <2>1, FS_Subset
  <2>3. Cardinality(Upon(a)) \in Nat /\ Cardinality(Upon(a)) # 0
    BY <2>1, <2>2, FS_CardinalityType, FS_EmptySet
  <2> QED BY <1>1, <2>2, <2>3
<1>3. ASSUME NEW a \in S, NEW b \in S, <<a, b>> \in R
      PROVE  Cardinality(Upon(a)) < Cardinality(Upon(b))
  <2>1. Upon(a) \in SUBSET Upon(b)
    BY <1>3
  <2>2. b \in Upon(b) /\ b \notin Upon(a)
    BY <1>3
  <2> HIDE DEF Upon, n
  <2>3. /\ IsFiniteSet(Upon(b)) /\ Cardinality(Upon(b)) \in Nat /\ Cardinality(Upon(a)) \in Nat
    <3>1. Cardinality(Upon(b)) \in 1..n /\ Cardinality(Upon(a)) \in 1..n
      BY <1>2
    <3> QED BY <1>1, <1>2, <3>1
  <2>4. Cardinality(Upon(a)) <= Cardinality(Upon(b)) /\ Cardinality(Upon(a)) # Cardinality(Upon(b))
    BY <2>1, <2>2, <2>3, FS_Subset
  <2> QED BY <2>3, <2>4
<1> HIDE DEF Upon, n
<1>4. rank \in [S -> 1..n]
  BY <1>2
<1>5. \A a \in S : rank[a] = Cardinality(Upon(a))
  OBVIOUS
<1>6. \A a, b \in S : <<a, b>> \in R => rank[a] < rank[b]
  BY <1>3, <1>5
<1> HIDE DEF rank
<1>7. \A a, b \in S : rank[a] = rank[b] => a = b
  <2> SUFFICES ASSUME NEW a \in S, NEW b \in S, rank[a] = rank[b], a # b PROVE FALSE
    OBVIOUS
  <2>1. rank[a] < rank[b] \/ rank[b] < rank[a]
    BY <1>6
  <2> QED BY <1>1, <1>4, <2>1
<1>8. rank \in Injection(S, 1..n)
  BY <1>4, <1>7 DEF Injection, IsInjective
<1>9. rank \in Surjection(S, 1..n)
  <2>1. Cardinality(S) = Cardinality(1..n)
    BY <1>1 DEF n
  <2> QED BY <1>1, <1>8, <2>1, FS_Injection
<1>10. \A i \in 1..n : \E a \in S : rank[a] = i
  BY <1>9 DEF Surjection
<1> DEFINE f == [i \in 1..n |-> CHOOSE a \in S : rank[a] = i]
<1>11. \A i \in 1..n : f[i] \in S /\ rank[f[i]] = i
  BY <1>10
<1>12. f \in [1..n -> S]
  BY <1>11
<1> HIDE DEF f
<1>13. ASSUME NEW i \in 1..n, NEW j \in 1..n, i < j PROVE <<f[i], f[j]>> \in R
  <2>1. f[i] \in S /\ f[j] \in S /\ rank[f[i]] = i /\ rank[f[j]] = j
    BY <1>11
  <2>2. f[i] # f[j]
    BY <1>1, <1>13, <2>1
  <2>3. ~(<<f[j], f[i]>> \in R)
    <3> SUFFICES ASSUME <<f[j], f[i]>> \in R PROVE FALSE
      OBVIOUS
    <3>1. j < i
      BY <1>6, <2>1
    <3> QED BY <1>1, <1>13, <3>1
  <2> QED BY <2>1, <2>2, <2>3
<1> QED BY <1>12, <1>13 DEF n
=============================================================================
