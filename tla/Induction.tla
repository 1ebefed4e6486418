------------------------------ MODULE Induction ------------------------------
(***************************************************************************)
(* What several proofs need that induction over the numbers shows: the     *)
(* functions that recursion defines up to n exist, sets of numbers have a  *)
(* least one, and finite sets can be sorted by any strict order.           *)
(***************************************************************************)
EXTENDS Integers, Sequences, FiniteSets, SequencesExt, NaturalsInduction, WellFoundedInduction,
        FiniteSetTheorems, SequenceTheorems, TLAPS

\* Induction over the natural numbers up to n, as a least counterexample.
LEMMA NatUpTo ==
    ASSUME NEW n \in Nat, NEW S,
           0 \in S,
           \A k \in 1 .. n : k - 1 \in S => k \in S
    PROVE  0 .. n \subseteq S
<1> DEFINE Bad == {k \in 0 .. n : k \notin S}
<1>1. SUFFICES ASSUME Bad # {} PROVE FALSE
  OBVIOUS
<1>2. Bad \subseteq Nat
  OBVIOUS
<1>3. PICK k \in Bad : \A j \in Bad : <<j, k>> \notin OpToRel(<, Nat)
  <2> HIDE DEF Bad
  <2>1. QED
    BY <1>1, <1>2, NatLessThanWellFounded, WFMin
<1>4. \A j \in Bad : ~(j < k)
  BY <1>2, <1>3 DEF OpToRel
<1>5. k \in 1 .. n /\ k - 1 \in 0 .. n /\ k - 1 < k
  <2>1. k # 0
    BY <1>3
  <2>2. k \in 0 .. n
    BY <1>3
  <2>3. QED
    BY <2>1, <2>2
<1>6. k - 1 \in S
  BY <1>4, <1>5
<1>7. QED
  BY <1>3, <1>5, <1>6

\* g is defined by recursion up to n, from c by F.
RecursiveUpTo(g, n, c, F) == g[0] = c /\ \A k \in 1 .. n : g[k] = F[<<k, g[k - 1]>>]

\* Such a function exists.
LEMMA RecursionUpTo ==
    ASSUME NEW n \in Nat, NEW T, NEW c \in T, NEW F \in [(1 .. n) \X T -> T]
    PROVE  \E g \in [0 .. n -> T] : RecursiveUpTo(g, n, c, F)
<1> DEFINE S == {k \in 0 .. n : \E g \in [0 .. n -> T] : RecursiveUpTo(g, k, c, F)}
<1>1. 0 \in S
  <2> DEFINE g == [k \in 0 .. n |-> c]
  <2>1. g \in [0 .. n -> T]
    OBVIOUS
  <2>2. RecursiveUpTo(g, 0, c, F)
    BY DEF RecursiveUpTo
  <2> HIDE DEF g
  <2>3. QED
    BY <2>1, <2>2
<1>2. ASSUME NEW k \in 1 .. n, k - 1 \in S PROVE k \in S
  <2>1. PICK g \in [0 .. n -> T] : RecursiveUpTo(g, k - 1, c, F)
    BY <1>2
  <2> DEFINE v == F[<<k, g[k - 1]>>]
             h == [g EXCEPT ![k] = v]
  <2>2. k - 1 \in 0 .. n /\ g[k - 1] \in T
    BY <2>1
  <2>3. v \in T
    BY <2>2
  <2>4. h \in [0 .. n -> T]
    BY <2>1, <2>3
  <2>5. h[k] = v /\ \A j \in 0 .. n : j # k => h[j] = g[j]
    BY <2>1
  <2> HIDE DEF h
  <2>6. h[0] = c
    BY <2>1, <2>5 DEF RecursiveUpTo
  <2>7. ASSUME NEW j \in 1 .. k PROVE h[j] = F[<<j, h[j - 1]>>]
    <3>1. h[j - 1] = g[j - 1]
      BY <2>5
    <3>2. CASE j = k
      <4>1. F[<<j, h[j - 1]>>] = F[<<k, g[k - 1]>>]
        BY <3>1, <3>2
      <4>2. QED
        BY <2>5, <3>2, <4>1
    <3>3. CASE j # k
      <4>1. j \in 1 .. k - 1
        BY <3>3
      <4>2. g[j] = F[<<j, g[j - 1]>>]
        BY <2>1, <4>1 DEF RecursiveUpTo
      <4>3. h[j] = g[j]
        BY <2>5, <3>3
      <4>4. QED
        BY <3>1, <4>2, <4>3
    <3>4. QED
      BY <3>2, <3>3
  <2>8. RecursiveUpTo(h, k, c, F)
    BY <2>6, <2>7 DEF RecursiveUpTo
  <2>9. QED
    BY <2>4, <2>8
<1>3. n \in S
  <2> HIDE DEF S
  <2>1. QED
    BY <1>1, <1>2, NatUpTo
<1>4. QED
  BY <1>3

\* The least number of a set.
LEMMA LeastOf ==
    ASSUME NEW S \in SUBSET Nat, S # {}
    PROVE  \E m \in S : \A n \in S : m <= n
<1>1. PICK m \in S : \A n \in S : <<n, m>> \notin OpToRel(<, Nat)
  BY NatLessThanWellFounded, WFMin
<1>2. \A n \in S : ~(n < m)
  BY <1>1 DEF OpToRel
<1>3. QED
  BY <1>2

-----------------------------------------------------------------------------
(* Sorting, by any strict order.                                           *)

StrictOn(R, S) ==
    /\ \A x \in S : <<x, x>> \notin R
    /\ \A x, y, z \in S : <<x, y>> \in R /\ <<y, z>> \in R => <<x, z>> \in R
    /\ \A x, y \in S : x # y => <<x, y>> \in R \/ <<y, x>> \in R

Ascends(s, R) == \A i, j \in DOMAIN s : i < j => <<s[i], s[j]>> \in R

\* Some element comes after every other.
LEMMA LastOf ==
    ASSUME NEW S, IsFiniteSet(S), S # {}, NEW R, StrictOn(R, S)
    PROVE  \E l \in S : \A g \in S \ {l} : <<g, l>> \in R
<1> DEFINE N == Cardinality(S)
           K == {k \in 0 .. N : \A T \in SUBSET S :
                   Cardinality(T) = k /\ T # {} => \E l \in T : \A g \in T \ {l} : <<g, l>> \in R}
<1>1. N \in Nat
  BY FS_CardinalityType
<1>2. 0 \in K
  <2>1. ASSUME NEW T \in SUBSET S, Cardinality(T) = 0, T # {} PROVE FALSE
    BY <2>1, FS_Subset, FS_EmptySet
  <2>2. QED
    BY <1>1, <2>1
<1>3. ASSUME NEW k \in 1 .. N, k - 1 \in K PROVE k \in K
  <2>1. ASSUME NEW T \in SUBSET S, Cardinality(T) = k, T # {}
        PROVE  \E l \in T : \A g \in T \ {l} : <<g, l>> \in R
    <3>1. PICK x \in T : TRUE
      BY <2>1
    <3>2. IsFiniteSet(T) /\ Cardinality(T \ {x}) = k - 1
      BY <2>1, <3>1, FS_Subset, FS_RemoveElement
    <3>3. CASE T \ {x} = {}
      BY <3>1, <3>3
    <3>4. CASE T \ {x} # {}
      <4>1. PICK l \in T \ {x} : \A g \in (T \ {x}) \ {l} : <<g, l>> \in R
        BY <1>3, <3>2, <3>4
      <4>2. CASE <<x, l>> \in R
        BY <4>1, <4>2
      <4>3. CASE <<x, l>> \notin R
        <5>1. <<l, x>> \in R
          BY <4>1, <4>3 DEF StrictOn
        <5>2. \A g \in T \ {x} : <<g, x>> \in R
          BY <4>1, <5>1 DEF StrictOn
        <5>3. QED
          BY <3>1, <5>2
      <4>4. QED
        BY <4>2, <4>3
    <3>5. QED
      BY <3>3, <3>4
  <2>2. k \in 0 .. N
    BY <1>1
  <2>3. QED
    BY <2>1, <2>2
<1>4. 0 .. N \subseteq K
  <2> HIDE DEF K, N
  <2>1. QED
    BY <1>1, <1>2, <1>3, NatUpTo
<1>5. N \in K
  BY <1>1, <1>4
<1>6. QED
  BY <1>5

\* The rest in order, and then the last.
LEMMA SortedAppended ==
    ASSUME NEW R, NEW S, NEW l \in S, \A g \in S \ {l} : <<g, l>> \in R,
           NEW k \in Nat, NEW s \in [1 .. k -> S \ {l}], Ascends(s, R)
    PROVE  \E t \in [1 .. k + 1 -> S] : Ascends(t, R)
<1> DEFINE t == [i \in 1 .. k + 1 |-> IF i = k + 1 THEN l ELSE s[i]]
<1>1. \A i \in 1 .. k + 1 : i \in 1 .. k \/ i = k + 1
  OBVIOUS
<1>2. \A i \in 1 .. k : s[i] \in S \ {l}
  OBVIOUS
<1>3. t \in [1 .. k + 1 -> S]
  BY <1>1, <1>2
<1>4. t[k + 1] = l /\ \A i \in 1 .. k : t[i] = s[i]
  OBVIOUS
<1>5. DOMAIN t = 1 .. k + 1
  OBVIOUS
<1> HIDE DEF t
<1>6. ASSUME NEW i \in 1 .. k + 1, NEW j \in 1 .. k + 1, i < j PROVE <<t[i], t[j]>> \in R
  <2>1. i \in 1 .. k
    BY <1>6
  <2>2. CASE j = k + 1
    BY <1>2, <1>4, <2>1, <2>2
  <2>3. CASE j # k + 1
    <3>1. j \in 1 .. k
      BY <2>3
    <3>2. <<s[i], s[j]>> \in R
      BY <1>6, <2>1, <3>1 DEF Ascends
    <3>3. QED
      BY <1>4, <2>1, <3>1, <3>2
  <2>4. QED
    BY <2>2, <2>3
<1>7. Ascends(t, R)
  BY <1>5, <1>6 DEF Ascends
<1>8. QED
  BY <1>3, <1>7

LEMMA StrictBelow ==
    ASSUME NEW R, NEW S, StrictOn(R, S), NEW T \in SUBSET S
    PROVE  StrictOn(R, T)
  BY DEF StrictOn

LEMMA SortedExists ==
    ASSUME NEW S, IsFiniteSet(S), NEW R, StrictOn(R, S)
    PROVE  \E s \in [1 .. Cardinality(S) -> S] : Ascends(s, R)
<1> DEFINE N == Cardinality(S)
           K == {k \in 0 .. N : \A T \in SUBSET S :
                   Cardinality(T) = k => \E s \in [1 .. k -> T] : Ascends(s, R)}
<1>1. N \in Nat
  BY FS_CardinalityType
<1>2. 0 \in K
  <2>1. ASSUME NEW T PROVE \E s \in [1 .. 0 -> T] : Ascends(s, R)
    <3>1. PICK s \in [1 .. 0 -> T] : TRUE
      <4>1. [i \in 1 .. 0 |-> T] \in [1 .. 0 -> T]
        OBVIOUS
      <4>2. QED
        BY <4>1
    <3>2. DOMAIN s = {}
      OBVIOUS
    <3>3. QED
      BY <3>2 DEF Ascends
  <2>2. QED
    BY <1>1, <2>1
<1>3. ASSUME NEW k \in 1 .. N, k - 1 \in K PROVE k \in K
  <2>1. ASSUME NEW T \in SUBSET S, Cardinality(T) = k
        PROVE  \E s \in [1 .. k -> T] : Ascends(s, R)
    <3>1. IsFiniteSet(T) /\ T # {} /\ StrictOn(R, T)
      BY <2>1, FS_Subset, FS_EmptySet, StrictBelow
    <3>2. PICK l \in T : \A g \in T \ {l} : <<g, l>> \in R
      BY <3>1, LastOf
    <3>3. Cardinality(T \ {l}) = k - 1 /\ T \ {l} \in SUBSET S
      BY <2>1, <3>1, FS_RemoveElement
    <3>4. PICK s \in [1 .. k - 1 -> T \ {l}] : Ascends(s, R)
      BY <1>3, <3>3
    <3>5. k - 1 \in Nat /\ k - 1 + 1 = k
      BY <1>1
    <3>6. QED
      BY <3>2, <3>4, <3>5, SortedAppended
  <2>2. k \in 0 .. N
    BY <1>1
  <2>3. QED
    BY <2>1, <2>2
<1>4. 0 .. N \subseteq K
  <2> HIDE DEF K, N
  <2>1. QED
    BY <1>1, <1>2, <1>3, NatUpTo
<1>5. N \in K
  BY <1>1, <1>4
<1>6. QED
  BY <1>5

\* Some sequence names each element once, in order.
LEMMA OrderExists ==
    ASSUME NEW S, IsFiniteSet(S), NEW R, StrictOn(R, S)
    PROVE  \E s \in SetToSeqs(S) : Ascends(s, R)
<1>1. Cardinality(S) \in Nat
  BY FS_CardinalityType
<1>2. PICK t \in [1 .. Cardinality(S) -> S] : Ascends(t, R)
  BY SortedExists
<1>3. \A i, j \in 1 .. Cardinality(S) : i # j => t[i] # t[j]
  <2>1. ASSUME NEW i \in 1 .. Cardinality(S), NEW j \in 1 .. Cardinality(S), i < j
        PROVE  t[i] # t[j]
    <3>1. <<t[i], t[j]>> \in R
      BY <1>2, <2>1 DEF Ascends
    <3>2. QED
      BY <3>1 DEF StrictOn
  <2>2. QED
    BY <1>1, <2>1
<1>4. QED
  BY <1>2, <1>3 DEF SetToSeqs

\* What a sequence of a set is.
LEMMA SeqsAre ==
    ASSUME NEW S, IsFiniteSet(S), NEW s \in SetToSeqs(S)
    PROVE  /\ s \in Seq(S) /\ IsInjective(s) /\ ToSet(s) = S
           /\ Cardinality(S) \in Nat /\ Len(s) = Cardinality(S) /\ DOMAIN s = 1 .. Len(s)
<1>1. Cardinality(S) \in Nat
  BY FS_CardinalityType
<1>2. s \in [1 .. Cardinality(S) -> S] /\ \A i, j \in 1 .. Cardinality(S) : i # j => s[i] # s[j]
  BY DEF SetToSeqs
<1>3. IsInjective(s)
  BY <1>2 DEF IsInjective
<1>4. s \in Surjection(1 .. Cardinality(S), S)
  <2>1. s \in Injection(1 .. Cardinality(S), S)
    BY <1>2, <1>3 DEF Injection
  <2>2. Cardinality(1 .. Cardinality(S)) = Cardinality(S)
    BY <1>1, FS_Interval
  <2>3. QED
    BY <2>1, <2>2, FS_Injection
<1>5. ToSet(s) = S
  BY <1>2, <1>4 DEF Surjection, ToSet
<1>6. s \in Seq(S) /\ Len(s) = Cardinality(S)
  BY <1>1, <1>2
<1>7. QED
  BY <1>1, <1>2, <1>3, <1>5, <1>6

=============================================================================
