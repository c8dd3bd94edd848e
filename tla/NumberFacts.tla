---------------------------- MODULE NumberFacts ----------------------------
(***************************************************************************)
(* What the proofs need to know of natural numbers.  The induction         *)
(* theorems of the library take the statement to prove as a parameter; its *)
(* theorem on well-founded orders takes a set, and the least element of    *)
(* the set of counterexamples does the same service.                       *)
(***************************************************************************)
EXTENDS Integers, Sequences, FiniteSets, FiniteSetTheorems, WellFoundedInduction, TLAPS

\* A set of numbers that is not empty has a least one.
LEMMA LeastNumber ==
    ASSUME NEW T \in SUBSET Nat, T # {}
    PROVE  \E x \in T : \A y \in T : x <= y
<1> DEFINE R == OpToRel(<, Nat)
<1>1. IsWellFoundedOn(R, Nat)
  BY NatLessThanWellFounded
<1>2. PICK x \in T : \A y \in T : ~ (<<y, x>> \in R)
  <2> HIDE DEF R
  <2> QED
    BY <1>1, WFMin
<1>3. \A y \in T : ~ (y < x)
  BY <1>2 DEF OpToRel
<1> QED
  BY <1>3

\* If it has a bound, it has a greatest one.
LEMMA GreatestNumber ==
    ASSUME NEW T \in SUBSET Nat, T # {}, NEW n \in Nat, \A x \in T : x <= n
    PROVE  \E x \in T : \A y \in T : y <= x
<1> DEFINE Bounds == {b \in Nat : \A x \in T : x <= b}
<1>1. PICK b \in Bounds : \A c \in Bounds : b <= c
  <2>1. n \in Bounds
    OBVIOUS
  <2> HIDE DEF Bounds
  <2> QED
    BY <2>1, LeastNumber, Bounds \subseteq Nat DEF Bounds
<1>2. b \in T
  <2> SUFFICES ASSUME b \notin T PROVE FALSE
    OBVIOUS
  <2>1. PICK x \in T : TRUE
    OBVIOUS
  <2>2. b - 1 \in Nat /\ \A y \in T : y <= b - 1
    BY <2>1
  <2> QED
    BY <1>1, <2>2
<1> QED
  BY <1>2

\* A set of numbers each of which has fewer than k others of a set below it holds at
\* most k of them.
LEMMA FewBelow ==
    ASSUME NEW n \in Nat, NEW S \in SUBSET (1 .. n), NEW T \in SUBSET S, NEW k \in Nat,
           \A m \in T : Cardinality({v \in S : v < m}) < k
    PROVE  IsFiniteSet(T) /\ Cardinality(T) <= k
<1>1. IsFiniteSet(S) /\ IsFiniteSet(T)
  <2>1. IsFiniteSet(1 .. n)
    BY FS_Interval
  <2>2. IsFiniteSet(S)
    BY <2>1, FS_Subset
  <2> QED
    BY <2>2, FS_Subset
<1>2. CASE T = {}
  BY <1>2, FS_EmptySet
<1>3. CASE T # {}
  <2>1. PICK m \in T : \A y \in T : y <= m
    <3>1. T \in SUBSET Nat /\ \A y \in T : y <= n
      OBVIOUS
    <3> QED
      BY <1>3, <3>1, GreatestNumber
  <2> DEFINE Low == {v \in S : v < m}
  <2>2. T \ {m} \in SUBSET Low
    BY <2>1
  <2>3. IsFiniteSet(Low) /\ Cardinality(Low) \in Nat /\ Cardinality(Low) < k
    BY <1>1, FS_Subset, FS_CardinalityType
  <2>4. Cardinality(T \ {m}) <= Cardinality(Low)
    <3> HIDE DEF Low
    <3> QED
      BY <2>2, <2>3, FS_Subset
  <2>5. Cardinality(T) \in Nat /\ Cardinality(T \ {m}) = Cardinality(T) - 1
    BY <1>1, FS_RemoveElement, FS_CardinalityType
  <2> QED
    BY <1>1, <2>3, <2>4, <2>5
<1> QED
  BY <1>2, <1>3

\* A function on the first numbers is a sequence.
LEMMA SizedList ==
    ASSUME NEW n \in Nat, NEW S, NEW f \in [1 .. n -> S]
    PROVE  f \in Seq(S) /\ Len(f) = n
OBVIOUS

\* The elements of a set whose number is lower than that of one of them.
Lower(S, num, b) == {c \in S : num[c] < num[b]}

\* The elements of a finite set that carry a number of their own: how many carry a lower
\* one is another for each of them, and there is one for each number of others.
LEMMA Ranks ==
    ASSUME NEW S, IsFiniteSet(S), NEW num \in [S -> Nat],
           \A b, c \in S : num[b] = num[c] => b = c
    PROVE  /\ \A b \in S : Cardinality(Lower(S, num, b)) \in 0 .. Cardinality(S) - 1
           /\ \A b, c \in S : Cardinality(Lower(S, num, b)) < Cardinality(Lower(S, num, c))
                                 <=> num[b] < num[c]
           /\ \A n \in 1 .. Cardinality(S) : \E b \in S : Cardinality(Lower(S, num, b)) = n - 1
<1> DEFINE Size == Cardinality(S)
           Below(b) == {c \in S : num[c] < num[b]}
           rank == [b \in S |-> Cardinality(Below(b)) + 1]
<1>1. Size \in Nat
  BY FS_CardinalityType
<1>2. \A b \in S : rank[b] = Cardinality(Below(b)) + 1 /\ Below(b) \in SUBSET S
  OBVIOUS
<1> HIDE DEF rank
<1>3. \A b \in S : IsFiniteSet(Below(b)) /\ Cardinality(Below(b)) \in Nat /\ rank[b] \in Nat
  <2> TAKE b \in S
  <2> HIDE DEF Below
  <2>1. IsFiniteSet(Below(b)) /\ Cardinality(Below(b)) \in Nat
    BY <1>2, FS_Subset, FS_CardinalityType
  <2> QED
    BY <1>2, <2>1
<1>4. \A b \in S : rank[b] \in 1 .. Size /\ Cardinality(Below(b)) \in 0 .. Size - 1
  <2> TAKE b \in S
  <2>1. IsFiniteSet(S \ {b}) /\ Cardinality(S \ {b}) = Size - 1
    BY FS_RemoveElement
  <2>2. Below(b) \in SUBSET (S \ {b})
    OBVIOUS
  <2> HIDE DEF Below, Size
  <2>3. Cardinality(Below(b)) <= Size - 1
    BY <2>1, <2>2, FS_Subset
  <2> QED
    BY <1>1, <1>2, <1>3, <2>3
<1>5. \A b, c \in S : num[b] < num[c] => rank[b] < rank[c]
  <2> SUFFICES ASSUME NEW b \in S, NEW c \in S, num[b] < num[c] PROVE rank[b] < rank[c]
    OBVIOUS
  <2>1. b \notin Below(b) /\ Below(b) \cup {b} \in SUBSET Below(c)
    OBVIOUS
  <2> HIDE DEF Below
  <2>2. Cardinality(Below(b) \cup {b}) = Cardinality(Below(b)) + 1
    BY <1>3, <2>1, FS_AddElement
  <2>3. Cardinality(Below(b) \cup {b}) <= Cardinality(Below(c))
    BY <1>3, <2>1, FS_Subset
  <2> QED
    BY <1>2, <1>3, <2>2, <2>3
<1>6. \A b, c \in S : Cardinality(Below(b)) < Cardinality(Below(c)) <=> num[b] < num[c]
  <2> SUFFICES ASSUME NEW b \in S, NEW c \in S
               PROVE  Cardinality(Below(b)) < Cardinality(Below(c)) <=> num[b] < num[c]
    OBVIOUS
  <2> HIDE DEF Below
  <2>1. num[b] \in Nat /\ num[c] \in Nat /\ (num[b] = num[c] => b = c)
    OBVIOUS
  <2>2. /\ Cardinality(Below(b)) \in Nat /\ Cardinality(Below(c)) \in Nat
        /\ rank[b] = Cardinality(Below(b)) + 1 /\ rank[c] = Cardinality(Below(c)) + 1
    BY <1>2, <1>3
  <2>3. (num[b] < num[c] => rank[b] < rank[c]) /\ (num[c] < num[b] => rank[c] < rank[b])
    BY <1>5
  <2>4. b = c => Cardinality(Below(b)) = Cardinality(Below(c))
    OBVIOUS
  <2> QED
    BY <2>1, <2>2, <2>3, <2>4
<1>7. \A n \in 1 .. Size : \E b \in S : Cardinality(Below(b)) = n - 1
  <2>1. rank \in Injection(S, 1 .. Size)
    <3>1. rank \in [S -> 1 .. Size]
      BY <1>4 DEF rank
    <3>2. \A b, c \in S : rank[b] = rank[c] => b = c
      <4> SUFFICES ASSUME NEW b \in S, NEW c \in S, rank[b] = rank[c], b # c PROVE FALSE
        OBVIOUS
      <4>1. num[b] \in Nat /\ num[c] \in Nat /\ num[b] # num[c]
        OBVIOUS
      <4>2. rank[b] \in Nat
        BY <1>3
      <4> QED
        BY <1>5, <4>1, <4>2
    <3> QED
      BY <3>1, <3>2 DEF Injection, IsInjective
  <2>2. IsFiniteSet(1 .. Size) /\ Cardinality(1 .. Size) = Size
    BY <1>1, FS_Interval
  <2>3. rank \in Surjection(S, 1 .. Size)
    BY <2>1, <2>2, FS_Injection
  <2> TAKE n \in 1 .. Size
  <2>4. PICK b \in S : rank[b] = n
    BY <2>3 DEF Surjection
  <2> HIDE DEF Below, Size
  <2>5. Cardinality(Below(b)) = n - 1
    BY <1>1, <1>2, <1>3, <2>4
  <2> QED
    BY <2>5
<1>8. \A b \in S : Below(b) = Lower(S, num, b)
  BY DEF Lower
<1> HIDE DEF Below
<1> QED
  BY <1>4, <1>6, <1>7, <1>8

\* A list of a set in the order of the numbers its elements carry.
ListsInOrder(list, S, num) ==
    /\ list \in Seq(S)
    /\ \A b \in S : \E i \in DOMAIN list : list[i] = b
    /\ \A i, j \in DOMAIN list : i < j => num[list[i]] < num[list[j]]

\* The elements can be listed by their ranks, and are then in the order of their numbers.
LEMMA Listing ==
    ASSUME NEW S, NEW Size \in Nat, NEW num \in [S -> Nat],
           \A b, c \in S : num[b] = num[c] => b = c,
           NEW rank \in [S -> 0 .. Size - 1],
           \A b, c \in S : rank[b] < rank[c] <=> num[b] < num[c],
           NEW list \in [1 .. Size -> S],
           \A n \in 1 .. Size : rank[list[n]] = n - 1
    PROVE  ListsInOrder(list, S, num)
<1>1. \A n \in 1 .. Size : list[n] \in S /\ rank[list[n]] = n - 1
  OBVIOUS
<1>2. list \in Seq(S) /\ Len(list) = Size /\ DOMAIN list = 1 .. Size
  BY SizedList
<1>3. \A b \in S : \E i \in DOMAIN list : list[i] = b
  <2> TAKE b \in S
  <2>1. rank[b] + 1 \in 1 .. Size /\ rank[b] \in Int
    OBVIOUS
  <2>2. list[rank[b] + 1] \in S /\ rank[list[rank[b] + 1]] = rank[b]
    BY <1>1, <2>1
  <2>3. num[b] = num[list[rank[b] + 1]]
    <3>1. num[b] \in Nat /\ num[list[rank[b] + 1]] \in Nat
      BY <2>2
    <3>2. ~ (num[b] < num[list[rank[b] + 1]]) /\ ~ (num[list[rank[b] + 1]] < num[b])
      BY <2>1, <2>2
    <3> QED
      BY <3>1, <3>2
  <2>4. list[rank[b] + 1] = b
    BY <2>2, <2>3
  <2> QED
    BY <1>2, <2>1, <2>4
<1>4. \A i, j \in DOMAIN list : i < j => num[list[i]] < num[list[j]]
  <2> SUFFICES ASSUME NEW i \in 1 .. Size, NEW j \in 1 .. Size, i < j
               PROVE  num[list[i]] < num[list[j]]
    BY <1>2
  <2>1. rank[list[i]] < rank[list[j]]
    BY <1>1
  <2> QED
    BY <1>1, <2>1
<1> QED
  BY <1>2, <1>3, <1>4 DEF ListsInOrder

-----------------------------------------------------------------------------
(* Numbers counted in rows of d: the row of a number and its place in it.  *)

LEMMA Division ==
    ASSUME NEW d \in Nat \ {0}, NEW p \in Nat
    PROVE  p \div d \in Nat /\ p % d \in 0 .. d - 1 /\ p = d * (p \div d) + (p % d)
OBVIOUS

LEMMA RowAndPlace ==
    ASSUME NEW d \in Nat \ {0}, NEW q \in Nat, NEW r \in 0 .. d - 1
    PROVE  (d * q + r) \div d = q /\ (d * q + r) % d = r
OBVIOUS

LEMMA Multiples ==
    ASSUME NEW d \in Nat, NEW a \in Nat, NEW b \in Nat, a <= b
    PROVE  d * a <= d * b
OBVIOUS

\* The number after one that is not the last of its row, and after one that is.
LEMMA NextPlace ==
    ASSUME NEW d \in Nat \ {0}, NEW p \in Nat, p % d < d - 1
    PROVE  (p + 1) \div d = p \div d /\ (p + 1) % d = (p % d) + 1
<1> DEFINE q == p \div d
           r == p % d
<1>1. p = d * q + r /\ q \in Nat /\ r \in 0 .. d - 1
  BY Division
<1> HIDE DEF q, r
<1>2. p + 1 = d * q + (r + 1) /\ r + 1 \in 0 .. d - 1
  BY <1>1 DEF r
<1>3. (d * q + (r + 1)) \div d = q /\ (d * q + (r + 1)) % d = r + 1
  BY <1>1, <1>2, RowAndPlace
<1> QED
  BY <1>2, <1>3 DEF q, r

LEMMA NextRow ==
    ASSUME NEW d \in Nat \ {0}, NEW p \in Nat, p % d = d - 1
    PROVE  (p + 1) \div d = (p \div d) + 1 /\ (p + 1) % d = 0
<1> DEFINE q == p \div d
<1>1. p = d * q + (d - 1) /\ q \in Nat
  BY Division
<1> HIDE DEF q
<1>2. p + 1 = d * (q + 1) + 0 /\ q + 1 \in Nat /\ 0 \in 0 .. d - 1
  BY <1>1
<1>3. (d * (q + 1) + 0) \div d = q + 1 /\ (d * (q + 1) + 0) % d = 0
  BY <1>2, RowAndPlace
<1> QED
  BY <1>2, <1>3 DEF q

\* A number below the end of a row is in that row or before.
LEMMA RowsBelow ==
    ASSUME NEW n \in Nat, NEW d \in Nat \ {0}, NEW p \in Nat, p < n * d
    PROVE  p \div d < n
<1> DEFINE q == p \div d
           r == p % d
<1>1. p = d * q + r /\ q \in Nat /\ r \in 0 .. d - 1
  BY Division
<1> HIDE DEF q, r
<1> SUFFICES ASSUME n <= q PROVE FALSE
  BY <1>1 DEF q
<1>2. d * n <= d * q
  BY <1>1, Multiples
<1> QED
  BY <1>1, <1>2

\* The last number of the last row of full ones.
LEMMA LastRow ==
    ASSUME NEW d \in Nat \ {0}, NEW n \in Nat \ {0}, n % d = 0
    PROVE  (n - 1) \div d = (n \div d) - 1 /\ n \div d \in Nat \ {0} /\ n = d * (n \div d)
<1> DEFINE q == n \div d
<1>1. n = d * q /\ q \in Nat
  BY Division
<1> HIDE DEF q
<1>2. q # 0
  BY <1>1
<1>3. n - 1 = d * (q - 1) + (d - 1) /\ q - 1 \in Nat /\ d - 1 \in 0 .. d - 1
  BY <1>1, <1>2
<1>4. (n - 1) \div d = q - 1
  BY <1>3, RowAndPlace
<1> QED
  BY <1>1, <1>2, <1>4 DEF q
=============================================================================
