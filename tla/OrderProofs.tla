---------------------------- MODULE OrderProofs ----------------------------
(***************************************************************************)
(* Sorting by rank: the modules put a finite set in order by choosing, for *)
(* every place, the member with as many members up to it.  What that needs *)
(* to be a sort, for any set and any total order on it.  And sums: what one*)
(* number more adds to them.                                               *)
(***************************************************************************)
EXTENDS Sums, FiniteSetTheorems, SequenceTheorems, TLAPS

\* The members of S up to p, counted.
Rank(S, R, p) == Cardinality({q \in S : <<q, p>> \in R})

\* R is a total order on S.
Orders(R, S) ==
    /\ \A p \in S : <<p, p>> \in R
    /\ \A p, q \in S : <<p, q>> \in R \/ <<q, p>> \in R
    /\ \A p, q \in S : <<p, q>> \in R /\ <<q, p>> \in R => p = q
    /\ \A p, q, r \in S : <<p, q>> \in R /\ <<q, r>> \in R => <<p, r>> \in R

\* A later member has a higher rank.
LEMMA RankMonotone ==
  ASSUME NEW S, IsFiniteSet(S), NEW R, Orders(R, S),
         NEW p \in S, NEW q \in S, <<p, q>> \in R, p # q
  PROVE  Rank(S, R, p) < Rank(S, R, q)
<1> DEFINE P == {x \in S : <<x, p>> \in R}
           Q == {x \in S : <<x, q>> \in R}
<1>1. P \subseteq Q /\ q \in Q /\ q \notin P
  BY DEF Orders
<1>2. IsFiniteSet(Q) /\ IsFiniteSet(P)
  BY FS_Subset
<1> HIDE DEF P, Q
<1>3. Cardinality(P) <= Cardinality(Q) /\ Cardinality(P) # Cardinality(Q)
  BY <1>1, <1>2, FS_Subset
<1>4. Cardinality(P) \in Nat /\ Cardinality(Q) \in Nat
  BY <1>2, FS_CardinalityType
<1>5. Cardinality(P) < Cardinality(Q)
  BY <1>3, <1>4
<1> QED  BY <1>5 DEF Rank, P, Q

\* A rank is a place.
LEMMA RankRange ==
  ASSUME NEW S, IsFiniteSet(S), NEW R, Orders(R, S), NEW p \in S
  PROVE  Rank(S, R, p) \in 1..Cardinality(S)
<1> DEFINE P == {x \in S : <<x, p>> \in R}
<1>1. p \in P /\ P \subseteq S
  BY DEF Orders
<1> HIDE DEF P
<1>2. IsFiniteSet(P) /\ Cardinality(P) <= Cardinality(S)
  BY <1>1, FS_Subset
<1>3. Cardinality(P) # 0
  BY <1>1, <1>2, FS_EmptySet
<1>4. Cardinality(P) \in Nat /\ Cardinality(S) \in Nat
  BY <1>2, FS_CardinalityType
<1>5. Cardinality(P) \in 1..Cardinality(S)
  BY <1>2, <1>3, <1>4
<1> QED  BY <1>5 DEF Rank, P

\* Every place is some member's: an injection between finite sets of one size
\* is onto.
LEMMA RankOnto ==
  ASSUME NEW S, IsFiniteSet(S), NEW R, Orders(R, S)
  PROVE  \A i \in 1..Cardinality(S) : \E p \in S : Rank(S, R, p) = i
<1> DEFINE n == Cardinality(S)
           f == [p \in S |-> Rank(S, R, p)]
<1>1. n \in Nat
  BY FS_CardinalityType
<1>2. f \in [S -> 1..n]
  BY RankRange
<1>3. ASSUME NEW p \in S, NEW q \in S, p # q
      PROVE  f[p] # f[q]
  <2>1. f[p] \in Int /\ f[q] \in Int
    BY <1>2
  <2>2. f[p] = Rank(S, R, p) /\ f[q] = Rank(S, R, q)
    OBVIOUS
  <2> HIDE DEF f
  <2>3. Rank(S, R, p) < Rank(S, R, q) \/ Rank(S, R, q) < Rank(S, R, p)
    <3>1. CASE <<p, q>> \in R
      BY <1>3, <3>1, RankMonotone
    <3>2. CASE <<q, p>> \in R
      BY <1>3, <3>2, RankMonotone
    <3> QED  BY <3>1, <3>2 DEF Orders
  <2> QED  BY <2>1, <2>2, <2>3
<1>4. f \in Injection(S, 1..n)
  BY <1>2, <1>3 DEF Injection, IsInjective
<1>5. IsFiniteSet(1..n) /\ Cardinality(1..n) = n
  BY <1>1, FS_Interval
<1>6. f \in Surjection(S, 1..n)
  BY <1>4, <1>5, FS_Injection
<1>7. \A i \in 1..n : \E p \in S : f[p] = i
  BY <1>6 DEF Surjection
<1> QED  BY <1>7

\* A set put in order by rank, and what that is to be: its members are all
\* there, each once, and in order.
Ranked(S, R) == [i \in 1..Cardinality(S) |-> CHOOSE p \in S : Rank(S, R, p) = i]
Sorted(t, S, R) ==
    /\ \A i \in 1..Cardinality(S) : t[i] \in S
    /\ \A p \in S : \E i \in 1..Cardinality(S) : t[i] = p
    /\ \A i, j \in 1..Cardinality(S) : i < j => <<t[i], t[j]>> \in R /\ t[i] # t[j]

LEMMA RankedShape ==
  ASSUME NEW S, IsFiniteSet(S), NEW R, Orders(R, S), NEW t, t = Ranked(S, R)
  PROVE  Sorted(t, S, R)
<1> DEFINE n == Cardinality(S)
<1>1. \A i \in 1..n : t[i] \in S /\ Rank(S, R, t[i]) = i
  <2> SUFFICES ASSUME NEW i \in 1..n
               PROVE  t[i] \in S /\ Rank(S, R, t[i]) = i
    OBVIOUS
  <2>1. t[i] = CHOOSE p \in S : Rank(S, R, p) = i
    BY DEF Ranked
  <2>2. \E p \in S : Rank(S, R, p) = i
    BY RankOnto
  <2> QED  BY <2>1, <2>2
<1>2. n \in Nat
  BY FS_CardinalityType
<1>3. ASSUME NEW p \in S, NEW q \in S, Rank(S, R, p) = Rank(S, R, q)
      PROVE  p = q
  <2> SUFFICES ASSUME p # q PROVE FALSE
    OBVIOUS
  <2>1. Rank(S, R, p) < Rank(S, R, q) \/ Rank(S, R, q) < Rank(S, R, p)
    BY RankMonotone DEF Orders
  <2>2. Rank(S, R, p) \in 1..n /\ Rank(S, R, q) \in 1..n
    BY RankRange
  <2> QED  BY <1>2, <1>3, <2>1, <2>2
<1>4. \A p \in S : \E i \in 1..n : t[i] = p
  <2> SUFFICES ASSUME NEW p \in S
               PROVE  \E i \in 1..n : t[i] = p
    OBVIOUS
  <2>1. PICK i \in 1..n : i = Rank(S, R, p)
    BY RankRange
  <2>2. t[i] \in S /\ Rank(S, R, t[i]) = Rank(S, R, p)
    BY <1>1, <2>1
  <2> QED  BY <1>3, <2>2
<1>5. ASSUME NEW i \in 1..n, NEW j \in 1..n, i < j
      PROVE  <<t[i], t[j]>> \in R /\ t[i] # t[j]
  <2>1. PICK p \in S, q \in S : p = t[i] /\ q = t[j] /\ Rank(S, R, p) = i /\ Rank(S, R, q) = j
    BY <1>1
  <2>2. i \in Nat /\ j \in Nat /\ i # j
    BY <1>2, <1>5
  <2>3. p # q
    BY <2>1, <2>2
  <2>4. <<q, p>> \notin R
    <3> SUFFICES ASSUME <<q, p>> \in R PROVE FALSE
      OBVIOUS
    <3>1. Rank(S, R, q) < Rank(S, R, p)
      BY <2>3, RankMonotone
    <3> QED  BY <1>5, <2>1, <2>2, <3>1
  <2> QED  BY <2>1, <2>3, <2>4 DEF Orders
<1> QED  BY <1>1, <1>4, <1>5 DEF Sorted

\* The order of the numbers.
UpTo(S) == {p \in S \X S : p[1] <= p[2]}

LEMMA NumbersOrdered ==
  ASSUME NEW S \in SUBSET Int
  PROVE  Orders(UpTo(S), S)
BY DEF Orders, UpTo

-----------------------------------------------------------------------------
(* Numbers, as the collectors sort them.                                   *)
RankIn(S, p) == Cardinality({q \in S : q <= p})
Ordered(S) == [i \in 1..Cardinality(S) |-> CHOOSE p \in S : RankIn(S, p) = i]

\* Ranks ascend, and every place is some number's.
LEMMA NumberRanks ==
  ASSUME NEW S \in SUBSET Nat, IsFiniteSet(S)
  PROVE  /\ \A p \in S : RankIn(S, p) \in 1..Cardinality(S)
         /\ \A p, q \in S : p < q => RankIn(S, p) < RankIn(S, q)
         /\ \A i \in 1..Cardinality(S) : \E p \in S : RankIn(S, p) = i
<1>1. PICK R : R = UpTo(S)
  OBVIOUS
<1>2. Orders(R, S)
  BY <1>1, NumbersOrdered
<1>3. \A p \in S : RankIn(S, p) = Rank(S, R, p)
  <2> SUFFICES ASSUME NEW p \in S
               PROVE  {q \in S : q <= p} = {q \in S : <<q, p>> \in UpTo(S)}
    BY <1>1 DEF RankIn, Rank
  <2> QED  BY DEF UpTo
<1>4. ASSUME NEW p \in S, NEW q \in S, p < q
      PROVE  RankIn(S, p) < RankIn(S, q)
  <2>1. <<p, q>> \in R /\ p # q
    BY <1>1, <1>4 DEF UpTo
  <2>2. Rank(S, R, p) < Rank(S, R, q)
    BY <1>2, <2>1, RankMonotone
  <2> QED  BY <1>3, <2>2
<1>5. \A p \in S : RankIn(S, p) \in 1..Cardinality(S)
  BY <1>2, <1>3, RankRange
<1>6. \A i \in 1..Cardinality(S) : \E p \in S : RankIn(S, p) = i
  <2>1. \A i \in 1..Cardinality(S) : \E p \in S : Rank(S, R, p) = i
    BY <1>2, RankOnto
  <2> QED  BY <1>3, <2>1
<1> QED  BY <1>4, <1>5, <1>6

\* So a set put in order by rank is all there, each once, and in order.
LEMMA OrderedShape ==
  ASSUME NEW S \in SUBSET Nat, IsFiniteSet(S)
  PROVE  /\ Cardinality(S) \in Nat
         /\ Ordered(S) \in Seq(S) /\ Len(Ordered(S)) = Cardinality(S)
         /\ Range(Ordered(S)) = S
         /\ \A i, j \in 1..Cardinality(S) : i < j => Ordered(S)[i] < Ordered(S)[j]
<1> DEFINE n == Cardinality(S)
           t == Ordered(S)
<1>1. n \in Nat
  BY FS_CardinalityType
<1>2. \A i \in 1..n : t[i] \in S /\ RankIn(S, t[i]) = i
  BY NumberRanks DEF Ordered
<1>3. t \in [1..n -> S]
  BY <1>2 DEF Ordered
<1>4. t \in Seq(S) /\ Len(t) = n
  BY <1>1, <1>3, SeqDef, LenProperties
<1>5. \A p \in S : \E i \in 1..n : t[i] = p
  <2> SUFFICES ASSUME NEW p \in S
               PROVE  \E i \in 1..n : t[i] = p
    OBVIOUS
  <2> DEFINE i == RankIn(S, p)
  <2>1. i \in 1..n
    BY NumberRanks
  <2>2. t[i] \in S /\ RankIn(S, t[i]) = RankIn(S, p)
    BY <1>2, <2>1
  <2>3. t[i] \in Nat /\ p \in Nat
    BY <2>2
  <2>4. RankIn(S, p) \in Nat
    BY <1>1, <2>1
  <2> HIDE DEF t, i
  <2>5. /\ t[i] < p => RankIn(S, t[i]) < RankIn(S, p)
        /\ p < t[i] => RankIn(S, p) < RankIn(S, t[i])
    BY <2>2, NumberRanks
  <2>6. t[i] = p
    BY <2>2, <2>3, <2>4, <2>5
  <2> QED  BY <2>1, <2>6
<1>6. Range(t) = S
  <2>1. DOMAIN t = 1..n
    BY DEF Ordered
  <2> QED  BY <1>2, <1>5, <2>1 DEF Range
<1>7. ASSUME NEW i \in 1..n, NEW j \in 1..n, i < j
      PROVE  t[i] < t[j]
  <2>1. t[i] \in S /\ t[j] \in S /\ RankIn(S, t[i]) = i /\ RankIn(S, t[j]) = j
    BY <1>2
  <2> HIDE DEF t
  <2>2. t[i] \in Nat /\ t[j] \in Nat
    BY <2>1
  <2>3. i # j /\ i \in Int /\ j \in Int
    BY <1>1, <1>7
  <2>4. t[i] # t[j]
    BY <2>1, <2>3, Zenon
  <2>5. t[j] < t[i] => RankIn(S, t[j]) < RankIn(S, t[i])
    BY <2>1, NumberRanks
  <2> QED  BY <1>7, <2>1, <2>2, <2>3, <2>4, <2>5
<1> QED  BY <1>1, <1>4, <1>6, <1>7

\* A set of numbers that is finite and not empty has a greatest.
LEMMA GreatestOf ==
  ASSUME NEW S \in SUBSET Nat, IsFiniteSet(S), S # {}
  PROVE  \E m \in S : \A u \in S : u <= m
<1>1. PICK n \in Nat : n = Cardinality(S) /\ n # 0
  BY FS_CardinalityType, FS_EmptySet
<1>2. PICK m \in S : RankIn(S, m) = n
  BY <1>1, NumberRanks
<1>3. ASSUME NEW u \in S, m < u PROVE FALSE
  <2>1. RankIn(S, m) < RankIn(S, u) /\ RankIn(S, u) \in 1..n
    BY <1>1, <1>3, NumberRanks
  <2> QED  BY <1>2, <2>1
<1>4. \A u \in S : u \in Nat /\ m \in Nat
  OBVIOUS
<1> QED  BY <1>3, <1>4

\* And a least, of which there is none when something holds of every number
\* that it holds of all the smaller ones of.
LEMMA LeastOf ==
  ASSUME NEW S \in SUBSET Nat, IsFiniteSet(S), S # {}
  PROVE  \E m \in S : \A u \in S : m <= u
<1>1. PICK n \in Nat : n = Cardinality(S) /\ n # 0
  BY FS_CardinalityType, FS_EmptySet
<1>2. 1 \in 1..Cardinality(S)
  BY <1>1
<1>3. PICK m \in S : RankIn(S, m) = 1
  BY <1>2, NumberRanks
<1>4. ASSUME NEW u \in S, u < m PROVE FALSE
  <2>1. RankIn(S, u) < RankIn(S, m) /\ RankIn(S, u) \in 1..n
    BY <1>1, <1>4, NumberRanks
  <2> QED  BY <1>3, <2>1
<1>5. \A u \in S : u \in Nat /\ m \in Nat
  OBVIOUS
<1> QED  BY <1>4, <1>5

-----------------------------------------------------------------------------
(* Sums.                                                                   *)

LEMMA SumFinite ==
  ASSUME NEW S, IsFiniteSet(S), NEW f \in [S -> Nat]
  PROVE  IsFiniteSet(Bytes(f)) /\ Total(f) \in Nat
<1> DEFINE g == [x \in S |-> {x} \X (1..f[x])]
           T == {{x} \X (1..f[x]) : x \in S}
<1>1. g \in Surjection(S, T)
  BY DEF Surjection
<1>2. \A x \in S : IsFiniteSet({x} \X (1..f[x]))
  <2> SUFFICES ASSUME NEW x \in S PROVE IsFiniteSet({x} \X (1..f[x]))
    OBVIOUS
  <2>1. PICK n \in Int : n = f[x]
    OBVIOUS
  <2>2. IsFiniteSet(1..n)
    BY FS_Interval
  <2>3. IsFiniteSet({x})
    BY FS_Singleton
  <2>4. IsFiniteSet({x} \X (1..n))
    BY <2>2, <2>3, FS_Product
  <2> QED  BY <2>1, <2>4
<1>3. \A t \in T : IsFiniteSet(t)
  BY <1>2
<1>4. Bytes(f) = UNION T
  BY DEF Bytes
<1> HIDE DEF g, T
<1>5. IsFiniteSet(T)
  BY <1>1, FS_Surjection
<1>6. IsFiniteSet(UNION T)
  BY <1>3, <1>5, FS_UNION
<1> QED  BY <1>4, <1>6, FS_CardinalityType DEF Total

\* One more number is added to the sum.
LEMMA SumWith ==
  ASSUME NEW S, IsFiniteSet(S), NEW f \in [S -> Nat], NEW a, a \notin S,
         NEW g \in [S \cup {a} -> Nat], \A x \in S : g[x] = f[x]
  PROVE  Total(g) = Total(f) + g[a]
<1>1. PICK n \in Nat : n = g[a]
  OBVIOUS
<1>2. PICK B, A : B = Bytes(f) /\ A = {a} \X (1..n)
  OBVIOUS
<1>3. Bytes(g) = B \cup A
  <2>1. DOMAIN g = S \cup {a} /\ DOMAIN f = S
    OBVIOUS
  <2> QED  BY <1>1, <1>2, <2>1 DEF Bytes
<1>4. B \cap A = {}
  BY <1>2 DEF Bytes
<1>5. IsFiniteSet(A) /\ Cardinality(A) = n
  <2>1. IsFiniteSet({a}) /\ Cardinality({a}) = 1
    BY FS_Singleton
  <2>2. IsFiniteSet(1..n) /\ Cardinality(1..n) = n
    BY FS_Interval
  <2>3. IsFiniteSet(A) /\ Cardinality(A) = 1 * Cardinality(1..n)
    BY <1>2, <2>1, <2>2, FS_Product
  <2> QED  BY <2>2, <2>3
<1>6. IsFiniteSet(B) /\ Cardinality(B) \in Nat
  BY <1>2, SumFinite DEF Total
<1>7. Cardinality(B \cup A) = Cardinality(B) + Cardinality(A) - Cardinality({})
  BY <1>4, <1>5, <1>6, FS_Union
<1>8. Cardinality({}) = 0
  BY FS_EmptySet
<1> QED  BY <1>1, <1>2, <1>3, <1>5, <1>6, <1>7, <1>8 DEF Total

LEMMA SumWithout ==
  ASSUME NEW S, IsFiniteSet(S), NEW f \in [S -> Nat], NEW b \in S
  PROVE  /\ Total([x \in S \ {b} |-> f[x]]) \in Nat
         /\ Total(f) = Total([x \in S \ {b} |-> f[x]]) + f[b]
<1>1. PICK R : R = S \ {b}
  OBVIOUS
<1>2. PICK h : h = [x \in R |-> f[x]]
  OBVIOUS
<1>3. IsFiniteSet(R) /\ b \notin R /\ S = R \cup {b}
  <2>1. R \subseteq S
    BY <1>1
  <2> QED  BY <1>1, <2>1, FS_Subset
<1>4. h \in [R -> Nat] /\ \A x \in R : f[x] = h[x]
  BY <1>1, <1>2
<1>5. Total(f) = Total(h) + f[b] /\ Total(h) \in Nat
  BY <1>3, <1>4, SumWith, SumFinite
<1> QED  BY <1>1, <1>2, <1>5

\* One of the numbers grows, and with it the sum.
LEMMA SumGrows ==
  ASSUME NEW S, IsFiniteSet(S), NEW f \in [S -> Nat], NEW b \in S, NEW n \in Nat,
         NEW g \in [S -> Nat], g[b] = f[b] + n, \A x \in S : x # b => g[x] = f[x]
  PROVE  Total(g) = Total(f) + n
<1>1. [x \in S \ {b} |-> f[x]] = [x \in S \ {b} |-> g[x]]
  OBVIOUS
<1>2. PICK t \in Nat : t = Total([x \in S \ {b} |-> f[x]]) /\ Total(f) = t + f[b]
  BY SumWithout, Zenon
<1>3. Total(g) = Total([x \in S \ {b} |-> g[x]]) + g[b]
  BY SumWithout, Zenon
<1>4. f[b] \in Nat
  OBVIOUS
<1>5. Total(g) = t + (f[b] + n)
  BY <1>1, <1>2, <1>3, Zenon
<1> QED  BY <1>2, <1>4, <1>5

\* Nothing but zeros is no sum.
LEMMA SumOfZeros ==
  ASSUME NEW S, NEW f \in [S -> {0}]
  PROVE  Total(f) = 0
<1>1. Bytes(f) = {}
  <2>1. \A x \in S : f[x] = 0 /\ 1..0 = {}
    OBVIOUS
  <2> QED  BY <2>1 DEF Bytes
<1> QED  BY <1>1, FS_EmptySet DEF Total
=============================================================================
