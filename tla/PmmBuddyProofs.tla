--------------------------- MODULE PmmBuddyProofs ---------------------------
(***************************************************************************)
(* The buddy back end of the page allocator loses no page and hands none   *)
(* out twice, its lists, flags and counters agree, and what comes back is  *)
(* merged again into the blocks init carved, for every memory map, number  *)
(* of orders and sequence of calls.                                        *)
(***************************************************************************)
EXTENDS PmmBuddy, Integers, FiniteSetTheorems, SequenceTheorems,
        WellFoundedInduction, TLAPS

-----------------------------------------------------------------------------
(* Induction, on sets                                                      *)

LEMMA Least ==
    ASSUME NEW T, T \subseteq Nat, T # {}
    PROVE  \E n \in T : \A m \in T : n <= m
<1>1. \E n \in T : \A m \in T : ~(<<m, n>> \in OpToRel(<, Nat))
  BY NatLessThanWellFounded, WFMin
<1>2. PICK n \in T : \A m \in T : ~(m < n)
  BY <1>1 DEF OpToRel
<1> QED BY <1>2

LEMMA Reaches ==
    ASSUME NEW lo \in Int, NEW hi \in Int, NEW S, lo \in S,
           \A k \in lo .. hi - 1 : k \in S => k + 1 \in S
    PROVE  \A k \in lo .. hi : k \in S
<1> SUFFICES ASSUME NEW bad \in lo .. hi, bad \notin S PROVE FALSE
  OBVIOUS
<1> DEFINE T == {n \in Nat : lo + n <= hi /\ lo + n \notin S}
<1>1. T # {} /\ T \subseteq Nat
  <2>1. bad - lo \in T
    OBVIOUS
  <2> QED BY <2>1
<1>2. PICK n \in T : \A m \in T : n <= m
  <2> HIDE DEF T
  <2> QED BY <1>1, Least
<1>3. n # 0
  OBVIOUS
<1>4. n - 1 \in T
  BY <1>3
<1> QED BY <1>2, <1>4

-----------------------------------------------------------------------------
(* Arithmetic                                                              *)

LEMMA Product ==
    ASSUME NEW a \in Nat, NEW b \in Nat
    PROVE  a * b \in Nat
  OBVIOUS

LEMMA TimesMono ==
    ASSUME NEW a \in Nat, NEW b \in Nat, NEW c \in Nat, a <= b
    PROVE  c * a <= c * b
<1>1. c * (b - a) \in Nat
  BY Product
<1>2. c * (b - a) = c * b - c * a
  OBVIOUS
<1> QED BY <1>1, <1>2

LEMMA Quotient ==
    ASSUME NEW x \in Nat, NEW d \in Nat \ {0}
    PROVE  /\ x \div d \in Nat
           /\ d * (x \div d) <= x
           /\ x < d * (x \div d) + d
           /\ x = d * (x \div d) + (x % d)
           /\ x % d \in 0 .. d - 1
  OBVIOUS

LEMMA QuotientUnique ==
    ASSUME NEW k \in Nat, NEW d \in Nat \ {0}, NEW r \in 0 .. d - 1
    PROVE  (d * k + r) \div d = k /\ (d * k + r) % d = r
<1> DEFINE x == d * k + r
           q == x \div d
<1>1. x \in Nat
  BY Product
<1>2. q \in Nat /\ d * q <= x /\ x < d * q + d /\ x = d * q + (x % d)
  BY <1>1, Quotient
<1>3. d * (q + 1) = d * q + d /\ d * (k + 1) = d * k + d
  BY <1>2
<1>4. q <= k
  <2>1. ASSUME k + 1 <= q PROVE FALSE
    <3>1. d * (k + 1) <= d * q
      BY <1>2, <2>1, TimesMono
    <3> QED BY <1>1, <1>2, <1>3, <3>1, Product
  <2> QED BY <1>2, <2>1
<1>5. k <= q
  <2>1. ASSUME q + 1 <= k PROVE FALSE
    <3>1. d * (q + 1) <= d * k
      BY <1>2, <2>1, TimesMono
    <3> QED BY <1>1, <1>2, <1>3, <3>1, Product
  <2> QED BY <1>2, <2>1
<1>6. q = k
  BY <1>2, <1>4, <1>5
<1> QED BY <1>1, <1>2, <1>6, Product

LEMMA IsMultiple ==
    ASSUME NEW x \in Nat, NEW d \in Nat \ {0}, x % d = 0
    PROVE  \E m \in Nat : x = d * m
<1>1. x \div d \in Nat /\ x = d * (x \div d)
  <2>1. /\ x \div d \in Nat
        /\ x = d * (x \div d) + (x % d)
    BY Quotient
  <2>2. d * (x \div d) \in Nat
    BY <2>1, Product
  <2> QED BY <2>1, <2>2
<1> QED BY <1>1

LEMMA MultipleOf ==
    ASSUME NEW m \in Nat, NEW d \in Nat \ {0}
    PROVE  (d * m) % d = 0
<1>1. d * m \in Nat
  BY Product
<1> QED BY <1>1, QuotientUnique

LEMMA SumOfMultiples ==
    ASSUME NEW d \in Nat \ {0}, NEW x \in Nat, NEW y \in Nat,
           x % d = 0, y % d = 0
    PROVE  (x + y) % d = 0
<1>1. PICK m \in Nat : x = d * m
  BY IsMultiple
<1>2. PICK n \in Nat : y = d * n
  BY IsMultiple
<1>3. x + y = d * (m + n)
  BY <1>1, <1>2
<1>4. m + n \in Nat
  OBVIOUS
<1> QED BY <1>3, <1>4, MultipleOf

LEMMA MultiplesApart ==
    ASSUME NEW d \in Nat \ {0}, NEW x \in Nat, NEW y \in Nat,
           x % d = 0, y % d = 0, x < y
    PROVE  x + d <= y
<1>1. PICK m \in Nat : x = d * m
  BY IsMultiple
<1>2. PICK n \in Nat : y = d * n
  BY IsMultiple
<1>3. m < n
  <2>1. ASSUME n <= m PROVE FALSE
    BY <1>1, <1>2, <2>1, TimesMono
  <2> QED BY <2>1
<1>4. d * (m + 1) <= d * n /\ d * (m + 1) = d * m + d
  BY <1>3, TimesMono
<1> QED BY <1>1, <1>2, <1>4

LEMMA InPage ==
    ASSUME NEW d \in Nat \ {0}, NEW p \in Nat, p % d = 0, NEW r \in 0 .. d - 1
    PROVE  (p + r) - ((p + r) % d) = p
<1>1. PICK m \in Nat : p = d * m
  BY IsMultiple
<1>2. (d * m + r) % d = r
  BY QuotientUnique
<1> QED BY <1>1, <1>2

LEMMA DifferenceOfMultiples ==
    ASSUME NEW d \in Nat \ {0}, NEW x \in Nat, NEW y \in Nat,
           x % d = 0, y % d = 0, x <= y
    PROVE  (y - x) % d = 0 /\ y - x \in Nat
<1>1. PICK m \in Nat : x = d * m
  BY IsMultiple
<1>2. PICK n \in Nat : y = d * n
  BY IsMultiple
<1>3. CASE m <= n
  <2>1. y - x = d * (n - m) /\ n - m \in Nat
    BY <1>1, <1>2, <1>3
  <2> QED BY <2>1, MultipleOf, Product
<1>4. CASE n <= m
  <2>1. d * n <= d * m
    BY <1>4, TimesMono
  <2>2. y - x = 0 /\ d * 0 = 0
    BY <2>1, <1>1, <1>2
  <2> QED BY <2>2, MultipleOf
<1> QED BY <1>3, <1>4

-----------------------------------------------------------------------------
(* Powers of two                                                           *)

LEMMA PowerIsCount ==
    ASSUME NEW n \in Nat
    PROVE  /\ IsFiniteSet(SUBSET (1 .. n)) /\ Cardinality(SUBSET (1 .. n)) = 2^n
           /\ 2^n \in Nat
<1>1. IsFiniteSet(1 .. n) /\ Cardinality(1 .. n) = n
  <2>1. 1 \in Int /\ n \in Int
    OBVIOUS
  <2>2. /\ IsFiniteSet(1 .. n)
        /\ Cardinality(1 .. n) = IF 1 > n THEN 0 ELSE n - 1 + 1
    BY <2>1, FS_Interval, Zenon
  <2> QED BY <2>2
<1>2. IsFiniteSet(SUBSET (1 .. n)) /\ Cardinality(SUBSET (1 .. n)) = 2^n
  BY <1>1, FS_SUBSET, Zenon
<1> QED BY <1>2, FS_CardinalityType, Zenon

\* A set over 1 .. n + 1 has n + 1 or not.
LEMMA PowerDoubles ==
    ASSUME NEW n \in Nat
    PROVE  2^(n + 1) = 2^n + 2^n
<1> DEFINE A == SUBSET (1 .. n)
           B == {s \cup {n + 1} : s \in A}
           f == [s \in A |-> s \cup {n + 1}]
<1>1. f \in Bijection(A, B)
  <2>1. \A s, t \in A : f[s] = f[t] => s = t
    <3> SUFFICES ASSUME NEW s \in A, NEW t \in A, f[s] = f[t] PROVE s = t
      OBVIOUS
    <3>1. n + 1 \notin s /\ n + 1 \notin t
      OBVIOUS
    <3>2. s \cup {n + 1} = t \cup {n + 1}
      OBVIOUS
    <3>3. \A x : x \in s <=> x \in t
      BY <3>1, <3>2, Zenon
    <3> QED BY <3>3
  <2>2. \A b \in B : \E s \in A : f[s] = b
    OBVIOUS
  <2>3. f \in [A -> B]
    OBVIOUS
  <2> QED BY <2>1, <2>2, <2>3 DEF Bijection, Injection, Surjection, IsInjective
<1>2. IsFiniteSet(A) /\ Cardinality(A) = 2^n /\ 2^n \in Nat
  BY PowerIsCount
<1>3. IsFiniteSet(B) /\ Cardinality(B) = 2^n
  BY <1>1, <1>2, FS_Bijection DEF ExistsBijection
<1>4. A \cap B = {}
  <2> SUFFICES ASSUME NEW s \in A, s \in B PROVE FALSE
    OBVIOUS
  <2>1. n + 1 \in s /\ n + 1 \notin s
    OBVIOUS
  <2> QED BY <2>1
<1>5. SUBSET (1 .. n + 1) = A \cup B
  <2>1. ASSUME NEW s \in SUBSET (1 .. n + 1) PROVE s \in A \cup B
    <3>1. CASE n + 1 \in s
      <4>1. s \ {n + 1} \in A /\ s = (s \ {n + 1}) \cup {n + 1}
        BY <3>1
      <4> QED BY <4>1
    <3>2. CASE n + 1 \notin s
      BY <3>2
    <3> QED BY <3>1, <3>2
  <2>2. 1 .. n \subseteq 1 .. n + 1 /\ n + 1 \in 1 .. n + 1
    OBVIOUS
  <2>3. \A s \in A : s \subseteq 1 .. n + 1 /\ s \cup {n + 1} \subseteq 1 .. n + 1
    BY <2>2, Zenon
  <2>4. A \cup B \subseteq SUBSET (1 .. n + 1)
    BY <2>3, Zenon
  <2> QED BY <2>1, <2>4
<1> HIDE DEF A, B, f
<1>6. Cardinality(A \cup B) = 2^n + 2^n
  <2>1. Cardinality(A \cup B)
           = Cardinality(A) + Cardinality(B) - Cardinality(A \cap B)
    BY <1>2, <1>3, FS_Union
  <2>2. Cardinality(A \cap B) = 0
    BY <1>4, FS_EmptySet
  <2> QED BY <1>2, <1>3, <2>1, <2>2
<1>7. n + 1 \in Nat
  OBVIOUS
<1>8. Cardinality(SUBSET (1 .. n + 1)) = 2^(n + 1)
  BY <1>7, PowerIsCount
<1> QED BY <1>5, <1>6, <1>8

LEMMA Powers ==
    /\ 2^0 = 1
    /\ \A n \in Nat : 2^n \in Nat \ {0} /\ 2^(n + 1) = 2 * 2^n
<1> DEFINE S == {n \in Nat : 2^n > 0}
<1>1. 2^0 = 1
  OBVIOUS
<1>2. \A n \in Nat : 2^n \in Nat /\ 2^(n + 1) = 2^n + 2^n
  BY PowerIsCount, PowerDoubles
<1>3. ASSUME NEW m \in Nat PROVE m \in S
  <2>1. 0 \in S /\ \A k \in 0 .. m - 1 : k \in S => k + 1 \in S
    BY <1>1, <1>2
  <2> HIDE DEF S
  <2>2. 0 \in Int /\ m \in Int
    OBVIOUS
  <2>3. \A k \in 0 .. m : k \in S
    BY <2>1, <2>2, Reaches
  <2> QED BY <2>3
<1> QED BY <1>1, <1>2, <1>3

\* A smaller power of two divides a larger one.
LEMMA PowerDivides ==
    ASSUME NEW o \in Nat, NEW p \in Nat, o <= p
    PROVE  2^p % 2^o = 0 /\ 2^o <= 2^p
<1> DEFINE S == {q \in Nat : 2^q % 2^o = 0 /\ 2^o <= 2^q}
<1>1. o \in S
  <2>1. 2^o \in Nat \ {0}
    BY Powers
  <2>2. 2^o * 1 = 2^o
    BY <2>1
  <2>3. 2^o % 2^o = 0
    BY <2>1, <2>2, MultipleOf
  <2> QED BY <2>1, <2>3
<1>2. ASSUME NEW k \in o .. p - 1, k \in S PROVE k + 1 \in S
  <2>1. 2^o \in Nat \ {0} /\ 2^k \in Nat /\ 2^(k + 1) = 2^k + 2^k
    BY Powers
  <2>2. (2^k + 2^k) % 2^o = 0
    BY <1>2, <2>1, SumOfMultiples
  <2> QED BY <1>2, <2>1, <2>2
<1> HIDE DEF S
<1>3. \A k \in o .. p : k \in S
  BY <1>1, <1>2, Reaches
<1>4. p \in S
  BY <1>3
<1> QED BY <1>4 DEF S

-----------------------------------------------------------------------------
(* Blocks: where they lie                                                  *)

\* idx starts a block of this order.
Aligned(idx, order) == idx % 2^order = 0

LEMMA AlignedLower ==
    ASSUME NEW i \in Nat, NEW o \in Nat, NEW p \in Nat, o <= p, Aligned(i, p)
    PROVE  Aligned(i, o)
<1> DEFINE d == 2^o
           e == 2^p
<1>1. d \in Nat \ {0} /\ e \in Nat \ {0} /\ e % d = 0 /\ i % e = 0
  BY Powers, PowerDivides DEF Aligned
<1> HIDE DEF d, e
<1>2. PICK m \in Nat : e = d * m
  BY <1>1, IsMultiple
<1>3. PICK n \in Nat : i = e * n
  BY <1>1, IsMultiple
<1>4. i = d * (m * n) /\ m * n \in Nat
  BY <1>1, <1>2, <1>3, Product
<1>5. i % d = 0
  BY <1>1, <1>4, MultipleOf
<1> QED BY <1>5 DEF Aligned, d

LEMMA AlignedSum ==
    ASSUME NEW i \in Nat, NEW o \in Nat, NEW p \in Nat, o <= p, Aligned(i, o)
    PROVE  Aligned(i + 2^p, o) /\ i + 2^p \in Nat
<1> DEFINE d == 2^o
           e == 2^p
<1>1. d \in Nat \ {0} /\ e \in Nat /\ e % d = 0 /\ i % d = 0
  BY Powers, PowerDivides DEF Aligned
<1> HIDE DEF d, e
<1>2. (i + e) % d = 0
  BY <1>1, SumOfMultiples
<1>3. i + e \in Nat
  BY <1>1
<1> QED BY <1>2, <1>3 DEF Aligned, d, e

LEMMA AlignedApart ==
    ASSUME NEW i \in Nat, NEW j \in Nat, NEW o \in Nat,
           Aligned(i, o), Aligned(j, o), i < j
    PROVE  i + 2^o <= j
<1>1. 2^o \in Nat \ {0}
  BY Powers
<1> QED BY <1>1, MultiplesApart DEF Aligned

LEMMA ParentProp ==
    ASSUME NEW i \in Nat, NEW o \in Nat
    PROVE  /\ Parent(i, o) \in Nat /\ Aligned(Parent(i, o), o)
           /\ Parent(i, o) <= i /\ i < Parent(i, o) + 2^o
<1> DEFINE d == 2^o
<1>1. d \in Nat \ {0}
  BY Powers
<1> HIDE DEF d
<1>2. /\ i \div d \in Nat /\ i % d \in 0 .. d - 1
      /\ i = d * (i \div d) + (i % d)
  BY <1>1, Quotient
<1>3. d * (i \div d) \in Nat /\ i - (i % d) = d * (i \div d)
  BY <1>1, <1>2, Product
<1>4. (i - (i % d)) % d = 0
  BY <1>1, <1>2, <1>3, MultipleOf
<1>5. i - (i % d) \in Nat /\ i - (i % d) <= i /\ i < i - (i % d) + d
  BY <1>1, <1>2, <1>3
<1> QED BY <1>4, <1>5 DEF Parent, Aligned, d

LEMMA ParentIs ==
    ASSUME NEW i \in Nat, NEW o \in Nat, NEW x \in Nat, Aligned(x, o),
           x <= i, i < x + 2^o
    PROVE  Parent(i, o) = x
<1> DEFINE q == Parent(i, o)
<1>1. q \in Nat /\ Aligned(q, o) /\ q <= i /\ i < q + 2^o /\ 2^o \in Nat
  BY ParentProp, Powers
<1> HIDE DEF q
<1>2. ~(q < x)
  BY <1>1, AlignedApart
<1>3. ~(x < q)
  BY <1>1, AlignedApart
<1>4. q = x
  BY <1>1, <1>2, <1>3
<1> QED BY <1>4 DEF q

LEMMA ParentOfAligned ==
    ASSUME NEW i \in Nat, NEW o \in Nat, Aligned(i, o)
    PROVE  Parent(i, o) = i
<1>1. 2^o \in Nat \ {0}
  BY Powers
<1>2. i < i + 2^o
  BY <1>1
<1> QED BY <1>2, ParentIs

LEMMA ParentZero ==
    ASSUME NEW i \in Nat
    PROVE  Aligned(i, 0) /\ Parent(i, 0) = i
<1>1. 1 * i = i /\ (1 * i) % 1 = 0
  BY MultipleOf
<1>2. Aligned(i, 0)
  BY <1>1, Powers DEF Aligned
<1> QED BY <1>2, ParentOfAligned

\* Blocks of two orders that share a page are nested.
LEMMA ParentsNest ==
    ASSUME NEW i \in Nat, NEW o \in Nat, NEW p \in Nat, o <= p
    PROVE  /\ Parent(i, p) <= Parent(i, o)
           /\ Parent(i, o) + 2^o <= Parent(i, p) + 2^p
<1> DEFINE x == Parent(i, o)
           y == Parent(i, p)
<1>1. /\ x \in Nat /\ Aligned(x, o) /\ x <= i /\ i < x + 2^o /\ 2^o \in Nat
      /\ y \in Nat /\ Aligned(y, p) /\ y <= i /\ i < y + 2^p /\ 2^p \in Nat
  BY ParentProp, Powers
<1> HIDE DEF x, y
<1>2. Aligned(y, o) /\ Aligned(y + 2^p, o) /\ y + 2^p \in Nat
  BY <1>1, AlignedLower, AlignedSum
<1>3. ~(x < y)
  <2>1. ASSUME x < y PROVE x + 2^o <= y
    BY <1>1, <1>2, <2>1, AlignedApart
  <2> QED BY <1>1, <2>1
<1>4. x + 2^o <= y + 2^p
  <2>1. x < y + 2^p
    BY <1>1
  <2> QED BY <1>1, <1>2, <2>1, AlignedApart
<1>5. y <= x /\ x + 2^o <= y + 2^p
  BY <1>1, <1>3, <1>4
<1> QED BY <1>5 DEF x, y

\* A block and its buddy are the halves of the block one order up.
LEMMA BuddyProp ==
    ASSUME NEW x \in Nat, NEW o \in Nat, Aligned(x, o)
    PROVE  LET b == calc_buddy_index(x, o)
           IN  /\ b \in Nat /\ Aligned(b, o) /\ calc_buddy_index(b, o) = x
               /\ \/ b = x + 2^o /\ Aligned(x, o + 1)
                  \/ x = b + 2^o /\ Aligned(b, o + 1)
<1> DEFINE d == 2^o
           b == calc_buddy_index(x, o)
<1>1. d \in Nat \ {0} /\ 2^(o + 1) = 2 * d /\ x % d = 0
  BY Powers DEF Aligned
<1>2. calc_buddy_index(x, o) = IF (x \div d) % 2 = 0 THEN x + d ELSE x - d
  BY DEF calc_buddy_index
<1> HIDE DEF d
<1>3. PICK m \in Nat : x = d * m
  BY <1>1, IsMultiple
<1>4. x \div d = m
  <2>1. d * m + 0 = x
    BY <1>1, <1>3
  <2>2. (d * m + 0) \div d = m
    BY <1>1, QuotientUnique
  <2> QED BY <2>1, <2>2
<1>5. CASE m % 2 = 0
  <2>1. b = x + d
    BY <1>2, <1>4, <1>5
  <2>2. b = d * (m + 1) + 0 /\ b \in Nat
    BY <2>1, <1>1, <1>3
  <2>3. b \div d = m + 1 /\ b % d = 0
    <3>1. m + 1 \in Nat /\ 0 \in 0 .. d - 1
      BY <1>1
    <3> HIDE DEF b
    <3> QED BY <2>2, <3>1, <1>1, QuotientUnique
  <2>4. (m + 1) % 2 # 0
    BY <1>5
  <2>5. calc_buddy_index(b, o) = x
    <3>1. calc_buddy_index(b, o) = IF (b \div d) % 2 = 0 THEN b + d ELSE b - d
      BY DEF calc_buddy_index, d
    <3> QED BY <3>1, <2>1, <2>3, <2>4, <1>1
  <2>6. x % (2 * d) = 0
    <3>1. m = 2 * (m \div 2) /\ m \div 2 \in Nat
      BY <1>5
    <3>2. x = (2 * d) * (m \div 2)
      BY <3>1, <1>1, <1>3
    <3>3. 2 * d \in Nat \ {0}
      BY <1>1
    <3> QED BY <3>1, <3>2, <3>3, MultipleOf
  <2> QED BY <1>1, <2>1, <2>2, <2>3, <2>5, <2>6 DEF Aligned, d
<1>6. CASE m % 2 # 0
  <2>0. m >= 1
    BY <1>6
  <2>1. b = x - d
    BY <1>2, <1>4, <1>6
  <2>2. b = d * (m - 1) + 0 /\ m - 1 \in Nat
    BY <2>0, <2>1, <1>1, <1>3
  <2>3. b \div d = m - 1 /\ b % d = 0 /\ b \in Nat
    <3>1. 0 \in 0 .. d - 1 /\ d * (m - 1) \in Nat
      BY <2>2, <1>1, Product
    <3> HIDE DEF b
    <3> QED BY <2>2, <3>1, <1>1, QuotientUnique
  <2>4. (m - 1) % 2 = 0
    BY <1>6
  <2>5. calc_buddy_index(b, o) = x
    <3>1. calc_buddy_index(b, o) = IF (b \div d) % 2 = 0 THEN b + d ELSE b - d
      BY DEF calc_buddy_index, d
    <3> QED BY <3>1, <2>1, <2>3, <2>4, <1>1
  <2>6. b % (2 * d) = 0
    <3>1. m - 1 = 2 * ((m - 1) \div 2) /\ (m - 1) \div 2 \in Nat
      BY <2>4, <2>2
    <3>2. b = (2 * d) * ((m - 1) \div 2)
      BY <3>1, <1>1, <2>2
    <3>3. 2 * d \in Nat \ {0}
      BY <1>1
    <3> QED BY <3>1, <3>2, <3>3, MultipleOf
  <2>7. x = b + d
    BY <2>1, <1>1
  <2> QED BY <1>1, <2>3, <2>5, <2>6, <2>7 DEF Aligned, d
<1> QED BY <1>5, <1>6

\* The parent one order up starts at the lower of the two.
LEMMA ParentUp ==
    ASSUME NEW i \in Nat, NEW o \in Nat
    PROVE  LET x == Parent(i, o)
               b == calc_buddy_index(x, o)
           IN  /\ x \in Nat /\ Aligned(x, o) /\ b \in Nat /\ Aligned(b, o)
               /\ calc_buddy_index(b, o) = x
               /\ \/ b = x + 2^o /\ Parent(i, o + 1) = x
                  \/ x = b + 2^o /\ Parent(i, o + 1) = b
<1> DEFINE x == Parent(i, o)
           b == calc_buddy_index(x, o)
<1>1. x \in Nat /\ Aligned(x, o) /\ x <= i /\ i < x + 2^o
  BY ParentProp
<1>2. 2^o \in Nat /\ 2^(o + 1) = 2^o + 2^o /\ o + 1 \in Nat
  BY Powers
<1>3. /\ b \in Nat /\ Aligned(b, o) /\ calc_buddy_index(b, o) = x
      /\ \/ b = x + 2^o /\ Aligned(x, o + 1)
         \/ x = b + 2^o /\ Aligned(b, o + 1)
  BY <1>1, BuddyProp
<1> HIDE DEF b
<1>4. CASE b = x + 2^o /\ Aligned(x, o + 1)
  <2>1. x <= i /\ i < x + 2^(o + 1)
    BY <1>1, <1>2
  <2>2. Parent(i, o + 1) = x
    BY <1>1, <1>2, <1>4, <2>1, ParentIs
  <2> QED BY <1>1, <1>3, <1>4, <2>2 DEF b
<1>5. CASE x = b + 2^o /\ Aligned(b, o + 1)
  <2>1. b <= i /\ i < b + 2^(o + 1)
    BY <1>1, <1>2, <1>3, <1>5
  <2>2. Parent(i, o + 1) = b
    BY <1>2, <1>3, <1>5, <2>1, ParentIs
  <2> QED BY <1>1, <1>3, <1>5, <2>2 DEF b
<1> QED BY <1>3, <1>4, <1>5

-----------------------------------------------------------------------------
(* Lists                                                                   *)

LEMMA SeqOfElements ==
    ASSUME NEW S, NEW T, NEW l \in Seq(S), \A i \in 1 .. Len(l) : l[i] \in T
    PROVE  l \in Seq(T)
<1>1. l = [i \in 1 .. Len(l) |-> l[i]] /\ Len(l) \in Nat
  BY LenProperties
<1>2. l \in [1 .. Len(l) -> T]
  BY <1>1
<1> QED BY <1>1, <1>2, SeqDef

\* The list l has every element of S once, and nothing else.
Lists(l, S) == l \in Seq(S) /\ ToSet(l) = S /\ IsInjective(l)

LEMMA ListOfNothing == Lists(<< >>, {})
  BY DEF Lists, ToSet, IsInjective

LEMMA EmptyList ==
    ASSUME NEW S, Lists(<< >>, S)
    PROVE  S = {}
  BY DEF Lists, ToSet

LEMMA ListHead ==
    ASSUME NEW S, NEW l, Lists(l, S), l # << >>
    PROVE  Head(l) \in S
<1>1. l \in Seq(S)
  BY DEF Lists
<1> QED BY <1>1, HeadTailProperties

LEMMA ListAppend ==
    ASSUME NEW S, NEW l, Lists(l, S), NEW p, p \notin S
    PROVE  /\ Lists(Append(l, p), S \cup {p})
           /\ Len(Append(l, p)) = Len(l) + 1
<1> DEFINE m == Append(l, p)
           T == S \cup {p}
<1>1. l \in Seq(T) /\ p \in T
  BY SeqMonotonic DEF Lists
<1>2. /\ m \in Seq(T) /\ Len(m) = Len(l) + 1 /\ m[Len(l) + 1] = p
      /\ \A i \in 1 .. Len(l) : m[i] = l[i]
  BY <1>1, AppendProperties
<1> HIDE DEF m
<1>3. Len(l) \in Nat /\ DOMAIN l = 1 .. Len(l) /\ DOMAIN m = 1 .. Len(m)
  BY <1>1, <1>2, LenProperties
<1>4. \A i \in DOMAIN l : l[i] \in S /\ i \in DOMAIN m /\ m[i] = l[i]
  BY <1>2, <1>3 DEF Lists, ToSet
<1>5. \A i \in DOMAIN m : i = Len(l) + 1 \/ i \in DOMAIN l
  BY <1>2, <1>3
<1>6. Len(l) + 1 \in DOMAIN m
  BY <1>2, <1>3
<1>7. ToSet(m) = T
  <2>1. \A i \in DOMAIN m : m[i] \in T
    BY <1>2, <1>4, <1>5
  <2>2. ASSUME NEW x \in T PROVE \E i \in DOMAIN m : m[i] = x
    <3>1. CASE x = p
      BY <3>1, <1>2, <1>6
    <3>2. CASE x \in S
      <4>1. PICK i \in DOMAIN l : l[i] = x
        BY <3>2 DEF Lists, ToSet
      <4> QED BY <4>1, <1>4
    <3> QED BY <3>1, <3>2
  <2> QED BY <2>1, <2>2 DEF ToSet
<1>8. IsInjective(m)
  <2> SUFFICES ASSUME NEW i \in DOMAIN m, NEW j \in DOMAIN m, m[i] = m[j]
               PROVE  i = j
    BY DEF IsInjective
  <2>1. CASE i = Len(l) + 1 \/ j = Len(l) + 1
    BY <2>1, <1>2, <1>4, <1>5
  <2>2. CASE i # Len(l) + 1 /\ j # Len(l) + 1
    BY <2>2, <1>4, <1>5 DEF Lists, IsInjective
  <2> QED BY <2>1, <2>2
<1> QED BY <1>2, <1>7, <1>8 DEF Lists, m

LEMMA ListRemove ==
    ASSUME NEW S, NEW l, Lists(l, S), NEW p \in S
    PROVE  /\ Lists(RemoveFirst(l, p), S \ {p})
           /\ Len(RemoveFirst(l, p)) = Len(l) - 1
<1>1. /\ l \in Seq(S) /\ Len(l) \in Nat /\ DOMAIN l = 1 .. Len(l)
      /\ \A i, j \in DOMAIN l : l[i] = l[j] => i = j
      /\ ToSet(l) = S
  BY LenProperties DEF Lists, IsInjective
<1>2. PICK k \in DOMAIN l : l[k] = p
  BY <1>1 DEF ToSet
<1> DEFINE m == RemoveAt(l, k)
<1>3. RemoveFirst(l, p) = m
  <2>1. {i \in 1 .. Len(l) : l[i] = p} = {k}
    BY <1>1, <1>2
  <2>2. Min({k}) = k
    BY <1>1, <1>2 DEF Min
  <2>3. SelectInSeq(l, LAMBDA v : v = p) = k
    BY <2>1, <2>2 DEF SelectInSeq
  <2> QED BY <1>1, <1>2, <2>3 DEF RemoveFirst
<1>4. /\ SubSeq(l, 1, k - 1) \in Seq(S) /\ Len(SubSeq(l, 1, k - 1)) = k - 1
      /\ \A i \in 1 .. k - 1 : SubSeq(l, 1, k - 1)[i] = l[i]
  BY <1>1, <1>2
<1>5. /\ SubSeq(l, k + 1, Len(l)) \in Seq(S)
      /\ Len(SubSeq(l, k + 1, Len(l))) = Len(l) - k
      /\ \A i \in 1 .. Len(l) - k : SubSeq(l, k + 1, Len(l))[i] = l[k + i]
  BY <1>1, <1>2
<1>6. /\ m \in Seq(S) /\ Len(m) = Len(l) - 1
      /\ \A i \in 1 .. Len(m) : m[i] = IF i < k THEN l[i] ELSE l[i + 1]
  <2> DEFINE a == SubSeq(l, 1, k - 1)
             b == SubSeq(l, k + 1, Len(l))
  <2>1. m = a \o b
    BY DEF RemoveAt
  <2>2. /\ a \in Seq(S) /\ Len(a) = k - 1
        /\ \A i \in 1 .. k - 1 : a[i] = l[i]
    BY <1>4
  <2>3. /\ b \in Seq(S) /\ Len(b) = Len(l) - k
        /\ \A i \in 1 .. Len(l) - k : b[i] = l[k + i]
    BY <1>5
  <2> HIDE DEF a, b, m
  <2>4. /\ a \o b \in Seq(S) /\ Len(a \o b) = Len(a) + Len(b)
        /\ \A i \in 1 .. Len(a) + Len(b) :
              (a \o b)[i] = IF i <= Len(a) THEN a[i] ELSE b[i - Len(a)]
    BY <2>2, <2>3, ConcatProperties
  <2>5. k \in 1 .. Len(l) /\ Len(l) \in Nat
    BY <1>1, <1>2
  <2>6. Len(m) = Len(l) - 1 /\ m \in Seq(S)
    BY <2>1, <2>2, <2>3, <2>4, <2>5
  <2>7. ASSUME NEW i \in 1 .. Len(m)
        PROVE  m[i] = IF i < k THEN l[i] ELSE l[i + 1]
    <3>1. m[i] = IF i <= k - 1 THEN a[i] ELSE b[i - (k - 1)]
      BY <2>1, <2>2, <2>3, <2>4, <2>5, <2>6
    <3>2. CASE i < k
      BY <3>1, <3>2, <2>2, <2>5, <2>6
    <3>3. CASE ~(i < k)
      <4>1. i - (k - 1) \in 1 .. Len(l) - k /\ k + (i - (k - 1)) = i + 1
        BY <3>3, <2>5, <2>6
      <4>2. b[i - (k - 1)] = l[k + (i - (k - 1))]
        BY <4>1, <2>3
      <4>3. ~(i <= k - 1)
        BY <3>3, <2>5, <2>6
      <4> QED BY <3>1, <3>3, <4>1, <4>2, <4>3
    <3> QED BY <3>2, <3>3
  <2> QED BY <2>6, <2>7
<1> HIDE DEF m
<1>7. DOMAIN m = 1 .. Len(m) /\ Len(m) \in Nat
  BY <1>6, LenProperties
<1> DEFINE at(i) == IF i < k THEN i ELSE i + 1
           to(i) == IF i < k THEN i ELSE i - 1
<1>8. \A i \in DOMAIN m : /\ at(i) \in DOMAIN l /\ at(i) # k /\ m[i] = l[at(i)]
  BY <1>1, <1>2, <1>6, <1>7
<1>9. \A i \in DOMAIN l : i # k => to(i) \in DOMAIN m /\ m[to(i)] = l[i]
  BY <1>1, <1>2, <1>6, <1>7
<1>10. \A i, j \in DOMAIN m : at(i) = at(j) => i = j
  BY <1>1, <1>2, <1>7
<1> HIDE DEF at, to
<1>11. ToSet(m) = S \ {p}
  <2>1. \A i \in DOMAIN m : m[i] \in S /\ m[i] # p
    BY <1>1, <1>2, <1>8 DEF ToSet
  <2>2. ASSUME NEW x \in S \ {p} PROVE \E i \in DOMAIN m : m[i] = x
    <3>1. PICK i \in DOMAIN l : l[i] = x
      BY <1>1 DEF ToSet
    <3> QED BY <3>1, <1>2, <1>9
  <2> QED BY <2>1, <2>2 DEF ToSet
<1>12. IsInjective(m)
  BY <1>1, <1>8, <1>10 DEF IsInjective
<1>13. m \in Seq(S \ {p})
  <2>1. \A i \in 1 .. Len(m) : m[i] \in S \ {p}
    BY <1>11, <1>7 DEF ToSet
  <2> QED BY <2>1, <1>6, SeqOfElements
<1> QED BY <1>3, <1>6, <1>11, <1>12, <1>13 DEF Lists

-----------------------------------------------------------------------------
(* The array of page_info_t and the pages that its free blocks cover       *)

Orders == 0 .. MAX_ORDER
PageInfo == [order : Orders, is_free : BOOLEAN]
Infos(n) == [0 .. n - 1 -> PageInfo]

\* The two changes of an entry.
Marked(pg, idx, o) == [pg EXCEPT ![idx] = [order |-> o, is_free |-> TRUE]]
Cleared(pg, idx) == [pg EXCEPT ![idx].is_free = FALSE]

Covered(pg, n) ==
    {k \in 0 .. n - 1 : \E i \in 0 .. n - 1 :
        pg[i].is_free /\ i <= k /\ k < i + 2^pg[i].order}

\* Free blocks are aligned, lie in the zone and do not overlap.
Laid(pg, n) ==
    /\ \A i \in 0 .. n - 1 : pg[i].is_free =>
          Aligned(i, pg[i].order) /\ i + 2^pg[i].order <= n
    /\ \A i, j \in 0 .. n - 1 : pg[i].is_free /\ pg[j].is_free /\ i < j =>
          i + 2^pg[i].order <= j

LEMMA OrderSize ==
    ASSUME NEW o \in Orders
    PROVE  o \in Nat /\ 2^o \in Nat \ {0}
<1>1. o \in Nat
  BY ConstantsAssumption DEF Orders
<1> QED BY <1>1, Powers

LEMMA InfoType ==
    ASSUME NEW n \in Nat, NEW pg \in Infos(n), NEW i \in 0 .. n - 1
    PROVE  /\ pg[i].order \in Orders /\ pg[i].is_free \in BOOLEAN
           /\ 2^pg[i].order \in Nat \ {0} /\ i \in Nat
           /\ pg[i] = [order |-> pg[i].order, is_free |-> pg[i].is_free]
<1>1. pg[i] \in PageInfo /\ i \in Nat
  BY DEF Infos
<1>2. pg[i].order \in Orders /\ pg[i].is_free \in BOOLEAN
  BY <1>1 DEF PageInfo
<1> QED BY <1>1, <1>2, OrderSize DEF PageInfo

LEMMA LaidAdd ==
    ASSUME NEW n \in Nat, NEW pg \in Infos(n), Laid(pg, n),
           NEW idx \in Nat, NEW o \in Orders,
           Aligned(idx, o), idx + 2^o <= n,
           Block(idx, o) \cap Covered(pg, n) = {}
    PROVE  LET qg == Marked(pg, idx, o)
           IN  /\ qg \in Infos(n) /\ Laid(qg, n)
               /\ Covered(qg, n) = Covered(pg, n) \cup Block(idx, o)
               /\ ~pg[idx].is_free /\ idx \in 0 .. n - 1
<1> DEFINE qg == Marked(pg, idx, o)
           s == 2^o
<1>1. s \in Nat \ {0} /\ idx \in 0 .. n - 1
  BY OrderSize
<1>2. /\ qg \in Infos(n) /\ qg[idx].is_free /\ qg[idx].order = o
      /\ \A i \in 0 .. n - 1 : i # idx => qg[i] = pg[i]
  BY <1>1 DEF Infos, PageInfo, Marked
<1>3. \A k : k \in Block(idx, o) <=> k \in Int /\ idx <= k /\ k < idx + s
  BY <1>1 DEF Block
<1>4. Aligned(idx, o) /\ idx + s <= n
  OBVIOUS
<1>5. qg[idx].is_free /\ 2^qg[idx].order = s
  BY <1>2
<1> HIDE DEF qg, s
<1>6. \A i, k \in 0 .. n - 1 :
         pg[i].is_free /\ i <= k /\ k < i + 2^pg[i].order => ~(idx <= k /\ k < idx + s)
  BY <1>3 DEF Covered
<1>7. ~pg[idx].is_free
  <2>1. 2^pg[idx].order \in Nat \ {0}
    BY <1>1, InfoType
  <2>2. idx < idx + 2^pg[idx].order /\ idx < idx + s
    BY <2>1, <1>1
  <2> QED BY <2>2, <1>1, <1>6
<1>8. ASSUME NEW i \in 0 .. n - 1, pg[i].is_free
      PROVE  i # idx /\ (i < idx => i + 2^pg[i].order <= idx)
                     /\ (idx < i => idx + s <= i)
  <2>1. 2^pg[i].order \in Nat \ {0} /\ i + 2^pg[i].order <= n
    BY <1>8, InfoType DEF Laid
  <2>2. i # idx
    BY <1>7, <1>8
  <2>3. ~(idx <= i /\ i < idx + s)
    BY <2>1, <1>6, <1>8
  <2>4. i < idx => ~(idx < i + 2^pg[i].order)
    BY <2>1, <1>1, <1>6, <1>8
  <2> QED BY <2>1, <2>2, <2>3, <2>4, <1>1
<1>9. Laid(qg, n)
  <2>1. ASSUME NEW i \in 0 .. n - 1, qg[i].is_free
        PROVE  Aligned(i, qg[i].order) /\ i + 2^qg[i].order <= n
    BY <2>1, <1>2, <1>4, <1>5 DEF Laid
  <2>2. ASSUME NEW i \in 0 .. n - 1, NEW j \in 0 .. n - 1,
               qg[i].is_free, qg[j].is_free, i < j
        PROVE  i + 2^qg[i].order <= j
    BY <2>2, <1>2, <1>5, <1>8 DEF Laid
  <2> QED BY <2>1, <2>2 DEF Laid
<1>10. ASSUME NEW k \in 0 .. n - 1
       PROVE  (k \in Covered(qg, n)) <=> (k \in Covered(pg, n) \cup Block(idx, o))
  <2>1. ASSUME k \in Covered(qg, n) PROVE k \in Covered(pg, n) \cup Block(idx, o)
    BY <2>1, <1>2, <1>3, <1>5 DEF Covered
  <2>2. ASSUME k \in Covered(pg, n) PROVE k \in Covered(qg, n)
    BY <2>2, <1>2, <1>7 DEF Covered
  <2>3. ASSUME k \in Block(idx, o) PROVE k \in Covered(qg, n)
    BY <2>3, <1>1, <1>3, <1>5 DEF Covered
  <2> QED BY <2>1, <2>2, <2>3
<1>11. Covered(qg, n) = Covered(pg, n) \cup Block(idx, o)
  <2>1. Covered(pg, n) \subseteq 0 .. n - 1 /\ Covered(qg, n) \subseteq 0 .. n - 1
    BY DEF Covered
  <2>2. Block(idx, o) \subseteq 0 .. n - 1
    BY <1>1, <1>3, <1>4
  <2> QED BY <2>1, <2>2, <1>10
<1> QED BY <1>1, <1>2, <1>7, <1>9, <1>11 DEF qg

LEMMA LaidRemove ==
    ASSUME NEW n \in Nat, NEW pg \in Infos(n), Laid(pg, n),
           NEW idx \in 0 .. n - 1, NEW o, o = pg[idx].order, pg[idx].is_free
    PROVE  LET qg == Cleared(pg, idx)
           IN  /\ qg \in Infos(n) /\ Laid(qg, n)
               /\ Covered(qg, n) = Covered(pg, n) \ Block(idx, o)
               /\ Block(idx, o) \subseteq Covered(pg, n)
<1> DEFINE qg == Cleared(pg, idx)
           s == 2^o
<1>1. s \in Nat \ {0} /\ o \in Orders
  BY InfoType
<1>2. /\ qg \in Infos(n) /\ ~qg[idx].is_free
      /\ \A i \in 0 .. n - 1 : i # idx => qg[i] = pg[i]
  BY DEF Infos, PageInfo, Cleared
<1>3. \A k : k \in Block(idx, o) <=> k \in Int /\ idx <= k /\ k < idx + s
  BY <1>1 DEF Block
<1>4. idx + s <= n /\ 2^pg[idx].order = s
  BY DEF Laid
<1> HIDE DEF qg, s
<1>5. Laid(qg, n)
  BY <1>2 DEF Laid
<1>6. ASSUME NEW i \in 0 .. n - 1, pg[i].is_free, i # idx,
             NEW k \in 0 .. n - 1, i <= k, k < i + 2^pg[i].order
      PROVE  ~(idx <= k /\ k < idx + s)
  <2>1. 2^pg[i].order \in Nat
    BY InfoType
  <2>2. CASE i < idx
    <3>1. i + 2^pg[i].order <= idx
      BY <2>2, <1>6 DEF Laid
    <3> QED BY <3>1, <2>1, <1>6
  <2>3. CASE idx < i
    <3>1. idx + s <= i
      BY <2>3, <1>4, <1>6 DEF Laid
    <3> QED BY <3>1, <2>1, <1>1, <1>6
  <2> QED BY <2>2, <2>3, <1>6
<1>7. ASSUME NEW k \in 0 .. n - 1
      PROVE  (k \in Covered(qg, n)) <=> (k \in Covered(pg, n) \ Block(idx, o))
  <2>1. ASSUME k \in Covered(qg, n) PROVE k \in Covered(pg, n) \ Block(idx, o)
    <3>1. PICK i \in 0 .. n - 1 : qg[i].is_free /\ i <= k /\ k < i + 2^qg[i].order
      BY <2>1 DEF Covered
    <3>2. i # idx /\ qg[i] = pg[i]
      BY <3>1, <1>2
    <3> QED BY <3>1, <3>2, <1>3, <1>6 DEF Covered
  <2>2. ASSUME k \in Covered(pg, n) \ Block(idx, o) PROVE k \in Covered(qg, n)
    <3>1. PICK i \in 0 .. n - 1 : pg[i].is_free /\ i <= k /\ k < i + 2^pg[i].order
      BY <2>2 DEF Covered
    <3>2. i # idx
      BY <3>1, <2>2, <1>3, <1>4
    <3> QED BY <3>1, <3>2, <1>2 DEF Covered
  <2> QED BY <2>1, <2>2
<1>8. Covered(qg, n) = Covered(pg, n) \ Block(idx, o)
  <2>1. Covered(pg, n) \subseteq 0 .. n - 1 /\ Covered(qg, n) \subseteq 0 .. n - 1
    BY DEF Covered
  <2> QED BY <2>1, <1>7
<1>9. Block(idx, o) \subseteq Covered(pg, n)
  BY <1>1, <1>3, <1>4 DEF Covered
<1> QED BY <1>2, <1>5, <1>8, <1>9 DEF qg

LEMMA BlockSize ==
    ASSUME NEW idx \in Nat, NEW o \in Orders
    PROVE  IsFiniteSet(Block(idx, o)) /\ Cardinality(Block(idx, o)) = 2^o
<1> DEFINE s == 2^o
           top == idx + s - 1
<1>1. s \in Nat \ {0}
  BY OrderSize
<1>2. Block(idx, o) = idx .. top
  BY DEF Block
<1> HIDE DEF s
<1>3. idx \in Int /\ top \in Int /\ ~(idx > top) /\ top - idx + 1 = s
  BY <1>1
<1> HIDE DEF top
<1>4. /\ IsFiniteSet(idx .. top)
      /\ Cardinality(idx .. top) = IF idx > top THEN 0 ELSE top - idx + 1
  BY <1>3, FS_Interval, Zenon
<1>5. IsFiniteSet(Block(idx, o)) /\ Cardinality(Block(idx, o)) = s
  BY <1>2, <1>3, <1>4
<1> QED BY <1>5 DEF s

LEMMA CoveredFinite ==
    ASSUME NEW n \in Nat, NEW pg
    PROVE  /\ IsFiniteSet(Covered(pg, n))
           /\ Cardinality(Covered(pg, n)) \in Nat
<1>1. 0 \in Int /\ n - 1 \in Int
  OBVIOUS
<1>2. IsFiniteSet(0 .. n - 1)
  BY <1>1, FS_Interval, Zenon
<1>3. Covered(pg, n) \in SUBSET (0 .. n - 1)
  BY DEF Covered
<1> QED BY <1>2, <1>3, FS_Subset, FS_CardinalityType

LEMMA CountAdd ==
    ASSUME NEW S, IsFiniteSet(S), NEW idx \in Nat, NEW o \in Orders,
           Block(idx, o) \cap S = {}
    PROVE  Cardinality(S \cup Block(idx, o)) = Cardinality(S) + 2^o
<1> DEFINE B == Block(idx, o)
           s == 2^o
<1>1. IsFiniteSet(B) /\ Cardinality(B) = s /\ s \in Nat
  BY BlockSize, OrderSize
<1>2. Cardinality(S \cup B) = Cardinality(S) + Cardinality(B) - Cardinality(S \cap B)
  BY <1>1, FS_Union
<1>3. S \cap B = {}
  OBVIOUS
<1>4. Cardinality(S \cap B) = 0 /\ Cardinality(S) \in Nat
  BY <1>3, FS_EmptySet, FS_CardinalityType
<1> QED BY <1>1, <1>2, <1>4

LEMMA CountRemove ==
    ASSUME NEW S, IsFiniteSet(S), NEW idx \in Nat, NEW o \in Orders,
           Block(idx, o) \subseteq S
    PROVE  /\ Cardinality(S \ Block(idx, o)) = Cardinality(S) - 2^o
           /\ Cardinality(S \ Block(idx, o)) \in Nat
<1> DEFINE B == Block(idx, o)
           s == 2^o
<1>1. IsFiniteSet(B) /\ Cardinality(B) = s /\ s \in Nat
  BY BlockSize, OrderSize
<1>2. IsFiniteSet(S \ B) /\ Cardinality(S \ B) = Cardinality(S) - Cardinality(S \cap B)
  BY FS_Difference
<1>3. S \cap B = B
  OBVIOUS
<1>4. Cardinality(S \ B) \in Nat
  BY <1>2, FS_CardinalityType
<1> QED BY <1>1, <1>2, <1>3, <1>4

-----------------------------------------------------------------------------
(* Zones                                                                   *)

AtOrder(pg, n, o) ==
    {i \in 0 .. n - 1 : pg[i] = [order |-> o, is_free |-> TRUE]}

\* The change of one list or counter.
Put(f, o, v) == [f EXCEPT ![o] = v]

\* Each list has the free blocks of its order, and its counter their number.
Listed(fl, fc, pg, n) ==
    /\ fl = [o \in Orders |-> fl[o]] /\ fc = [o \in Orders |-> fc[o]]
    /\ \A o \in Orders : Lists(fl[o], AtOrder(pg, n, o)) /\ fc[o] = Len(fl[o])

Shape(z) ==
    z = [base_phys |-> z.base_phys, total_pages |-> z.total_pages,
         pages |-> z.pages, free_list |-> z.free_list,
         free_count |-> z.free_count, total_free |-> z.total_free]

Sane(z) ==
    /\ Shape(z)
    /\ z.base_phys \in Nat /\ z.total_pages \in Nat
    /\ z.pages \in Infos(z.total_pages) /\ Laid(z.pages, z.total_pages)
    /\ Listed(z.free_list, z.free_count, z.pages, z.total_pages)
    /\ z.total_free = Cardinality(Covered(z.pages, z.total_pages))

FreePages(z) == Covered(z.pages, z.total_pages)

LEMMA ListedAdd ==
    ASSUME NEW n \in Nat, NEW pg \in Infos(n), NEW fl, NEW fc,
           Listed(fl, fc, pg, n), NEW idx \in 0 .. n - 1, NEW o \in Orders,
           ~pg[idx].is_free
    PROVE  Listed(Put(fl, o, Append(fl[o], idx)),
                  Put(fc, o, fc[o] + 1),
                  Marked(pg, idx, o), n)
<1> DEFINE qg == Marked(pg, idx, o)
           gl == Put(fl, o, Append(fl[o], idx))
           gc == Put(fc, o, fc[o] + 1)
<1>1. /\ qg[idx] = [order |-> o, is_free |-> TRUE]
      /\ \A i \in 0 .. n - 1 : i # idx => qg[i] = pg[i]
  BY DEF Infos, PageInfo, Marked
<1>2. \A p \in Orders : idx \notin AtOrder(pg, n, p)
  BY DEF AtOrder
<1> HIDE DEF qg
<1>3. AtOrder(qg, n, o) = AtOrder(pg, n, o) \cup {idx}
  BY <1>1 DEF AtOrder
<1>4. \A p \in Orders : p # o => AtOrder(qg, n, p) = AtOrder(pg, n, p)
  <2> SUFFICES ASSUME NEW p \in Orders, p # o
               PROVE  AtOrder(qg, n, p) = AtOrder(pg, n, p)
    OBVIOUS
  <2>1. qg[idx] # [order |-> p, is_free |-> TRUE]
    BY <1>1
  <2>2. pg[idx] # [order |-> p, is_free |-> TRUE]
    OBVIOUS
  <2> QED BY <2>1, <2>2, <1>1 DEF AtOrder
<1>5. /\ fl = [p \in Orders |-> fl[p]] /\ fc = [p \in Orders |-> fc[p]]
      /\ \A p \in Orders : Lists(fl[p], AtOrder(pg, n, p)) /\ fc[p] = Len(fl[p])
  BY DEF Listed
<1>6. /\ gl[o] = Append(fl[o], idx) /\ gc[o] = fc[o] + 1
      /\ \A p \in Orders : p # o => gl[p] = fl[p] /\ gc[p] = fc[p]
      /\ gl = [p \in Orders |-> gl[p]] /\ gc = [p \in Orders |-> gc[p]]
  BY <1>5 DEF Put
<1> HIDE DEF gl, gc
<1>7. /\ Lists(Append(fl[o], idx), AtOrder(pg, n, o) \cup {idx})
      /\ Len(Append(fl[o], idx)) = Len(fl[o]) + 1
  BY <1>2, <1>5, ListAppend
<1>8. \A p \in Orders : Lists(gl[p], AtOrder(qg, n, p)) /\ gc[p] = Len(gl[p])
  <2> SUFFICES ASSUME NEW p \in Orders
               PROVE  Lists(gl[p], AtOrder(qg, n, p)) /\ gc[p] = Len(gl[p])
    OBVIOUS
  <2>1. CASE p = o
    BY <2>1, <1>3, <1>5, <1>6, <1>7
  <2>2. CASE p # o
    BY <2>2, <1>4, <1>5, <1>6
  <2> QED BY <2>1, <2>2
<1>9. Listed(gl, gc, qg, n)
  BY <1>6, <1>8 DEF Listed
<1> QED BY <1>9 DEF gl, gc, qg

LEMMA ListedRemove ==
    ASSUME NEW n \in Nat, NEW pg \in Infos(n), NEW fl, NEW fc,
           Listed(fl, fc, pg, n), NEW idx \in 0 .. n - 1, NEW o \in Orders,
           pg[idx] = [order |-> o, is_free |-> TRUE]
    PROVE  Listed(Put(fl, o, RemoveFirst(fl[o], idx)),
                  Put(fc, o, fc[o] - 1),
                  Cleared(pg, idx), n)
<1> DEFINE qg == Cleared(pg, idx)
           gl == Put(fl, o, RemoveFirst(fl[o], idx))
           gc == Put(fc, o, fc[o] - 1)
<1>1. /\ ~qg[idx].is_free
      /\ \A i \in 0 .. n - 1 : i # idx => qg[i] = pg[i]
  BY DEF Infos, PageInfo, Cleared
<1> HIDE DEF qg
<1>2. idx \in AtOrder(pg, n, o)
  BY DEF AtOrder
<1>3. AtOrder(qg, n, o) = AtOrder(pg, n, o) \ {idx}
  BY <1>1 DEF AtOrder
<1>4. \A p \in Orders : p # o => AtOrder(qg, n, p) = AtOrder(pg, n, p)
  <2> SUFFICES ASSUME NEW p \in Orders, p # o
               PROVE  AtOrder(qg, n, p) = AtOrder(pg, n, p)
    OBVIOUS
  <2>1. qg[idx] # [order |-> p, is_free |-> TRUE]
    BY <1>1
  <2>2. pg[idx] # [order |-> p, is_free |-> TRUE]
    OBVIOUS
  <2> QED BY <2>1, <2>2, <1>1 DEF AtOrder
<1>5. /\ fl = [p \in Orders |-> fl[p]] /\ fc = [p \in Orders |-> fc[p]]
      /\ \A p \in Orders : Lists(fl[p], AtOrder(pg, n, p)) /\ fc[p] = Len(fl[p])
  BY DEF Listed
<1>6. /\ gl[o] = RemoveFirst(fl[o], idx) /\ gc[o] = fc[o] - 1
      /\ \A p \in Orders : p # o => gl[p] = fl[p] /\ gc[p] = fc[p]
      /\ gl = [p \in Orders |-> gl[p]] /\ gc = [p \in Orders |-> gc[p]]
  BY <1>5 DEF Put
<1> HIDE DEF gl, gc
<1>7. /\ Lists(RemoveFirst(fl[o], idx), AtOrder(pg, n, o) \ {idx})
      /\ Len(RemoveFirst(fl[o], idx)) = Len(fl[o]) - 1
  BY <1>2, <1>5, ListRemove
<1>8. \A p \in Orders : Lists(gl[p], AtOrder(qg, n, p)) /\ gc[p] = Len(gl[p])
  <2> SUFFICES ASSUME NEW p \in Orders
               PROVE  Lists(gl[p], AtOrder(qg, n, p)) /\ gc[p] = Len(gl[p])
    OBVIOUS
  <2>1. CASE p = o
    BY <2>1, <1>3, <1>5, <1>6, <1>7
  <2>2. CASE p # o
    BY <2>2, <1>4, <1>5, <1>6
  <2> QED BY <2>1, <2>2
<1>9. Listed(gl, gc, qg, n)
  BY <1>6, <1>8 DEF Listed
<1> QED BY <1>9 DEF gl, gc, qg

LEMMA AddFields ==
    ASSUME NEW z, Shape(z), NEW idx, NEW o
    PROVE  LET w == buddy_add_free(z, idx, o)
           IN  /\ Shape(w)
               /\ w.base_phys = z.base_phys /\ w.total_pages = z.total_pages
               /\ w.pages = Marked(z.pages, idx, o)
               /\ w.free_list = Put(z.free_list, o, Append(z.free_list[o], idx))
               /\ w.free_count = Put(z.free_count, o, z.free_count[o] + 1)
               /\ w.total_free = z.total_free + 2^o
<1> DEFINE w == buddy_add_free(z, idx, o)
           D == {"base_phys", "total_pages", "pages", "free_list",
                 "free_count", "total_free"}
<1>1. DOMAIN z = D
  BY DEF Shape
<1>2. z = [f \in D |-> z[f]]
  BY <1>1 DEF Shape
<1>3. /\ w = [f \in D |-> w[f]]
      /\ w.base_phys = z.base_phys /\ w.total_pages = z.total_pages
      /\ w.pages = Marked(z.pages, idx, o)
      /\ w.free_list = Put(z.free_list, o, Append(z.free_list[o], idx))
      /\ w.free_count = Put(z.free_count, o, z.free_count[o] + 1)
      /\ w.total_free = z.total_free + 2^o
  BY <1>2 DEF buddy_add_free, Marked, Put
<1>4. Shape(w)
  <2> HIDE DEF w
  <2> QED BY <1>3 DEF Shape
<1> QED BY <1>3, <1>4

LEMMA RemoveFields ==
    ASSUME NEW z, Shape(z), NEW idx, NEW o
    PROVE  LET w == buddy_remove_free(z, idx, o)
           IN  /\ Shape(w)
               /\ w.base_phys = z.base_phys /\ w.total_pages = z.total_pages
               /\ w.pages = Cleared(z.pages, idx)
               /\ w.free_list = Put(z.free_list, o, RemoveFirst(z.free_list[o], idx))
               /\ w.free_count = Put(z.free_count, o, z.free_count[o] - 1)
               /\ w.total_free = z.total_free - 2^o
<1> DEFINE w == buddy_remove_free(z, idx, o)
           D == {"base_phys", "total_pages", "pages", "free_list",
                 "free_count", "total_free"}
<1>1. DOMAIN z = D
  BY DEF Shape
<1>2. z = [f \in D |-> z[f]]
  BY <1>1 DEF Shape
<1>3. /\ w = [f \in D |-> w[f]]
      /\ w.base_phys = z.base_phys /\ w.total_pages = z.total_pages
      /\ w.pages = Cleared(z.pages, idx)
      /\ w.free_list = Put(z.free_list, o, RemoveFirst(z.free_list[o], idx))
      /\ w.free_count = Put(z.free_count, o, z.free_count[o] - 1)
      /\ w.total_free = z.total_free - 2^o
  BY <1>2 DEF buddy_remove_free, Cleared, Put
<1>4. Shape(w)
  <2> HIDE DEF w
  <2> QED BY <1>3 DEF Shape
<1> QED BY <1>3, <1>4

\* z and w describe the same memory.
SameZone(z, w) == w.base_phys = z.base_phys /\ w.total_pages = z.total_pages

\* The pages of z and w differ in the set S only.
SameBut(z, w, S) == \A k \in Pages(z) \ S : w.pages[k] = z.pages[k]

LEMMA AddProp ==
    ASSUME NEW z, Sane(z), NEW idx \in Nat, NEW o \in Orders,
           Aligned(idx, o), idx + 2^o <= z.total_pages,
           Block(idx, o) \cap FreePages(z) = {}
    PROVE  LET w == buddy_add_free(z, idx, o)
           IN  /\ Sane(w) /\ SameZone(z, w)
               /\ FreePages(w) = FreePages(z) \cup Block(idx, o)
               /\ w.pages[idx] = [order |-> o, is_free |-> TRUE]
               /\ SameBut(z, w, {idx})
               /\ idx \in Pages(z)
<1> DEFINE w == buddy_add_free(z, idx, o)
           n == z.total_pages
           qg == Marked(z.pages, idx, o)
<1>1. /\ Shape(w) /\ w.base_phys = z.base_phys /\ w.total_pages = z.total_pages
      /\ w.pages = qg
      /\ w.free_list = Put(z.free_list, o, Append(z.free_list[o], idx))
      /\ w.free_count = Put(z.free_count, o, z.free_count[o] + 1)
      /\ w.total_free = z.total_free + 2^o
  <2>1. Shape(z)
    BY DEF Sane
  <2> QED BY <2>1, AddFields
<1> HIDE DEF w
<1>2. n \in Nat /\ z.pages \in Infos(n) /\ Laid(z.pages, n) /\ z.base_phys \in Nat
  BY DEF Sane
<1>3. /\ qg \in Infos(n) /\ Laid(qg, n)
      /\ Covered(qg, n) = Covered(z.pages, n) \cup Block(idx, o)
      /\ ~z.pages[idx].is_free /\ idx \in 0 .. n - 1
  BY <1>2, LaidAdd DEF FreePages
<1>4. Listed(w.free_list, w.free_count, w.pages, w.total_pages)
  <2>1. Listed(z.free_list, z.free_count, z.pages, n)
    BY DEF Sane
  <2> QED BY <2>1, <1>1, <1>2, <1>3, ListedAdd
<1>5. /\ IsFiniteSet(Covered(z.pages, n))
      /\ z.total_free = Cardinality(Covered(z.pages, n))
  BY <1>2, CoveredFinite DEF Sane
<1>6. w.total_free = Cardinality(Covered(w.pages, w.total_pages))
  <2> DEFINE C == Covered(z.pages, n)
  <2>1. Block(idx, o) \cap C = {} /\ IsFiniteSet(C)
    BY <1>5 DEF FreePages
  <2> HIDE DEF C
  <2>2. Cardinality(C \cup Block(idx, o)) = Cardinality(C) + 2^o
    BY <2>1, CountAdd
  <2> QED BY <2>2, <1>1, <1>3, <1>5 DEF C
<1>7. Sane(w)
  BY <1>1, <1>2, <1>3, <1>4, <1>6 DEF Sane
<1>8. /\ w.pages[idx] = [order |-> o, is_free |-> TRUE]
      /\ \A k \in 0 .. n - 1 : k # idx => w.pages[k] = z.pages[k]
  BY <1>1, <1>2, <1>3 DEF Infos, Marked
<1> QED BY <1>1, <1>3, <1>7, <1>8 DEF SameZone, SameBut, FreePages, Pages, w

LEMMA RemoveProp ==
    ASSUME NEW z, Sane(z), NEW idx \in Pages(z), NEW o \in Orders,
           z.pages[idx] = [order |-> o, is_free |-> TRUE]
    PROVE  LET w == buddy_remove_free(z, idx, o)
           IN  /\ Sane(w) /\ SameZone(z, w)
               /\ FreePages(w) = FreePages(z) \ Block(idx, o)
               /\ Block(idx, o) \subseteq FreePages(z)
               /\ ~w.pages[idx].is_free
               /\ SameBut(z, w, {idx})
               /\ Aligned(idx, o) /\ idx + 2^o <= z.total_pages
<1> DEFINE w == buddy_remove_free(z, idx, o)
           n == z.total_pages
           qg == Cleared(z.pages, idx)
<1>1. /\ Shape(w) /\ w.base_phys = z.base_phys /\ w.total_pages = z.total_pages
      /\ w.pages = qg
      /\ w.free_list = Put(z.free_list, o, RemoveFirst(z.free_list[o], idx))
      /\ w.free_count = Put(z.free_count, o, z.free_count[o] - 1)
      /\ w.total_free = z.total_free - 2^o
  <2>1. Shape(z)
    BY DEF Sane
  <2> QED BY <2>1, RemoveFields
<1> HIDE DEF w
<1>2. /\ n \in Nat /\ z.pages \in Infos(n) /\ Laid(z.pages, n)
      /\ z.base_phys \in Nat /\ idx \in 0 .. n - 1
      /\ z.pages[idx].is_free /\ z.pages[idx].order = o /\ idx \in Nat
  BY DEF Sane, Pages
<1>3. /\ qg \in Infos(n) /\ Laid(qg, n)
      /\ Covered(qg, n) = Covered(z.pages, n) \ Block(idx, o)
      /\ Block(idx, o) \subseteq Covered(z.pages, n)
  <2> HIDE DEF n
  <2>1. o = z.pages[idx].order
    BY <1>2
  <2> HIDE DEF qg
  <2> QED BY <1>2, <2>1, LaidRemove DEF qg
<1>4. Listed(w.free_list, w.free_count, w.pages, w.total_pages)
  <2>1. Listed(z.free_list, z.free_count, z.pages, n)
    BY DEF Sane
  <2> QED BY <2>1, <1>1, <1>2, ListedRemove
<1>5. /\ IsFiniteSet(Covered(z.pages, n))
      /\ z.total_free = Cardinality(Covered(z.pages, n))
  BY <1>2, CoveredFinite DEF Sane
<1>6. w.total_free = Cardinality(Covered(w.pages, w.total_pages))
  <2> DEFINE C == Covered(z.pages, n)
  <2>1. Block(idx, o) \subseteq C /\ IsFiniteSet(C) /\ idx \in Nat
    BY <1>2, <1>3, <1>5
  <2> HIDE DEF C
  <2>2. Cardinality(C \ Block(idx, o)) = Cardinality(C) - 2^o
    BY <2>1, CountRemove
  <2> QED BY <2>2, <1>1, <1>3, <1>5 DEF C
<1>7. Sane(w)
  BY <1>1, <1>2, <1>3, <1>4, <1>6 DEF Sane
<1>8. /\ ~w.pages[idx].is_free
      /\ \A k \in 0 .. n - 1 : k # idx => w.pages[k] = z.pages[k]
  BY <1>1, <1>2, <1>3 DEF Infos, PageInfo, Cleared
<1>9. Aligned(idx, o) /\ idx + 2^o <= n
  BY <1>2 DEF Laid
<1> QED BY <1>1, <1>3, <1>7, <1>8, <1>9 DEF SameZone, SameBut, FreePages, Pages, w

\* An entry's order alone changes.
Tagged(pg, idx, o) == [pg EXCEPT ![idx].order = o]
Retag(z, idx, o) == [z EXCEPT !.pages[idx].order = o]

LEMMA TagFields ==
    ASSUME NEW z, Shape(z), NEW idx, NEW o
    PROVE  LET w == Retag(z, idx, o)
           IN  /\ Shape(w)
               /\ w.base_phys = z.base_phys /\ w.total_pages = z.total_pages
               /\ w.pages = Tagged(z.pages, idx, o)
               /\ w.free_list = z.free_list /\ w.free_count = z.free_count
               /\ w.total_free = z.total_free
<1> DEFINE w == Retag(z, idx, o)
           D == {"base_phys", "total_pages", "pages", "free_list",
                 "free_count", "total_free"}
<1>1. DOMAIN z = D
  BY DEF Shape
<1>2. z = [f \in D |-> z[f]]
  BY <1>1 DEF Shape
<1>3. /\ w = [f \in D |-> w[f]]
      /\ w.base_phys = z.base_phys /\ w.total_pages = z.total_pages
      /\ w.pages = Tagged(z.pages, idx, o)
      /\ w.free_list = z.free_list /\ w.free_count = z.free_count
      /\ w.total_free = z.total_free
  BY <1>2 DEF Retag, Tagged
<1>4. Shape(w)
  <2> HIDE DEF w
  <2> QED BY <1>3 DEF Shape
<1> QED BY <1>3, <1>4

\* No block has a buddy that it should have been merged with.
Merged(z) ==
    \A i \in Pages(z) :
       z.pages[i].is_free /\ z.pages[i].order < MAX_ORDER
          => ~Mergeable(z, i, z.pages[i].order)

LEMMA TagProp ==
    ASSUME NEW z, Sane(z), NEW idx \in Pages(z), NEW o \in Orders,
           ~z.pages[idx].is_free
    PROVE  LET w == Retag(z, idx, o)
           IN  /\ Sane(w) /\ SameZone(z, w)
               /\ FreePages(w) = FreePages(z)
               /\ w.pages[idx].order = o
               /\ SameBut(z, w, {idx})
               /\ Merged(z) => Merged(w)
<1> DEFINE w == Retag(z, idx, o)
           n == z.total_pages
           pg == z.pages
           qg == Tagged(pg, idx, o)
<1>1. /\ Shape(w) /\ w.base_phys = z.base_phys /\ w.total_pages = n
      /\ w.pages = qg
      /\ w.free_list = z.free_list /\ w.free_count = z.free_count
      /\ w.total_free = z.total_free
  <2>1. Shape(z)
    BY DEF Sane
  <2> QED BY <2>1, TagFields
<1> HIDE DEF w
<1>2. /\ n \in Nat /\ pg \in Infos(n) /\ Laid(pg, n) /\ z.base_phys \in Nat
      /\ Listed(z.free_list, z.free_count, pg, n)
      /\ z.total_free = Cardinality(Covered(pg, n)) /\ idx \in 0 .. n - 1
      /\ ~pg[idx].is_free /\ Pages(z) = 0 .. n - 1
  BY DEF Sane, Pages
<1> HIDE DEF n, pg
<1>3. /\ qg \in Infos(n) /\ ~qg[idx].is_free /\ qg[idx].order = o
      /\ \A i \in 0 .. n - 1 : i # idx => qg[i] = pg[i]
  BY <1>2 DEF Infos, PageInfo, Tagged
<1> HIDE DEF qg
<1>4. Laid(qg, n)
  BY <1>2, <1>3 DEF Laid
<1>5. Covered(qg, n) = Covered(pg, n)
  <2>1. \A i \in 0 .. n - 1 : (qg[i].is_free <=> pg[i].is_free)
           /\ (pg[i].is_free => qg[i].order = pg[i].order)
    BY <1>2, <1>3
  <2> QED BY <2>1 DEF Covered
<1>6. \A p \in Orders : AtOrder(qg, n, p) = AtOrder(pg, n, p)
  <2> SUFFICES ASSUME NEW p \in Orders
               PROVE  AtOrder(qg, n, p) = AtOrder(pg, n, p)
    OBVIOUS
  <2>1. /\ qg[idx] # [order |-> p, is_free |-> TRUE]
        /\ pg[idx] # [order |-> p, is_free |-> TRUE]
    BY <1>2, <1>3
  <2> QED BY <2>1, <1>3 DEF AtOrder
<1>7. Listed(z.free_list, z.free_count, qg, n)
  BY <1>2, <1>6 DEF Listed
<1>8. /\ Sane(w) /\ SameZone(z, w) /\ FreePages(w) = FreePages(z)
      /\ w.pages[idx].order = o /\ SameBut(z, w, {idx})
  BY <1>1, <1>2, <1>3, <1>4, <1>5, <1>7
  DEF Sane, SameZone, FreePages, SameBut, pg, n
<1>9. ASSUME Merged(z) PROVE Merged(w)
  <2>1. /\ Pages(w) = 0 .. n - 1 /\ w.total_pages = n /\ w.pages = qg
        /\ z.total_pages = n /\ z.pages = pg
    BY <1>1, <1>9 DEF Pages, n, pg
  <2> SUFFICES ASSUME NEW i \in 0 .. n - 1, qg[i].is_free,
                      qg[i].order < MAX_ORDER, Mergeable(w, i, qg[i].order)
               PROVE  FALSE
    BY <2>1 DEF Merged
  <2>2. i # idx /\ qg[i] = pg[i]
    BY <1>3
  <2> DEFINE b == calc_buddy_index(i, pg[i].order)
  <2>3. b < n /\ qg[b].is_free /\ qg[b].order = pg[i].order
    BY <2>1, <2>2 DEF Mergeable
  <2>4. Aligned(i, pg[i].order) /\ pg[i].order \in Nat /\ i \in Nat
    BY <2>2, <1>2, InfoType, OrderSize DEF Laid
  <2>5. b \in Nat
    BY <2>4, BuddyProp
  <2> HIDE DEF b
  <2>6. b \in 0 .. n - 1 /\ b # idx
    BY <2>3, <2>5, <1>2, <1>3
  <2>7. qg[b] = pg[b]
    BY <2>6, <1>3
  <2>8. Mergeable(z, i, pg[i].order)
    BY <2>1, <2>3, <2>7 DEF Mergeable, b
  <2> QED BY <2>1, <2>2, <2>8, <1>2, <1>9 DEF Merged
<1> QED BY <1>8, <1>9 DEF w

-----------------------------------------------------------------------------
(* What the two primitives keep merged                                     *)

LEMMA PageFacts ==
    ASSUME NEW z, Sane(z), NEW i \in Pages(z)
    PROVE  /\ i \in Nat /\ z.total_pages \in Nat /\ i < z.total_pages
           /\ z.pages[i].order \in Orders /\ z.pages[i].is_free \in BOOLEAN
           /\ z.pages[i] = [order |-> z.pages[i].order,
                            is_free |-> z.pages[i].is_free]
           /\ z.pages[i].is_free =>
                 /\ Aligned(i, z.pages[i].order)
                 /\ i + 2^z.pages[i].order <= z.total_pages
                 /\ i \in FreePages(z)
                 /\ Block(i, z.pages[i].order) \subseteq FreePages(z)
<1> DEFINE n == z.total_pages
           pg == z.pages
<1>1. /\ n \in Nat /\ pg \in Infos(n) /\ Laid(pg, n) /\ i \in 0 .. n - 1
      /\ FreePages(z) = Covered(pg, n)
  BY DEF Sane, Pages, FreePages
<1> HIDE DEF pg, n
<1>2. /\ pg[i].order \in Orders /\ pg[i].is_free \in BOOLEAN
      /\ 2^pg[i].order \in Nat \ {0} /\ i \in Nat
      /\ pg[i] = [order |-> pg[i].order, is_free |-> pg[i].is_free]
  BY <1>1, InfoType
<1>3. ASSUME pg[i].is_free
      PROVE  /\ Aligned(i, pg[i].order) /\ i + 2^pg[i].order <= n
             /\ i \in Covered(pg, n)
             /\ Block(i, pg[i].order) \subseteq Covered(pg, n)
  <2>1. Aligned(i, pg[i].order) /\ i + 2^pg[i].order <= n
    BY <1>1, <1>3 DEF Laid
  <2>2. i <= i /\ i < i + 2^pg[i].order
    BY <1>2
  <2>3. i \in Covered(pg, n)
    BY <1>1, <1>3, <2>2 DEF Covered
  <2>4. ASSUME NEW k \in Block(i, pg[i].order) PROVE k \in Covered(pg, n)
    <3>1. k \in Int /\ i <= k /\ k < i + 2^pg[i].order
      BY <1>2 DEF Block
    <3>2. k \in 0 .. n - 1
      BY <3>1, <2>1, <1>1, <1>2
    <3> QED BY <3>1, <3>2, <1>1, <1>3 DEF Covered
  <2> QED BY <2>1, <2>3, <2>4
<1> QED BY <1>1, <1>2, <1>3 DEF pg, n

LEMMA MergedAdd ==
    ASSUME NEW z, Sane(z), Merged(z), NEW w, Sane(w), SameZone(z, w),
           NEW idx \in Pages(z), NEW o \in Orders, SameBut(z, w, {idx}),
           w.pages[idx] = [order |-> o, is_free |-> TRUE],
           o = MAX_ORDER \/ ~Mergeable(z, idx, o)
    PROVE  Merged(w)
<1>1. Pages(w) = Pages(z) /\ w.total_pages = z.total_pages
  BY DEF SameZone, Pages
<1>2. \A k \in Pages(z) : k # idx => w.pages[k] = z.pages[k]
  BY DEF SameBut
<1> SUFFICES ASSUME NEW i \in Pages(w), w.pages[i].is_free,
                    w.pages[i].order < MAX_ORDER,
                    Mergeable(w, i, w.pages[i].order)
             PROVE  FALSE
  BY DEF Merged
<1> DEFINE p == w.pages[i].order
           b == calc_buddy_index(i, p)
<1>3. b < w.total_pages /\ w.pages[b].is_free /\ w.pages[b].order = p
  BY DEF Mergeable
<1>4. p \in Orders /\ Aligned(i, p) /\ i \in Nat /\ w.total_pages \in Nat
  BY PageFacts
<1>5. p < MAX_ORDER /\ p \in Nat /\ 2^p \in Nat \ {0}
  BY <1>4, OrderSize
<1>6. b \in Nat /\ calc_buddy_index(b, p) = i /\ (b = i + 2^p \/ i = b + 2^p)
  BY <1>4, <1>5, BuddyProp
<1>7. b = calc_buddy_index(i, p) /\ p = w.pages[i].order
  OBVIOUS
<1> HIDE DEF b, p
<1>8. b \in Pages(z) /\ b # i
  BY <1>1, <1>3, <1>4, <1>5, <1>6 DEF Pages
<1>9. CASE i = idx
  <2>1. p = o
    BY <1>7, <1>9
  <2>2. w.pages[b] = z.pages[b]
    BY <1>2, <1>8, <1>9
  <2>3. Mergeable(z, idx, o)
    BY <1>1, <1>3, <1>7, <1>9, <2>1, <2>2 DEF Mergeable
  <2>4. o < MAX_ORDER
    BY <1>5, <2>1
  <2>5. o # MAX_ORDER
    BY <2>4 DEF Orders
  <2> QED BY <2>3, <2>5
<1>10. CASE i # idx /\ b # idx
  <2>1. w.pages[b] = z.pages[b] /\ w.pages[i] = z.pages[i]
    BY <1>1, <1>2, <1>8, <1>10
  <2>2. Mergeable(z, i, p)
    BY <1>1, <1>3, <1>7, <2>1 DEF Mergeable
  <2> QED BY <1>1, <1>5, <1>7, <2>1, <2>2 DEF Merged
<1>11. CASE i # idx /\ b = idx
  <2>1. w.pages[i] = z.pages[i]
    BY <1>1, <1>2, <1>11
  <2>2. p = o
    BY <1>3, <1>11
  <2>3. calc_buddy_index(idx, o) = i
    BY <1>6, <1>11, <2>2
  <2>4. i < z.total_pages
    BY <1>1, <1>4 DEF Pages
  <2>5. Mergeable(z, idx, o)
    BY <1>7, <2>1, <2>2, <2>3, <2>4 DEF Mergeable
  <2>6. o < MAX_ORDER
    BY <1>5, <2>2
  <2>7. o # MAX_ORDER
    BY <2>6 DEF Orders
  <2> QED BY <2>5, <2>7
<1> QED BY <1>9, <1>10, <1>11

LEMMA MergedRemove ==
    ASSUME NEW z, Sane(z), Merged(z), NEW w, Sane(w), SameZone(z, w),
           NEW idx \in Pages(z), SameBut(z, w, {idx}), ~w.pages[idx].is_free
    PROVE  Merged(w)
<1>1. Pages(w) = Pages(z) /\ w.total_pages = z.total_pages
  BY DEF SameZone, Pages
<1>2. \A k \in Pages(z) : k # idx => w.pages[k] = z.pages[k]
  BY DEF SameBut
<1> SUFFICES ASSUME NEW i \in Pages(w), w.pages[i].is_free,
                    w.pages[i].order < MAX_ORDER,
                    Mergeable(w, i, w.pages[i].order)
             PROVE  FALSE
  BY DEF Merged
<1> DEFINE p == w.pages[i].order
           b == calc_buddy_index(i, p)
<1>3. b < w.total_pages /\ w.pages[b].is_free /\ w.pages[b].order = p
  BY DEF Mergeable
<1>4. p \in Orders /\ Aligned(i, p) /\ i \in Nat /\ w.total_pages \in Nat
  BY PageFacts
<1>5. b \in Nat
  BY <1>4, OrderSize, BuddyProp
<1>6. b = calc_buddy_index(i, p) /\ p = w.pages[i].order /\ p < MAX_ORDER
  OBVIOUS
<1> HIDE DEF b, p
<1>7. b \in Pages(z) /\ b # idx /\ i # idx
  BY <1>1, <1>3, <1>4, <1>5 DEF Pages
<1>8. w.pages[b] = z.pages[b] /\ w.pages[i] = z.pages[i]
  BY <1>1, <1>2, <1>7
<1>9. Mergeable(z, i, p)
  BY <1>1, <1>3, <1>6, <1>8 DEF Mergeable
<1> QED BY <1>1, <1>6, <1>8, <1>9 DEF Merged

-----------------------------------------------------------------------------
(* The split loop                                                          *)

\* f has the zones that the loop goes through, by the order reached.
SplitTable(f, z, idx, lo, hi) ==
    f = [o \in lo .. hi |->
           IF o = hi THEN z ELSE buddy_add_free(f[o + 1], idx + 2^o, o)]

LEMMA SplitExists ==
    ASSUME NEW z, NEW idx, NEW lo \in Int, NEW hi \in Int, lo <= hi
    PROVE  \E f : SplitTable(f, z, idx, lo, hi)
<1> DEFINE P(k) == \E f : SplitTable(f, z, idx, hi - k, hi)
           S == {k \in Int : P(k)}
<1>1. P(0)
  <2> DEFINE f == [o \in hi - 0 .. hi |-> z]
  <2>1. f = [o \in hi - 0 .. hi |->
               IF o = hi THEN z ELSE buddy_add_free(f[o + 1], idx + 2^o, o)]
    OBVIOUS
  <2> QED BY <2>1 DEF SplitTable
<1>2. ASSUME NEW k \in 0 .. (hi - lo) - 1, P(k) PROVE P(k + 1)
  <2>1. PICK f : f = [o \in hi - k .. hi |->
                        IF o = hi THEN z
                        ELSE buddy_add_free(f[o + 1], idx + 2^o, o)]
    BY <1>2 DEF SplitTable
  <2> DEFINE g == [o \in hi - (k + 1) .. hi |->
                     IF o = hi - (k + 1)
                     THEN buddy_add_free(f[o + 1], idx + 2^o, o) ELSE f[o]]
  <2>2. \A o \in hi - k .. hi : g[o] = f[o]
    OBVIOUS
  <2>3. ASSUME NEW o \in hi - (k + 1) .. hi
        PROVE  g[o] = IF o = hi THEN z
                      ELSE buddy_add_free(g[o + 1], idx + 2^o, o)
    <3>1. CASE o = hi - (k + 1)
      <4>1. o + 1 \in hi - k .. hi /\ o # hi
        BY <3>1
      <4> QED BY <4>1, <3>1, <2>2
    <3>2. CASE o # hi - (k + 1)
      <4>1. o \in hi - k .. hi
        BY <3>2
      <4>2. f[o] = IF o = hi THEN z
                   ELSE buddy_add_free(f[o + 1], idx + 2^o, o)
        BY <2>1, <4>1
      <4>3. o # hi => o + 1 \in hi - k .. hi
        BY <4>1
      <4> QED BY <4>1, <4>2, <4>3, <2>2
    <3> QED BY <3>1, <3>2
  <2>4. g = [o \in hi - (k + 1) .. hi |->
               IF o = hi THEN z ELSE buddy_add_free(g[o + 1], idx + 2^o, o)]
    BY <2>3
  <2> HIDE DEF g
  <2> QED BY <2>4 DEF SplitTable
<1> HIDE DEF P
<1>3. \A k \in 0 .. hi - lo : k \in S
  <2>1. 0 \in S /\ \A k \in 0 .. (hi - lo) - 1 : k \in S => k + 1 \in S
    BY <1>1, <1>2
  <2>2. 0 \in Int /\ hi - lo \in Int
    OBVIOUS
  <2> HIDE DEF S
  <2> QED BY <2>1, <2>2, Reaches
<1>4. P(hi - lo)
  BY <1>3
<1>5. hi - (hi - lo) = lo
  OBVIOUS
<1> QED BY <1>4, <1>5 DEF P

LEMMA SplitSteps ==
    ASSUME NEW z, NEW idx, NEW lo \in Int, NEW hi \in Int, lo <= hi
    PROVE  \E f : /\ f[hi] = z /\ f[lo] = Split(z, idx, hi, lo)
                  /\ \A o \in lo .. hi - 1 :
                        f[o] = buddy_add_free(f[o + 1], idx + 2^o, o)
<1> DEFINE f[o \in lo .. hi] ==
              IF o = hi THEN z ELSE buddy_add_free(f[o + 1], idx + 2^o, o)
<1>1. f = [o \in lo .. hi |->
             IF o = hi THEN z ELSE buddy_add_free(f[o + 1], idx + 2^o, o)]
  <2>1. \E g : SplitTable(g, z, idx, lo, hi)
    BY SplitExists
  <2>2. \E g : g = [o \in lo .. hi |->
              IF o = hi THEN z ELSE buddy_add_free(g[o + 1], idx + 2^o, o)]
    BY <2>1, Zenon DEF SplitTable
  <2> QED BY <2>2, Zenon
<1>2. f[lo] = Split(z, idx, hi, lo)
  BY DEF Split
<1> HIDE DEF f
<1>3. \A o \in lo .. hi :
         f[o] = IF o = hi THEN z ELSE buddy_add_free(f[o + 1], idx + 2^o, o)
  BY <1>1
<1> QED BY <1>2, <1>3

LEMMA InBlock ==
    ASSUME NEW i \in Nat, NEW o \in Orders
    PROVE  \A k : k \in Block(i, o) <=> k \in Int /\ i <= k /\ k < i + 2^o
  BY OrderSize DEF Block

\* A block's upper half, next to the lower.
LEMMA Halves ==
    ASSUME NEW i \in Nat, NEW o \in Orders, o + 1 \in Orders
    PROVE  /\ Block(i, o + 1) = Block(i, o) \cup Block(i + 2^o, o)
           /\ Block(i, o) \cap Block(i + 2^o, o) = {}
           /\ i + 2^o + 2^o = i + 2^(o + 1) /\ i + 2^o \in Nat
<1>1. 2^o \in Nat /\ 2^(o + 1) = 2^o + 2^o /\ i + 2^o \in Nat
  BY OrderSize, Powers
<1>2. \A k : k \in Block(i, o + 1) <=> k \in Int /\ i <= k /\ k < i + 2^(o + 1)
  BY InBlock
<1>3. \A k : k \in Block(i, o) <=> k \in Int /\ i <= k /\ k < i + 2^o
  BY InBlock
<1>4. \A k : k \in Block(i + 2^o, o)
                <=> k \in Int /\ i + 2^o <= k /\ k < i + 2^o + 2^o
  BY <1>1, InBlock
<1>5. \A k : k \in Block(i, o + 1) <=> k \in Block(i, o) \cup Block(i + 2^o, o)
  BY <1>1, <1>2, <1>3, <1>4
<1>6. Block(i, o) \cap Block(i + 2^o, o) = {}
  BY <1>1, <1>3, <1>4
<1> QED BY <1>1, <1>5, <1>6

\* What remains free of z while the block at idx has come down to order k.
HalfSplit(z, w, idx, cur, k) ==
    /\ Sane(w) /\ SameZone(z, w) /\ Merged(w)
    /\ FreePages(w) = FreePages(z) \ Block(idx, k)
    /\ SameBut(z, w, Block(idx, cur))

LEMMA SplitStep ==
    ASSUME NEW z, Sane(z), NEW idx \in Pages(z), NEW cur \in Orders,
           Aligned(idx, cur), idx + 2^cur <= z.total_pages,
           Block(idx, cur) \subseteq FreePages(z),
           NEW o \in Orders, o < cur,
           NEW w, HalfSplit(z, w, idx, cur, o + 1)
    PROVE  HalfSplit(z, buddy_add_free(w, idx + 2^o, o), idx, cur, o)
<1> DEFINE v == buddy_add_free(w, idx + 2^o, o)
           j == idx + 2^o
           n == z.total_pages
<1>1. /\ Sane(w) /\ Merged(w)
      /\ w.total_pages = n /\ w.base_phys = z.base_phys
      /\ FreePages(w) = FreePages(z) \ Block(idx, o + 1)
      /\ \A k \in Pages(z) : k \notin Block(idx, cur) => w.pages[k] = z.pages[k]
  BY DEF HalfSplit, SameZone, SameBut
<1>2. /\ idx \in Nat /\ o \in Nat /\ cur \in Nat /\ o + 1 \in Orders
      /\ o + 1 <= cur /\ 2^o \in Nat \ {0} /\ 2^cur \in Nat /\ n \in Nat
      /\ o + 1 \in Nat
  <2>1. o \in Nat /\ cur \in Nat /\ cur <= MAX_ORDER /\ MAX_ORDER \in Nat
    BY ConstantsAssumption DEF Orders
  <2>2. o + 1 \in Orders
    BY <2>1 DEF Orders
  <2>3. n \in Nat /\ idx \in Nat
    BY DEF Sane, Pages
  <2> QED BY <2>1, <2>2, <2>3, OrderSize
<1>3. /\ Block(idx, o + 1) = Block(idx, o) \cup Block(j, o)
      /\ Block(idx, o) \cap Block(j, o) = {}
      /\ j + 2^o = idx + 2^(o + 1) /\ j \in Nat
  BY <1>2, Halves
<1>4. 2^(o + 1) <= 2^cur /\ 2^(o + 1) \in Nat
  BY <1>2, PowerDivides, Powers
<1>5. Aligned(idx, o + 1) /\ Aligned(idx, o)
  BY <1>2, AlignedLower
<1>6. Aligned(j, o)
  BY <1>2, <1>5, AlignedSum
<1>7. calc_buddy_index(j, o) = idx
  <2>1. /\ calc_buddy_index(idx, o) \in Nat
        /\ calc_buddy_index(calc_buddy_index(idx, o), o) = idx
        /\ \/ calc_buddy_index(idx, o) = idx + 2^o
           \/ idx = calc_buddy_index(idx, o) + 2^o
              /\ Aligned(calc_buddy_index(idx, o), o + 1)
    BY <1>2, <1>5, BuddyProp
  <2>2. ASSUME NEW b \in Nat, idx = b + 2^o, Aligned(b, o + 1) PROVE FALSE
    <3>1. b + 2^(o + 1) <= idx
      BY <2>2, <1>2, <1>5, AlignedApart
    <3> QED BY <3>1, <2>2, <1>2, <1>3, <1>4
  <2> QED BY <2>1, <2>2
<1>8. Block(idx, cur) \subseteq Pages(z) /\ Block(idx, o + 1) \subseteq Block(idx, cur)
  <2>1. \A k : k \in Block(idx, cur) <=> k \in Int /\ idx <= k /\ k < idx + 2^cur
    BY <1>2, InBlock
  <2>2. \A k : k \in Block(idx, o + 1)
                  <=> k \in Int /\ idx <= k /\ k < idx + 2^(o + 1)
    BY <1>2, InBlock
  <2> QED BY <2>1, <2>2, <1>2, <1>4 DEF Pages
<1>9. j + 2^o <= n
  BY <1>2, <1>3, <1>4
<1>10. Block(j, o) \cap FreePages(w) = {}
  BY <1>1, <1>3
<1> DEFINE added == buddy_add_free(w, j, o)
<1>11. /\ Sane(added) /\ SameZone(w, added)
       /\ FreePages(added) = FreePages(w) \cup Block(j, o)
       /\ added.pages[j] = [order |-> o, is_free |-> TRUE]
       /\ SameBut(w, added, {j}) /\ j \in Pages(w)
  <2>1. j + 2^o <= w.total_pages
    BY <1>1, <1>9
  <2> HIDE DEF j, n
  <2> QED BY <1>1, <1>3, <1>6, <1>10, <2>1, AddProp
<1> HIDE DEF added
<1>12. Merged(added)
  <2>1. idx \in Pages(w) /\ idx \notin FreePages(w)
    <3>1. idx <= idx /\ idx < idx + 2^o
      BY <1>2
    <3>2. idx \in Block(idx, o)
      BY <1>2, <3>1, InBlock
    <3> QED BY <3>2, <1>1, <1>3 DEF Pages
  <2>2. ~w.pages[idx].is_free
    BY <2>1, <1>1, PageFacts
  <2>3. ~Mergeable(w, j, o)
    <3> HIDE DEF j
    <3> QED BY <1>7, <2>2 DEF Mergeable
  <2> HIDE DEF j, n
  <2> QED BY <2>3, <1>1, <1>11, MergedAdd
<1>13. SameZone(z, added) /\ FreePages(added) = FreePages(z) \ Block(idx, o)
  <2>1. FreePages(added) = (FreePages(z) \ Block(idx, o + 1)) \cup Block(j, o)
    BY <1>1, <1>11
  <2>2. Block(j, o) \subseteq FreePages(z)
    BY <1>3, <1>8
  <2>3. SameZone(z, added)
    BY <1>1, <1>11 DEF SameZone
  <2> HIDE DEF j
  <2> QED BY <2>1, <2>2, <2>3, <1>3
<1>14. SameBut(z, added, Block(idx, cur))
  <2> SUFFICES ASSUME NEW k \in Pages(z), k \notin Block(idx, cur)
               PROVE  added.pages[k] = z.pages[k]
    BY DEF SameBut
  <2>1. j <= j /\ j < j + 2^o
    BY <1>2
  <2>2. j \in Block(j, o)
    BY <1>2, <1>3, <2>1, InBlock
  <2>3. k # j
    BY <2>2, <1>3, <1>8
  <2>4. Pages(w) = Pages(z)
    BY <1>1 DEF Pages
  <2> HIDE DEF j
  <2> QED BY <2>3, <2>4, <1>1, <1>11 DEF SameBut
<1>15. HalfSplit(z, added, idx, cur, o)
  BY <1>11, <1>12, <1>13, <1>14 DEF HalfSplit
<1> QED BY <1>15 DEF added

LEMMA SplitProp ==
    ASSUME NEW z, Sane(z), NEW idx \in Pages(z), NEW cur \in Orders,
           Aligned(idx, cur), idx + 2^cur <= z.total_pages,
           Block(idx, cur) \subseteq FreePages(z),
           NEW w, HalfSplit(z, w, idx, cur, cur)
    PROVE  HalfSplit(z, Split(w, idx, cur, 0), idx, cur, 0)
<1>1. cur \in Nat /\ cur <= MAX_ORDER /\ MAX_ORDER \in Nat
  BY ConstantsAssumption DEF Orders
<1>2. PICK f : /\ f[cur] = w /\ f[0] = Split(w, idx, cur, 0)
               /\ \A o \in 0 .. cur - 1 :
                     f[o] = buddy_add_free(f[o + 1], idx + 2^o, o)
  BY <1>1, SplitSteps
<1> DEFINE S == {k \in Nat : HalfSplit(z, f[cur - k], idx, cur, cur - k)}
<1>3. 0 \in S
  <2>1. cur - 0 = cur
    BY <1>1
  <2> QED BY <2>1, <1>2
<1>4. ASSUME NEW k \in 0 .. cur - 1, k \in S PROVE k + 1 \in S
  <2> DEFINE o == cur - (k + 1)
  <2>1. o \in 0 .. cur - 1 /\ cur - k = o + 1 /\ o \in Orders /\ o < cur
    BY <1>1 DEF Orders
  <2>2. f[o] = buddy_add_free(f[o + 1], idx + 2^o, o)
    BY <1>2, <2>1
  <2>3. HalfSplit(z, f[o + 1], idx, cur, o + 1)
    BY <1>4, <2>1
  <2> HIDE DEF o
  <2>4. HalfSplit(z, f[o], idx, cur, o)
    BY <2>1, <2>2, <2>3, SplitStep
  <2> QED BY <2>4 DEF o
<1>5. cur \in S
  <2> HIDE DEF S
  <2>1. \A k \in 0 .. cur : k \in S
    BY <1>1, <1>3, <1>4, Reaches
  <2> QED BY <2>1, <1>1
<1>6. cur - cur = 0
  BY <1>1
<1> QED BY <1>2, <1>5, <1>6

-----------------------------------------------------------------------------
(* alloc_page                                                              *)

\* The zone is sane and merged, and all of it is free but the pages in U,
\* which were handed out one by one.
Divided(z, U) ==
    /\ Sane(z) /\ Merged(z)
    /\ U \subseteq Pages(z) /\ FreePages(z) = Pages(z) \ U
    /\ \A u \in U : z.pages[u].order = 0

LEMMA ListHolds ==
    ASSUME NEW z, Sane(z), NEW o \in Orders
    PROVE  Lists(z.free_list[o], AtOrder(z.pages, z.total_pages, o))
  BY DEF Sane, Listed

LEMMA HeadIsFree ==
    ASSUME NEW z, Sane(z), NEW o \in Orders, z.free_list[o] # << >>
    PROVE  /\ Head(z.free_list[o]) \in Pages(z)
           /\ z.pages[Head(z.free_list[o])] = [order |-> o, is_free |-> TRUE]
<1>1. Head(z.free_list[o]) \in AtOrder(z.pages, z.total_pages, o)
  BY ListHolds, ListHead
<1> QED BY <1>1 DEF AtOrder, Pages

\* The test of alloc_page: there is nothing to find exactly if no page is
\* free, and then the counter is 0.
LEMMA NothingFree ==
    ASSUME NEW z, Sane(z)
    PROVE  /\ z.total_free = 0 <=> FreePages(z) = {}
           /\ Stocked(z, 0) = {} <=> FreePages(z) = {}
<1>1. z.total_free = 0 <=> FreePages(z) = {}
  <2>1. /\ IsFiniteSet(Covered(z.pages, z.total_pages))
        /\ z.total_free = Cardinality(Covered(z.pages, z.total_pages))
    BY CoveredFinite DEF Sane
  <2> QED BY <2>1, FS_EmptySet DEF FreePages
<1>2. ASSUME Stocked(z, 0) = {} PROVE FreePages(z) = {}
  <2> SUFFICES ASSUME NEW k \in FreePages(z) PROVE FALSE
    OBVIOUS
  <2>1. PICK i \in Pages(z) : z.pages[i].is_free
    BY DEF FreePages, Covered, Pages
  <2> DEFINE o == z.pages[i].order
  <2>2. o \in Orders /\ z.pages[i] = [order |-> o, is_free |-> z.pages[i].is_free]
    BY PageFacts
  <2>3. z.pages[i].is_free = TRUE
    BY <2>1, PageFacts
  <2>4. i \in AtOrder(z.pages, z.total_pages, o)
    BY <2>2, <2>3 DEF AtOrder, Pages
  <2> HIDE DEF o
  <2>5. z.free_list[o] # << >>
    <3>1. Lists(z.free_list[o], AtOrder(z.pages, z.total_pages, o))
      BY <2>2, ListHolds
    <3>2. ASSUME z.free_list[o] = << >> PROVE FALSE
      <4>1. Lists(<< >>, AtOrder(z.pages, z.total_pages, o))
        BY <3>1, <3>2, Zenon
      <4> QED BY <4>1, <2>4, EmptyList
    <3> QED BY <3>2
  <2> QED BY <1>2, <2>2, <2>5 DEF Stocked, Orders
<1>3. ASSUME Stocked(z, 0) # {} PROVE FreePages(z) # {}
  <2>1. PICK o \in Orders : z.free_list[o] # << >>
    BY <1>3 DEF Stocked, Orders
  <2>2. /\ Head(z.free_list[o]) \in Pages(z)
        /\ z.pages[Head(z.free_list[o])] = [order |-> o, is_free |-> TRUE]
    BY <2>1, HeadIsFree
  <2>3. Head(z.free_list[o]) \in FreePages(z)
    <3> DEFINE i == Head(z.free_list[o])
    <3> HIDE DEF i
    <3>1. i \in Pages(z) /\ z.pages[i].is_free
      BY <2>2 DEF i
    <3>2. i \in FreePages(z)
      BY <3>1, PageFacts
    <3> QED BY <3>2 DEF i
  <2> QED BY <2>3
<1> QED BY <1>1, <1>2, <1>3

LEMMA AllocProp ==
    ASSUME NEW z, NEW U, Divided(z, U), Stocked(z, 0) # {}
    PROVE  LET a == buddy_alloc(z, 0)
           IN  /\ a.idx \in Pages(z) \ U
               /\ Divided(a.zone, U \cup {a.idx}) /\ SameZone(z, a.zone)
<1> DEFINE cur == CHOOSE o \in Stocked(z, 0) : \A p \in Stocked(z, 0) : o <= p
           idx == Head(z.free_list[cur])
           first == buddy_remove_free(z, idx, cur)
           rest == Split(first, idx, cur, 0)
           last == Retag(rest, idx, 0)
<1>1. buddy_alloc(z, 0) = [idx |-> idx, zone |-> last]
  BY DEF buddy_alloc, Retag
<1>2. Sane(z) /\ Merged(z) /\ FreePages(z) = Pages(z) \ U /\ U \subseteq Pages(z)
  BY DEF Divided
<1>3. cur \in Stocked(z, 0)
  <2>1. Stocked(z, 0) \subseteq Nat
    BY ConstantsAssumption DEF Stocked
  <2>2. \E o \in Stocked(z, 0) : \A p \in Stocked(z, 0) : o <= p
    BY <2>1, Least
  <2> QED BY <2>2, Zenon
<1> HIDE DEF cur
<1>4. cur \in Orders /\ z.free_list[cur] # << >>
  BY <1>3 DEF Stocked, Orders
<1>5. idx \in Pages(z) /\ z.pages[idx] = [order |-> cur, is_free |-> TRUE]
  BY <1>2, <1>4, HeadIsFree
<1> HIDE DEF idx
<1>6. /\ Sane(first) /\ SameZone(z, first)
      /\ FreePages(first) = FreePages(z) \ Block(idx, cur)
      /\ Block(idx, cur) \subseteq FreePages(z)
      /\ ~first.pages[idx].is_free
      /\ SameBut(z, first, {idx})
      /\ Aligned(idx, cur) /\ idx + 2^cur <= z.total_pages
  BY <1>2, <1>4, <1>5, RemoveProp
<1> HIDE DEF first
<1>7. Merged(first)
  BY <1>2, <1>5, <1>6, MergedRemove
<1>8. idx \in Block(idx, cur) /\ idx \in Nat /\ 0 \in Orders
      /\ Block(idx, 0) = {idx}
  <2>1. idx \in Nat /\ 2^cur \in Nat \ {0} /\ 0 \in Orders
    BY <1>2, <1>4, <1>5, PageFacts, OrderSize, ConstantsAssumption DEF Orders
  <2>2. idx <= idx /\ idx < idx + 2^cur
    BY <2>1
  <2>3. \A k : k \in Block(idx, 0) <=> k \in Int /\ idx <= k /\ k < idx + 2^0
    BY <2>1, InBlock
  <2>4. Block(idx, 0) = {idx}
    BY <2>1, <2>3, Powers
  <2> QED BY <2>1, <2>2, <2>4, <1>4, InBlock
<1>9. HalfSplit(z, first, idx, cur, cur)
  <2>1. SameBut(z, first, Block(idx, cur))
    BY <1>6, <1>8 DEF SameBut
  <2> QED BY <2>1, <1>6, <1>7 DEF HalfSplit
<1>10. HalfSplit(z, rest, idx, cur, 0)
  BY <1>2, <1>4, <1>5, <1>6, <1>9, SplitProp
<1> HIDE DEF rest
<1>11. /\ Sane(rest) /\ SameZone(z, rest) /\ Merged(rest)
       /\ FreePages(rest) = FreePages(z) \ {idx}
       /\ SameBut(z, rest, Block(idx, cur))
       /\ Pages(rest) = Pages(z)
  BY <1>8, <1>10 DEF HalfSplit, SameZone, Pages
<1>12. ~rest.pages[idx].is_free
  BY <1>5, <1>11, PageFacts
<1>13. /\ Sane(last) /\ SameZone(rest, last)
       /\ FreePages(last) = FreePages(rest)
       /\ last.pages[idx].order = 0
       /\ SameBut(rest, last, {idx})
       /\ Merged(last)
  <2>1. idx \in Pages(rest)
    BY <1>5, <1>11
  <2> QED BY <2>1, <1>8, <1>11, <1>12, TagProp
<1> HIDE DEF last
<1>14. SameZone(z, last) /\ Pages(last) = Pages(z)
  BY <1>11, <1>13 DEF SameZone, Pages
<1>15. idx \notin U
  BY <1>2, <1>6, <1>8
<1>16. FreePages(last) = Pages(last) \ (U \cup {idx})
  BY <1>2, <1>11, <1>13, <1>14
<1>17. ASSUME NEW u \in U \cup {idx} PROVE last.pages[u].order = 0
  <2>1. CASE u = idx
    BY <2>1, <1>13
  <2>2. CASE u \in U /\ u # idx
    <3>1. u \notin Block(idx, cur) /\ u \in Pages(z) /\ z.pages[u].order = 0
      BY <2>2, <1>2, <1>6 DEF Divided
    <3>2. last.pages[u] = rest.pages[u] /\ rest.pages[u] = z.pages[u]
      BY <3>1, <2>2, <1>11, <1>13 DEF SameBut
    <3> QED BY <3>1, <3>2
  <2> QED BY <2>1, <2>2
<1>18. Divided(last, U \cup {idx})
  BY <1>2, <1>5, <1>13, <1>14, <1>16, <1>17 DEF Divided
<1> QED BY <1>1, <1>5, <1>14, <1>15, <1>18

\* alloc_page hands out a free page, and answers NULL only if there is none.
LEMMA AllocPageProp ==
    ASSUME NEW z, NEW U, Divided(z, U)
    PROVE  \/ /\ U = Pages(z)
              /\ alloc_page(z).addr = NULL /\ alloc_page(z).zone = z
           \/ \E i \in Pages(z) \ U :
                 /\ alloc_page(z).addr = index_to_phys(z, i)
                 /\ Divided(alloc_page(z).zone, U \cup {i})
                 /\ SameZone(z, alloc_page(z).zone)
<1>1. /\ Sane(z) /\ FreePages(z) = Pages(z) \ U /\ U \subseteq Pages(z)
  BY DEF Divided
<1>2. /\ z.total_free = 0 <=> FreePages(z) = {}
      /\ Stocked(z, 0) = {} <=> FreePages(z) = {}
  BY <1>1, NothingFree
<1>3. CASE FreePages(z) = {}
  <2>1. alloc_page(z) = [addr |-> NULL, zone |-> z]
    BY <1>2, <1>3 DEF alloc_page
  <2> QED BY <2>1, <1>1, <1>3
<1>4. CASE FreePages(z) # {}
  <2> DEFINE a == buddy_alloc(z, 0)
  <2>1. alloc_page(z) = [addr |-> index_to_phys(z, a.idx), zone |-> a.zone]
    BY <1>2, <1>4 DEF alloc_page
  <2>2. /\ a.idx \in Pages(z) \ U
        /\ Divided(a.zone, U \cup {a.idx}) /\ SameZone(z, a.zone)
    BY <1>2, <1>4, AllocProp
  <2> HIDE DEF a
  <2> QED BY <2>1, <2>2
<1> QED BY <1>3, <1>4

-----------------------------------------------------------------------------
(* The merge loop                                                          *)

MergeBuddy(idx, k) == calc_buddy_index(Parent(idx, k), k)

\* f has the zones that the loop goes through, by the order reached.
MergeTable(f, z, idx, lo, hi) ==
    f = [k \in lo .. hi |->
           IF k = lo THEN z
           ELSE buddy_remove_free(f[k - 1], MergeBuddy(idx, k - 1), k - 1)]

LEMMA MergeExists ==
    ASSUME NEW z, NEW idx, NEW lo \in Int, NEW hi \in Int, lo <= hi
    PROVE  \E f : MergeTable(f, z, idx, lo, hi)
<1> DEFINE P(k) == \E f : MergeTable(f, z, idx, lo, lo + k)
           S == {k \in Int : P(k)}
<1>1. P(0)
  <2> DEFINE f == [o \in lo .. lo + 0 |-> z]
  <2>1. f = [o \in lo .. lo + 0 |->
               IF o = lo THEN z
               ELSE buddy_remove_free(f[o - 1], MergeBuddy(idx, o - 1), o - 1)]
    OBVIOUS
  <2> QED BY <2>1 DEF MergeTable
<1>2. ASSUME NEW k \in 0 .. (hi - lo) - 1, P(k) PROVE P(k + 1)
  <2>1. PICK f : f = [o \in lo .. lo + k |->
               IF o = lo THEN z
               ELSE buddy_remove_free(f[o - 1], MergeBuddy(idx, o - 1), o - 1)]
    BY <1>2 DEF MergeTable
  <2> DEFINE g == [o \in lo .. lo + (k + 1) |->
               IF o = lo + (k + 1)
               THEN buddy_remove_free(f[o - 1], MergeBuddy(idx, o - 1), o - 1)
               ELSE f[o]]
  <2>2. \A o \in lo .. lo + k : g[o] = f[o]
    OBVIOUS
  <2>3. ASSUME NEW o \in lo .. lo + (k + 1)
        PROVE  g[o] = IF o = lo THEN z
               ELSE buddy_remove_free(g[o - 1], MergeBuddy(idx, o - 1), o - 1)
    <3>1. CASE o = lo + (k + 1)
      <4>1. o - 1 \in lo .. lo + k /\ o # lo
        BY <3>1
      <4> QED BY <4>1, <3>1, <2>2
    <3>2. CASE o # lo + (k + 1)
      <4>1. o \in lo .. lo + k
        BY <3>2
      <4>2. f[o] = IF o = lo THEN z
               ELSE buddy_remove_free(f[o - 1], MergeBuddy(idx, o - 1), o - 1)
        BY <2>1, <4>1
      <4>3. o # lo => o - 1 \in lo .. lo + k
        BY <4>1
      <4> QED BY <4>1, <4>2, <4>3, <2>2
    <3> QED BY <3>1, <3>2
  <2>4. g = [o \in lo .. lo + (k + 1) |->
               IF o = lo THEN z
               ELSE buddy_remove_free(g[o - 1], MergeBuddy(idx, o - 1), o - 1)]
    BY <2>3
  <2> HIDE DEF g
  <2> QED BY <2>4 DEF MergeTable
<1> HIDE DEF P
<1>3. \A k \in 0 .. hi - lo : k \in S
  <2>1. 0 \in S /\ \A k \in 0 .. (hi - lo) - 1 : k \in S => k + 1 \in S
    BY <1>1, <1>2
  <2>2. 0 \in Int /\ hi - lo \in Int
    OBVIOUS
  <2> HIDE DEF S
  <2> QED BY <2>1, <2>2, Reaches
<1>4. P(hi - lo)
  BY <1>3
<1>5. lo + (hi - lo) = hi
  OBVIOUS
<1> QED BY <1>4, <1>5 DEF P

LEMMA MergeSteps ==
    ASSUME NEW z, NEW idx, NEW lo \in Int, NEW hi \in Int, lo <= hi
    PROVE  \E f : /\ f[lo] = z /\ f[hi] = Merge(z, idx, lo, hi)
                  /\ \A k \in lo .. hi - 1 :
                        f[k + 1] = buddy_remove_free(f[k], MergeBuddy(idx, k), k)
<1> DEFINE f[k \in lo .. hi] ==
              IF k = lo THEN z
              ELSE buddy_remove_free(f[k - 1],
                      calc_buddy_index(Parent(idx, k - 1), k - 1), k - 1)
<1>1. f = [k \in lo .. hi |->
             IF k = lo THEN z
             ELSE buddy_remove_free(f[k - 1],
                     calc_buddy_index(Parent(idx, k - 1), k - 1), k - 1)]
  <2>1. \E g : MergeTable(g, z, idx, lo, hi)
    BY MergeExists
  <2>2. \E g : g = [k \in lo .. hi |->
              IF k = lo THEN z
              ELSE buddy_remove_free(g[k - 1],
                      calc_buddy_index(Parent(idx, k - 1), k - 1), k - 1)]
    BY <2>1, Zenon DEF MergeTable, MergeBuddy
  <2> QED BY <2>2, Zenon
<1>2. f[hi] = Merge(z, idx, lo, hi)
  BY DEF Merge
<1> HIDE DEF f
<1>3. \A k \in lo .. hi :
         f[k] = IF k = lo THEN z
                ELSE buddy_remove_free(f[k - 1], MergeBuddy(idx, k - 1), k - 1)
  BY <1>1 DEF MergeBuddy
<1>4. \A k \in lo .. hi - 1 :
         f[k + 1] = buddy_remove_free(f[k], MergeBuddy(idx, k), k)
  <2> SUFFICES ASSUME NEW k \in lo .. hi - 1
               PROVE  f[k + 1] = buddy_remove_free(f[k], MergeBuddy(idx, k), k)
    OBVIOUS
  <2>1. k + 1 \in lo .. hi /\ k + 1 # lo /\ (k + 1) - 1 = k
    OBVIOUS
  <2> QED BY <2>1, <1>3
<1>5. f[lo] = z
  BY <1>3
<1> QED BY <1>2, <1>4, <1>5

\* What remains free of z while the freed page idx has grown to order k.
HalfMerged(z, w, idx, k) ==
    /\ Sane(w) /\ SameZone(z, w) /\ Merged(w)
    /\ FreePages(w) = FreePages(z) \ Block(Parent(idx, k), k)
    /\ Block(Parent(idx, k), k) \subseteq FreePages(z) \cup {idx}
    /\ SameBut(z, w, Block(Parent(idx, k), k))

\* A buddy lies outside the block, and the two are the block one order up.
LEMMA WithBuddy ==
    ASSUME NEW idx \in Nat, NEW k \in Orders, k + 1 \in Orders
    PROVE  /\ MergeBuddy(idx, k) \in Nat
           /\ MergeBuddy(idx, k) \notin Block(Parent(idx, k), k)
           /\ MergeBuddy(idx, k) \in Block(MergeBuddy(idx, k), k)
           /\ Block(Parent(idx, k + 1), k + 1)
                 = Block(Parent(idx, k), k) \cup Block(MergeBuddy(idx, k), k)
           /\ calc_buddy_index(MergeBuddy(idx, k), k) = Parent(idx, k)
<1> DEFINE x == Parent(idx, k)
           b == MergeBuddy(idx, k)
<1>1. /\ x \in Nat /\ b \in Nat /\ calc_buddy_index(b, k) = x
      /\ \/ b = x + 2^k /\ Parent(idx, k + 1) = x
         \/ x = b + 2^k /\ Parent(idx, k + 1) = b
  BY OrderSize, ParentUp DEF MergeBuddy
<1>2. 2^k \in Nat \ {0}
  BY OrderSize
<1> HIDE DEF x, b
<1>3. /\ \A i : i \in Block(x, k) <=> i \in Int /\ x <= i /\ i < x + 2^k
      /\ \A i : i \in Block(b, k) <=> i \in Int /\ b <= i /\ i < b + 2^k
  BY <1>1, InBlock
<1>4. b \notin Block(x, k) /\ b \in Block(b, k)
  BY <1>1, <1>2, <1>3
<1>5. Block(Parent(idx, k + 1), k + 1) = Block(x, k) \cup Block(b, k)
  <2>1. CASE b = x + 2^k /\ Parent(idx, k + 1) = x
    <3>1. Block(x, k + 1) = Block(x, k) \cup Block(x + 2^k, k)
      BY <1>1, Halves
    <3> QED BY <2>1, <3>1
  <2>2. CASE x = b + 2^k /\ Parent(idx, k + 1) = b
    <3>1. Block(b, k + 1) = Block(b, k) \cup Block(b + 2^k, k)
      BY <1>1, Halves
    <3> QED BY <2>2, <3>1
  <2> QED BY <1>1, <2>1, <2>2
<1> QED BY <1>1, <1>4, <1>5 DEF x, b

LEMMA MergeStep ==
    ASSUME NEW z, Sane(z), NEW idx \in Pages(z), NEW k \in Orders,
           k + 1 \in Orders, Mergeable(z, Parent(idx, k), k),
           NEW w, HalfMerged(z, w, idx, k)
    PROVE  HalfMerged(z, buddy_remove_free(w, MergeBuddy(idx, k), k), idx, k + 1)
<1> DEFINE b == MergeBuddy(idx, k)
           v == buddy_remove_free(w, b, k)
           X == Block(Parent(idx, k), k)
           Y == Block(Parent(idx, k + 1), k + 1)
<1>1. idx \in Nat /\ z.total_pages \in Nat
  BY PageFacts
<1>2. b \in Nat /\ b \notin X /\ b \in Block(b, k) /\ Y = X \cup Block(b, k)
  BY <1>1, WithBuddy
<1>3. b < z.total_pages /\ z.pages[b].is_free /\ z.pages[b].order = k
  BY DEF Mergeable, MergeBuddy
<1> HIDE DEF b
<1>4. b \in Pages(z)
  BY <1>1, <1>2, <1>3 DEF Pages
<1>5. z.pages[b] = [order |-> k, is_free |-> TRUE]
  BY <1>3, <1>4, PageFacts
<1>6. /\ Sane(w) /\ SameZone(z, w) /\ Merged(w)
      /\ FreePages(w) = FreePages(z) \ X
      /\ X \subseteq FreePages(z) \cup {idx}
      /\ SameBut(z, w, X) /\ Pages(w) = Pages(z)
  BY DEF HalfMerged, SameZone, Pages
<1> HIDE DEF X, Y
<1>7. w.pages[b] = [order |-> k, is_free |-> TRUE]
  BY <1>2, <1>4, <1>5, <1>6 DEF SameBut
<1>8. /\ Sane(v) /\ SameZone(w, v)
      /\ FreePages(v) = FreePages(w) \ Block(b, k)
      /\ Block(b, k) \subseteq FreePages(w)
      /\ ~v.pages[b].is_free
      /\ SameBut(w, v, {b})
  BY <1>4, <1>6, <1>7, RemoveProp
<1> HIDE DEF v
<1>9. Merged(v)
  BY <1>4, <1>6, <1>8, MergedRemove
<1>10. SameZone(z, v)
  BY <1>6, <1>8 DEF SameZone
<1>11. FreePages(v) = FreePages(z) \ Y /\ Y \subseteq FreePages(z) \cup {idx}
  BY <1>2, <1>6, <1>8
<1>12. SameBut(z, v, Y)
  <2> SUFFICES ASSUME NEW i \in Pages(z), i \notin Y
               PROVE  v.pages[i] = z.pages[i]
    BY DEF SameBut
  <2>1. i # b /\ i \notin X
    BY <1>2
  <2> QED BY <2>1, <1>6, <1>8 DEF SameBut
<1> QED BY <1>8, <1>9, <1>10, <1>11, <1>12 DEF HalfMerged, Y, v, b

\* The order at which the loop stops.
LEMMA MergedToProp ==
    ASSUME NEW z, NEW idx
    PROVE  LET last == MergedTo(z, idx, 0)
           IN  /\ last \in Orders
               /\ \A o \in 0 .. last - 1 : Mergeable(z, Parent(idx, o), o)
               /\ last = MAX_ORDER \/ ~Mergeable(z, Parent(idx, last), last)
<1> DEFINE Stops(k) == k = MAX_ORDER \/ ~Mergeable(z, Parent(idx, k), k)
           T == {k \in Orders : Stops(k)}
           Fits(k) == (\A o \in 0 .. k - 1 : Mergeable(z, Parent(idx, o), o))
                        /\ Stops(k)
<1>1. MAX_ORDER \in T /\ T \subseteq Nat
  BY ConstantsAssumption DEF Orders
<1>2. PICK k \in T : \A m \in T : k <= m
  <2> HIDE DEF T
  <2> QED BY <1>1, Least
<1>3. k \in Orders /\ Stops(k)
  BY <1>2
<1>4. ASSUME NEW o \in 0 .. k - 1 PROVE Mergeable(z, Parent(idx, o), o)
  <2>1. o \in Orders /\ ~(k <= o)
    BY <1>3, ConstantsAssumption DEF Orders
  <2>2. o \notin T
    BY <1>2, <2>1
  <2> QED BY <2>1, <2>2
<1>5. \E m \in 0 .. MAX_ORDER : Fits(m)
  BY <1>3, <1>4 DEF Orders
<1>6. MergedTo(z, idx, 0) = CHOOSE m \in 0 .. MAX_ORDER : Fits(m)
  BY DEF MergedTo
<1> HIDE DEF Fits
<1>7. MergedTo(z, idx, 0) \in 0 .. MAX_ORDER /\ Fits(MergedTo(z, idx, 0))
  BY <1>5, <1>6, Zenon
<1> QED BY <1>7 DEF Fits, Orders

LEMMA MergeProp ==
    ASSUME NEW z, Sane(z), Merged(z), NEW idx \in Pages(z),
           idx \notin FreePages(z)
    PROVE  LET last == MergedTo(z, idx, 0)
           IN  HalfMerged(z, Merge(z, idx, 0, last), idx, last)
<1> DEFINE last == MergedTo(z, idx, 0)
<1>1. last \in Orders /\ \A o \in 0 .. last - 1 : Mergeable(z, Parent(idx, o), o)
  BY MergedToProp
<1> HIDE DEF last
<1>2. last \in Nat /\ last <= MAX_ORDER /\ MAX_ORDER \in Nat /\ idx \in Nat
      /\ 0 \in Orders
  <2>1. idx \in Nat
    BY PageFacts
  <2> QED BY <2>1, <1>1, ConstantsAssumption DEF Orders
<1>3. PICK f : /\ f[0] = z /\ f[last] = Merge(z, idx, 0, last)
               /\ \A k \in 0 .. last - 1 :
                     f[k + 1] = buddy_remove_free(f[k], MergeBuddy(idx, k), k)
  BY <1>2, MergeSteps
<1> DEFINE S == {k \in Nat : HalfMerged(z, f[k], idx, k)}
<1>4. 0 \in S
  <2>1. Parent(idx, 0) = idx /\ Block(idx, 0) = {idx}
    <3>1. \A k : k \in Block(idx, 0) <=> k \in Int /\ idx <= k /\ k < idx + 2^0
      BY <1>2, InBlock
    <3> QED BY <3>1, <1>2, Powers, ParentZero
  <2>2. SameZone(z, z) /\ SameBut(z, z, {idx})
    BY DEF SameZone, SameBut
  <2>3. HalfMerged(z, z, idx, 0)
    BY <2>1, <2>2 DEF HalfMerged
  <2> QED BY <2>3, <1>3
<1>5. ASSUME NEW k \in 0 .. last - 1, k \in S PROVE k + 1 \in S
  <2>1. k \in Orders /\ k + 1 \in Orders /\ k + 1 \in Nat
    BY <1>2 DEF Orders
  <2>2. HalfMerged(z, buddy_remove_free(f[k], MergeBuddy(idx, k), k), idx, k + 1)
    BY <2>1, <1>1, <1>5, MergeStep
  <2> QED BY <2>1, <2>2, <1>3
<1>6. last \in S
  <2> HIDE DEF S
  <2>1. \A k \in 0 .. last : k \in S
    BY <1>2, <1>4, <1>5, Reaches
  <2> QED BY <2>1, <1>2
<1> QED BY <1>3, <1>6 DEF last

\* buddy_free gives back exactly the page that it is passed.
LEMMA FreeProp ==
    ASSUME NEW z, NEW U, Divided(z, U), NEW idx \in U
    PROVE  LET w == buddy_free(z, idx, 0)
           IN  Divided(w, U \ {idx}) /\ SameZone(z, w)
<1> DEFINE last == MergedTo(z, idx, 0)
           x == Parent(idx, last)
           m == Merge(z, idx, 0, last)
           w == buddy_add_free(m, x, last)
<1>1. buddy_free(z, idx, 0) = w
  BY DEF buddy_free
<1>2. /\ Sane(z) /\ Merged(z) /\ FreePages(z) = Pages(z) \ U /\ U \subseteq Pages(z)
      /\ idx \in Pages(z) /\ idx \notin FreePages(z)
      /\ \A u \in U : z.pages[u].order = 0
  BY DEF Divided
<1>3. HalfMerged(z, m, idx, last)
  BY <1>2, MergeProp
<1>4. /\ last \in Orders
      /\ last = MAX_ORDER \/ ~Mergeable(z, x, last)
  BY MergedToProp
<1>5. idx \in Nat /\ z.total_pages \in Nat /\ last \in Nat
  BY <1>2, <1>4, PageFacts, OrderSize
<1>6. x \in Nat /\ Aligned(x, last) /\ x <= idx /\ idx < x + 2^last
  BY <1>5, ParentProp
<1> DEFINE X == Block(x, last)
<1>7. /\ Sane(m) /\ SameZone(z, m) /\ Merged(m)
      /\ FreePages(m) = FreePages(z) \ X
      /\ X \subseteq FreePages(z) \cup {idx}
      /\ SameBut(z, m, X) /\ Pages(m) = Pages(z)
      /\ m.total_pages = z.total_pages
  BY <1>3 DEF HalfMerged, SameZone, Pages
<1> HIDE DEF last, m, x
<1>8. \A k : k \in X <=> k \in Int /\ x <= k /\ k < x + 2^last
  BY <1>4, <1>6, InBlock
<1>9. 2^last \in Nat \ {0}
  BY <1>4, OrderSize
<1>10. x + 2^last <= z.total_pages
  <2>1. x + 2^last - 1 \in X
    BY <1>6, <1>8, <1>9
  <2>2. x + 2^last - 1 \in Pages(z)
    BY <2>1, <1>2, <1>7
  <2> QED BY <2>2, <1>5, <1>6, <1>9 DEF Pages
<1>11. x \in X /\ idx \in X
  BY <1>5, <1>6, <1>8, <1>9
<1> HIDE DEF X
<1>12. /\ Sane(w) /\ SameZone(m, w)
       /\ FreePages(w) = FreePages(m) \cup X
       /\ w.pages[x] = [order |-> last, is_free |-> TRUE]
       /\ SameBut(m, w, {x}) /\ x \in Pages(m)
  <2>1. X \cap FreePages(m) = {}
    BY <1>7
  <2>2. x + 2^last <= m.total_pages
    BY <1>7, <1>10
  <2> HIDE DEF w
  <2> QED BY <2>1, <2>2, <1>4, <1>6, <1>7, AddProp DEF X, w
<1>13. last = MAX_ORDER \/ ~Mergeable(m, x, last)
  <2> SUFFICES ASSUME last # MAX_ORDER, Mergeable(m, x, last) PROVE FALSE
    OBVIOUS
  <2> DEFINE b == calc_buddy_index(x, last)
  <2>1. b < z.total_pages /\ m.pages[b].is_free /\ m.pages[b].order = last
    BY <1>7 DEF Mergeable
  <2>2. b \in Nat /\ (b = x + 2^last \/ x = b + 2^last)
    BY <1>5, <1>6, BuddyProp
  <2> HIDE DEF b
  <2>3. b \notin X
    BY <2>2, <1>6, <1>8, <1>9
  <2>4. b \in Pages(z)
    BY <2>1, <2>2, <1>5 DEF Pages
  <2>5. m.pages[b] = z.pages[b]
    BY <2>3, <2>4, <1>7 DEF SameBut
  <2>6. Mergeable(z, x, last)
    BY <2>1, <2>5 DEF Mergeable, b
  <2> QED BY <2>6, <1>4
<1> HIDE DEF w
<1>14. Merged(w)
  BY <1>4, <1>7, <1>12, <1>13, MergedAdd
<1>15. SameZone(z, w) /\ Pages(w) = Pages(z)
  BY <1>7, <1>12 DEF SameZone, Pages
<1>16. FreePages(w) = Pages(w) \ (U \ {idx})
  BY <1>2, <1>7, <1>11, <1>12, <1>15
<1>17. ASSUME NEW u \in U \ {idx} PROVE w.pages[u].order = 0
  <2>1. u \in Pages(z) /\ u \notin X
    BY <1>2, <1>7
  <2>2. w.pages[u] = m.pages[u] /\ m.pages[u] = z.pages[u]
    BY <2>1, <1>7, <1>11, <1>12 DEF SameBut
  <2> QED BY <2>2, <1>2
<1>18. Divided(w, U \ {idx})
  BY <1>2, <1>12, <1>14, <1>15, <1>16, <1>17 DEF Divided
<1> QED BY <1>1, <1>15, <1>18

-----------------------------------------------------------------------------
(* Addresses, free_page and the selftest                                   *)

Addressable(z) ==
    z.base_phys \in Nat /\ z.base_phys >= PAGE_SIZE /\ z.base_phys % PAGE_SIZE = 0

LEMMA AddressProp ==
    ASSUME NEW z, z.base_phys \in Nat, NEW i \in Nat
    PROVE  /\ index_to_phys(z, i) \in Nat /\ index_to_phys(z, i) >= z.base_phys
           /\ phys_to_index(z, index_to_phys(z, i)) = i
           /\ Addressable(z) => /\ index_to_phys(z, i) # NULL
                                /\ index_to_phys(z, i) % PAGE_SIZE = 0
<1> DEFINE d == PAGE_SIZE
           base == z.base_phys
           off == d * i
<1>1. d \in Nat \ {0} /\ base \in Nat
  BY ConstantsAssumption
<1>2. i * d = off /\ off \in Nat /\ off \div d = i /\ off % d = 0
  <2>1. d * i + 0 = off /\ off \in Nat /\ i * d = off
    BY <1>1, Product
  <2>2. (d * i + 0) \div d = i /\ (d * i + 0) % d = 0
    BY <1>1, QuotientUnique
  <2> QED BY <2>1, <2>2
<1>3. index_to_phys(z, i) = base + off
  BY <1>2 DEF index_to_phys
<1>4. phys_to_index(z, base + off) = ((base + off) - base) \div d
  BY DEF phys_to_index
<1>5. Addressable(z) => base >= d /\ base % d = 0
  BY DEF Addressable
<1> HIDE DEF off, base, d
<1>6. (base + off) - base = off
  BY <1>1, <1>2
<1>7. Addressable(z) => base + off # NULL /\ (base + off) % d = 0
  <2>1. ASSUME Addressable(z) PROVE base + off # NULL
    BY <2>1, <1>1, <1>2, <1>5 DEF NULL
  <2>2. ASSUME Addressable(z) PROVE (base + off) % d = 0
    <3>1. base % d = 0 /\ off % d = 0 /\ off \in Nat
      BY <2>2, <1>2, <1>5
    <3> QED BY <3>1, <1>1, SumOfMultiples
  <2> QED BY <2>1, <2>2
<1>8. base + off \in Nat /\ base + off >= base
  BY <1>1, <1>2
<1> QED BY <1>2, <1>3, <1>4, <1>6, <1>7, <1>8 DEF base, d

LEMMA SameAddress ==
    ASSUME NEW z, z.base_phys \in Nat, NEW i \in Nat, NEW j \in Nat,
           index_to_phys(z, i) = index_to_phys(z, j)
    PROVE  i = j
<1>1. phys_to_index(z, index_to_phys(z, i)) = i
  BY AddressProp
<1>2. phys_to_index(z, index_to_phys(z, j)) = j
  BY AddressProp
<1> QED BY <1>1, <1>2

\* free_page takes back a page that was handed out.
LEMMA FreePageProp ==
    ASSUME NEW z, NEW U, Divided(z, U), Addressable(z), NEW i \in U
    PROVE  LET a == index_to_phys(z, i)
           IN  /\ Accepted(z, a)
               /\ Divided(free_page(z, a), U \ {i}) /\ SameZone(z, free_page(z, a))
<1> DEFINE a == index_to_phys(z, i)
<1>1. /\ Sane(z) /\ i \in Pages(z) /\ i \notin FreePages(z)
      /\ z.pages[i].order = 0
  BY DEF Divided
<1>2. i \in Nat /\ i < z.total_pages /\ ~z.pages[i].is_free
  BY <1>1, PageFacts
<1>3. z.base_phys \in Nat
  BY DEF Addressable
<1>4. /\ a \in Nat /\ a >= z.base_phys /\ phys_to_index(z, a) = i
      /\ a # NULL /\ a % PAGE_SIZE = 0
  BY <1>2, <1>3, AddressProp
<1> HIDE DEF a
<1>5. Accepted(z, a)
  BY <1>2, <1>4 DEF Accepted
<1>6. free_page(z, a) = buddy_free(z, i, 0)
  BY <1>1, <1>4, <1>5 DEF free_page
<1>7. Divided(buddy_free(z, i, 0), U \ {i}) /\ SameZone(z, buddy_free(z, i, 0))
  BY FreeProp
<1> QED BY <1>5, <1>6, <1>7 DEF a

\* The selftest leaves the zone as whole as it finds it.
LEMMA SelftestProp ==
    ASSUME NEW z, Divided(z, {}), Addressable(z)
    PROVE  Divided(selftest(z), {}) /\ SameZone(z, selftest(z))
<1> DEFINE p1 == alloc_page(z)
           p2 == alloc_page(p1.zone)
           f1 == IF p1.addr = NULL THEN p2.zone ELSE free_page(p2.zone, p1.addr)
<1>1. selftest(z) = IF p2.addr = NULL THEN f1 ELSE free_page(f1, p2.addr)
  BY DEF selftest
<1>2. Sane(z) /\ z.base_phys \in Nat
  BY DEF Divided, Addressable
<1>3. CASE p1.addr = NULL /\ p1.zone = z
  <2>1. p2 = p1
    BY <1>3
  <2> QED BY <2>1, <1>1, <1>3 DEF SameZone
<1>4. CASE \E i \in Pages(z) \ {} :
              /\ p1.addr = index_to_phys(z, i)
              /\ Divided(p1.zone, {} \cup {i}) /\ SameZone(z, p1.zone)
  <2>1. PICK i \in Pages(z) : /\ p1.addr = index_to_phys(z, i)
                              /\ Divided(p1.zone, {i}) /\ SameZone(z, p1.zone)
    BY <1>4
  <2> DEFINE y == p1.zone
  <2>2. Addressable(y) /\ p1.addr = index_to_phys(y, i) /\ i \in Nat
    <3>1. i \in Nat
      BY <1>2, PageFacts
    <3> QED BY <3>1, <2>1 DEF Addressable, SameZone, index_to_phys
  <2>3. p1.addr # NULL
    BY <2>2, AddressProp DEF Addressable
  <2>4. p2 = alloc_page(y)
    OBVIOUS
  <2>5. Divided(y, {i}) /\ SameZone(z, y)
    BY <2>1
  <2> DEFINE addr == p1.addr
  <2>6. f1 = free_page(p2.zone, addr) /\ addr = index_to_phys(y, i)
    BY <2>2, <2>3
  <2> HIDE DEF y, p1, addr, f1
  <2>7. CASE p2.addr = NULL /\ p2.zone = y
    <3>1. Divided(free_page(y, addr), {i} \ {i}) /\ SameZone(y, free_page(y, addr))
      BY <2>2, <2>5, <2>6, FreePageProp
    <3>2. {i} \ {i} = {}
      OBVIOUS
    <3> QED BY <3>1, <3>2, <2>5, <2>6, <2>7, <1>1 DEF SameZone
  <2>8. CASE \E j \in Pages(y) \ {i} :
                /\ p2.addr = index_to_phys(y, j)
                /\ Divided(p2.zone, {i} \cup {j}) /\ SameZone(y, p2.zone)
    <3>1. PICK j \in Pages(y) \ {i} :
                /\ p2.addr = index_to_phys(y, j)
                /\ Divided(p2.zone, {i} \cup {j}) /\ SameZone(y, p2.zone)
      BY <2>8
    <3> DEFINE x == p2.zone
               b == p2.addr
    <3>2. /\ Addressable(x) /\ addr = index_to_phys(x, i)
          /\ b = index_to_phys(x, j) /\ SameZone(y, x)
          /\ Divided(x, {i} \cup {j})
      BY <2>2, <2>6, <3>1 DEF Addressable, SameZone, index_to_phys
    <3>3. j \in Nat
      <4>1. Sane(y)
        BY <2>5 DEF Divided
      <4> QED BY <4>1, <3>1, PageFacts
    <3>4. b # NULL
      <4>1. x.base_phys \in Nat
        BY <3>2 DEF Addressable
      <4> QED BY <4>1, <3>2, <3>3, AddressProp
    <3>5. selftest(z) = free_page(free_page(x, addr), b)
      BY <3>4, <2>6, <1>1
    <3> HIDE DEF x, b
    <3> DEFINE v == free_page(x, addr)
    <3>6. Divided(v, {j}) /\ SameZone(x, v)
      <4>1. Divided(v, ({i} \cup {j}) \ {i}) /\ SameZone(x, v)
        BY <3>2, FreePageProp
      <4>2. ({i} \cup {j}) \ {i} = {j}
        BY <3>1
      <4> QED BY <4>1, <4>2
    <3> HIDE DEF v
    <3>7. Addressable(v) /\ b = index_to_phys(v, j)
      BY <3>2, <3>6 DEF Addressable, SameZone, index_to_phys
    <3>8. Divided(free_page(v, b), {j} \ {j}) /\ SameZone(v, free_page(v, b))
      BY <3>6, <3>7, FreePageProp
    <3>9. {j} \ {j} = {}
      OBVIOUS
    <3>10. SameZone(z, free_page(v, b))
      BY <2>5, <3>2, <3>6, <3>8 DEF SameZone
    <3> QED BY <3>5, <3>8, <3>9, <3>10 DEF v
  <2>9. \/ p2.addr = NULL /\ p2.zone = y
        \/ \E j \in Pages(y) \ {i} :
                /\ p2.addr = index_to_phys(y, j)
                /\ Divided(p2.zone, {i} \cup {j}) /\ SameZone(y, p2.zone)
    BY <2>4, <2>5, AllocPageProp
  <2> QED BY <2>7, <2>8, <2>9
<1> QED BY <1>3, <1>4, AllocPageProp

-----------------------------------------------------------------------------
(* init's loop                                                             *)

CarveTable(f, z, n, hi) ==
    f = [k \in 0 .. hi |->
           IF k = 0 THEN [zone |-> z, idx |-> 0] ELSE CarveTurn(f[k - 1], n)]

LEMMA CarveExists ==
    ASSUME NEW z, NEW n \in Nat
    PROVE  \E f : CarveTable(f, z, n, n)
<1> DEFINE P(k) == \E f : CarveTable(f, z, n, k)
           S == {k \in Int : P(k)}
           c == [zone |-> z, idx |-> 0]
<1> HIDE DEF c
<1>1. P(0)
  <2> DEFINE f == [o \in 0 .. 0 |-> c]
  <2>1. f = [o \in 0 .. 0 |-> IF o = 0 THEN c ELSE CarveTurn(f[o - 1], n)]
    OBVIOUS
  <2> QED BY <2>1 DEF CarveTable, c
<1>2. ASSUME NEW k \in 0 .. n - 1, P(k) PROVE P(k + 1)
  <2>1. PICK f : f = [o \in 0 .. k |->
                        IF o = 0 THEN c ELSE CarveTurn(f[o - 1], n)]
    BY <1>2 DEF CarveTable, c
  <2> DEFINE g == [o \in 0 .. k + 1 |->
                     IF o = k + 1 THEN CarveTurn(f[o - 1], n) ELSE f[o]]
  <2>2. \A o \in 0 .. k : g[o] = f[o]
    OBVIOUS
  <2>3. ASSUME NEW o \in 0 .. k + 1
        PROVE  g[o] = IF o = 0 THEN c ELSE CarveTurn(g[o - 1], n)
    <3>1. CASE o = k + 1
      <4>1. o - 1 \in 0 .. k /\ o # 0
        BY <3>1
      <4> QED BY <4>1, <3>1, <2>2
    <3>2. CASE o # k + 1
      <4>1. o \in 0 .. k
        BY <3>2
      <4>2. f[o] = IF o = 0 THEN c ELSE CarveTurn(f[o - 1], n)
        BY <2>1, <4>1
      <4>3. o # 0 => o - 1 \in 0 .. k
        BY <4>1
      <4> QED BY <4>1, <4>2, <4>3, <2>2
    <3> QED BY <3>1, <3>2
  <2>4. g = [o \in 0 .. k + 1 |->
               IF o = 0 THEN c ELSE CarveTurn(g[o - 1], n)]
    BY <2>3
  <2> HIDE DEF g
  <2> QED BY <2>4 DEF CarveTable, c
<1> HIDE DEF P
<1>3. 0 \in S /\ \A k \in 0 .. n - 1 : k \in S => k + 1 \in S
  BY <1>1, <1>2
<1> HIDE DEF S
<1>4. \A k \in 0 .. n : k \in S
  BY <1>3, Reaches
<1>5. n \in S
  BY <1>4
<1> QED BY <1>5 DEF S, P

LEMMA CarveSteps ==
    ASSUME NEW z, z.total_pages \in Nat
    PROVE  \E f : /\ f[0] = [zone |-> z, idx |-> 0]
                  /\ f[z.total_pages].zone = Carve(z)
                  /\ \A k \in 0 .. z.total_pages - 1 :
                        f[k + 1] = CarveTurn(f[k], z.total_pages)
<1> DEFINE f[k \in 0 .. z.total_pages] ==
              IF k = 0 THEN [zone |-> z, idx |-> 0]
              ELSE CarveTurn(f[k - 1], z.total_pages)
<1>1. f = [k \in 0 .. z.total_pages |->
             IF k = 0 THEN [zone |-> z, idx |-> 0]
             ELSE CarveTurn(f[k - 1], z.total_pages)]
  <2>1. \E g : CarveTable(g, z, z.total_pages, z.total_pages)
    BY CarveExists
  <2>2. \E g : g = [k \in 0 .. z.total_pages |->
              IF k = 0 THEN [zone |-> z, idx |-> 0]
              ELSE CarveTurn(g[k - 1], z.total_pages)]
    BY <2>1, Zenon DEF CarveTable
  <2> QED BY <2>2, Zenon
<1>2. f[z.total_pages].zone = Carve(z)
  BY DEF Carve
<1> HIDE DEF f
<1>3. \A k \in 0 .. z.total_pages :
         f[k] = IF k = 0 THEN [zone |-> z, idx |-> 0]
                ELSE CarveTurn(f[k - 1], z.total_pages)
  BY <1>1
<1>4. \A k \in 0 .. z.total_pages - 1 :
         f[k + 1] = CarveTurn(f[k], z.total_pages)
  <2> SUFFICES ASSUME NEW k \in 0 .. z.total_pages - 1
               PROVE  f[k + 1] = CarveTurn(f[k], z.total_pages)
    OBVIOUS
  <2>1. k + 1 \in 0 .. z.total_pages /\ k + 1 # 0 /\ (k + 1) - 1 = k
    OBVIOUS
  <2> QED BY <2>1, <1>3
<1>5. f[0] = [zone |-> z, idx |-> 0]
  BY <1>3
<1> QED BY <1>2, <1>4, <1>5

LEMMA CarveOrderProp ==
    ASSUME NEW i \in Nat, NEW n \in Nat, i < n
    PROVE  LET o == CarveOrder(i, n)
           IN  /\ o \in Orders /\ Aligned(i, o) /\ i + 2^o <= n
               /\ \A p \in o + 1 .. MAX_ORDER :
                     ~Aligned(i, p) \/ ~(i + 2^p <= n)
<1> DEFINE Fits(p) == p = 0 \/ (i % 2^p = 0 /\ i + 2^p <= n)
           Not(p) == i % 2^p # 0 \/ i + 2^p > n
           Is(o) == Fits(o) /\ \A p \in o + 1 .. MAX_ORDER : Not(p)
           T == {q \in Orders : Fits(MAX_ORDER - q)}
<1>1. MAX_ORDER \in Nat /\ \A p \in Orders : 2^p \in Nat
  BY ConstantsAssumption, OrderSize
<1>2. T \subseteq Nat /\ MAX_ORDER \in T
  BY <1>1 DEF Orders
<1>3. PICK q \in T : \A r \in T : q <= r
  <2> HIDE DEF T
  <2> QED BY <1>2, Least
<1> DEFINE m == MAX_ORDER - q
<1>4. m \in Orders /\ Fits(m)
  BY <1>1, <1>3 DEF Orders
<1>5. ASSUME NEW p \in m + 1 .. MAX_ORDER PROVE Not(p)
  <2>1. p \in Orders /\ MAX_ORDER - p \in Orders /\ MAX_ORDER - (MAX_ORDER - p) = p
        /\ ~(q <= MAX_ORDER - p) /\ p # 0
    BY <1>1, <1>3 DEF Orders
  <2>2. MAX_ORDER - p \notin T
    BY <2>1, <1>3
  <2>3. ~Fits(p)
    BY <2>1, <2>2
  <2> QED BY <2>1, <2>3, <1>1
<1>6. \E o \in 0 .. MAX_ORDER : Is(o)
  BY <1>4, <1>5 DEF Orders
<1>7. CarveOrder(i, n) = CHOOSE o \in 0 .. MAX_ORDER : Is(o)
  BY DEF CarveOrder
<1> DEFINE o == CarveOrder(i, n)
<1> HIDE DEF Is
<1>8. o \in 0 .. MAX_ORDER /\ Is(o)
  BY <1>6, <1>7, Zenon
<1> HIDE DEF o
<1>9. o \in Orders /\ Fits(o) /\ \A p \in o + 1 .. MAX_ORDER : Not(p)
  BY <1>8 DEF Is, Orders
<1>10. Aligned(i, o) /\ i + 2^o <= n
  <2>1. CASE o = 0
    BY <2>1, ParentZero, Powers
  <2>2. CASE o # 0
    BY <2>2, <1>9 DEF Aligned
  <2> QED BY <2>1, <2>2
<1>11. ASSUME NEW p \in o + 1 .. MAX_ORDER
       PROVE  ~Aligned(i, p) \/ ~(i + 2^p <= n)
  <2>1. p \in Orders
    BY <1>1, <1>9 DEF Orders
  <2> QED BY <2>1, <1>1, <1>9 DEF Aligned
<1> QED BY <1>9, <1>10, <1>11 DEF o

\* After some turns the pages below idx are carved, and no block that would
\* have reached over idx fits in the zone.
HalfCarved(z, c, n) ==
    /\ Sane(c.zone) /\ SameZone(z, c.zone) /\ Merged(c.zone)
    /\ c.idx \in 0 .. n /\ FreePages(c.zone) = 0 .. c.idx - 1
    /\ \A p \in Orders : Aligned(c.idx, p) \/ Parent(c.idx, p) + 2^p > n

LEMMA CarveStep ==
    ASSUME NEW z, Sane(z), NEW c, HalfCarved(z, c, z.total_pages)
    PROVE  LET d == CarveTurn(c, z.total_pages)
           IN  /\ HalfCarved(z, d, z.total_pages)
               /\ d.idx > c.idx \/ d.idx = z.total_pages
<1> DEFINE n == z.total_pages
           y == c.zone
           i == c.idx
           o == CarveOrder(i, n)
           w == buddy_add_free(y, i, o)
<1>1. /\ Sane(y) /\ SameZone(z, y) /\ Merged(y)
      /\ i \in 0 .. n /\ FreePages(y) = 0 .. i - 1
      /\ \A p \in Orders : Aligned(i, p) \/ Parent(i, p) + 2^p > n
      /\ n \in Nat /\ i \in Nat
  BY DEF HalfCarved, Sane
<1>2. CASE i = n
  <2>1. CarveTurn(c, n) = c
    BY <1>2 DEF CarveTurn
  <2> QED BY <2>1, <1>2
<1>3. CASE i # n
  <2>1. CarveTurn(c, n) = [zone |-> w, idx |-> i + 2^o]
    BY <1>3 DEF CarveTurn
  <2>2. /\ o \in Orders /\ Aligned(i, o) /\ i + 2^o <= n
        /\ \A p \in o + 1 .. MAX_ORDER :
              ~Aligned(i, p) \/ ~(i + 2^p <= n)
    <3>1. i < n
      BY <1>1, <1>3
    <3> QED BY <3>1, <1>1, CarveOrderProp
  <2> HIDE DEF n, y, i, o
  <2>3. o \in Nat /\ 2^o \in Nat \ {0} /\ MAX_ORDER \in Nat /\ o <= MAX_ORDER
    BY <2>2, OrderSize, ConstantsAssumption DEF Orders
  <2>4. \A k : k \in Block(i, o) <=> k \in Int /\ i <= k /\ k < i + 2^o
    BY <1>1, <2>2, InBlock
  <2>5. y.total_pages = n /\ Pages(y) = 0 .. n - 1
    BY <1>1 DEF SameZone, Pages, n
  <2>6. /\ Sane(w) /\ SameZone(y, w)
        /\ FreePages(w) = FreePages(y) \cup Block(i, o)
        /\ w.pages[i] = [order |-> o, is_free |-> TRUE]
        /\ SameBut(y, w, {i}) /\ i \in Pages(y)
    <3>1. Block(i, o) \cap FreePages(y) = {}
      BY <1>1, <2>4
    <3> QED BY <3>1, <1>1, <2>2, <2>5, AddProp
  \* A larger block around idx would not fit.
  <2>7. \A p \in o + 1 .. MAX_ORDER : Parent(i, p) + 2^p > n
    <3> SUFFICES ASSUME NEW p \in o + 1 .. MAX_ORDER
                 PROVE  Parent(i, p) + 2^p > n
      OBVIOUS
    <3>1. p \in Orders
      BY <2>3 DEF Orders
    <3>2. CASE Aligned(i, p)
      <4>1. p \in Nat /\ 2^p \in Nat
        BY <3>1, OrderSize
      <4>2. Parent(i, p) = i
        BY <3>2, <4>1, <1>1, ParentOfAligned
      <4>3. ~(i + 2^p <= n)
        BY <2>2, <3>2
      <4> QED BY <1>1, <4>1, <4>2, <4>3
    <3>3. CASE ~Aligned(i, p)
      BY <3>1, <3>3, <1>1
    <3> QED BY <3>2, <3>3
  <2>8. o = MAX_ORDER \/ ~Mergeable(y, i, o)
    <3> SUFFICES ASSUME o # MAX_ORDER, Mergeable(y, i, o) PROVE FALSE
      OBVIOUS
    <3> DEFINE b == calc_buddy_index(i, o)
    <3>1. b < n /\ y.pages[b].is_free /\ y.pages[b].order = o
      BY <2>5 DEF Mergeable
    <3>2. Parent(i, o) = i
      BY <1>1, <2>2, <2>3, ParentOfAligned
    <3>3. /\ b \in Nat
          /\ \/ b = i + 2^o /\ Parent(i, o + 1) = i
             \/ i = b + 2^o /\ Parent(i, o + 1) = b
      <4> DEFINE x == Parent(i, o)
                 e == calc_buddy_index(x, o)
      <4>1. /\ e \in Nat
            /\ \/ e = x + 2^o /\ Parent(i, o + 1) = x
               \/ x = e + 2^o /\ Parent(i, o + 1) = e
        BY <1>1, <2>3, ParentUp
      <4>2. x = i
        BY <3>2
      <4> HIDE DEF x
      <4> QED BY <4>1, <4>2
    <3> HIDE DEF b
    <3>4. b \in Pages(y)
      BY <1>1, <2>5, <3>1, <3>3
    <3>5. b + 2^o <= n
      BY <3>1, <3>4, <1>1, <2>5, PageFacts
    <3>6. 2^(o + 1) = 2^o + 2^o
      BY <2>3, Powers
    <3>7. o + 1 \in o + 1 .. MAX_ORDER
      BY <2>3
    <3>8. Parent(i, o + 1) + 2^(o + 1) > n
      BY <2>7, <3>7
    <3>9. i + 2^o <= n
      BY <2>2
    <3> QED BY <1>1, <2>3, <3>3, <3>5, <3>6, <3>8, <3>9
  <2> HIDE DEF w
  <2>9. Merged(w)
    BY <1>1, <2>2, <2>6, <2>8, MergedAdd
  <2> DEFINE j == i + 2^o
  <2>10. j \in 0 .. n /\ j > i /\ FreePages(w) = 0 .. j - 1
    <3>1. j \in 0 .. n /\ j > i
      BY <1>1, <2>2, <2>3
    <3>2. \A k : k \in FreePages(w) <=> k \in 0 .. j - 1
      BY <1>1, <2>3, <2>4, <2>6
    <3> QED BY <3>1, <3>2
  <2>11. ASSUME NEW p \in Orders PROVE Aligned(j, p) \/ Parent(j, p) + 2^p > n
    <3>1. p \in Nat /\ 2^p \in Nat
      BY OrderSize
    <3>2. CASE p <= o
      <4>1. Aligned(i, p)
        BY <3>1, <3>2, <1>1, <2>2, <2>3, AlignedLower
      <4>2. Aligned(j, p)
        BY <4>1, <3>1, <3>2, <1>1, <2>3, AlignedSum
      <4> QED BY <4>2
    <3>3. CASE p > o
      <4>1. p \in o + 1 .. MAX_ORDER
        BY <3>1, <3>3, <2>3 DEF Orders
      <4> DEFINE q == Parent(i, p)
      <4>2. q + 2^p > n
        BY <4>1, <2>7
      <4>3. q \in Nat /\ Aligned(q, p) /\ q <= i
        BY <3>1, <1>1, ParentProp
      <4> HIDE DEF q, j
      <4>4. j \in Nat /\ q <= j /\ j < q + 2^p
        BY <4>2, <4>3, <3>1, <1>1, <2>10
      <4>5. Parent(j, p) = q
        BY <4>3, <4>4, <3>1, ParentIs
      <4> QED BY <4>2, <4>5
    <3> QED BY <3>1, <3>2, <3>3, <2>3
  <2>12. SameZone(z, w)
    BY <1>1, <2>6 DEF SameZone
  <2> DEFINE d == [zone |-> w, idx |-> j]
  <2>13. d.zone = w /\ d.idx = j
    OBVIOUS
  <2> HIDE DEF d, j
  <2>14. HalfCarved(z, d, n)
    BY <2>6, <2>9, <2>10, <2>11, <2>12, <2>13 DEF HalfCarved
  <2> QED BY <2>1, <2>10, <2>13, <2>14 DEF d, j, n, i
<1> QED BY <1>2, <1>3

\* A zone of which nothing is free or handed out yet.
Bare(z) == Sane(z) /\ \A i \in Pages(z) : ~z.pages[i].is_free

LEMMA CarveProp ==
    ASSUME NEW z, Bare(z)
    PROVE  Divided(Carve(z), {}) /\ SameZone(z, Carve(z))
<1> DEFINE n == z.total_pages
<1>1. Sane(z) /\ n \in Nat
  BY DEF Bare, Sane
<1>2. PICK f : /\ f[0] = [zone |-> z, idx |-> 0]
               /\ f[n].zone = Carve(z)
               /\ \A k \in 0 .. n - 1 : f[k + 1] = CarveTurn(f[k], n)
  BY <1>1, CarveSteps
<1> DEFINE S == {k \in Nat : HalfCarved(z, f[k], n)
                              /\ (f[k].idx >= k \/ f[k].idx = n)}
<1>3. 0 \in S
  <2>1. f[0].zone = z /\ f[0].idx = 0
    BY <1>2
  <2>2. FreePages(z) = {}
    BY DEF Bare, FreePages, Covered, Pages
  <2>3. Merged(z) /\ SameZone(z, z)
    BY DEF Bare, Merged, SameZone
  <2>4. \A p \in Orders : Aligned(0, p)
    <3> SUFFICES ASSUME NEW p \in Orders PROVE Aligned(0, p)
      OBVIOUS
    <3>1. 2^p * 0 = 0 /\ (2^p * 0) % 2^p = 0
      BY OrderSize, MultipleOf
    <3> QED BY <3>1 DEF Aligned
  <2>5. 0 \in 0 .. n /\ 0 .. 0 - 1 = {}
    BY <1>1
  <2> HIDE DEF n
  <2>6. HalfCarved(z, f[0], n)
    BY <2>1, <2>2, <2>3, <2>4, <2>5, <1>1 DEF HalfCarved
  <2> QED BY <2>1, <2>6
<1>4. ASSUME NEW k \in 0 .. n - 1, k \in S PROVE k + 1 \in S
  <2>1. HalfCarved(z, f[k], n) /\ (f[k].idx >= k \/ f[k].idx = n)
    BY <1>4
  <2>2. /\ HalfCarved(z, f[k + 1], n)
        /\ f[k + 1].idx > f[k].idx \/ f[k + 1].idx = n
    BY <2>1, <1>1, <1>2, CarveStep
  <2>3. f[k].idx \in 0 .. n /\ f[k + 1].idx \in 0 .. n
    BY <2>1, <2>2 DEF HalfCarved
  <2>4. f[k + 1].idx >= k + 1 \/ f[k + 1].idx = n
    BY <2>1, <2>2, <2>3, <1>1
  <2> QED BY <2>2, <2>4
<1>5. n \in S
  <2> HIDE DEF S, n
  <2>1. \A k \in 0 .. n : k \in S
    BY <1>1, <1>3, <1>4, Reaches
  <2> QED BY <2>1, <1>1
<1>6. /\ Sane(Carve(z)) /\ SameZone(z, Carve(z)) /\ Merged(Carve(z))
      /\ f[n].idx \in 0 .. n /\ FreePages(Carve(z)) = 0 .. f[n].idx - 1
      /\ f[n].idx >= n \/ f[n].idx = n
  BY <1>2, <1>5 DEF HalfCarved
<1>7. f[n].idx = n
  BY <1>1, <1>6
<1>8. Pages(Carve(z)) = 0 .. n - 1
  BY <1>6 DEF SameZone, Pages
<1> HIDE DEF n
<1>9. FreePages(Carve(z)) = Pages(Carve(z)) \ {}
  BY <1>6, <1>7, <1>8
<1> QED BY <1>6, <1>9 DEF Divided

-----------------------------------------------------------------------------
(* A whole zone has one shape only                                         *)

FreeAt(z, i, o) == i \in Pages(z) /\ z.pages[i] = [order |-> o, is_free |-> TRUE]

LEMMA FreeAtProp ==
    ASSUME NEW z, Sane(z), NEW i, NEW o, FreeAt(z, i, o)
    PROVE  /\ i \in Pages(z) /\ i \in Nat /\ o \in Orders /\ o \in Nat
           /\ z.pages[i].is_free /\ z.pages[i].order = o
           /\ Aligned(i, o) /\ i + 2^o <= z.total_pages
           /\ z.total_pages \in Nat /\ 2^o \in Nat \ {0}
<1>1. z.pages[i].is_free /\ z.pages[i].order = o /\ i \in Pages(z)
  BY DEF FreeAt
<1>2. /\ i \in Nat /\ o \in Orders /\ Aligned(i, o)
      /\ i + 2^o <= z.total_pages /\ z.total_pages \in Nat
  BY <1>1, PageFacts
<1> QED BY <1>1, <1>2, OrderSize

LEMMA CoverProp ==
    ASSUME NEW z, Sane(z), NEW k \in FreePages(z)
    PROVE  \E j, p : FreeAt(z, j, p) /\ j <= k /\ k < j + 2^p
<1>1. PICK j \in Pages(z) :
         z.pages[j].is_free /\ j <= k /\ k < j + 2^z.pages[j].order
  BY DEF FreePages, Covered, Pages
<1>2. z.pages[j] = [order |-> z.pages[j].order, is_free |-> z.pages[j].is_free]
      /\ z.pages[j].is_free \in BOOLEAN
  BY PageFacts
<1>3. z.pages[j].is_free = TRUE
  BY <1>1, <1>2
<1>4. FreeAt(z, j, z.pages[j].order)
  BY <1>2, <1>3 DEF FreeAt
<1> QED BY <1>1, <1>4

LEMMA ApartProp ==
    ASSUME NEW z, Sane(z), NEW i, NEW o, FreeAt(z, i, o),
           NEW j, NEW p, FreeAt(z, j, p), i < j
    PROVE  i + 2^o <= j
<1>1. /\ i \in 0 .. z.total_pages - 1 /\ j \in 0 .. z.total_pages - 1
      /\ z.pages[i].is_free /\ z.pages[j].is_free /\ z.pages[i].order = o
  BY DEF FreeAt, Pages
<1>2. Laid(z.pages, z.total_pages)
  BY DEF Sane
<1> QED BY <1>1, <1>2 DEF Laid

\* A block that may not grow: the one around it does not fit in n pages.
Topmost(i, o, n) == o = MAX_ORDER \/ Parent(i, o + 1) + 2^(o + 1) > n

\* If everything is free and merged, every block is topmost: of those that
\* are not, take one of the least order, and look at its buddy.
LEMMA AllTopmost ==
    ASSUME NEW z, Divided(z, {}), NEW i, NEW o, FreeAt(z, i, o)
    PROVE  Topmost(i, o, z.total_pages)
<1> DEFINE n == z.total_pages
           T == {p \in Orders : \E j : FreeAt(z, j, p) /\ ~Topmost(j, p, n)}
<1>1. Sane(z) /\ Merged(z) /\ FreePages(z) = Pages(z)
  BY DEF Divided
<1>2. T \subseteq Nat
  BY OrderSize
<1>3. ASSUME T # {} PROVE FALSE
  <2>1. PICK m \in T : \A r \in T : m <= r
    <3> HIDE DEF T
    <3> QED BY <1>2, <1>3, Least
  <2>2. PICK x : FreeAt(z, x, m) /\ ~Topmost(x, m, n)
    BY <2>1
  <2>3. /\ x \in Pages(z) /\ x \in Nat /\ m \in Orders /\ m \in Nat
        /\ z.pages[x].is_free /\ z.pages[x].order = m
        /\ Aligned(x, m) /\ x + 2^m <= n /\ n \in Nat /\ 2^m \in Nat \ {0}
    BY <1>1, <2>2, FreeAtProp
  <2>4. m < MAX_ORDER /\ m + 1 \in Orders /\ MAX_ORDER \in Nat
    BY <2>2, <2>3, ConstantsAssumption DEF Topmost, Orders
  <2> DEFINE q == Parent(x, m + 1)
             b == calc_buddy_index(x, m)
  <2>5. q + 2^(m + 1) <= n
    <3>1. q \in Nat /\ 2^(m + 1) \in Nat
      BY <2>3, <2>4, ParentProp, OrderSize
    <3>2. ~(q + 2^(m + 1) > n)
      BY <2>2, <2>3, <2>4 DEF Topmost
    <3> HIDE DEF q, n
    <3> QED BY <3>1, <3>2, <2>3
  <2>6. 2^(m + 1) = 2^m + 2^m
    BY <2>3, Powers
  <2>7. /\ b \in Nat /\ Aligned(b, m)
        /\ \/ b = x + 2^m /\ Aligned(x, m + 1)
           \/ x = b + 2^m /\ Aligned(b, m + 1)
    BY <2>3, BuddyProp
  <2> DEFINE a == IF b = x + 2^m THEN x ELSE b
  <2>8. Aligned(a, m + 1) /\ a \in Nat /\ a <= x /\ x < a + 2^(m + 1)
        /\ a <= b /\ b + 2^m <= a + 2^(m + 1)
    BY <2>3, <2>6, <2>7
  <2>9. q = a /\ Parent(b, m + 1) = a
    <3>1. b < a + 2^(m + 1)
      BY <2>3, <2>7, <2>8
    <3> HIDE DEF a, b
    <3> QED BY <3>1, <2>3, <2>4, <2>7, <2>8, ParentIs, OrderSize
  <2>10. b + 2^m <= n /\ b \in Pages(z)
    <3>1. b + 2^m <= n
      <4>1. a + 2^(m + 1) <= n /\ 2^(m + 1) \in Nat
        BY <2>5, <2>6, <2>9, <2>3
      <4> HIDE DEF a, b, n
      <4> QED BY <4>1, <2>3, <2>7, <2>8
    <3> HIDE DEF b
    <3> QED BY <3>1, <2>3, <2>7 DEF Pages
  <2> HIDE DEF b, a, q
  <2>11. PICK j, p : FreeAt(z, j, p) /\ j <= b /\ b < j + 2^p
    BY <1>1, <2>10, CoverProp
  <2>12. /\ j \in Pages(z) /\ j \in Nat /\ p \in Orders /\ p \in Nat
         /\ z.pages[j].is_free /\ z.pages[j].order = p
         /\ Aligned(j, p) /\ j + 2^p <= n /\ 2^p \in Nat \ {0}
    BY <1>1, <2>11, FreeAtProp
  <2>13. Parent(b, p) = j
    BY <2>7, <2>11, <2>12, ParentIs
  <2>14. ~(p > m)
    <3> SUFFICES ASSUME p > m PROVE FALSE
      OBVIOUS
    <3>1. j <= a /\ a + 2^(m + 1) <= j + 2^p
      <4>1. m + 1 \in Nat /\ m + 1 <= p
        BY <2>3, <2>12
      <4>2. /\ Parent(b, p) <= Parent(b, m + 1)
            /\ Parent(b, m + 1) + 2^(m + 1) <= Parent(b, p) + 2^p
        BY <4>1, <2>7, <2>12, ParentsNest
      <4> QED BY <4>2, <2>9, <2>13
    <3>2. j <= x /\ x < j + 2^p
      <4>1. 2^(m + 1) \in Nat
        BY <2>6, <2>3
      <4> QED BY <3>1, <4>1, <2>3, <2>8, <2>12
    <3>3. j # x
      BY <2>3, <2>12
    <3>4. j < x
      BY <3>2, <3>3, <2>3, <2>12
    <3>5. j + 2^p <= x
      BY <3>4, <1>1, <2>2, <2>11, ApartProp
    <3> QED BY <3>2, <3>5, <2>3, <2>12
  <2>15. Parent(b, m) = b
    BY <2>3, <2>7, ParentOfAligned
  <2>16. p # m
    <3> SUFFICES ASSUME p = m PROVE FALSE
      OBVIOUS
    <3>1. j = b
      BY <2>13, <2>15
    <3>2. Mergeable(z, x, m)
      BY <3>1, <2>3, <2>7, <2>10, <2>12 DEF Mergeable, b
    <3> QED BY <3>2, <1>1, <2>3, <2>4 DEF Merged
  <2>17. ~(p < m)
    <3> SUFFICES ASSUME p < m PROVE FALSE
      OBVIOUS
    <3>1. Parent(b, m) <= Parent(b, p)
      BY <2>3, <2>7, <2>12, ParentsNest
    <3>2. j = b
      BY <3>1, <2>7, <2>11, <2>12, <2>13, <2>15
    <3>3. p + 1 <= m /\ p + 1 \in Nat /\ p # MAX_ORDER
      BY <2>3, <2>4, <2>12
    <3>4. Parent(b, p + 1) = b
      BY <3>3, <2>3, <2>7, AlignedLower, ParentOfAligned
    <3>5. 2^(p + 1) <= 2^m /\ 2^(p + 1) \in Nat
      BY <3>3, <2>3, PowerDivides, Powers
    <3>6. ~(b + 2^(p + 1) > n)
      BY <3>5, <2>3, <2>7, <2>10
    <3>7. ~Topmost(j, p, n)
      BY <3>2, <3>3, <3>4, <3>6 DEF Topmost
    <3>8. p \in T
      BY <3>7, <2>11, <2>12
    <3>9. m <= p
      BY <3>8, <2>1
    <3> QED BY <3>9, <2>3, <2>12
  <2> QED BY <2>3, <2>12, <2>14, <2>16, <2>17
<1>4. o \in Orders
  BY <1>1, FreeAtProp
<1> QED BY <1>3, <1>4

\* So two whole zones over the same memory have the same blocks.
LEMMA OneShape ==
    ASSUME NEW z, Divided(z, {}), NEW w, Divided(w, {}), SameZone(z, w),
           NEW i, NEW o, FreeAt(z, i, o)
    PROVE  FreeAt(w, i, o)
<1> DEFINE n == z.total_pages
<1>1. /\ Sane(z) /\ Sane(w) /\ FreePages(w) = Pages(w)
      /\ Pages(w) = Pages(z) /\ w.total_pages = n
  BY DEF Divided, SameZone, Pages
<1>2. /\ i \in Pages(z) /\ i \in Nat /\ o \in Orders /\ o \in Nat
      /\ Aligned(i, o) /\ i + 2^o <= n /\ n \in Nat /\ 2^o \in Nat \ {0}
  BY <1>1, FreeAtProp
<1>3. PICK j, p : FreeAt(w, j, p) /\ j <= i /\ i < j + 2^p
  BY <1>1, <1>2, CoverProp
<1>4. /\ j \in Nat /\ p \in Orders /\ p \in Nat
      /\ Aligned(j, p) /\ j + 2^p <= n /\ 2^p \in Nat \ {0}
  BY <1>1, <1>3, FreeAtProp
<1>5. Parent(i, p) = j /\ Parent(i, o) = i
  BY <1>2, <1>3, <1>4, ParentIs, ParentOfAligned
<1>6. Topmost(i, o, n) /\ Topmost(j, p, n)
  BY <1>1, <1>3, AllTopmost
<1> HIDE DEF n
<1>7. MAX_ORDER \in Nat /\ o <= MAX_ORDER /\ p <= MAX_ORDER
  BY <1>2, <1>4, ConstantsAssumption DEF Orders
<1>8. ~(p > o)
  <2> SUFFICES ASSUME p > o PROVE FALSE
    OBVIOUS
  <2>1. o + 1 <= p /\ o + 1 \in Nat /\ o # MAX_ORDER
    BY <1>2, <1>4, <1>7
  <2>2. Parent(i, o + 1) + 2^(o + 1) <= j + 2^p
    BY <2>1, <1>2, <1>4, <1>5, ParentsNest
  <2>3. Parent(i, o + 1) \in Nat /\ 2^(o + 1) \in Nat
    BY <2>1, <1>2, ParentProp, Powers
  <2>4. Parent(i, o + 1) + 2^(o + 1) > n
    BY <2>1, <1>6 DEF Topmost
  <2> QED BY <2>2, <2>3, <2>4, <1>2, <1>4
<1>9. ~(p < o)
  <2> SUFFICES ASSUME p < o PROVE FALSE
    OBVIOUS
  <2>1. p + 1 <= o /\ p + 1 \in Nat /\ p # MAX_ORDER
    BY <1>2, <1>4, <1>7
  <2>2. /\ Parent(i, o) <= Parent(i, p)
        /\ Parent(i, p) + 2^p <= Parent(i, o) + 2^o
    BY <1>2, <1>4, ParentsNest
  <2>3. i <= j /\ j < i + 2^o
    BY <2>2, <1>2, <1>4, <1>5
  <2>4. Parent(j, o) = i
    BY <2>3, <1>2, <1>4, ParentIs
  <2>5. Parent(j, p + 1) + 2^(p + 1) <= i + 2^o
    BY <2>1, <2>4, <1>2, <1>4, ParentsNest
  <2>6. Parent(j, p + 1) \in Nat /\ 2^(p + 1) \in Nat
    BY <2>1, <1>4, ParentProp, Powers
  <2>7. Parent(j, p + 1) + 2^(p + 1) > n
    BY <2>1, <1>6 DEF Topmost
  <2> QED BY <2>5, <2>6, <2>7, <1>2
<1>10. p = o
  BY <1>2, <1>4, <1>8, <1>9
<1> QED BY <1>3, <1>5, <1>10

LEMMA BlockListed ==
    ASSUME NEW z, Sane(z), NEW b
    PROVE  b \in FreeBlocks(z)
              <=> \E i, o : b = [idx |-> i, order |-> o] /\ FreeAt(z, i, o)
<1>1. ASSUME b \in FreeBlocks(z)
      PROVE  \E i, o : b = [idx |-> i, order |-> o] /\ FreeAt(z, i, o)
  <2>0. PICK o \in Orders :
           \E k \in DOMAIN z.free_list[o] :
              b = [idx |-> z.free_list[o][k], order |-> o]
    BY <1>1 DEF FreeBlocks, Orders
  <2>1. PICK k \in DOMAIN z.free_list[o] :
           b = [idx |-> z.free_list[o][k], order |-> o]
    BY <2>0
  <2>2. Lists(z.free_list[o], AtOrder(z.pages, z.total_pages, o))
    BY ListHolds
  <2>3. z.free_list[o][k] \in AtOrder(z.pages, z.total_pages, o)
    BY <2>2 DEF Lists, ToSet
  <2>4. FreeAt(z, z.free_list[o][k], o)
    BY <2>3 DEF AtOrder, FreeAt, Pages
  <2> QED BY <2>1, <2>4
<1>2. ASSUME NEW i, NEW o, b = [idx |-> i, order |-> o], FreeAt(z, i, o)
      PROVE  b \in FreeBlocks(z)
  <2>1. o \in Orders
    BY <1>2, FreeAtProp
  <2>2. Lists(z.free_list[o], AtOrder(z.pages, z.total_pages, o))
    BY <2>1, ListHolds
  <2>3. i \in AtOrder(z.pages, z.total_pages, o)
    BY <1>2 DEF AtOrder, FreeAt, Pages
  <2>4. PICK k \in DOMAIN z.free_list[o] : z.free_list[o][k] = i
    BY <2>2, <2>3 DEF Lists, ToSet
  <2> QED BY <1>2, <2>1, <2>4 DEF FreeBlocks, Orders
<1> QED BY <1>1, <1>2

LEMMA SameBlocks ==
    ASSUME NEW z, Divided(z, {}), NEW w, Divided(w, {}), SameZone(z, w)
    PROVE  FreeBlocks(z) = FreeBlocks(w)
<1>1. Sane(z) /\ Sane(w) /\ SameZone(w, z)
  BY DEF Divided, SameZone
<1>2. \A b : b \in FreeBlocks(z) => b \in FreeBlocks(w)
  <2> SUFFICES ASSUME NEW b, b \in FreeBlocks(z) PROVE b \in FreeBlocks(w)
    OBVIOUS
  <2>1. PICK i, o : b = [idx |-> i, order |-> o] /\ FreeAt(z, i, o)
    BY <1>1, BlockListed
  <2>2. FreeAt(w, i, o)
    BY <2>1, OneShape
  <2> QED BY <1>1, <2>1, <2>2, BlockListed
<1>3. \A b : b \in FreeBlocks(w) => b \in FreeBlocks(z)
  <2> SUFFICES ASSUME NEW b, b \in FreeBlocks(w) PROVE b \in FreeBlocks(z)
    OBVIOUS
  <2>1. PICK i, o : b = [idx |-> i, order |-> o] /\ FreeAt(w, i, o)
    BY <1>1, BlockListed
  <2>2. FreeAt(z, i, o)
    BY <1>1, <2>1, OneShape
  <2> QED BY <1>1, <2>1, <2>2, BlockListed
<1> QED BY <1>2, <1>3

-----------------------------------------------------------------------------
(* The layout of the zone                                                  *)

LEMMA Constants ==
    /\ PAGE_SIZE \in Nat \ {0} /\ INFO_SIZE \in Nat \ {0} /\ LIMIT \in Nat \ {0}
    /\ MIN_REGION \in Nat \ {0} /\ MIN_MANAGED \in Nat \ {0} /\ LOW \in Nat
    /\ INFO_SIZE <= PAGE_SIZE /\ PAGE_SIZE <= LOW /\ LIMIT % PAGE_SIZE = 0
  BY ConstantsAssumption

LEMMA AlignDown ==
    ASSUME NEW v \in Nat
    PROVE  /\ align_down(v) \in Nat /\ align_down(v) % PAGE_SIZE = 0
           /\ align_down(v) <= v /\ v < align_down(v) + PAGE_SIZE
<1> DEFINE d == PAGE_SIZE
<1>1. d \in Nat \ {0}
  BY Constants
<1>2. align_down(v) = v - (v % d)
  BY DEF align_down
<1> HIDE DEF d
<1>3. /\ v \div d \in Nat /\ v % d \in 0 .. d - 1
      /\ v = d * (v \div d) + (v % d)
  BY <1>1, Quotient
<1>4. d * (v \div d) \in Nat /\ (d * (v \div d)) % d = 0
  BY <1>1, <1>3, Product, MultipleOf
<1>5. align_down(v) = d * (v \div d)
  BY <1>2, <1>3, <1>4, <1>1
<1> DEFINE r == align_down(v)
<1> HIDE DEF r
<1>6. r = d * (v \div d) /\ r \in Nat /\ r % d = 0
  BY <1>4, <1>5 DEF r
<1>7. r <= v /\ v < r + d
  BY <1>1, <1>3, <1>6
<1> QED BY <1>6, <1>7 DEF r, d

\* Alignment, with the wrap-around of 32 bits.
LEMMA AlignUp ==
    ASSUME NEW v \in Nat
    PROVE  /\ align_up(v) \in Nat /\ align_up(v) % PAGE_SIZE = 0
           /\ align_up(v) + PAGE_SIZE <= LIMIT
           /\ v + PAGE_SIZE <= LIMIT => /\ v <= align_up(v)
                                        /\ align_up(v) < v + PAGE_SIZE
<1> DEFINE d == PAGE_SIZE
           x == align_down(v + d - 1)
           r == align_up(v)
           q == x \div LIMIT
<1>1. d \in Nat \ {0} /\ LIMIT \in Nat \ {0} /\ LIMIT % d = 0
  BY Constants
<1>2. v + d - 1 \in Nat
  BY <1>1
<1>3. x \in Nat /\ x % d = 0 /\ x <= v + d - 1 /\ v + d - 1 < x + d
  BY <1>2, AlignDown
<1>4. r = x % LIMIT
  BY DEF align_up
<1> HIDE DEF d, x, r
<1>5. /\ q \in Nat /\ r \in 0 .. LIMIT - 1 /\ x = LIMIT * q + r
  BY <1>1, <1>3, <1>4, Quotient
<1> HIDE DEF q
<1>6. r % d = 0 /\ r \in Nat
  <2>1. PICK m \in Nat : LIMIT = d * m
    BY <1>1, IsMultiple
  <2>2. LIMIT * q = d * (m * q) /\ m * q \in Nat
    BY <2>1, <1>1, <1>5, Product
  <2>3. LIMIT * q \in Nat /\ (LIMIT * q) % d = 0
    BY <2>2, <1>1, MultipleOf, Product
  <2> DEFINE y == LIMIT * q
  <2>4. y \in Nat /\ y % d = 0 /\ y <= x /\ x - y = r
    BY <2>3, <1>3, <1>5
  <2> HIDE DEF y
  <2> QED BY <2>4, <1>1, <1>3, DifferenceOfMultiples
<1>7. r + d <= LIMIT
  <2>1. r < LIMIT
    BY <1>1, <1>5
  <2> QED BY <2>1, <1>1, <1>6, MultiplesApart
<1>8. ASSUME v + d <= LIMIT PROVE v <= r /\ r < v + d
  <2>1. x < LIMIT
    BY <1>8, <1>1, <1>3
  <2>2. q = 0
    <3>1. ASSUME q >= 1 PROVE FALSE
      <4>1. LIMIT * 1 <= LIMIT * q
        BY <3>1, <1>1, <1>5, TimesMono
      <4> QED BY <4>1, <2>1, <1>1, <1>5, Product
    <3> QED BY <3>1, <1>5
  <2>3. r = x
    BY <2>2, <1>1, <1>3, <1>5
  <2> QED BY <2>3, <1>1, <1>3
<1> QED BY <1>6, <1>7, <1>8 DEF d, r

LEMMA EntryFacts ==
    ASSUME NEW e \in [addr : Nat, len : Nat, type : Nat], Usable(e)
    PROVE  /\ EntryStart(e) \in Nat /\ EntryEnd(e) \in Nat
           /\ LOW <= EntryStart(e) /\ EntryStart(e) < EntryEnd(e)
           /\ EntryEnd(e) < LIMIT
           /\ e.type = 1 /\ e.addr \in Nat /\ e.len \in Nat
           /\ e.addr <= EntryStart(e) /\ EntryEnd(e) <= e.addr + e.len
<1>1. e.addr \in Nat /\ e.len \in Nat
  OBVIOUS
<1> QED BY <1>1, Constants DEF Usable, EntryStart, EntryEnd

LEMMA BestFound ==
    ASSUME NEW b \in BootInfos, UsableEntries(b.mmap) # {}
    PROVE  \E i \in DOMAIN b.mmap :
              /\ BestEntry(b.mmap) = b.mmap[i] /\ Usable(b.mmap[i])
              /\ b.mmap[i] \in [addr : Nat, len : Nat, type : Nat]
<1> DEFINE mm == b.mmap
           E == UsableEntries(mm)
           size(i) == EntrySize(mm[i])
<1>1. mm \in Seq([addr : Nat, len : Nat, type : Nat])
  BY BootAssumption
<1>2. DOMAIN mm \subseteq Nat
      /\ \A i \in DOMAIN mm : mm[i] \in [addr : Nat, len : Nat, type : Nat]
  <2> DEFINE R == [addr : Nat, len : Nat, type : Nat]
  <2> HIDE DEF R
  <2>1. mm \in Seq(R)
    BY <1>1 DEF R
  <2>2. DOMAIN mm = 1 .. Len(mm) /\ Len(mm) \in Nat
    BY <2>1, LenProperties
  <2>3. \A i \in DOMAIN mm : mm[i] \in R
    BY <2>1, <2>2
  <2> QED BY <2>2, <2>3 DEF R
<1>3. E \subseteq DOMAIN mm /\ \A i \in E : Usable(mm[i])
  BY DEF UsableEntries
<1> HIDE DEF mm
<1>4. \A i \in E : size(i) \in Nat /\ size(i) <= LIMIT
  <2> SUFFICES ASSUME NEW i \in E PROVE size(i) \in Nat /\ size(i) <= LIMIT
    OBVIOUS
  <2>1. /\ EntryStart(mm[i]) \in Nat /\ EntryEnd(mm[i]) \in Nat
        /\ EntryStart(mm[i]) < EntryEnd(mm[i]) /\ EntryEnd(mm[i]) < LIMIT
    BY <1>2, <1>3, EntryFacts
  <2> QED BY <2>1, Constants DEF EntrySize
<1>5. E # {}
  BY DEF mm
<1> HIDE DEF E, size
<1> DEFINE T == {LIMIT - size(i) : i \in E}
<1>6. T \subseteq Nat /\ T # {}
  BY <1>4, <1>5, Constants
<1>7. PICK m \in T : \A k \in T : m <= k
  <2> HIDE DEF T
  <2> QED BY <1>6, Least
<1>8. PICK w \in E : \A j \in E : size(j) <= size(w)
  <2>1. PICK w \in E : m = LIMIT - size(w)
    BY <1>7
  <2>2. \A j \in E : LIMIT - size(j) \in T
    OBVIOUS
  <2>3. \A j \in E : LIMIT - size(w) <= LIMIT - size(j)
    BY <2>1, <2>2, <1>7
  <2> QED BY <2>3, <1>4, Constants
<1> DEFINE W == {i \in E : size(i) = size(w)}
<1>9. W \subseteq Nat /\ w \in W
  BY <1>2, <1>3, <1>8
<1>10. PICK v \in W : \A k \in W : v <= k
  <2> HIDE DEF W
  <2> QED BY <1>9, Least
<1> DEFINE Wins(i) == \A j \in E : (size(j) < size(i))
                                     \/ (size(j) = size(i) /\ i <= j)
<1>11. v \in E /\ Wins(v)
  BY <1>4, <1>8, <1>10
<1>12. BestEntry(mm) = mm[CHOOSE i \in E : Wins(i)]
  BY DEF BestEntry, E, size
<1> HIDE DEF Wins
<1>13. (CHOOSE i \in E : Wins(i)) \in E
  BY <1>11, Zenon
<1> QED BY <1>2, <1>3, <1>12, <1>13 DEF mm

LEMMA LayoutProp ==
    ASSUME NEW b \in BootInfos, ~InitFails(b)
    PROVE  LET l == ZoneLayout(b)
               e == BestEntry(b.mmap)
           IN  /\ l.base_phys \in Nat /\ l.base_phys % PAGE_SIZE = 0
               /\ l.base_phys >= PAGE_SIZE
               /\ l.pages \in Nat \ {0} /\ l.pages * PAGE_SIZE \in Nat
               /\ l.base_phys + l.pages * PAGE_SIZE <= EntryEnd(e)
               /\ l.info_start \in Nat /\ EntryStart(e) <= l.info_start
               /\ l.pages * INFO_SIZE \in Nat
               /\ l.info_start + l.pages * INFO_SIZE <= l.base_phys
               /\ align_up(b.kernel_end) <= EntryEnd(e)
                     => align_up(b.kernel_end) <= l.info_start
               /\ align_up(b.mb2 + b.mb2_size) <= EntryEnd(e)
                     => align_up(b.mb2 + b.mb2_size) <= l.info_start
<1> DEFINE d == PAGE_SIZE
           e == BestEntry(b.mmap)
           s == EntryStart(e)
           t == EntryEnd(e)
           k == align_up(b.kernel_end)
           r == align_up(b.mb2 + b.mb2_size)
           p1 == IF k > s /\ k <= t THEN k ELSE s
           p2 == IF r > p1 /\ r <= t THEN r ELSE p1
           a == align_up(p2)
           z == align_down(t)
           n == (z - a) \div d
           ib == align_up(n * INFO_SIZE)
           ip == ib \div d
           l == ZoneLayout(b)
<1>1. l = [info_start |-> a, base_phys |-> a + ip * d,
           pages |-> IF ip >= n THEN 0 ELSE n - ip]
  BY DEF ZoneLayout
<1>2. /\ d \in Nat \ {0} /\ LIMIT \in Nat \ {0} /\ LIMIT % d = 0
      /\ INFO_SIZE \in Nat \ {0} /\ INFO_SIZE <= d /\ LOW \in Nat /\ d <= LOW
  BY Constants
<1>3. /\ s \in Nat /\ t \in Nat /\ LOW <= s /\ s < t /\ t < LIMIT
  <2>1. UsableEntries(b.mmap) # {}
    BY DEF InitFails
  <2> QED BY <2>1, BestFound, EntryFacts
<1>4. s + d <= t
  <2>1. ~(EntrySize(e) < MIN_REGION * PAGE_SIZE)
    BY DEF InitFails
  <2>2. MIN_REGION * d >= d /\ MIN_REGION * d \in Nat
    <3>1. d * 1 <= d * MIN_REGION
      BY <1>2, Constants, TimesMono
    <3> QED BY <3>1, <1>2, Constants, Product
  <2>3. EntrySize(e) = t - s
    BY DEF EntrySize
  <2> HIDE DEF s, t, e
  <2> QED BY <2>1, <2>2, <2>3, <1>2, <1>3
<1>5. /\ k \in Nat /\ k % d = 0 /\ k + d <= LIMIT
      /\ r \in Nat /\ r % d = 0 /\ r + d <= LIMIT
  <2>1. b.kernel_end \in Nat /\ b.mb2 + b.mb2_size \in Nat
    BY BootAssumption
  <2> QED BY <2>1, AlignUp
<1>6. ~(l.pages < MIN_MANAGED)
  BY DEF InitFails
<1> HIDE DEF d, e, s, t, k, r, l
<1>7. /\ p1 \in Nat /\ s <= p1 /\ p1 <= t /\ (p1 = s \/ p1 % d = 0)
      /\ k <= t => k <= p1
  BY <1>3, <1>5
<1> HIDE DEF p1
<1>8. /\ p2 \in Nat /\ s <= p2 /\ p2 <= t /\ (p2 = s \/ p2 % d = 0)
      /\ k <= t => k <= p2
      /\ r <= t => r <= p2
  BY <1>3, <1>5, <1>7
<1> HIDE DEF p2
<1>9. p2 + d <= LIMIT
  <2>1. CASE p2 = s
    BY <2>1, <1>2, <1>3, <1>4
  <2>2. CASE p2 % d = 0
    <3>1. p2 < LIMIT
      BY <1>2, <1>3, <1>8
    <3> QED BY <3>1, <2>2, <1>2, <1>8, MultiplesApart
  <2> QED BY <2>1, <2>2, <1>8
<1>10. a \in Nat /\ a % d = 0 /\ p2 <= a /\ a < p2 + d
  BY <1>8, <1>9, AlignUp DEF d
<1>11. z \in Nat /\ z % d = 0 /\ z <= t /\ t < z + d
  BY <1>3, AlignDown DEF d
<1> HIDE DEF a, z
<1>12. a <= z
  <2>1. a <= t
    <3>1. CASE p2 = s
      BY <3>1, <1>2, <1>3, <1>4, <1>10
    <3>2. CASE p2 % d = 0
      <4>1. ~(p2 < a)
        <5>1. ASSUME p2 < a PROVE p2 + d <= a
          BY <5>1, <3>2, <1>2, <1>8, <1>10, MultiplesApart
        <5> QED BY <5>1, <1>2, <1>8, <1>10
      <4> QED BY <4>1, <1>8, <1>10
    <3> QED BY <3>1, <3>2, <1>8
  <2>2. ASSUME z < a PROVE FALSE
    <3>1. z + d <= a
      BY <2>2, <1>2, <1>10, <1>11, MultiplesApart
    <3> QED BY <3>1, <2>1, <1>2, <1>3, <1>10, <1>11
  <2> QED BY <2>2, <1>10, <1>11
<1>13. n \in Nat /\ d * n = z - a
  <2>1. (z - a) % d = 0 /\ z - a \in Nat
    BY <1>2, <1>10, <1>11, <1>12, DifferenceOfMultiples
  <2> DEFINE y == z - a
  <2>2. y \in Nat /\ y % d = 0 /\ n = y \div d
    BY <2>1
  <2> HIDE DEF y, n
  <2>3. y \div d \in Nat /\ y = d * (y \div d) + (y % d)
    BY <2>2, <1>2, Quotient
  <2>4. d * n \in Nat /\ n \in Nat
    BY <2>2, <2>3, <1>2, Product
  <2>5. y = d * n
    BY <2>2, <2>3, <2>4
  <2> QED BY <2>4, <2>5 DEF y
<1> HIDE DEF n
<1>14. n * INFO_SIZE \in Nat /\ n * INFO_SIZE <= d * n /\ d * n \in Nat
  <2>1. n * INFO_SIZE <= n * d
    BY <1>2, <1>13, TimesMono
  <2> QED BY <2>1, <1>2, <1>13, Product
<1>15. /\ ib \in Nat /\ ib % d = 0 /\ n * INFO_SIZE <= ib
  <2> DEFINE y == n * INFO_SIZE
  <2>1. y \in Nat /\ y <= z - a
    BY <1>13, <1>14
  <2> HIDE DEF y
  <2>2. y + d <= LIMIT
    BY <2>1, <1>2, <1>3, <1>8, <1>10, <1>11, <1>12
  <2>3. /\ align_up(y) \in Nat /\ align_up(y) % d = 0 /\ y <= align_up(y)
    BY <2>1, <2>2, AlignUp DEF d
  <2> QED BY <2>3 DEF y
<1> HIDE DEF ib
<1>16. ip \in Nat /\ ib = d * ip
  <2>1. ib \div d \in Nat /\ ib = d * (ib \div d) + (ib % d)
    BY <1>2, <1>15, Quotient
  <2> HIDE DEF ip
  <2>2. ip = ib \div d
    BY DEF ip
  <2>3. d * ip \in Nat /\ ip \in Nat
    BY <2>1, <2>2, <1>2, Product
  <2> QED BY <2>1, <2>2, <2>3, <1>15
<1> HIDE DEF ip
<1>17. ip < n
  <2>1. ASSUME ip >= n PROVE FALSE
    <3>1. l.pages = 0
      BY <2>1, <1>1
    <3> QED BY <3>1, <1>6, Constants
  <2> QED BY <2>1, <1>13, <1>16
<1> DEFINE m == n - ip
<1>18. m \in Nat \ {0} /\ m <= n
  BY <1>13, <1>16, <1>17
<1>19. l.info_start = a /\ l.base_phys = a + d * ip /\ l.pages = m
  <2>1. ip * d = d * ip
    BY <1>2, <1>16
  <2>2. ~(ip >= n)
    BY <1>13, <1>16, <1>17
  <2> QED BY <2>1, <2>2, <1>1
<1>20. d * ip \in Nat /\ d * m \in Nat /\ d * ip + d * m = d * n /\ m * d = d * m
  <2>1. d * ip + d * (n - ip) = d * n
    BY <1>2, <1>13, <1>16
  <2>2. d * ip \in Nat /\ d * m \in Nat /\ m * d = d * m
    BY <1>2, <1>16, <1>18, Product
  <2> QED BY <2>1, <2>2
<1>21. m * INFO_SIZE \in Nat /\ m * INFO_SIZE <= ib
  <2>1. INFO_SIZE * m <= INFO_SIZE * n
    BY <1>2, <1>13, <1>18, TimesMono
  <2>2. m * INFO_SIZE = INFO_SIZE * m /\ n * INFO_SIZE = INFO_SIZE * n
        /\ m * INFO_SIZE \in Nat
    BY <1>2, <1>13, <1>18, Product
  <2> QED BY <2>1, <2>2, <1>14, <1>15
<1> HIDE DEF m
<1>22. (a + d * ip) % d = 0
  <2>1. (d * ip) % d = 0
    BY <1>2, <1>16, MultipleOf
  <2> DEFINE y == d * ip
  <2>2. y \in Nat /\ y % d = 0
    BY <2>1, <1>20
  <2> HIDE DEF y
  <2>3. (a + y) % d = 0
    BY <2>2, <1>2, <1>10, SumOfMultiples
  <2> QED BY <2>3 DEF y
<1> DEFINE u == d * ip
           v == d * m
           w == d * n
           x == m * INFO_SIZE
<1>23. /\ u \in Nat /\ v \in Nat /\ u + v = w /\ w = z - a
       /\ m * d = v /\ x \in Nat /\ x <= u
  BY <1>13, <1>16, <1>20, <1>21
<1>24. l.base_phys = a + u /\ (a + u) % d = 0
  BY <1>19, <1>22
<1> HIDE DEF u, v, w, x
<1>25. /\ l.base_phys \in Nat /\ l.base_phys >= d /\ a \in Nat
       /\ l.base_phys + m * d <= t /\ s <= a /\ m * d \in Nat
       /\ a + x <= l.base_phys
  BY <1>2, <1>3, <1>8, <1>10, <1>11, <1>12, <1>23, <1>24
<1>26. /\ k <= t => k <= a
       /\ r <= t => r <= a
  BY <1>5, <1>8, <1>10
<1> QED BY <1>18, <1>19, <1>23, <1>24, <1>25, <1>26 DEF d, e, s, t, k, r, l, x

-----------------------------------------------------------------------------
(* The zone that init makes                                                *)

LEMMA BareIs ==
    ASSUME NEW z, Shape(z), z.base_phys \in Nat, z.total_pages \in Nat,
           z.pages \in Infos(z.total_pages),
           \A i \in Pages(z) : ~z.pages[i].is_free,
           z.free_list = [o \in Orders |-> << >>],
           z.free_count = [o \in Orders |-> 0], z.total_free = 0
    PROVE  Bare(z)
<1>1. \A i \in 0 .. z.total_pages - 1 : ~z.pages[i].is_free
  BY DEF Pages
<1>2. Laid(z.pages, z.total_pages) /\ Covered(z.pages, z.total_pages) = {}
  BY <1>1 DEF Laid, Covered
<1>3. Cardinality({}) = 0
  BY FS_EmptySet
<1>4. \A o \in Orders : AtOrder(z.pages, z.total_pages, o) = {}
  BY <1>1 DEF AtOrder
<1>5. Len(<< >>) = 0
  OBVIOUS
<1>6. Listed(z.free_list, z.free_count, z.pages, z.total_pages)
  <2>1. \A o \in Orders : z.free_list[o] = << >> /\ z.free_count[o] = 0
    OBVIOUS
  <2>2. \A o \in Orders :
           /\ Lists(z.free_list[o], AtOrder(z.pages, z.total_pages, o))
           /\ z.free_count[o] = Len(z.free_list[o])
    BY <2>1, <1>4, <1>5, ListOfNothing
  <2> QED BY <2>2 DEF Listed
<1> QED BY <1>2, <1>3, <1>6 DEF Bare, Sane

LEMMA EmptyZoneProp ==
    /\ Divided(EmptyZone, {})
    /\ EmptyZone.base_phys = 0 /\ EmptyZone.total_pages = 0
<1> DEFINE z == EmptyZone
<1>1. /\ Shape(z) /\ z.base_phys = 0 /\ z.total_pages = 0
      /\ z.pages = << >> /\ z.free_list = [o \in Orders |-> << >>]
      /\ z.free_count = [o \in Orders |-> 0] /\ z.total_free = 0
  BY DEF EmptyZone, Shape, Orders
<1> HIDE DEF z
<1>2. << >> \in Infos(0)
  BY DEF Infos
<1>3. Pages(z) = {}
  BY <1>1 DEF Pages
<1>4. Bare(z)
  <2>1. z.pages \in Infos(z.total_pages)
    BY <1>1, <1>2
  <2>2. \A i \in Pages(z) : ~z.pages[i].is_free
    BY <1>3
  <2>3. z.base_phys \in Nat /\ z.total_pages \in Nat
    BY <1>1
  <2> QED BY <1>1, <2>1, <2>2, <2>3, BareIs
<1>5. Sane(z) /\ Merged(z) /\ FreePages(z) = {}
  BY <1>3, <1>4 DEF Bare, Merged, FreePages, Covered, Pages
<1>6. Divided(z, {})
  BY <1>3, <1>5 DEF Divided
<1> QED BY <1>1, <1>6 DEF z

LEMMA BareZoneProp ==
    ASSUME NEW b \in BootInfos, ~InitFails(b)
    PROVE  /\ Bare(BareZone(b))
           /\ BareZone(b).base_phys = ZoneLayout(b).base_phys
           /\ BareZone(b).total_pages = ZoneLayout(b).pages
<1> DEFINE l == ZoneLayout(b)
           z == BareZone(b)
           pg == [i \in 0 .. l.pages - 1 |-> [order |-> 0, is_free |-> FALSE]]
           D == {"base_phys", "total_pages", "pages", "free_list",
                 "free_count", "total_free"}
<1>1. l.base_phys \in Nat /\ l.pages \in Nat
  BY LayoutProp
<1> HIDE DEF l
<1>2. z = [EmptyZone EXCEPT !.base_phys = l.base_phys, !.total_pages = l.pages,
                            !.pages = pg]
  BY DEF BareZone, l
<1>3. EmptyZone = [f \in D |-> EmptyZone[f]]
  BY DEF EmptyZone
<1>4. /\ EmptyZone.free_list = [o \in Orders |-> << >>]
      /\ EmptyZone.free_count = [o \in Orders |-> 0]
      /\ EmptyZone.total_free = 0
  BY DEF EmptyZone, Orders
<1> HIDE DEF z, pg
<1>5. /\ z = [f \in D |-> z[f]]
      /\ z.base_phys = l.base_phys /\ z.total_pages = l.pages /\ z.pages = pg
      /\ z.free_list = [o \in Orders |-> << >>]
      /\ z.free_count = [o \in Orders |-> 0] /\ z.total_free = 0
  BY <1>2, <1>3, <1>4
<1>6. Shape(z)
  BY <1>5 DEF Shape
<1>7. z.pages \in Infos(z.total_pages)
      /\ \A i \in Pages(z) : ~z.pages[i].is_free
  <2>1. 0 \in Orders
    BY ConstantsAssumption DEF Orders
  <2>2. pg \in Infos(l.pages) /\ \A i \in 0 .. l.pages - 1 : pg[i].is_free = FALSE
    BY <2>1 DEF Infos, PageInfo, pg
  <2>3. z.pages = pg /\ z.total_pages = l.pages
    BY <1>5
  <2> QED BY <2>2, <2>3 DEF Pages
<1>8. Bare(z)
  BY <1>1, <1>5, <1>6, <1>7, BareIs
<1> QED BY <1>5, <1>8 DEF z, l

\* The zone lies where ZoneLayout puts it.
Placed(z, b) ==
    /\ z.base_phys = ZoneLayout(b).base_phys
    /\ z.total_pages = ZoneLayout(b).pages

LEMMA FreshZoneProp ==
    ASSUME NEW b \in BootInfos, ~InitFails(b)
    PROVE  Divided(FreshZone(b), {}) /\ Placed(FreshZone(b), b)
<1>1. /\ Bare(BareZone(b))
      /\ BareZone(b).base_phys = ZoneLayout(b).base_phys
      /\ BareZone(b).total_pages = ZoneLayout(b).pages
  BY BareZoneProp
<1>2. Divided(Carve(BareZone(b)), {}) /\ SameZone(BareZone(b), Carve(BareZone(b)))
  BY <1>1, CarveProp
<1> QED BY <1>1, <1>2 DEF FreshZone, SameZone, Placed

LEMMA PlacedProp ==
    ASSUME NEW b \in BootInfos, ~InitFails(b), NEW z, Placed(z, b),
           NEW i \in Pages(z)
    PROVE  Addressable(z) /\ index_to_phys(z, i) \in Addrs \ {NULL}
<1> DEFINE n == z.total_pages
           base == z.base_phys
           d == PAGE_SIZE
           t == EntryEnd(BestEntry(b.mmap))
<1>1. /\ base \in Nat /\ base % d = 0 /\ base >= d /\ n \in Nat
      /\ n * d \in Nat /\ base + n * d <= t
  BY LayoutProp DEF Placed
<1>2. t \in Nat /\ t < LIMIT
  <2>1. UsableEntries(b.mmap) # {}
    BY DEF InitFails
  <2> QED BY <2>1, BestFound, EntryFacts
<1>3. d \in Nat \ {0} /\ LIMIT \in Nat
  BY Constants
<1>4. Addressable(z)
  BY <1>1 DEF Addressable
<1>5. i \in Nat /\ i + 1 <= n
  BY <1>1 DEF Pages
<1>6. index_to_phys(z, i) = base + i * d
  BY DEF index_to_phys
<1> HIDE DEF n, base, d, t
<1>7. d * (i + 1) <= d * n
  BY <1>1, <1>3, <1>5, TimesMono
<1>8. d * (i + 1) = i * d + d /\ d * n = n * d /\ i * d \in Nat
  BY <1>1, <1>3, <1>5, Product
<1>9. base + i * d \in 0 .. LIMIT - 1 /\ base + i * d # 0
  BY <1>1, <1>2, <1>3, <1>7, <1>8
<1> QED BY <1>4, <1>6, <1>9 DEF Addrs, NULL

-----------------------------------------------------------------------------
(* The invariant                                                           *)

HeldAre(U) == held = {index_to_phys(g_zone, u) : u \in U}

IInv ==
    /\ g_buddy_ready \in BOOLEAN
    /\ boot \in BootInfos
    /\ ret \in [op : {"none", "init", "alloc", "free"}, page : Addrs]
    /\ \E U : Divided(g_zone, U) /\ HeldAre(U)
    /\ g_buddy_ready => ~InitFails(boot) /\ Placed(g_zone, boot)
    /\ ~g_buddy_ready => g_zone = EmptyZone /\ held = {}

LEMMA NullIsAddr == NULL \in Addrs
  BY Constants DEF NULL, Addrs

LEMMA IInvInit == Init => IInv
<1> SUFFICES ASSUME Init PROVE IInv
  OBVIOUS
<1>1. ret \in [op : {"none", "init", "alloc", "free"}, page : Addrs]
  BY NullIsAddr DEF Init, Answer
<1>2. Divided(g_zone, {}) /\ HeldAre({})
  BY EmptyZoneProp DEF Init, HeldAre
<1>3. \E U : Divided(g_zone, U) /\ HeldAre(U)
  BY <1>2
<1> QED BY <1>1, <1>3 DEF Init, IInv

\* The pages handed out once alloc_page has answered.
LEMMA IInvAlloc ==
    ASSUME IInv, pmm_buddy_alloc_page PROVE IInv'
<1>1. PICK U : Divided(g_zone, U) /\ HeldAre(U)
  BY DEF IInv
<1>2. boot' = boot /\ g_buddy_ready' = g_buddy_ready
  BY DEF pmm_buddy_alloc_page
<1>3. g_buddy_ready \in BOOLEAN /\ boot \in BootInfos
  BY DEF IInv
<1>4. CASE ~g_buddy_ready
  <2>1. g_zone' = g_zone /\ ret' = Answer("alloc", NULL) /\ held' = held
    BY <1>4 DEF pmm_buddy_alloc_page
  <2>2. ret' \in [op : {"none", "init", "alloc", "free"}, page : Addrs]
    BY <2>1, NullIsAddr DEF Answer
  <2>3. Divided(g_zone', U) /\ HeldAre(U)'
    BY <2>1, <1>1 DEF HeldAre
  <2>4. \E V : Divided(g_zone', V) /\ HeldAre(V)'
    BY <2>3
  <2>5. g_zone' = EmptyZone /\ held' = {}
    BY <2>1, <1>4 DEF IInv
  <2> QED BY <1>2, <1>3, <1>4, <2>2, <2>4, <2>5 DEF IInv
<1>5. CASE g_buddy_ready
  <2> DEFINE a == alloc_page(g_zone)
  <2>1. /\ g_zone' = a.zone /\ ret' = Answer("alloc", a.addr)
        /\ held' = held \cup ({a.addr} \ {NULL})
    BY <1>5 DEF pmm_buddy_alloc_page
  <2>2. ~InitFails(boot) /\ Placed(g_zone, boot)
    BY <1>5 DEF IInv
  <2>3. \/ U = Pages(g_zone) /\ a.addr = NULL /\ a.zone = g_zone
        \/ \E i \in Pages(g_zone) \ U :
              /\ a.addr = index_to_phys(g_zone, i)
              /\ Divided(a.zone, U \cup {i}) /\ SameZone(g_zone, a.zone)
    BY <1>1, AllocPageProp
  <2> HIDE DEF a
  <2>4. CASE a.addr = NULL /\ a.zone = g_zone
    <3>1. g_zone' = g_zone /\ held' = held
      BY <2>1, <2>4
    <3>2. ret' \in [op : {"none", "init", "alloc", "free"}, page : Addrs]
      BY <2>1, <2>4, NullIsAddr DEF Answer
    <3>3. Divided(g_zone', U) /\ HeldAre(U)'
      BY <3>1, <1>1 DEF HeldAre
    <3>4. \E V : Divided(g_zone', V) /\ HeldAre(V)'
      BY <3>3
    <3>5. ~InitFails(boot') /\ Placed(g_zone', boot')
      BY <3>1, <2>2, <1>2
    <3> QED BY <1>2, <1>3, <1>5, <3>2, <3>4, <3>5 DEF IInv
  <2>5. CASE \E i \in Pages(g_zone) \ U :
                /\ a.addr = index_to_phys(g_zone, i)
                /\ Divided(a.zone, U \cup {i}) /\ SameZone(g_zone, a.zone)
    <3>1. PICK i \in Pages(g_zone) \ U :
                /\ a.addr = index_to_phys(g_zone, i)
                /\ Divided(a.zone, U \cup {i}) /\ SameZone(g_zone, a.zone)
      BY <2>5
    <3>2. a.addr \in Addrs \ {NULL}
      BY <1>3, <2>2, <3>1, PlacedProp
    <3>3. \A j : index_to_phys(g_zone', j) = index_to_phys(g_zone, j)
      BY <2>1, <3>1 DEF SameZone, index_to_phys
    <3>4. held' = held \cup {a.addr}
      BY <2>1, <3>2
    <3>5. held = {index_to_phys(g_zone, u) : u \in U}
      BY <1>1 DEF HeldAre
    <3>6. held' = {index_to_phys(g_zone', u) : u \in U \cup {i}}
      BY <3>1, <3>3, <3>4, <3>5
    <3>7. Divided(g_zone', U \cup {i}) /\ HeldAre(U \cup {i})'
      BY <2>1, <3>1, <3>6 DEF HeldAre
    <3>8. \E V : Divided(g_zone', V) /\ HeldAre(V)'
      BY <3>7
    <3>9. ret' \in [op : {"none", "init", "alloc", "free"}, page : Addrs]
      BY <2>1, <3>2 DEF Answer
    <3>10. ~InitFails(boot') /\ Placed(g_zone', boot')
      BY <1>2, <2>1, <2>2, <3>1 DEF Placed, SameZone
    <3> QED BY <1>2, <1>3, <1>5, <3>8, <3>9, <3>10 DEF IInv
  <2> QED BY <2>3, <2>4, <2>5
<1> QED BY <1>3, <1>4, <1>5

\* A held address is that of a page handed out, and free_page takes it back.
LEMMA HeldProp ==
    ASSUME IInv, g_buddy_ready, NEW U, Divided(g_zone, U), HeldAre(U),
           NEW addr \in held
    PROVE  \E i \in U :
              /\ addr = index_to_phys(g_zone, i)
              /\ Divided(free_page(g_zone, addr), U \ {i})
              /\ SameZone(g_zone, free_page(g_zone, addr))
              /\ held \ {addr} = {index_to_phys(g_zone, u) : u \in U \ {i}}
              /\ Accepted(g_zone, addr)
<1>1. PICK i \in U : addr = index_to_phys(g_zone, i)
  BY DEF HeldAre
<1>2. ~InitFails(boot) /\ Placed(g_zone, boot) /\ boot \in BootInfos
  BY DEF IInv
<1>3. U \subseteq Pages(g_zone) /\ Sane(g_zone)
  BY DEF Divided
<1>4. Addressable(g_zone)
  BY <1>1, <1>2, <1>3, PlacedProp
<1>5. /\ Accepted(g_zone, addr)
      /\ Divided(free_page(g_zone, addr), U \ {i})
      /\ SameZone(g_zone, free_page(g_zone, addr))
  BY <1>1, <1>4, FreePageProp
<1>6. \A u \in U : index_to_phys(g_zone, u) = addr => u = i
  <2>1. \A u \in U : u \in Nat
    BY <1>3, PageFacts
  <2>2. g_zone.base_phys \in Nat
    BY <1>4 DEF Addressable
  <2> QED BY <2>1, <2>2, <1>1, SameAddress
<1>7. held \ {addr} = {index_to_phys(g_zone, u) : u \in U \ {i}}
  <2>1. held = {index_to_phys(g_zone, u) : u \in U}
    BY DEF HeldAre
  <2> QED BY <2>1, <1>1, <1>6
<1> QED BY <1>1, <1>5, <1>7

LEMMA IInvFree ==
    ASSUME IInv, NEW addr \in FreeArgs, CallerMayFree(addr),
           pmm_buddy_free_page(addr)
    PROVE  IInv'
<1>1. PICK U : Divided(g_zone, U) /\ HeldAre(U)
  BY DEF IInv
<1>2. boot' = boot /\ g_buddy_ready' = g_buddy_ready
  BY DEF pmm_buddy_free_page
<1>3. g_buddy_ready \in BOOLEAN /\ boot \in BootInfos
  BY DEF IInv
<1>4. ret' \in [op : {"none", "init", "alloc", "free"}, page : Addrs]
  <2>1. addr \in Addrs /\ NULL \in Addrs
    BY NullIsAddr DEF FreeArgs
  <2>2. ret' = Answer("free", IF addr % PAGE_SIZE = 0 THEN addr ELSE NULL)
    BY DEF pmm_buddy_free_page
  <2> QED BY <2>1, <2>2 DEF Answer
<1>5. CASE g_buddy_ready /\ Accepted(g_zone, addr)
  <2>1. g_zone' = free_page(g_zone, addr) /\ held' = held \ {addr}
    BY <1>5 DEF pmm_buddy_free_page
  <2>2. addr \in held
    BY <1>5 DEF CallerMayFree
  <2>3. PICK i \in U :
              /\ addr = index_to_phys(g_zone, i)
              /\ Divided(free_page(g_zone, addr), U \ {i})
              /\ SameZone(g_zone, free_page(g_zone, addr))
              /\ held \ {addr} = {index_to_phys(g_zone, u) : u \in U \ {i}}
    BY <1>1, <1>5, <2>2, HeldProp
  <2>4. \A j : index_to_phys(g_zone', j) = index_to_phys(g_zone, j)
    BY <2>1, <2>3 DEF SameZone, index_to_phys
  <2>5. held' = {index_to_phys(g_zone', u) : u \in U \ {i}}
    BY <2>1, <2>3, <2>4
  <2>6. Divided(g_zone', U \ {i}) /\ HeldAre(U \ {i})'
    BY <2>1, <2>3, <2>5 DEF HeldAre
  <2>7. \E V : Divided(g_zone', V) /\ HeldAre(V)'
    BY <2>6
  <2>8. ~InitFails(boot) /\ Placed(g_zone, boot)
    BY <1>5 DEF IInv
  <2>9. ~InitFails(boot') /\ Placed(g_zone', boot')
    BY <1>2, <2>1, <2>3, <2>8 DEF Placed, SameZone
  <2> QED BY <1>2, <1>3, <1>4, <1>5, <2>7, <2>9 DEF IInv
<1>6. CASE ~(g_buddy_ready /\ Accepted(g_zone, addr))
  <2>1. g_zone' = g_zone /\ held' = held
    BY <1>6 DEF pmm_buddy_free_page
  <2>2. Divided(g_zone', U) /\ HeldAre(U)'
    BY <2>1, <1>1 DEF HeldAre
  <2>3. \E V : Divided(g_zone', V) /\ HeldAre(V)'
    BY <2>2
  <2> QED BY <1>2, <1>3, <1>4, <2>1, <2>3 DEF IInv
<1> QED BY <1>5, <1>6

LEMMA IInvStart ==
    ASSUME IInv, pmm_buddy_init PROVE IInv'
<1>1. /\ boot \in BootInfos /\ boot' = boot /\ held' = held
      /\ ~g_buddy_ready /\ g_zone = EmptyZone /\ held = {}
      /\ ret' = Answer("init", NULL)
  BY DEF IInv, pmm_buddy_init
<1>2. ret' \in [op : {"none", "init", "alloc", "free"}, page : Addrs]
  BY <1>1, NullIsAddr DEF Answer
<1>3. CASE InitFails(boot)
  <2>1. g_zone' = g_zone /\ g_buddy_ready' = g_buddy_ready
    BY <1>3 DEF pmm_buddy_init
  <2>2. Divided(g_zone', {}) /\ HeldAre({})'
    BY <2>1, <1>1, EmptyZoneProp DEF HeldAre
  <2>3. \E V : Divided(g_zone', V) /\ HeldAre(V)'
    BY <2>2
  <2>4. g_buddy_ready \in BOOLEAN
    BY DEF IInv
  <2> QED BY <1>1, <1>2, <2>1, <2>3, <2>4 DEF IInv
<1>4. CASE ~InitFails(boot)
  <2> DEFINE z == FreshZone(boot)
             w == selftest(z)
  <2>1. g_buddy_ready' = TRUE /\ g_zone' = w
    BY <1>4 DEF pmm_buddy_init
  <2>2. Divided(z, {}) /\ Placed(z, boot)
    BY <1>1, <1>4, FreshZoneProp
  <2> HIDE DEF z
  <2>3. Addressable(z)
    <3>1. z.total_pages \in Nat \ {0}
      BY <2>2, <1>1, <1>4, LayoutProp DEF Placed
    <3>2. 0 \in Pages(z)
      BY <3>1 DEF Pages
    <3> QED BY <3>2, <2>2, <1>1, <1>4, PlacedProp
  <2>4. Divided(w, {}) /\ SameZone(z, w)
    BY <2>2, <2>3, SelftestProp
  <2>5. Placed(w, boot)
    BY <2>2, <2>4 DEF Placed, SameZone
  <2> HIDE DEF w
  <2>6. Divided(g_zone', {}) /\ HeldAre({})'
    BY <1>1, <2>1, <2>4 DEF HeldAre
  <2>7. \E V : Divided(g_zone', V) /\ HeldAre(V)'
    BY <2>6
  <2>8. ~InitFails(boot') /\ Placed(g_zone', boot')
    BY <1>1, <1>4, <2>1, <2>5
  <2> QED BY <1>1, <1>2, <2>1, <2>7, <2>8 DEF IInv
<1> QED BY <1>3, <1>4

LEMMA IInvNext == IInv /\ [Next]_vars => IInv'
<1> SUFFICES ASSUME IInv, [Next]_vars PROVE IInv'
  OBVIOUS
<1>1. CASE pmm_buddy_init
  BY <1>1, IInvStart
<1>2. CASE pmm_buddy_alloc_page
  BY <1>2, IInvAlloc
<1>3. CASE \E addr \in FreeArgs : CallerMayFree(addr) /\ pmm_buddy_free_page(addr)
  BY <1>3, IInvFree
<1>4. CASE UNCHANGED vars
  BY <1>4 DEF vars, IInv, HeldAre
<1> QED BY <1>1, <1>2, <1>3, <1>4 DEF Next

LEMMA Invariance == Spec => []IInv
  BY IInvInit, IInvNext, PTL DEF Spec

-----------------------------------------------------------------------------
(* What the invariant says of the free blocks                              *)

LEMMA FreeIndicesAre ==
    ASSUME NEW z, Sane(z)
    PROVE  FreeIndices(z) = FreePages(z)
<1>1. ASSUME NEW k \in FreeIndices(z) PROVE k \in FreePages(z)
  <2>1. PICK b \in FreeBlocks(z) : k \in Block(b.idx, b.order)
    BY <1>1 DEF FreeIndices
  <2>2. PICK i, o : b = [idx |-> i, order |-> o] /\ FreeAt(z, i, o)
    BY <2>1, BlockListed
  <2>3. k \in Block(i, o)
    BY <2>1, <2>2
  <2>4. i \in Pages(z) /\ z.pages[i].is_free /\ z.pages[i].order = o
    BY <2>2, FreeAtProp
  <2> QED BY <2>3, <2>4, PageFacts
<1>2. ASSUME NEW k \in FreePages(z) PROVE k \in FreeIndices(z)
  <2>1. PICK j, p : FreeAt(z, j, p) /\ j <= k /\ k < j + 2^p
    BY <1>2, CoverProp
  <2>2. j \in Nat /\ p \in Orders
    BY <2>1, FreeAtProp
  <2>3. k \in Int
    BY <1>2 DEF FreePages, Covered
  <2>4. k \in Block(j, p)
    BY <2>1, <2>2, <2>3, InBlock
  <2>5. [idx |-> j, order |-> p] \in FreeBlocks(z)
    BY <2>1, BlockListed
  <2>6. \E b \in FreeBlocks(z) : k \in Block(b.idx, b.order)
    <3> DEFINE b == [idx |-> j, order |-> p]
    <3>1. b.idx = j /\ b.order = p
      OBVIOUS
    <3>2. b \in FreeBlocks(z) /\ k \in Block(b.idx, b.order)
      BY <2>4, <2>5, <3>1
    <3> QED BY <3>2
  <2> QED BY <2>6 DEF FreeIndices
<1> QED BY <1>1, <1>2

\* Where the invariant says the free pages are.
LEMMA FreeAddrsAre ==
    ASSUME NEW U, Divided(g_zone, U)
    PROVE  FreeAddrs = {index_to_phys(g_zone, i) : i \in Pages(g_zone) \ U}
<1>1. FreeIndices(g_zone) = Pages(g_zone) \ U
  BY FreeIndicesAre DEF Divided
<1> QED BY <1>1 DEF FreeAddrs

LEMMA BlocksApart ==
    ASSUME NEW z, Sane(z), NEW b \in FreeBlocks(z), NEW c \in FreeBlocks(z),
           b # c
    PROVE  Block(b.idx, b.order) \cap Block(c.idx, c.order) = {}
<1>1. PICK i, o : b = [idx |-> i, order |-> o] /\ FreeAt(z, i, o)
  BY BlockListed
<1>2. PICK j, p : c = [idx |-> j, order |-> p] /\ FreeAt(z, j, p)
  BY BlockListed
<1>3. /\ i \in Nat /\ o \in Orders /\ z.pages[i].order = o /\ 2^o \in Nat
      /\ j \in Nat /\ p \in Orders /\ z.pages[j].order = p /\ 2^p \in Nat
  BY <1>1, <1>2, FreeAtProp
<1>4. i # j
  BY <1>1, <1>2, <1>3
<1>5. i < j \/ j < i
  BY <1>3, <1>4
<1>6. i < j => i + 2^o <= j
  BY <1>1, <1>2, ApartProp
<1>7. j < i => j + 2^p <= i
  BY <1>1, <1>2, ApartProp
<1>8. \A k : k \in Block(i, o) <=> k \in Int /\ i <= k /\ k < i + 2^o
  BY <1>3, InBlock
<1>9. \A k : k \in Block(j, p) <=> k \in Int /\ j <= k /\ k < j + 2^p
  BY <1>3, InBlock
<1>10. ASSUME NEW k, k \in Block(i, o), k \in Block(j, p) PROVE FALSE
  <2>1. k \in Int /\ i <= k /\ k < i + 2^o /\ j <= k /\ k < j + 2^p
    BY <1>10, <1>8, <1>9
  <2> QED BY <2>1, <1>3, <1>5, <1>6, <1>7
<1>11. Block(b.idx, b.order) = Block(i, o) /\ Block(c.idx, c.order) = Block(j, p)
  BY <1>1, <1>2
<1> QED BY <1>10, <1>11

LEMMA IInvPartition == IInv => BlocksAndHeldPartition
<1> SUFFICES ASSUME IInv PROVE BlocksAndHeldPartition
  OBVIOUS
<1>1. PICK U : Divided(g_zone, U) /\ HeldAre(U)
  BY DEF IInv
<1>2. Sane(g_zone) /\ U \subseteq Pages(g_zone)
  BY <1>1 DEF Divided
<1>3. ASSUME NEW b \in FreeBlocks(g_zone)
      PROVE  /\ b.idx % 2^b.order = 0
             /\ Block(b.idx, b.order) \subseteq Pages(g_zone)
  <2>1. PICK i, o : b = [idx |-> i, order |-> o] /\ FreeAt(g_zone, i, o)
    BY <1>2, BlockListed
  <2>2. /\ i \in Nat /\ o \in Orders /\ Aligned(i, o)
        /\ i + 2^o <= g_zone.total_pages /\ g_zone.total_pages \in Nat
        /\ 2^o \in Nat
    BY <2>1, <1>2, FreeAtProp
  <2>3. b.idx = i /\ b.order = o
    BY <2>1
  <2>4. \A k : k \in Block(i, o) <=> k \in Int /\ i <= k /\ k < i + 2^o
    BY <2>2, InBlock
  <2>5. ASSUME NEW k \in Block(i, o) PROVE k \in Pages(g_zone)
    <3>1. k \in Int /\ i <= k /\ k < i + 2^o
      BY <2>4
    <3> QED BY <3>1, <2>2 DEF Pages
  <2> QED BY <2>2, <2>3, <2>5 DEF Aligned
<1>4. \A b, c \in FreeBlocks(g_zone) :
         b # c => Block(b.idx, b.order) \cap Block(c.idx, c.order) = {}
  BY <1>2, BlocksApart
<1>5. FreeAddrs = {index_to_phys(g_zone, i) : i \in Pages(g_zone) \ U}
  BY <1>1, FreeAddrsAre
<1>6. held = {index_to_phys(g_zone, i) : i \in U}
  BY <1>1 DEF HeldAre
<1>7. FreeAddrs \cap held = {}
  <2>1. ASSUME NEW a \in FreeAddrs, a \in held PROVE FALSE
    <3>1. PICK i \in Pages(g_zone) \ U : a = index_to_phys(g_zone, i)
      BY <2>1, <1>5
    <3>2. PICK j \in U : a = index_to_phys(g_zone, j)
      BY <2>1, <1>6
    <3>3. i \in Nat /\ j \in Nat /\ g_zone.base_phys \in Nat
      BY <1>2 DEF Sane, Pages
    <3>4. i = j
      BY <3>1, <3>2, <3>3, SameAddress
    <3> QED BY <3>4
  <2> QED BY <2>1
<1>8. FreeAddrs \cup held
         = {index_to_phys(g_zone, i) : i \in Pages(g_zone)}
  BY <1>2, <1>5, <1>6
<1> QED BY <1>3, <1>4, <1>7, <1>8 DEF BlocksAndHeldPartition

-----------------------------------------------------------------------------
(* What it says of the types, the flags and the counters                   *)

LEMMA ListedOnce ==
    ASSUME NEW S, NEW l, Lists(l, S), NEW i
    PROVE  /\ i \in S => Cardinality({k \in DOMAIN l : l[k] = i}) = 1
           /\ i \notin S => Cardinality({k \in DOMAIN l : l[k] = i}) = 0
<1>1. ToSet(l) = S /\ IsInjective(l) /\ l \in Seq(S)
  BY DEF Lists
<1>2. S = {l[k] : k \in DOMAIN l}
  BY <1>1 DEF ToSet
<1>3. ASSUME i \in S PROVE Cardinality({k \in DOMAIN l : l[k] = i}) = 1
  <2>1. PICK m \in DOMAIN l : l[m] = i
    BY <1>2, <1>3
  <2>2. \A k \in DOMAIN l : l[k] = i => k = m
    BY <1>1, <2>1 DEF IsInjective
  <2>3. {k \in DOMAIN l : l[k] = i} = {m}
    BY <2>1, <2>2
  <2> QED BY <2>3, FS_Singleton
<1>4. ASSUME i \notin S PROVE Cardinality({k \in DOMAIN l : l[k] = i}) = 0
  <2>1. {k \in DOMAIN l : l[k] = i} = {}
    BY <1>2, <1>4
  <2> QED BY <2>1, FS_EmptySet
<1> QED BY <1>3, <1>4

LEMMA IInvBase == IInv => g_zone.base_phys \in Addrs
<1> SUFFICES ASSUME IInv PROVE g_zone.base_phys \in Addrs
  OBVIOUS
<1>1. CASE ~g_buddy_ready
  <2>1. g_zone.base_phys = 0
    BY <1>1, EmptyZoneProp DEF IInv
  <2> QED BY <2>1, NullIsAddr DEF NULL
<1>2. CASE g_buddy_ready
  <2>1. boot \in BootInfos /\ ~InitFails(boot) /\ Placed(g_zone, boot)
    BY <1>2 DEF IInv
  <2>2. g_zone.total_pages \in Nat \ {0} /\ g_zone.base_phys \in Nat
    BY <2>1, LayoutProp DEF Placed
  <2>3. 0 \in Pages(g_zone)
    BY <2>2 DEF Pages
  <2>4. index_to_phys(g_zone, 0) \in Addrs
    BY <2>1, <2>3, PlacedProp
  <2>5. index_to_phys(g_zone, 0) = g_zone.base_phys
    BY <2>2, Constants DEF index_to_phys
  <2> QED BY <2>4, <2>5
<1> QED BY <1>1, <1>2 DEF IInv

LEMMA IInvHeld == IInv => held \subseteq Addrs \ {NULL}
<1> SUFFICES ASSUME IInv, NEW a \in held PROVE a \in Addrs \ {NULL}
  OBVIOUS
<1>1. PICK U : Divided(g_zone, U) /\ HeldAre(U)
  BY DEF IInv
<1>2. PICK i \in U : a = index_to_phys(g_zone, i)
  BY <1>1 DEF HeldAre
<1>3. i \in Pages(g_zone)
  BY <1>1 DEF Divided
<1>4. boot \in BootInfos /\ ~InitFails(boot) /\ Placed(g_zone, boot)
  BY DEF IInv
<1> QED BY <1>2, <1>3, <1>4, PlacedProp

LEMMA IInvTyped == IInv => TypeOK
<1> SUFFICES ASSUME IInv PROVE TypeOK
  OBVIOUS
<1>1. PICK U : Divided(g_zone, U)
  BY DEF IInv
<1>2. Sane(g_zone)
  BY <1>1 DEF Divided
<1>3. /\ g_zone.total_pages \in Nat
      /\ g_zone.pages \in [Pages(g_zone) -> [order : 0 .. MAX_ORDER, is_free : BOOLEAN]]
  BY <1>2 DEF Sane, Infos, PageInfo, Orders, Pages
<1>4. /\ g_zone.free_list = [o \in Orders |-> g_zone.free_list[o]]
      /\ g_zone.free_count = [o \in Orders |-> g_zone.free_count[o]]
      /\ \A o \in Orders : g_zone.free_count[o] = Len(g_zone.free_list[o])
  BY <1>2 DEF Sane, Listed
<1>5. ASSUME NEW o \in Orders
      PROVE  /\ g_zone.free_list[o] \in Seq(Pages(g_zone))
             /\ Len(g_zone.free_list[o]) \in Nat
  <2> DEFINE l == g_zone.free_list[o]
             S == AtOrder(g_zone.pages, g_zone.total_pages, o)
  <2>1. Lists(l, S)
    BY <1>2, ListHolds
  <2>2. S \subseteq Pages(g_zone)
    BY DEF AtOrder, Pages
  <2> HIDE DEF l, S
  <2>3. l \in Seq(S)
    BY <2>1 DEF Lists
  <2>4. \A i \in 1 .. Len(l) : l[i] \in Pages(g_zone)
    BY <2>2, <2>3
  <2>5. l \in Seq(Pages(g_zone))
    BY <2>3, <2>4, SeqOfElements
  <2> QED BY <2>3, <2>5 DEF l
<1>6. g_zone.free_list \in [0 .. MAX_ORDER -> Seq(Pages(g_zone))]
  BY <1>4, <1>5 DEF Orders
<1>7. g_zone.free_count \in [0 .. MAX_ORDER -> Nat]
  BY <1>4, <1>5 DEF Orders
<1>8. g_zone.total_free \in Nat
  BY <1>2, <1>3, CoveredFinite DEF Sane
<1>9. g_zone.base_phys \in Addrs /\ held \subseteq Addrs
  BY IInvBase, IInvHeld
<1>10. /\ g_buddy_ready \in BOOLEAN /\ boot \in BootInfos
       /\ ret \in [op : {"none", "init", "alloc", "free"}, page : Addrs]
  BY DEF IInv
<1> QED BY <1>3, <1>6, <1>7, <1>8, <1>9, <1>10, Zenon DEF TypeOK

LEMMA IInvBookkeeping == IInv => BookkeepingAgrees
<1> SUFFICES ASSUME IInv PROVE BookkeepingAgrees
  OBVIOUS
<1>1. PICK U : Divided(g_zone, U)
  BY DEF IInv
<1>2. Sane(g_zone)
  BY <1>1 DEF Divided
<1>3. ASSUME NEW i \in Pages(g_zone), NEW o \in 0 .. MAX_ORDER
      PROVE  Cardinality({k \in DOMAIN g_zone.free_list[o] :
                             g_zone.free_list[o][k] = i})
                = IF g_zone.pages[i] = [order |-> o, is_free |-> TRUE] THEN 1
                  ELSE 0
  <2> DEFINE S == AtOrder(g_zone.pages, g_zone.total_pages, o)
  <2>1. Lists(g_zone.free_list[o], S)
    BY <1>2, ListHolds DEF Orders
  <2>2. i \in S <=> g_zone.pages[i] = [order |-> o, is_free |-> TRUE]
    BY DEF AtOrder, Pages
  <2> HIDE DEF S
  <2> DEFINE c == Cardinality({k \in DOMAIN g_zone.free_list[o] :
                                  g_zone.free_list[o][k] = i})
  <2>3. (i \in S => c = 1) /\ (i \notin S => c = 0)
    BY <2>1, ListedOnce
  <2> HIDE DEF c
  <2>4. c = IF g_zone.pages[i] = [order |-> o, is_free |-> TRUE] THEN 1 ELSE 0
    BY <2>2, <2>3
  <2> QED BY <2>4 DEF c
<1>4. \A o \in 0 .. MAX_ORDER :
         g_zone.free_count[o] = Len(g_zone.free_list[o])
  BY <1>2 DEF Sane, Listed, Orders
<1>5. g_zone.total_free = Cardinality(FreeIndices(g_zone))
  BY <1>2, FreeIndicesAre DEF Sane, FreePages
<1>6. TypeOK
  BY IInvTyped
<1> QED BY <1>3, <1>4, <1>5, <1>6 DEF BookkeepingAgrees

-----------------------------------------------------------------------------
(* What it says of fragmentation                                           *)

LEMMA IInvCoalesced == IInv => FullyCoalesced
<1> SUFFICES ASSUME IInv PROVE FullyCoalesced
  OBVIOUS
<1>1. PICK U : Divided(g_zone, U) /\ HeldAre(U)
  BY DEF IInv
<1>2. Sane(g_zone) /\ Merged(g_zone)
  BY <1>1 DEF Divided
<1>3. ASSUME NEW b \in FreeBlocks(g_zone), NEW c \in FreeBlocks(g_zone),
             b.order = c.order, b.order < MAX_ORDER,
             c.idx = calc_buddy_index(b.idx, b.order)
      PROVE  FALSE
  <2>1. PICK i, o : b = [idx |-> i, order |-> o] /\ FreeAt(g_zone, i, o)
    BY <1>2, BlockListed
  <2>2. PICK j, p : c = [idx |-> j, order |-> p] /\ FreeAt(g_zone, j, p)
    BY <1>2, BlockListed
  <2>3. p = o /\ j = calc_buddy_index(i, o) /\ o < MAX_ORDER
    BY <1>3, <2>1, <2>2
  <2>4. i \in Pages(g_zone) /\ g_zone.pages[i].is_free /\ g_zone.pages[i].order = o
    BY <1>2, <2>1, FreeAtProp
  <2>5. j \in Pages(g_zone) /\ g_zone.pages[j].is_free /\ g_zone.pages[j].order = o
    BY <1>2, <2>2, <2>3, FreeAtProp
  <2>6. j < g_zone.total_pages
    BY <1>2, <2>5, PageFacts
  <2>7. Mergeable(g_zone, i, o)
    BY <2>3, <2>5, <2>6 DEF Mergeable
  <2> QED BY <1>2, <2>3, <2>4, <2>7 DEF Merged
<1>4. BuddiesMerged
  BY <1>3 DEF BuddiesMerged
<1>5. ASSUME g_buddy_ready, held = {}
      PROVE  FreeBlocks(g_zone) = FreeBlocks(FreshZone(boot))
  <2>1. boot \in BootInfos /\ ~InitFails(boot) /\ Placed(g_zone, boot)
    BY <1>5 DEF IInv
  <2>2. U = {}
    BY <1>1, <1>5 DEF HeldAre
  <2>3. Divided(FreshZone(boot), {}) /\ Placed(FreshZone(boot), boot)
    BY <2>1, FreshZoneProp
  <2>4. SameZone(g_zone, FreshZone(boot))
    BY <2>1, <2>3 DEF Placed, SameZone
  <2>5. Divided(g_zone, {})
    BY <1>1, <2>2
  <2> QED BY <2>3, <2>4, <2>5, SameBlocks
<1>6. WholeAgainWhenAllFree
  BY <1>5 DEF WholeAgainWhenAllFree
<1> QED BY <1>4, <1>6 DEF FullyCoalesced

-----------------------------------------------------------------------------
(* What it says of reserved memory                                         *)

\* An image that is clear of the best region meets neither the page_info
\* array nor the zone behind it.
LEMMA ImageApart ==
    ASSUME NEW b \in BootInfos, ~InitFails(b), NEW start \in Nat, NEW end \in Nat,
           ClearOfRegion(b, start, end),
           align_up(end) <= EntryEnd(BestEntry(b.mmap))
              => align_up(end) <= ZoneLayout(b).info_start,
           NEW a \in Int, ZoneLayout(b).info_start <= a,
           a < ZoneLayout(b).base_phys + ZoneLayout(b).pages * PAGE_SIZE
    PROVE  a \notin start .. end - 1
<1> DEFINE l == ZoneLayout(b)
           last == EntryEnd(BestEntry(b.mmap))
           size == l.pages * PAGE_SIZE
<1>1. l.info_start \in Nat /\ l.base_phys \in Nat /\ size \in Nat
  BY LayoutProp
<1>2. l.base_phys + size <= last
  BY LayoutProp
<1>3. UsableEntries(b.mmap) # {}
  BY DEF InitFails
<1>4. last \in Nat
  <2>1. PICK i \in DOMAIN b.mmap :
              /\ BestEntry(b.mmap) = b.mmap[i] /\ Usable(b.mmap[i])
              /\ b.mmap[i] \in [addr : Nat, len : Nat, type : Nat]
    BY <1>3, BestFound
  <2> QED BY <2>1, EntryFacts
<1>5. end + PAGE_SIZE <= LIMIT /\ (align_up(end) <= last \/ start >= last)
  BY DEF ClearOfRegion
<1>6. end <= align_up(end) /\ align_up(end) \in Nat
  BY <1>5, AlignUp
<1>7. l.info_start <= a /\ a < l.base_phys + size
  OBVIOUS
<1>8. align_up(end) <= last => align_up(end) <= l.info_start
  OBVIOUS
<1> HIDE DEF l, last, size
<1>9. CASE align_up(end) <= last
  BY <1>1, <1>6, <1>7, <1>8, <1>9
<1>10. CASE start >= last
  BY <1>1, <1>2, <1>4, <1>7, <1>10
<1> QED BY <1>5, <1>9, <1>10

LEMMA ReservedProp ==
    ASSUME IInv, ImagesClear
    PROVE  ReservedNeverManaged
<1> SUFFICES ASSUME g_buddy_ready PROVE ReservedNeverManaged
  BY DEF ReservedNeverManaged
<1> DEFINE l == ZoneLayout(boot)
           e == BestEntry(boot.mmap)
           kernel == boot.kernel_start .. boot.kernel_end - 1
           mb2 == boot.mb2 .. boot.mb2 + boot.mb2_size - 1
           infos == g_zone.total_pages * INFO_SIZE
           size == g_zone.total_pages * PAGE_SIZE
           info == l.info_start .. l.info_start + infos - 1
           zone == g_zone.base_phys .. g_zone.base_phys + size - 1
<1>1. /\ boot \in BootInfos /\ ~InitFails(boot)
      /\ g_zone.base_phys = l.base_phys /\ g_zone.total_pages = l.pages
  BY DEF IInv, Placed
<1>2. /\ l.info_start \in Nat /\ g_zone.base_phys \in Nat
      /\ infos \in Nat /\ size \in Nat
      /\ l.info_start + infos <= g_zone.base_phys
      /\ g_zone.base_phys + size <= EntryEnd(e)
      /\ EntryStart(e) <= l.info_start
  BY <1>1, LayoutProp
<1>3. /\ boot.kernel_start \in Nat /\ boot.kernel_end \in Nat
      /\ boot.mb2 \in Nat /\ boot.mb2 + boot.mb2_size \in Nat
  BY <1>1, BootAssumption
<1>4. /\ ClearOfRegion(boot, boot.kernel_start, boot.kernel_end)
      /\ ClearOfRegion(boot, boot.mb2, boot.mb2 + boot.mb2_size)
  BY <1>1 DEF ImagesClear
<1>5. /\ align_up(boot.kernel_end) <= EntryEnd(e)
           => align_up(boot.kernel_end) <= l.info_start
      /\ align_up(boot.mb2 + boot.mb2_size) <= EntryEnd(e)
           => align_up(boot.mb2 + boot.mb2_size) <= l.info_start
  BY <1>1, LayoutProp
<1>6. ASSUME NEW a \in info \cup zone
      PROVE  a \in Int /\ l.info_start <= a /\ a < g_zone.base_phys + size
  <2> HIDE DEF l, infos, size
  <2>1. CASE a \in info
    BY <1>2, <2>1
  <2>2. CASE a \in zone
    BY <1>2, <2>2
  <2> QED BY <2>1, <2>2
<1>7. ASSUME NEW a \in info \cup zone PROVE a \notin kernel /\ a \notin mb2
  <2>1. /\ a \in Int /\ l.info_start <= a
        /\ a < l.base_phys + l.pages * PAGE_SIZE
    BY <1>1, <1>6
  <2>2. ASSUME NEW start \in Nat, NEW end \in Nat, ClearOfRegion(boot, start, end),
               align_up(end) <= EntryEnd(e) => align_up(end) <= l.info_start
        PROVE  a \notin start .. end - 1
    BY <1>1, <2>1, <2>2, ImageApart
  <2> HIDE DEF l, e
  <2>3. a \notin kernel
    BY <1>3, <1>4, <1>5, <2>2
  <2>4. a \notin mb2
    <3> DEFINE past == boot.mb2 + boot.mb2_size
    <3>1. /\ past \in Nat /\ ClearOfRegion(boot, boot.mb2, past)
          /\ align_up(past) <= EntryEnd(e) => align_up(past) <= l.info_start
      BY <1>3, <1>4, <1>5
    <3> HIDE DEF past
    <3>2. a \notin boot.mb2 .. past - 1
      BY <1>3, <2>2, <3>1
    <3>3. boot.mb2 \in Nat /\ boot.mb2_size \in Nat
      BY <1>1, BootAssumption
    <3>4. past - 1 = boot.mb2 + (boot.mb2_size - 1)
      BY <3>3 DEF past
    <3> QED BY <3>2, <3>4
  <2> QED BY <2>3, <2>4
<1>8. info \cap zone = {}
  <2> HIDE DEF l, infos, size
  <2> QED BY <1>2
<1>9. ASSUME NEW a \in info \cup zone
      PROVE  \E i \in DOMAIN boot.mmap :
                /\ boot.mmap[i].type = 1
                /\ boot.mmap[i].addr <= a
                /\ a < boot.mmap[i].addr + boot.mmap[i].len
  <2>1. UsableEntries(boot.mmap) # {}
    BY <1>1 DEF InitFails
  <2>2. PICK i \in DOMAIN boot.mmap :
              /\ e = boot.mmap[i] /\ Usable(e)
              /\ e \in [addr : Nat, len : Nat, type : Nat]
    BY <1>1, <2>1, BestFound
  <2>3. /\ EntryStart(e) \in Nat /\ EntryEnd(e) \in Nat
        /\ e.type = 1 /\ e.addr \in Nat /\ e.len \in Nat
        /\ e.addr <= EntryStart(e) /\ EntryEnd(e) <= e.addr + e.len
    BY <2>2, EntryFacts
  <2>4. a \in Int /\ l.info_start <= a /\ a < g_zone.base_phys + size
    BY <1>6
  <2> HIDE DEF l, e, infos, size, info, zone
  <2>5. e.addr <= a /\ a < e.addr + e.len
    BY <1>2, <2>3, <2>4
  <2> QED BY <2>2, <2>3, <2>5
<1>10. (info \cup zone) \cap (kernel \cup mb2) = {}
  <2> HIDE DEF info, zone, kernel, mb2
  <2> QED BY <1>7
<1>11. \A a \in info \cup zone : \E i \in DOMAIN boot.mmap :
          /\ boot.mmap[i].type = 1
          /\ boot.mmap[i].addr <= a
          /\ a < boot.mmap[i].addr + boot.mmap[i].len
  BY <1>9
<1> QED BY <1>8, <1>10, <1>11, Zenon DEF ReservedNeverManaged

-----------------------------------------------------------------------------
(* The refinement of PageAllocator                                         *)

AddrsOf(z, S) == {index_to_phys(z, i) : i \in S}

LEMMA FreeAddrsOf ==
    ASSUME NEW z, NEW U, Divided(z, U)
    PROVE  AddrsOf(z, FreeIndices(z)) = AddrsOf(z, Pages(z) \ U)
<1>1. FreeIndices(z) = Pages(z) \ U
  BY FreeIndicesAre DEF Divided
<1> QED BY <1>1

LEMMA OneLess ==
    ASSUME NEW z, NEW U, Divided(z, U), NEW w, SameZone(z, w),
           NEW i \in Pages(z) \ U, Divided(w, U \cup {i})
    PROVE  AddrsOf(w, FreeIndices(w))
              = AddrsOf(z, FreeIndices(z)) \ {index_to_phys(z, i)}
<1>1. Pages(w) = Pages(z)
  BY DEF SameZone, Pages
<1>2. \A j : index_to_phys(w, j) = index_to_phys(z, j)
  BY DEF SameZone, index_to_phys
<1>3. AddrsOf(w, FreeIndices(w)) = AddrsOf(z, Pages(z) \ (U \cup {i}))
  BY <1>1, <1>2, FreeAddrsOf DEF AddrsOf
<1>4. AddrsOf(z, FreeIndices(z)) = AddrsOf(z, Pages(z) \ U)
  BY FreeAddrsOf
<1>5. \A j \in Pages(z) : index_to_phys(z, j) = index_to_phys(z, i) => j = i
  <2>1. z.base_phys \in Nat /\ \A j \in Pages(z) : j \in Nat
    BY DEF Divided, Sane, Pages
  <2> QED BY <2>1, SameAddress
<1> QED BY <1>3, <1>4, <1>5 DEF AddrsOf

LEMMA OneMore ==
    ASSUME NEW z, NEW U, Divided(z, U), NEW w, SameZone(z, w),
           NEW i \in U, Divided(w, U \ {i})
    PROVE  AddrsOf(w, FreeIndices(w))
              = AddrsOf(z, FreeIndices(z)) \cup {index_to_phys(z, i)}
<1>1. Pages(w) = Pages(z) /\ i \in Pages(z)
  BY DEF SameZone, Pages, Divided
<1>2. \A j : index_to_phys(w, j) = index_to_phys(z, j)
  BY DEF SameZone, index_to_phys
<1>3. AddrsOf(w, FreeIndices(w)) = AddrsOf(z, Pages(z) \ (U \ {i}))
  BY <1>1, <1>2, FreeAddrsOf DEF AddrsOf
<1>4. AddrsOf(z, FreeIndices(z)) = AddrsOf(z, Pages(z) \ U)
  BY FreeAddrsOf
<1> QED BY <1>1, <1>3, <1>4 DEF AddrsOf

LEMMA FreeAddrsIn ==
    ASSUME NEW z, NEW U, Divided(z, U),
           NEW b \in BootInfos, ~InitFails(b), Placed(z, b)
    PROVE  AddrsOf(z, FreeIndices(z)) \subseteq Addrs \ {NULL}
<1>1. \A i \in Pages(z) : index_to_phys(z, i) \in Addrs \ {NULL}
  BY PlacedProp
<1>2. AddrsOf(z, FreeIndices(z)) = AddrsOf(z, Pages(z) \ U)
  BY FreeAddrsOf
<1> QED BY <1>1, <1>2 DEF AddrsOf

LEMMA NothingBeforeInit == IInv /\ ~g_buddy_ready => FreeAddrs = {} /\ held = {}
<1> SUFFICES ASSUME IInv, ~g_buddy_ready PROVE FreeAddrs = {} /\ held = {}
  OBVIOUS
<1>1. g_zone.total_pages = 0 /\ held = {}
  BY EmptyZoneProp DEF IInv
<1>2. PICK U : Divided(g_zone, U)
  BY DEF IInv
<1>3. Pages(g_zone) = {}
  BY <1>1 DEF Pages
<1> QED BY <1>1, <1>2, <1>3, FreeAddrsAre

LEMMA StartRefines ==
    ASSUME IInv, IInv', pmm_buddy_init PROVE PA!Next
<1>1. ~g_buddy_ready /\ held' = held /\ ret' = PA!Answer("init", NULL)
  BY DEF pmm_buddy_init, Answer, PA!Answer
<1>2. CASE InitFails(boot)
  <2>1. g_zone' = g_zone /\ g_buddy_ready' = g_buddy_ready
    BY <1>2 DEF pmm_buddy_init
  <2>2. FreeAddrs' = FreeAddrs
    BY <2>1 DEF FreeAddrs
  <2> QED BY <1>1, <2>1, <2>2 DEF PA!Next, PA!StartFails
<1>3. CASE ~InitFails(boot)
  <2>1. g_buddy_ready' = TRUE
    BY <1>3 DEF pmm_buddy_init
  <2>2. PICK U : Divided(g_zone', U)
    BY DEF IInv
  <2>3. boot' \in BootInfos /\ ~InitFails(boot') /\ Placed(g_zone', boot')
    BY <2>1 DEF IInv
  <2>4. AddrsOf(g_zone', FreeIndices(g_zone')) \subseteq Addrs \ {NULL}
    BY <2>2, <2>3, FreeAddrsIn
  <2>5. FreeAddrs' \subseteq Addrs \ {NULL}
    BY <2>4 DEF FreeAddrs, AddrsOf
  <2> QED BY <1>1, <2>1, <2>5 DEF PA!Next, PA!Start
<1> QED BY <1>2, <1>3

LEMMA AllocRefines ==
    ASSUME IInv, pmm_buddy_alloc_page PROVE PA!Next
<1>1. g_buddy_ready' = g_buddy_ready
  BY DEF pmm_buddy_alloc_page
<1>2. /\ FreeAddrs = AddrsOf(g_zone, FreeIndices(g_zone))
      /\ FreeAddrs' = AddrsOf(g_zone', FreeIndices(g_zone'))
  BY DEF FreeAddrs, AddrsOf
<1>3. CASE ~g_buddy_ready
  <2>1. g_zone' = g_zone /\ held' = held /\ ret' = PA!Answer("alloc", NULL)
    BY <1>3 DEF pmm_buddy_alloc_page, Answer, PA!Answer
  <2>2. FreeAddrs = {} /\ FreeAddrs' = FreeAddrs
    BY <1>2, <1>3, <2>1, NothingBeforeInit
  <2> QED BY <1>1, <2>1, <2>2 DEF PA!Next, PA!AllocFails
<1>4. CASE g_buddy_ready
  <2>1. PICK U : Divided(g_zone, U)
    BY DEF IInv
  <2> DEFINE a == alloc_page(g_zone)
  <2>2. /\ g_zone' = a.zone /\ ret' = PA!Answer("alloc", a.addr)
        /\ held' = held \cup ({a.addr} \ {NULL})
    BY <1>4 DEF pmm_buddy_alloc_page, Answer, PA!Answer
  <2>3. \/ U = Pages(g_zone) /\ a.addr = NULL /\ a.zone = g_zone
        \/ \E i \in Pages(g_zone) \ U :
              /\ a.addr = index_to_phys(g_zone, i)
              /\ Divided(a.zone, U \cup {i}) /\ SameZone(g_zone, a.zone)
    BY <2>1, AllocPageProp
  <2> HIDE DEF a
  <2>4. CASE U = Pages(g_zone) /\ a.addr = NULL /\ a.zone = g_zone
    <3>1. FreeAddrs = {}
      BY <2>1, <2>4, FreeAddrsAre
    <3>2. FreeAddrs' = FreeAddrs /\ held' = held
      BY <1>2, <2>2, <2>4
    <3> QED BY <1>1, <2>2, <2>4, <3>1, <3>2 DEF PA!Next, PA!AllocFails
  <2>5. CASE \E i \in Pages(g_zone) \ U :
                /\ a.addr = index_to_phys(g_zone, i)
                /\ Divided(a.zone, U \cup {i}) /\ SameZone(g_zone, a.zone)
    <3>1. PICK i \in Pages(g_zone) \ U :
                /\ a.addr = index_to_phys(g_zone, i)
                /\ Divided(a.zone, U \cup {i}) /\ SameZone(g_zone, a.zone)
      BY <2>5
    <3>2. FreeAddrs' = FreeAddrs \ {a.addr}
      BY <1>2, <2>1, <2>2, <3>1, OneLess
    <3>3. a.addr \in FreeAddrs
      BY <2>1, <3>1, FreeAddrsAre
    <3>4. held' = held \cup {a.addr}
      <4>1. ~InitFails(boot) /\ Placed(g_zone, boot) /\ boot \in BootInfos
        BY <1>4 DEF IInv
      <4>2. a.addr # NULL
        BY <4>1, <3>1, PlacedProp
      <4> QED BY <2>2, <4>2
    <3> QED BY <1>1, <2>2, <3>2, <3>3, <3>4 DEF PA!Next, PA!Alloc
  <2> QED BY <2>3, <2>4, <2>5
<1>5. g_buddy_ready \in BOOLEAN
  BY DEF IInv
<1> QED BY <1>3, <1>4, <1>5

LEMMA FreeRefines ==
    ASSUME IInv, NEW addr \in FreeArgs, CallerMayFree(addr),
           pmm_buddy_free_page(addr)
    PROVE  PA!Next
<1> DEFINE p == IF addr % PAGE_SIZE = 0 THEN addr ELSE NULL
<1>1. g_buddy_ready' = g_buddy_ready /\ ret' = PA!Answer("free", p)
  BY DEF pmm_buddy_free_page, Answer, PA!Answer
<1>2. p \in (Addrs \ {NULL}) \cup {NULL}
  BY DEF FreeArgs
<1>3. /\ FreeAddrs = AddrsOf(g_zone, FreeIndices(g_zone))
      /\ FreeAddrs' = AddrsOf(g_zone', FreeIndices(g_zone'))
  BY DEF FreeAddrs, AddrsOf
<1>4. PICK U : Divided(g_zone, U) /\ HeldAre(U)
  BY DEF IInv
<1>5. CASE g_buddy_ready /\ Accepted(g_zone, addr)
  <2>1. p = addr /\ addr \in held
    BY <1>5 DEF Accepted, CallerMayFree
  <2>2. g_zone' = free_page(g_zone, addr) /\ held' = held \ {addr}
    BY <1>5 DEF pmm_buddy_free_page
  <2>3. PICK i \in U :
              /\ addr = index_to_phys(g_zone, i)
              /\ Divided(free_page(g_zone, addr), U \ {i})
              /\ SameZone(g_zone, free_page(g_zone, addr))
    BY <1>4, <1>5, <2>1, HeldProp
  <2>4. FreeAddrs' = FreeAddrs \cup {addr}
    BY <1>3, <1>4, <2>2, <2>3, OneMore
  <2> HIDE DEF p
  <2>5. PA!Free(p)
    BY <1>1, <2>1, <2>2, <2>4 DEF PA!Free
  <2> QED BY <1>2, <2>5 DEF PA!Next
<1>6. CASE ~(g_buddy_ready /\ Accepted(g_zone, addr))
  <2>1. g_zone' = g_zone /\ held' = held
    BY <1>6 DEF pmm_buddy_free_page
  <2>2. FreeAddrs' = FreeAddrs
    BY <1>3, <2>1
  <2>3. addr \notin held
    <3>1. CASE ~g_buddy_ready
      BY <3>1, NothingBeforeInit
    <3>2. CASE g_buddy_ready
      <4>1. addr \in held => Accepted(g_zone, addr)
        BY <1>4, <3>2, HeldProp
      <4> QED BY <1>6, <3>2, <4>1
    <3> QED BY <3>1, <3>2
  <2>4. p \notin held
    BY <2>3, IInvHeld
  <2> HIDE DEF p
  <2>5. PA!FreeIgnored(p)
    BY <1>1, <2>1, <2>2, <2>4 DEF PA!FreeIgnored
  <2> QED BY <1>2, <2>5 DEF PA!Next
<1> QED BY <1>5, <1>6

LEMMA StepRefines == IInv /\ [Next]_vars => [PA!Next]_(PA!vars)
<1> SUFFICES ASSUME IInv, [Next]_vars PROVE [PA!Next]_(PA!vars)
  OBVIOUS
<1>1. IInv'
  BY IInvNext
<1>2. CASE pmm_buddy_init
  BY <1>1, <1>2, StartRefines
<1>3. CASE pmm_buddy_alloc_page
  BY <1>3, AllocRefines
<1>4. CASE \E addr \in FreeArgs : CallerMayFree(addr) /\ pmm_buddy_free_page(addr)
  BY <1>4, FreeRefines
<1>5. CASE UNCHANGED vars
  BY <1>5 DEF vars, PA!vars, FreeAddrs
<1> QED BY <1>2, <1>3, <1>4, <1>5 DEF Next

LEMMA InitRefines == Init => PA!Init
<1> SUFFICES ASSUME Init PROVE PA!Init
  OBVIOUS
<1>1. IInv /\ ~g_buddy_ready
  BY IInvInit DEF Init
<1>2. FreeAddrs = {} /\ held = {}
  BY <1>1, NothingBeforeInit
<1> QED BY <1>2 DEF Init, Answer, PA!Init, PA!Answer

-----------------------------------------------------------------------------
(* The theorems                                                            *)

\* Whatever sequence of calls buddy_alloc splits and buddy_free merges for,
\* the free blocks are aligned, lie in the zone and do not overlap, no page
\* handed out is in one, and no page is lost.
THEOREM BlocksAlwaysPartition == Spec => []BlocksAndHeldPartition
  BY IInvPartition, Invariance, PTL

\* The state is well typed, the order and is_free of every page_info say on
\* which list the page is, each page is on it once, free_count is the length
\* of the list, and total_free, by which alloc_page decides whether to look
\* at the lists at all, is the number of free pages.
THEOREM BookkeepingAlwaysAgrees == Spec => []BookkeepingAgrees
  BY IInvBookkeeping, Invariance, PTL

\* The merge loop of buddy_free leaves no two free buddies apart, and once
\* every page is back the lists hold the very blocks that init carved.
THEOREM AlwaysFullyCoalesced == Spec => []FullyCoalesced
  BY IInvCoalesced, Invariance, PTL

\* The zone and its page_info array lie in usable memory and spare the kernel
\* image and the Multiboot2 information, provided each of these ends inside or
\* below the best region or begins behind it: Step 2 of init compares nothing
\* but their ends.
THEOREM ReservedMemoryLeftAlone ==
    ASSUME ImagesClear PROVE Spec => []ReservedNeverManaged
<1>1. IInv => ReservedNeverManaged
  BY ReservedProp
<1> QED BY <1>1, Invariance, PTL

\* Every step of the buddy back end is a step of the allocator that
\* pmm_ops_t promises: alloc_page hands out a page that nobody holds, and
\* NULL only when all are held; free_page gives back exactly a held page.
THEOREM Refinement == Spec => ImplementsPageAllocator
<1>1. Init => PA!Init
  BY InitRefines
<1> QED BY <1>1, StepRefines, Invariance, PTL
        DEF Spec, ImplementsPageAllocator, PA!Spec
=============================================================================
