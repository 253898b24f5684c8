---------------------------- MODULE HeapSlabProofs ----------------------------
(***************************************************************************)
(* The slab heap's lists, bitmaps, counters, pages and statistics agree    *)
(* with what callers hold, a request is refused only when nothing is left, *)
(* and the pieces granted are those of a byte allocator, for every table   *)
(* of caches, page size, heap and sequence of calls.                       *)
(***************************************************************************)
EXTENDS HeapSlab, FiniteSetTheorems, SequenceTheorems, TLAPS

-----------------------------------------------------------------------------
(* Arithmetic *)

LEMMA Product ==
    ASSUME NEW a \in Nat, NEW b \in Nat
    PROVE  a * b \in Nat
  OBVIOUS

LEMMA TimesMono ==
    ASSUME NEW a \in Nat, NEW b \in Nat, NEW c \in Nat, a <= b
    PROVE  c * a <= c * b
<1>1. c * (b - a) \in Nat
  BY Product
<1>2. c * (b - a) = c * b - c * a
  OBVIOUS
<1> QED BY <1>1, <1>2

LEMMA Quotient ==
    ASSUME NEW x \in Nat, NEW d \in Nat \ {0}
    PROVE  /\ x \div d \in Nat
           /\ d * (x \div d) <= x
           /\ x < d * (x \div d) + d
           /\ x = d * (x \div d) + (x % d)
           /\ x % d \in 0 .. d - 1
  OBVIOUS

LEMMA QuotientUnique ==
    ASSUME NEW k \in Nat, NEW d \in Nat \ {0}, NEW r \in 0 .. d - 1
    PROVE  (d * k + r) \div d = k /\ (d * k + r) % d = r
<1> DEFINE x == d * k + r
           q == x \div d
<1>1. x \in Nat
  BY Product
<1>2. q \in Nat /\ d * q <= x /\ x < d * q + d /\ x = d * q + (x % d)
  BY <1>1, Quotient
<1>3. d * (q + 1) = d * q + d /\ d * (k + 1) = d * k + d
  BY <1>2
<1>4. q <= k
  <2>1. ASSUME k + 1 <= q PROVE FALSE
    <3>1. d * (k + 1) <= d * q
      BY <1>2, <2>1, TimesMono
    <3> QED BY <1>1, <1>2, <1>3, <3>1, Product
  <2> QED BY <1>2, <2>1
<1>5. k <= q
  <2>1. ASSUME q + 1 <= k PROVE FALSE
    <3>1. d * (q + 1) <= d * k
      BY <1>2, <2>1, TimesMono
    <3> QED BY <1>1, <1>2, <1>3, <3>1, Product
  <2> QED BY <1>2, <2>1
<1>6. q = k
  BY <1>2, <1>4, <1>5
<1> QED BY <1>1, <1>2, <1>6, Product

LEMMA IsMultiple ==
    ASSUME NEW x \in Nat, NEW d \in Nat \ {0}, x % d = 0
    PROVE  \E m \in Nat : x = d * m
<1>1. x \div d \in Nat /\ x = d * (x \div d)
  <2>1. /\ x \div d \in Nat
        /\ x = d * (x \div d) + (x % d)
    BY Quotient
  <2>2. d * (x \div d) \in Nat
    BY <2>1, Product
  <2> QED BY <2>1, <2>2
<1> QED BY <1>1

LEMMA MultipleOf ==
    ASSUME NEW m \in Nat, NEW d \in Nat \ {0}
    PROVE  (d * m) % d = 0
<1>1. d * m \in Nat
  BY Product
<1> QED BY <1>1, QuotientUnique

LEMMA SumOfMultiples ==
    ASSUME NEW d \in Nat \ {0}, NEW x \in Nat, NEW y \in Nat,
           x % d = 0, y % d = 0
    PROVE  (x + y) % d = 0
<1>1. PICK m \in Nat : x = d * m
  BY IsMultiple
<1>2. PICK n \in Nat : y = d * n
  BY IsMultiple
<1>3. x + y = d * (m + n)
  BY <1>1, <1>2
<1>4. m + n \in Nat
  OBVIOUS
<1> QED BY <1>3, <1>4, MultipleOf

LEMMA ProductOfMultiple ==
    ASSUME NEW d \in Nat \ {0}, NEW x \in Nat, NEW k \in Nat, x % d = 0
    PROVE  (k * x) % d = 0
<1>1. PICK m \in Nat : x = d * m
  BY IsMultiple
<1>2. k * x = d * (k * m) /\ k * m \in Nat
  BY <1>1, Product
<1> QED BY <1>2, MultipleOf

\* Multiples are a divisor apart.
LEMMA MultiplesApart ==
    ASSUME NEW d \in Nat \ {0}, NEW x \in Nat, NEW y \in Nat,
           x % d = 0, y % d = 0, x < y
    PROVE  x + d <= y
<1>1. PICK m \in Nat : x = d * m
  BY IsMultiple
<1>2. PICK n \in Nat : y = d * n
  BY IsMultiple
<1>3. m < n
  <2>1. ASSUME n <= m PROVE FALSE
    BY <1>1, <1>2, <2>1, TimesMono
  <2> QED BY <2>1
<1>4. d * (m + 1) <= d * n /\ d * (m + 1) = d * m + d
  BY <1>3, TimesMono
<1> QED BY <1>1, <1>2, <1>4

\* An address in a page belongs to that page.
LEMMA InPage ==
    ASSUME NEW d \in Nat \ {0}, NEW p \in Nat, p % d = 0, NEW r \in 0 .. d - 1
    PROVE  (p + r) - ((p + r) % d) = p
<1>1. PICK m \in Nat : p = d * m
  BY IsMultiple
<1>2. (d * m + r) % d = r
  BY QuotientUnique
<1> QED BY <1>1, <1>2

-----------------------------------------------------------------------------
(* Sums *)

\* The union whose size Total is, over a part of the domain.
Units(f, S) == UNION {{x} \X (1 .. f[x]) : x \in S}

LEMMA InUnits ==
    ASSUME NEW S, NEW f, NEW u
    PROVE  u \in Units(f, S) <=> \E x \in S : u \in {x} \X (1 .. f[x])
  BY DEF Units

LEMMA OneColumn ==
    ASSUME NEW x, NEW n \in Nat
    PROVE  IsFiniteSet({x} \X (1 .. n)) /\ Cardinality({x} \X (1 .. n)) = n
<1>1. IsFiniteSet({x}) /\ Cardinality({x}) = 1
  BY FS_Singleton
<1>2. IsFiniteSet(1 .. n) /\ Cardinality(1 .. n) = n
  BY FS_Interval
<1>3. /\ IsFiniteSet({x} \X (1 .. n))
      /\ Cardinality({x} \X (1 .. n)) = Cardinality({x}) * Cardinality(1 .. n)
  BY <1>1, <1>2, FS_Product, Zenon
<1> QED BY <1>1, <1>2, <1>3

LEMMA UnitsFinite ==
    ASSUME NEW S, IsFiniteSet(S), NEW f, \A x \in S : f[x] \in Nat
    PROVE  IsFiniteSet(Units(f, S)) /\ Cardinality(Units(f, S)) \in Nat
<1> DEFINE column == [x \in S |-> {x} \X (1 .. f[x])]
           T == {{x} \X (1 .. f[x]) : x \in S}
<1>1. column \in Surjection(S, T)
  BY DEF Surjection
<1>2. IsFiniteSet(T)
  BY <1>1, FS_Surjection
<1>3. \A t \in T : IsFiniteSet(t)
  <2> SUFFICES ASSUME NEW x \in S PROVE IsFiniteSet({x} \X (1 .. f[x]))
    OBVIOUS
  <2>1. f[x] \in Nat
    OBVIOUS
  <2> QED BY <2>1, OneColumn
<1> QED BY <1>2, <1>3, FS_UNION, FS_CardinalityType DEF Units

\* The sum without one summand.
LEMMA SumSplits ==
    ASSUME NEW S, IsFiniteSet(S), NEW f, \A x \in S : f[x] \in Nat,
           NEW a \in S
    PROVE  Cardinality(Units(f, S)) = Cardinality(Units(f, S \ {a})) + f[a]
<1> DEFINE rest == Units(f, S \ {a})
           column == {a} \X (1 .. f[a])
<1>1. IsFiniteSet(rest) /\ Cardinality(rest) \in Nat
  <2>1. IsFiniteSet(S \ {a})
    BY FS_RemoveElement
  <2> QED BY <2>1, UnitsFinite
<1>2. IsFiniteSet(column) /\ Cardinality(column) = f[a]
  BY OneColumn
<1>3. rest \cap column = {}
  BY InUnits
<1>4. Units(f, S) = rest \cup column
  BY InUnits
<1> HIDE DEF rest, column
<1>5. Cardinality(rest \cap column) = 0
  BY <1>3, FS_EmptySet
<1>6. Cardinality(rest \cup column)
        = Cardinality(rest) + Cardinality(column) - Cardinality(rest \cap column)
  BY <1>1, <1>2, FS_Union, Zenon
<1>7. f[a] \in Nat
  OBVIOUS
<1>8. Cardinality(rest \cup column) = Cardinality(rest) + f[a]
  BY <1>1, <1>2, <1>5, <1>6, <1>7
<1> QED BY <1>4, <1>8, Zenon DEF rest

LEMMA SameUnits ==
    ASSUME NEW S, NEW f, NEW g, \A x \in S : f[x] = g[x]
    PROVE  Units(f, S) = Units(g, S)
  BY DEF Units

LEMMA TotalIsUnits ==
    ASSUME NEW f
    PROVE  Total(f) = Cardinality(Units(f, DOMAIN f))
  BY DEF Total, Units

\* f counts natural numbers over a finite set.
Countable(f) == IsFiniteSet(DOMAIN f) /\ \A x \in DOMAIN f : f[x] \in Nat

\* One summand changes.
LEMMA TotalChanges ==
    ASSUME NEW f, Countable(f), NEW g, Countable(g), DOMAIN g = DOMAIN f,
           NEW a \in DOMAIN f,
           \A x \in DOMAIN f : x # a => g[x] = f[x]
    PROVE  /\ Total(f) \in Nat /\ Total(g) \in Nat
           /\ Total(g) - g[a] = Total(f) - f[a]
<1> DEFINE S == DOMAIN f
<1>1. Units(g, S \ {a}) = Units(f, S \ {a})
  BY SameUnits
<1>2. Cardinality(Units(f, S)) = Cardinality(Units(f, S \ {a})) + f[a]
  BY SumSplits DEF Countable
<1>3. Cardinality(Units(g, S)) = Cardinality(Units(g, S \ {a})) + g[a]
  BY SumSplits DEF Countable
<1>4. /\ f[a] \in Nat /\ g[a] \in Nat /\ Cardinality(Units(f, S)) \in Nat
      /\ Cardinality(Units(g, S)) \in Nat
      /\ Cardinality(Units(f, S \ {a})) \in Nat
  <2>1. IsFiniteSet(S \ {a})
    BY FS_RemoveElement DEF Countable
  <2> QED BY <2>1, UnitsFinite DEF Countable
<1>5. Total(f) = Cardinality(Units(f, S)) /\ Total(g) = Cardinality(Units(g, S))
  BY TotalIsUnits
<1> QED BY <1>1, <1>2, <1>3, <1>4, <1>5

\* One summand comes or goes.
LEMMA TotalExtends ==
    ASSUME NEW f, Countable(f), NEW g, Countable(g), NEW a,
           a \notin DOMAIN f, DOMAIN g = DOMAIN f \cup {a},
           \A x \in DOMAIN f : g[x] = f[x]
    PROVE  /\ Total(f) \in Nat /\ Total(g) \in Nat
           /\ Total(g) = Total(f) + g[a]
<1> DEFINE S == DOMAIN g
<1>1. S \ {a} = DOMAIN f
  OBVIOUS
<1>2. Cardinality(Units(g, S)) = Cardinality(Units(g, S \ {a})) + g[a]
  BY SumSplits DEF Countable
<1>3. Units(g, DOMAIN f) = Units(f, DOMAIN f)
  BY SameUnits
<1>4. Cardinality(Units(g, S)) \in Nat /\ Cardinality(Units(f, DOMAIN f)) \in Nat
  BY UnitsFinite DEF Countable
<1> QED BY <1>1, <1>2, <1>3, <1>4, TotalIsUnits

LEMMA TotalOfNothing ==
    ASSUME NEW f, DOMAIN f = {}
    PROVE  Total(f) = 0
<1>1. Units(f, DOMAIN f) = {}
  BY InUnits
<1> QED BY <1>1, TotalIsUnits, FS_EmptySet

-----------------------------------------------------------------------------
(* Lists *)

LEMMA SeqOfElements ==
    ASSUME NEW S, NEW T, NEW l \in Seq(S), \A i \in 1 .. Len(l) : l[i] \in T
    PROVE  l \in Seq(T)
<1>1. l = [i \in 1 .. Len(l) |-> l[i]] /\ Len(l) \in Nat
  BY LenProperties
<1>2. l \in [1 .. Len(l) -> T]
  BY <1>1
<1> QED BY <1>1, <1>2, SeqDef

\* The list l has every element of S once, and nothing else.
Lists(l, S) == l \in Seq(S) /\ ToSet(l) = S /\ IsInjective(l)

LEMMA ListOfNothing == Lists(<<>>, {})
  BY DEF Lists, ToSet, IsInjective

LEMMA EmptyList ==
    ASSUME NEW S, Lists(<<>>, S)
    PROVE  S = {}
  BY DEF Lists, ToSet

LEMMA ListPush ==
    ASSUME NEW S, NEW l, Lists(l, S), NEW p, p \notin S
    PROVE  Lists(<<p>> \o l, S \cup {p})
<1> DEFINE m == <<p>> \o l
           T == S \cup {p}
<1>1. l \in Seq(T) /\ <<p>> \in Seq(T) /\ Len(<<p>>) = 1 /\ <<p>>[1] = p
  BY SeqMonotonic DEF Lists
<1>2. /\ m \in Seq(T) /\ Len(m) = 1 + Len(l)
      /\ \A i \in 1 .. Len(m) : m[i] = IF i <= 1 THEN <<p>>[i] ELSE l[i - 1]
  BY <1>1, ConcatProperties
<1> HIDE DEF m
<1>3. /\ Len(l) \in Nat /\ DOMAIN l = 1 .. Len(l) /\ DOMAIN m = 1 .. Len(m)
  BY <1>1, <1>2, LenProperties
<1>4. \A i \in DOMAIN m : m[i] = IF i = 1 THEN p ELSE l[i - 1]
  BY <1>1, <1>2, <1>3
<1>5. \A i \in DOMAIN l : i + 1 \in DOMAIN m /\ m[i + 1] = l[i]
  BY <1>2, <1>3, <1>4
<1>6. \A i \in DOMAIN m : i # 1 => i - 1 \in DOMAIN l /\ m[i] = l[i - 1]
  BY <1>2, <1>3, <1>4
<1>7. 1 \in DOMAIN m /\ m[1] = p
  BY <1>2, <1>3, <1>4
<1>8. \A i \in DOMAIN l : l[i] \in S
  BY DEF Lists, ToSet
<1>9. ToSet(m) = T
  <2>1. \A i \in DOMAIN m : m[i] \in T
    BY <1>6, <1>7, <1>8
  <2>2. ASSUME NEW x \in T PROVE \E i \in DOMAIN m : m[i] = x
    <3>1. CASE x = p
      BY <3>1, <1>7
    <3>2. CASE x \in S
      <4>1. PICK i \in DOMAIN l : l[i] = x
        BY <3>2 DEF Lists, ToSet
      <4> QED BY <4>1, <1>5
    <3> QED BY <3>1, <3>2
  <2> QED BY <2>1, <2>2 DEF ToSet
<1>10. IsInjective(m)
  <2> SUFFICES ASSUME NEW i \in DOMAIN m, NEW j \in DOMAIN m, m[i] = m[j]
               PROVE  i = j
    BY DEF IsInjective
  <2>1. CASE i = 1 \/ j = 1
    BY <2>1, <1>6, <1>7, <1>8
  <2>2. CASE i # 1 /\ j # 1
    <3>1. i - 1 = j - 1
      BY <2>2, <1>6 DEF Lists, IsInjective
    <3> QED BY <3>1, <1>3, <1>2
  <2> QED BY <2>1, <2>2
<1> QED BY <1>2, <1>9, <1>10 DEF Lists, m

LEMMA ListPop ==
    ASSUME NEW S, NEW l, Lists(l, S), l # <<>>
    PROVE  /\ Head(l) \in S
           /\ Lists(Tail(l), S \ {Head(l)})
           /\ <<Head(l)>> \o Tail(l) = l
<1>1. l \in Seq(S) /\ Len(l) \in Nat /\ DOMAIN l = 1 .. Len(l)
  BY LenProperties DEF Lists
<1>2. Len(l) \in Nat \ {0}
  BY <1>1, EmptySeq
<1> DEFINE t == Tail(l)
           h == Head(l)
<1>3. /\ h = l[1] /\ t \in Seq(S) /\ Len(t) = Len(l) - 1
      /\ \A i \in 1 .. Len(t) : t[i] = l[i + 1]
  BY <1>1, <1>2, HeadTailProperties
<1>4. DOMAIN t = 1 .. Len(t) /\ Len(t) \in Nat
  BY <1>3, LenProperties
<1>5. <<h>> \o t = l
  <2>1. /\ <<h>> \in Seq(S) /\ Len(<<h>>) = 1 /\ <<h>>[1] = h
    BY <1>1, <1>2, <1>3
  <2>2. /\ <<h>> \o t \in Seq(S) /\ Len(<<h>> \o t) = 1 + Len(t)
        /\ \A i \in 1 .. 1 + Len(t) :
              (<<h>> \o t)[i] = IF i <= 1 THEN <<h>>[i] ELSE t[i - 1]
    BY <2>1, <1>3, ConcatProperties
  <2>3. \A i \in 1 .. Len(l) : (<<h>> \o t)[i] = l[i]
    BY <2>1, <2>2, <1>2, <1>3
  <2> QED BY <2>2, <2>3, <1>1, <1>2, <1>3, SeqEqual
<1> HIDE DEF t, h
<1>6. \A i, j \in DOMAIN l : l[i] = l[j] => i = j
  BY DEF Lists, IsInjective
<1>7. 1 \in DOMAIN l /\ \A i \in DOMAIN t : /\ i \in Nat /\ i + 1 \in DOMAIN l
                                           /\ t[i] = l[i + 1]
  BY <1>1, <1>2, <1>3, <1>4
<1>8. \A i \in DOMAIN l : i # 1 => i - 1 \in DOMAIN t /\ t[i - 1] = l[i]
  BY <1>1, <1>2, <1>3, <1>4
<1>9. ToSet(l) = S /\ h \in S
  BY <1>3, <1>7 DEF Lists, ToSet
<1>10. ToSet(t) = S \ {h}
  <2>1. \A i \in DOMAIN t : t[i] \in S /\ t[i] # h
    <3> SUFFICES ASSUME NEW i \in DOMAIN t PROVE t[i] \in S /\ t[i] # h
      OBVIOUS
    <3>1. i + 1 # 1 /\ i + 1 \in DOMAIN l /\ t[i] = l[i + 1]
      BY <1>7
    <3> QED BY <3>1, <1>3, <1>6, <1>7, <1>9 DEF ToSet
  <2>2. ASSUME NEW x \in S \ {h} PROVE \E i \in DOMAIN t : t[i] = x
    <3>1. PICK i \in DOMAIN l : l[i] = x
      BY <1>9 DEF ToSet
    <3>2. i # 1
      BY <3>1, <1>3
    <3> QED BY <3>1, <3>2, <1>8
  <2> QED BY <2>1, <2>2 DEF ToSet
<1>11. IsInjective(t)
  <2> SUFFICES ASSUME NEW i \in DOMAIN t, NEW j \in DOMAIN t, t[i] = t[j]
               PROVE  i = j
    BY DEF IsInjective
  <2>1. i + 1 = j + 1 /\ i \in Nat /\ j \in Nat
    BY <1>6, <1>7
  <2> QED BY <2>1
<1>12. t \in Seq(S \ {h})
  <2>1. \A i \in 1 .. Len(t) : t[i] \in S \ {h}
    BY <1>10, <1>4 DEF ToSet
  <2> QED BY <2>1, <1>3, <1>4, SeqOfElements
<1> QED BY <1>5, <1>9, <1>10, <1>11, <1>12 DEF Lists, t, h

LEMMA ListRemove ==
    ASSUME NEW S, NEW l, Lists(l, S), NEW p \in S
    PROVE  Lists(RemoveFirst(l, p), S \ {p})
<1>1. /\ l \in Seq(S) /\ Len(l) \in Nat /\ DOMAIN l = 1 .. Len(l)
      /\ \A i, j \in DOMAIN l : l[i] = l[j] => i = j
      /\ ToSet(l) = S
  BY LenProperties DEF Lists, IsInjective
<1>2. PICK k \in DOMAIN l : l[k] = p
  BY <1>1 DEF ToSet
<1> DEFINE m == RemoveAt(l, k)
<1>3. RemoveFirst(l, p) = m
  <2>1. {i \in 1 .. Len(l) : l[i] = p} = {k}
    BY <1>1, <1>2
  <2>2. Min({k}) = k
    BY <1>1, <1>2 DEF Min
  <2>3. SelectInSeq(l, LAMBDA v : v = p) = k
    BY <2>1, <2>2 DEF SelectInSeq
  <2> QED BY <1>1, <1>2, <2>3 DEF RemoveFirst
<1>4. /\ SubSeq(l, 1, k - 1) \in Seq(S) /\ Len(SubSeq(l, 1, k - 1)) = k - 1
      /\ \A i \in 1 .. k - 1 : SubSeq(l, 1, k - 1)[i] = l[i]
  BY <1>1, <1>2
<1>5. /\ SubSeq(l, k + 1, Len(l)) \in Seq(S)
      /\ Len(SubSeq(l, k + 1, Len(l))) = Len(l) - k
      /\ \A i \in 1 .. Len(l) - k : SubSeq(l, k + 1, Len(l))[i] = l[k + i]
  BY <1>1, <1>2
<1>6. /\ m \in Seq(S) /\ Len(m) = Len(l) - 1
      /\ \A i \in 1 .. Len(m) : m[i] = IF i < k THEN l[i] ELSE l[i + 1]
  <2> DEFINE a == SubSeq(l, 1, k - 1)
             b == SubSeq(l, k + 1, Len(l))
  <2>1. m = a \o b
    BY DEF RemoveAt
  <2>2. /\ a \in Seq(S) /\ Len(a) = k - 1
        /\ \A i \in 1 .. k - 1 : a[i] = l[i]
    BY <1>4
  <2>3. /\ b \in Seq(S) /\ Len(b) = Len(l) - k
        /\ \A i \in 1 .. Len(l) - k : b[i] = l[k + i]
    BY <1>5
  <2> HIDE DEF a, b, m
  <2>4. /\ a \o b \in Seq(S) /\ Len(a \o b) = Len(a) + Len(b)
        /\ \A i \in 1 .. Len(a) + Len(b) :
              (a \o b)[i] = IF i <= Len(a) THEN a[i] ELSE b[i - Len(a)]
    BY <2>2, <2>3, ConcatProperties
  <2>5. k \in 1 .. Len(l) /\ Len(l) \in Nat
    BY <1>1, <1>2
  <2>6. Len(m) = Len(l) - 1 /\ m \in Seq(S)
    BY <2>1, <2>2, <2>3, <2>4, <2>5
  <2>7. ASSUME NEW i \in 1 .. Len(m)
        PROVE  m[i] = IF i < k THEN l[i] ELSE l[i + 1]
    <3>1. m[i] = IF i <= k - 1 THEN a[i] ELSE b[i - (k - 1)]
      BY <2>1, <2>2, <2>3, <2>4, <2>5, <2>6
    <3>2. CASE i < k
      BY <3>1, <3>2, <2>2, <2>5, <2>6
    <3>3. CASE ~(i < k)
      <4>1. i - (k - 1) \in 1 .. Len(l) - k /\ k + (i - (k - 1)) = i + 1
        BY <3>3, <2>5, <2>6
      <4>2. b[i - (k - 1)] = l[k + (i - (k - 1))]
        BY <4>1, <2>3
      <4>3. ~(i <= k - 1)
        BY <3>3, <2>5, <2>6
      <4> QED BY <3>1, <3>3, <4>1, <4>2, <4>3
    <3> QED BY <3>2, <3>3
  <2> QED BY <2>6, <2>7
<1> HIDE DEF m
<1>7. DOMAIN m = 1 .. Len(m) /\ Len(m) \in Nat
  BY <1>6, LenProperties
<1> DEFINE at(i) == IF i < k THEN i ELSE i + 1
           to(i) == IF i < k THEN i ELSE i - 1
<1>8. \A i \in DOMAIN m : /\ at(i) \in DOMAIN l /\ at(i) # k /\ m[i] = l[at(i)]
  BY <1>1, <1>2, <1>6, <1>7
<1>9. \A i \in DOMAIN l : i # k => to(i) \in DOMAIN m /\ m[to(i)] = l[i]
  BY <1>1, <1>2, <1>6, <1>7
<1>10. \A i, j \in DOMAIN m : at(i) = at(j) => i = j
  BY <1>1, <1>2, <1>7
<1> HIDE DEF at, to
<1>11. ToSet(m) = S \ {p}
  <2>1. \A i \in DOMAIN m : m[i] \in S /\ m[i] # p
    BY <1>1, <1>2, <1>8 DEF ToSet
  <2>2. ASSUME NEW x \in S \ {p} PROVE \E i \in DOMAIN m : m[i] = x
    <3>1. PICK i \in DOMAIN l : l[i] = x
      BY <1>1 DEF ToSet
    <3> QED BY <3>1, <1>2, <1>9
  <2> QED BY <2>1, <2>2 DEF ToSet
<1>12. IsInjective(m)
  BY <1>1, <1>8, <1>10 DEF IsInjective
<1>13. m \in Seq(S \ {p})
  <2>1. \A i \in 1 .. Len(m) : m[i] \in S \ {p}
    BY <1>11, <1>7 DEF ToSet
  <2> QED BY <2>1, <1>6, SeqOfElements
<1> QED BY <1>3, <1>11, <1>12, <1>13 DEF Lists

-----------------------------------------------------------------------------
(* Slabs, over any value of the variables *)

Header == [cache_idx : Caches, obj_size : Nat \ {0}, capacity : Nat,
           free_count : Nat, free_bitmap : SUBSET Nat]

Slots(sl, p) == 0 .. sl[p].capacity - 1

Obj(sl, p, k) == p + SLAB_HDR_SIZE + k * sl[p].obj_size

\* Slabs are pages of the heap whose counter counts their bitmap.
Good(sl) ==
    /\ IsFiniteSet(DOMAIN sl)
    /\ \A p \in DOMAIN sl :
          /\ p \in Nat /\ p % VMM_PAGE_SIZE = 0
          /\ START <= p /\ p + VMM_PAGE_SIZE <= KHEAP_END
          /\ sl[p] \in Header
          /\ sl[p].obj_size = cache_sizes[sl[p].cache_idx]
          /\ sl[p].capacity = Capacity(sl[p].cache_idx)
          /\ sl[p].free_bitmap \subseteq Slots(sl, p)
          /\ sl[p].free_count = Cardinality(sl[p].free_bitmap)

Open(sl, i) == {p \in DOMAIN sl : sl[p].cache_idx = i /\ sl[p].free_count > 0}
Closed(sl, i) == {p \in DOMAIN sl : sl[p].cache_idx = i /\ sl[p].free_count = 0}

\* Each cache lists its slabs.
Listing(sl, pt, fu) ==
    /\ pt = [i \in Caches |-> pt[i]] /\ fu = [i \in Caches |-> fu[i]]
    /\ \A i \in Caches : /\ Lists(pt[i], Open(sl, i))
                         /\ Lists(fu[i], Closed(sl, i))

\* The pieces are the objects that are not free.
Pieces(sl, lv) ==
    /\ lv \subseteq [ptr : Addr, size : Addr]
    /\ IsFiniteSet(lv)
    /\ \A q \in lv : \E p \in DOMAIN sl : \E k \in Slots(sl, p) :
          /\ k \notin sl[p].free_bitmap
          /\ q.ptr = Obj(sl, p, k) /\ q.size <= sl[p].obj_size
    /\ \A q, r \in lv : q.ptr = r.ptr => q = r
    /\ \A p \in DOMAIN sl : \A k \in Slots(sl, p) \ sl[p].free_bitmap :
          \E q \in lv : q.ptr = Obj(sl, p, k)

Handed(sl) == [p \in DOMAIN sl |-> sl[p].capacity - sl[p].free_count]
HandedBytes(sl) ==
    [p \in DOMAIN sl |-> (sl[p].capacity - sl[p].free_count) * sl[p].obj_size]
PieceBytes(sl, lv) == [q \in lv |-> sl[PageOf(q.ptr)].obj_size]

\* The statistics count the pieces.
Sums(sl, lv) ==
    /\ Total(Handed(sl)) = Cardinality(lv)
    /\ Total(HandedBytes(sl)) = Total(PieceBytes(sl, lv))

LEMMA ConstFacts ==
    /\ VMM_PAGE_SIZE \in Nat \ {0} /\ ALIGN \in Nat \ {0} /\ W \in Nat
    /\ SLAB_HDR_SIZE \in Nat /\ BITMAP_BITS \in Nat \ {0}
    /\ START \in Nat /\ KHEAP_END \in Nat /\ INITIAL \in Nat
    /\ START % VMM_PAGE_SIZE = 0 /\ KHEAP_END % VMM_PAGE_SIZE = 0
    /\ INITIAL % VMM_PAGE_SIZE = 0
    /\ 0 < START /\ START + INITIAL <= KHEAP_END /\ KHEAP_END < W
    /\ NULL \notin Int /\ NULL \notin Addr
    /\ \A x : x \in Addr <=> x \in Nat /\ x < W
    /\ \A n \in Request : n \in Addr
    /\ \A p \in Stray : p \in Addr
<1>1. /\ VMM_PAGE_SIZE \in Nat \ {0} /\ ALIGN \in Nat \ {0} /\ W \in Nat
      /\ SLAB_HDR_SIZE \in Nat /\ BITMAP_BITS \in Nat \ {0}
      /\ 0 < START /\ START + INITIAL <= KHEAP_END /\ KHEAP_END < W
      /\ NULL \notin Int
  BY SlabAssumption
<1>2. /\ START \in Nat /\ KHEAP_END \in Nat /\ INITIAL \in Nat
      /\ START % VMM_PAGE_SIZE = 0 /\ KHEAP_END % VMM_PAGE_SIZE = 0
      /\ INITIAL % VMM_PAGE_SIZE = 0
  BY SlabAssumption, Zenon
<1>3. \A x : x \in Addr <=> x \in Nat /\ x < W
  BY <1>1 DEF Addr
<1>4. NULL \notin Addr
  BY <1>1, <1>3
<1>5. (\A n \in Request : n \in Addr) /\ (\A p \in Stray : p \in Addr)
  BY SlabAssumption
<1> QED BY <1>1, <1>2, <1>3, <1>4, <1>5

LEMMA CacheFacts ==
    ASSUME NEW i \in Caches
    PROVE  /\ i \in Nat
           /\ cache_sizes[i] \in Nat \ {0} /\ cache_sizes[i] \in ToSet(cache_sizes)
           /\ cache_sizes[i] % ALIGN = 0
           /\ Capacity(i) \in 1 .. BITMAP_BITS
           /\ SLAB_HDR_SIZE + Capacity(i) * cache_sizes[i] <= VMM_PAGE_SIZE
<1>1. i \in Nat /\ cache_sizes[i] \in Nat \ {0}
  BY SlabAssumption DEF Caches
<1>2. /\ cache_sizes[i] % ALIGN = 0
      /\ cache_sizes[i] + SLAB_HDR_SIZE <= VMM_PAGE_SIZE
      /\ cache_sizes[i] \in ToSet(cache_sizes)
  BY SlabAssumption DEF Caches, ToSet
<1> DEFINE o == cache_sizes[i]
           room == VMM_PAGE_SIZE - SLAB_HDR_SIZE
           fit == room \div o
<1>3. room \in Nat /\ o <= room
  BY <1>1, <1>2, ConstFacts
<1>4. fit \in Nat /\ o * fit <= room /\ room < o * fit + o
  BY <1>1, <1>3, Quotient
<1>5. fit >= 1
  <2>1. ASSUME fit = 0 PROVE FALSE
    BY <1>1, <1>3, <1>4, <2>1
  <2> QED BY <1>4, <2>1
<1>6. Capacity(i) = IF fit > BITMAP_BITS THEN BITMAP_BITS ELSE fit
  BY DEF Capacity
<1>7. Capacity(i) \in 1 .. BITMAP_BITS /\ Capacity(i) <= fit
  BY <1>4, <1>5, <1>6, ConstFacts
<1> HIDE DEF fit
<1>8. o * Capacity(i) <= o * fit
  BY <1>1, <1>4, <1>7, ConstFacts, TimesMono
<1>9. /\ o * Capacity(i) \in Nat /\ o * fit \in Nat
      /\ o * Capacity(i) = Capacity(i) * o
  BY <1>1, <1>4, <1>7, ConstFacts, Product
<1>10. SLAB_HDR_SIZE + Capacity(i) * o <= VMM_PAGE_SIZE
  BY <1>4, <1>8, <1>9, <1>3, ConstFacts
<1> QED BY <1>1, <1>2, <1>7, <1>10

LEMMA SlabFacts ==
    ASSUME NEW sl, Good(sl), NEW p \in DOMAIN sl
    PROVE  /\ p \in Nat /\ p % VMM_PAGE_SIZE = 0
           /\ START <= p /\ p + VMM_PAGE_SIZE <= KHEAP_END
           /\ sl[p].cache_idx \in Caches
           /\ sl[p].obj_size \in Nat \ {0}
           /\ sl[p].capacity \in 1 .. BITMAP_BITS
           /\ SLAB_HDR_SIZE + sl[p].capacity * sl[p].obj_size <= VMM_PAGE_SIZE
           /\ sl[p].obj_size % ALIGN = 0
           /\ sl[p].free_bitmap \subseteq Slots(sl, p)
           /\ IsFiniteSet(sl[p].free_bitmap)
           /\ sl[p].free_count \in Nat
           /\ sl[p].free_count = Cardinality(sl[p].free_bitmap)
           /\ sl[p].free_count <= sl[p].capacity
           /\ sl[p].free_count = 0 <=> sl[p].free_bitmap = {}
           /\ sl[p].capacity - sl[p].free_count \in Nat
<1>1. /\ p \in Nat /\ p % VMM_PAGE_SIZE = 0
      /\ START <= p /\ p + VMM_PAGE_SIZE <= KHEAP_END
      /\ sl[p].cache_idx \in Caches
      /\ sl[p].obj_size = cache_sizes[sl[p].cache_idx]
      /\ sl[p].capacity = Capacity(sl[p].cache_idx)
      /\ sl[p].free_bitmap \subseteq Slots(sl, p)
      /\ sl[p].free_count = Cardinality(sl[p].free_bitmap)
  BY DEF Good, Header
<1>2. /\ sl[p].obj_size \in Nat \ {0}
      /\ sl[p].capacity \in 1 .. BITMAP_BITS
      /\ SLAB_HDR_SIZE + sl[p].capacity * sl[p].obj_size <= VMM_PAGE_SIZE
      /\ sl[p].obj_size % ALIGN = 0
  BY <1>1, CacheFacts
<1>3. sl[p].capacity \in Nat /\ sl[p].capacity - 1 \in Int
  BY <1>2, ConstFacts
<1>4. /\ IsFiniteSet(Slots(sl, p))
      /\ Cardinality(Slots(sl, p)) = sl[p].capacity
  <2> DEFINE top == sl[p].capacity - 1
  <2>1. top \in Int /\ 0 \in Int /\ top + 1 = sl[p].capacity /\ ~(0 > top)
    BY <1>2, <1>3, ConstFacts
  <2> HIDE DEF top
  <2>2. /\ IsFiniteSet(0 .. top)
        /\ Cardinality(0 .. top) = IF 0 > top THEN 0 ELSE top - 0 + 1
    BY <2>1, FS_Interval, Zenon
  <2>3. Cardinality(0 .. top) = sl[p].capacity
    BY <2>1, <2>2
  <2> QED BY <2>2, <2>3 DEF Slots, top
<1>5. /\ IsFiniteSet(sl[p].free_bitmap)
      /\ Cardinality(sl[p].free_bitmap) <= sl[p].capacity
  BY <1>1, <1>4, FS_Subset
<1>6. /\ Cardinality(sl[p].free_bitmap) \in Nat
      /\ Cardinality(sl[p].free_bitmap) = 0 <=> sl[p].free_bitmap = {}
  BY <1>5, FS_CardinalityType, FS_EmptySet
<1>7. sl[p].capacity - sl[p].free_count \in Nat
  BY <1>1, <1>3, <1>5, <1>6
<1> QED BY <1>1, <1>2, <1>5, <1>6, <1>7

\* What the address of an object tells.
LEMMA ObjFacts ==
    ASSUME NEW sl, Good(sl), NEW p \in DOMAIN sl, NEW k \in Slots(sl, p)
    PROVE  /\ Obj(sl, p, k) \in Nat /\ Obj(sl, p, k) \in Addr
           /\ START <= Obj(sl, p, k)
           /\ Obj(sl, p, k) + sl[p].obj_size <= p + VMM_PAGE_SIZE
           /\ Obj(sl, p, k) + sl[p].obj_size <= KHEAP_END
           /\ Obj(sl, p, k) % ALIGN = 0
           /\ PageOf(Obj(sl, p, k)) = p
           /\ ((Obj(sl, p, k) - p - SLAB_HDR_SIZE) % W) \div sl[p].obj_size = k
<1> DEFINE o == sl[p].obj_size
           c == sl[p].capacity
<1>1. /\ p \in Nat /\ p % VMM_PAGE_SIZE = 0 /\ o \in Nat \ {0}
      /\ c \in Nat /\ o % ALIGN = 0
      /\ SLAB_HDR_SIZE + c * o <= VMM_PAGE_SIZE
      /\ START <= p /\ p + VMM_PAGE_SIZE <= KHEAP_END
  BY SlabFacts, ConstFacts
<1>2. k \in Nat /\ k + 1 <= c
  BY <1>1 DEF Slots
<1> HIDE DEF o, c
<1>3. /\ k * o \in Nat /\ c * o \in Nat /\ k * o + o <= c * o
  <2>1. o * (k + 1) <= o * c
    BY <1>1, <1>2, TimesMono
  <2>2. o * (k + 1) = k * o + o /\ o * c = c * o
    BY <1>1, <1>2
  <2>3. k * o \in Nat /\ c * o \in Nat
    BY <1>1, <1>2, Product
  <2> QED BY <2>1, <2>2, <2>3
<1>4. Obj(sl, p, k) = p + SLAB_HDR_SIZE + k * o
  BY DEF Obj, o
<1>5. /\ Obj(sl, p, k) \in Nat /\ START <= Obj(sl, p, k)
      /\ Obj(sl, p, k) + o <= p + VMM_PAGE_SIZE
      /\ Obj(sl, p, k) + o <= KHEAP_END
      /\ Obj(sl, p, k) \in Addr
  BY <1>1, <1>3, <1>4, ConstFacts
<1>6. PageOf(Obj(sl, p, k)) = p
  <2>1. SLAB_HDR_SIZE + k * o \in 0 .. VMM_PAGE_SIZE - 1
    BY <1>1, <1>3, ConstFacts
  <2>2. (p + (SLAB_HDR_SIZE + k * o)) - ((p + (SLAB_HDR_SIZE + k * o)) % VMM_PAGE_SIZE) = p
    BY <2>1, <1>1, ConstFacts, InPage
  <2>3. Obj(sl, p, k) = p + (SLAB_HDR_SIZE + k * o)
    BY <1>1, <1>3, <1>4, ConstFacts
  <2> QED BY <2>2, <2>3 DEF PageOf
<1>7. ((Obj(sl, p, k) - p - SLAB_HDR_SIZE) % W) \div o = k
  <2>1. Obj(sl, p, k) - p - SLAB_HDR_SIZE = k * o
    BY <1>1, <1>3, <1>4, ConstFacts
  <2>2. k * o < W
    BY <1>1, <1>3, ConstFacts
  <2>3. (k * o) % W = k * o
    <3>1. W \in Nat \ {0} /\ k * o \in 0 .. W - 1
      BY <2>2, <1>3, ConstFacts
    <3>2. (W * 0 + k * o) % W = k * o
      BY <3>1, QuotientUnique
    <3> QED BY <3>1, <3>2
  <2>4. (o * k + 0) \div o = k
    BY <1>1, <1>2, QuotientUnique
  <2>5. o * k + 0 = k * o
    BY <1>1, <1>2
  <2> QED BY <2>1, <2>3, <2>4, <2>5
<1>8. Obj(sl, p, k) % ALIGN = 0
  <2>1. p % ALIGN = 0
    <3>1. PICK m \in Nat : p = VMM_PAGE_SIZE * m
      BY <1>1, ConstFacts, IsMultiple
    <3>2. (m * VMM_PAGE_SIZE) % ALIGN = 0
      BY SlabAssumption, ConstFacts, ProductOfMultiple
    <3>3. m * VMM_PAGE_SIZE = VMM_PAGE_SIZE * m
      BY <3>1, ConstFacts
    <3> QED BY <3>1, <3>2, <3>3
  <2>2. (k * o) % ALIGN = 0
    BY <1>1, <1>2, ConstFacts, ProductOfMultiple
  <2>3. (p + SLAB_HDR_SIZE) % ALIGN = 0 /\ p + SLAB_HDR_SIZE \in Nat
    <3>1. SLAB_HDR_SIZE % ALIGN = 0
      BY SlabAssumption
    <3>2. p \in Nat /\ SLAB_HDR_SIZE \in Nat /\ ALIGN \in Nat \ {0}
      BY <1>1, ConstFacts
    <3>3. (p + SLAB_HDR_SIZE) % ALIGN = 0
      BY <2>1, <3>1, <3>2, SumOfMultiples
    <3> QED BY <3>2, <3>3
  <2> QED BY <2>2, <2>3, <1>3, <1>4, ConstFacts, SumOfMultiples
<1> QED BY <1>5, <1>6, <1>7, <1>8 DEF o

\* An address belongs to one object.
LEMMA ObjUnique ==
    ASSUME NEW sl, Good(sl), NEW p \in DOMAIN sl, NEW k \in Slots(sl, p),
           NEW q \in DOMAIN sl, NEW j \in Slots(sl, q),
           Obj(sl, p, k) = Obj(sl, q, j)
    PROVE  p = q /\ k = j
<1>1. p = q
  <2>1. PageOf(Obj(sl, p, k)) = p /\ PageOf(Obj(sl, q, j)) = q
    BY ObjFacts
  <2> QED BY <2>1
<1>2. /\ ((Obj(sl, p, k) - p - SLAB_HDR_SIZE) % W) \div sl[p].obj_size = k
      /\ ((Obj(sl, q, j) - q - SLAB_HDR_SIZE) % W) \div sl[q].obj_size = j
  BY ObjFacts
<1> QED BY <1>1, <1>2

\* Objects do not overlap.
LEMMA ObjApart ==
    ASSUME NEW sl, Good(sl), NEW p \in DOMAIN sl, NEW k \in Slots(sl, p),
           NEW q \in DOMAIN sl, NEW j \in Slots(sl, q), p # q \/ k # j
    PROVE  \/ Obj(sl, p, k) + sl[p].obj_size <= Obj(sl, q, j)
           \/ Obj(sl, q, j) + sl[q].obj_size <= Obj(sl, p, k)
<1>1. /\ p \in Nat /\ p % VMM_PAGE_SIZE = 0 /\ sl[p].obj_size \in Nat
      /\ q \in Nat /\ q % VMM_PAGE_SIZE = 0 /\ sl[q].obj_size \in Nat
      /\ k \in Nat /\ j \in Nat
  BY SlabFacts DEF Slots
<1>2. /\ Obj(sl, p, k) \in Nat /\ Obj(sl, p, k) + sl[p].obj_size <= p + VMM_PAGE_SIZE
      /\ Obj(sl, q, j) \in Nat /\ Obj(sl, q, j) + sl[q].obj_size <= q + VMM_PAGE_SIZE
      /\ p <= Obj(sl, p, k) /\ q <= Obj(sl, q, j)
  <2>1. /\ k * sl[p].obj_size \in Nat /\ j * sl[q].obj_size \in Nat
    BY <1>1, Product
  <2>2. p <= Obj(sl, p, k) /\ q <= Obj(sl, q, j)
    BY <1>1, <2>1, ConstFacts DEF Obj
  <2> QED BY <2>2, ObjFacts
<1>3. CASE p < q
  <2>1. p + VMM_PAGE_SIZE <= q
    BY <1>1, <1>3, ConstFacts, MultiplesApart
  <2> QED BY <2>1, <1>1, <1>2, ConstFacts
<1>4. CASE q < p
  <2>1. q + VMM_PAGE_SIZE <= p
    BY <1>1, <1>4, ConstFacts, MultiplesApart
  <2> QED BY <2>1, <1>1, <1>2, ConstFacts
<1>5. CASE p = q
  <2> DEFINE o == sl[p].obj_size
  <2>1. /\ Obj(sl, p, k) = p + SLAB_HDR_SIZE + k * o
        /\ Obj(sl, q, j) = p + SLAB_HDR_SIZE + j * o
        /\ o = sl[q].obj_size
    BY <1>5 DEF Obj
  <2>2. o \in Nat
    BY <1>1
  <2> HIDE DEF o
  <2>3. CASE k < j
    <3>1. o * (k + 1) <= o * j /\ o * (k + 1) = k * o + o /\ o * j = j * o
      BY <1>1, <2>2, <2>3, TimesMono
    <3>2. k * o \in Nat /\ j * o \in Nat
      BY <1>1, <2>2, Product
    <3> QED BY <1>1, <2>1, <2>2, <3>1, <3>2, ConstFacts DEF o
  <2>4. CASE j < k
    <3>1. o * (j + 1) <= o * k /\ o * (j + 1) = j * o + o /\ o * k = k * o
      BY <1>1, <2>2, <2>4, TimesMono
    <3>2. k * o \in Nat /\ j * o \in Nat
      BY <1>1, <2>2, Product
    <3> QED BY <1>1, <2>1, <2>2, <3>1, <3>2, ConstFacts DEF o
  <2> QED BY <1>1, <1>5, <2>3, <2>4
<1> QED BY <1>1, <1>3, <1>4, <1>5

-----------------------------------------------------------------------------
(* One slab's bitmap changes *)

\* The slab at page has the bitmap B, everything else is as it was.
Changed(sl, sn, page, B) ==
    /\ DOMAIN sn = DOMAIN sl
    /\ sn = [p \in DOMAIN sl |-> sn[p]]
    /\ \A p \in DOMAIN sl : p # page => sn[p] = sl[p]
    /\ \A p \in DOMAIN sl : /\ sn[p].cache_idx = sl[p].cache_idx
                            /\ sn[p].obj_size = sl[p].obj_size
                            /\ sn[p].capacity = sl[p].capacity
    /\ sn[page] \in Header
    /\ sn[page].free_bitmap = B
    /\ sn[page].free_count = Cardinality(B)

LEMMA ChangedGood ==
    ASSUME NEW sl, Good(sl), NEW page \in DOMAIN sl, NEW B,
           B \subseteq Slots(sl, page), NEW sn, Changed(sl, sn, page, B)
    PROVE  /\ Good(sn)
           /\ \A p \in DOMAIN sl : Slots(sn, p) = Slots(sl, p)
           /\ \A p, k : p \in DOMAIN sl => Obj(sn, p, k) = Obj(sl, p, k)
<1>1. \A p \in DOMAIN sl : Slots(sn, p) = Slots(sl, p)
  BY DEF Changed, Slots
<1>2. \A p, k : p \in DOMAIN sl => Obj(sn, p, k) = Obj(sl, p, k)
  BY DEF Changed, Obj
<1>3. ASSUME NEW p \in DOMAIN sl
      PROVE  /\ p \in Nat /\ p % VMM_PAGE_SIZE = 0
             /\ START <= p /\ p + VMM_PAGE_SIZE <= KHEAP_END
             /\ sn[p] \in Header
             /\ sn[p].obj_size = cache_sizes[sn[p].cache_idx]
             /\ sn[p].capacity = Capacity(sn[p].cache_idx)
             /\ sn[p].free_bitmap \subseteq Slots(sn, p)
             /\ sn[p].free_count = Cardinality(sn[p].free_bitmap)
  <2>1. CASE p = page
    BY <2>1, <1>1 DEF Good, Changed
  <2>2. CASE p # page
    BY <2>2, <1>1 DEF Good, Changed
  <2> QED BY <2>1, <2>2
<1>4. Good(sn)
  BY <1>3 DEF Good, Changed
<1> QED BY <1>1, <1>2, <1>4

LEMMA ChangedHeader ==
    ASSUME NEW sl, Good(sl), NEW page \in DOMAIN sl, NEW B \in SUBSET Nat,
           NEW n \in Nat, n = Cardinality(B),
           NEW sn, sn = [p \in DOMAIN sl |->
                           IF p = page
                              THEN [sl[page] EXCEPT !.free_bitmap = B,
                                                    !.free_count = n]
                              ELSE sl[p]]
    PROVE  Changed(sl, sn, page, B)
<1>1. sl[page] \in Header
  BY DEF Good
<1>2. sn[page] = [cache_idx |-> sl[page].cache_idx, obj_size |-> sl[page].obj_size,
                  capacity |-> sl[page].capacity, free_count |-> n,
                  free_bitmap |-> B]
  BY <1>1 DEF Header
<1>3. sn[page] \in Header
  BY <1>1, <1>2 DEF Header
<1>4. /\ sn[page].cache_idx = sl[page].cache_idx
      /\ sn[page].obj_size = sl[page].obj_size
      /\ sn[page].capacity = sl[page].capacity
      /\ sn[page].free_count = n /\ sn[page].free_bitmap = B
  BY <1>2
<1> QED BY <1>3, <1>4 DEF Changed

\* The lists of the other caches stay as they are.
LEMMA OtherSets ==
    ASSUME NEW sl, Good(sl), NEW page \in DOMAIN sl, NEW B,
           B \subseteq Slots(sl, page), NEW sn, Changed(sl, sn, page, B),
           NEW i \in Caches, i # sl[page].cache_idx
    PROVE  Open(sn, i) = Open(sl, i) /\ Closed(sn, i) = Closed(sl, i)
<1>1. Good(sn) /\ DOMAIN sn = DOMAIN sl /\ sn[page].free_bitmap = B
  <2>1. Good(sn)
    BY ChangedGood
  <2> QED BY <2>1 DEF Changed
<1>2. /\ sn[page].free_count \in Nat
      /\ sn[page].free_count = 0 <=> B = {}
  BY <1>1, SlabFacts
<1>3. \A p \in DOMAIN sl : sn[p].cache_idx = sl[p].cache_idx
  BY DEF Changed
<1>4. \A p \in DOMAIN sl : p # page => sn[p].free_count = sl[p].free_count
  BY DEF Changed
<1> QED BY <1>1, <1>2, <1>3, <1>4 DEF Open, Closed

LEMMA FilledSets ==
    ASSUME NEW sl, Good(sl), NEW page \in DOMAIN sl, NEW B,
           B \subseteq Slots(sl, page), NEW sn, Changed(sl, sn, page, B), B = {}
    PROVE  LET i == sl[page].cache_idx
           IN  /\ Open(sn, i) = Open(sl, i) \ {page}
               /\ Closed(sn, i) = Closed(sl, i) \cup {page}
<1>1. Good(sn) /\ DOMAIN sn = DOMAIN sl /\ sn[page].free_bitmap = B
  <2>1. Good(sn)
    BY ChangedGood
  <2> QED BY <2>1 DEF Changed
<1>2. /\ sn[page].free_count \in Nat
      /\ sn[page].free_count = 0 <=> B = {}
  BY <1>1, SlabFacts
<1>3. \A p \in DOMAIN sl : sn[p].cache_idx = sl[p].cache_idx
  BY DEF Changed
<1>4. \A p \in DOMAIN sl : p # page => sn[p].free_count = sl[p].free_count
  BY DEF Changed
<1> QED BY <1>1, <1>2, <1>3, <1>4 DEF Open, Closed

LEMMA OpenedSets ==
    ASSUME NEW sl, Good(sl), NEW page \in DOMAIN sl, NEW B,
           B \subseteq Slots(sl, page), NEW sn, Changed(sl, sn, page, B), B # {}
    PROVE  LET i == sl[page].cache_idx
           IN  /\ Open(sn, i) = Open(sl, i) \cup {page}
               /\ Closed(sn, i) = Closed(sl, i) \ {page}
<1>1. Good(sn) /\ DOMAIN sn = DOMAIN sl /\ sn[page].free_bitmap = B
  <2>1. Good(sn)
    BY ChangedGood
  <2> QED BY <2>1 DEF Changed
<1>2. /\ sn[page].free_count \in Nat
      /\ sn[page].free_count = 0 <=> B = {}
  BY <1>1, SlabFacts
<1>3. \A p \in DOMAIN sl : sn[p].cache_idx = sl[p].cache_idx
  BY DEF Changed
<1>4. \A p \in DOMAIN sl : p # page => sn[p].free_count = sl[p].free_count
  BY DEF Changed
<1> QED BY <1>1, <1>2, <1>3, <1>4 DEF Open, Closed

LEMMA ListingTaken ==
    ASSUME NEW sl, Good(sl), NEW pt, NEW fu, Listing(sl, pt, fu),
           NEW i \in Caches, NEW page \in DOMAIN sl, page \in Open(sl, i),
           NEW B, B \subseteq Slots(sl, page), NEW sn, Changed(sl, sn, page, B),
           NEW rest
    PROVE  /\ B = {} /\ Lists(rest, Open(sl, i) \ {page})
                => Listing(sn, [pt EXCEPT ![i] = rest],
                               [fu EXCEPT ![i] = <<page>> \o @])
           /\ B # {} /\ pt[i] = <<page>> \o rest
                => Listing(sn, [pt EXCEPT ![i] = <<page>> \o rest], fu)
<1>1. page \in DOMAIN sl /\ sl[page].cache_idx = i /\ page \notin Closed(sl, i)
  BY DEF Open, Closed
<1>2. /\ pt = [j \in Caches |-> pt[j]] /\ fu = [j \in Caches |-> fu[j]]
      /\ \A j \in Caches : /\ Lists(pt[j], Open(sl, j))
                           /\ Lists(fu[j], Closed(sl, j))
  BY DEF Listing
<1>3. \A j \in Caches : j # i => /\ Open(sn, j) = Open(sl, j)
                                /\ Closed(sn, j) = Closed(sl, j)
  <2> SUFFICES ASSUME NEW j \in Caches, j # i
               PROVE  Open(sn, j) = Open(sl, j) /\ Closed(sn, j) = Closed(sl, j)
    OBVIOUS
  <2>1. j # sl[page].cache_idx
    BY <1>1
  <2> QED BY <1>1, <2>1, OtherSets
<1>6. i = sl[page].cache_idx
  BY <1>1
<1>4. CASE B = {} /\ Lists(rest, Open(sl, i) \ {page})
  <2>1. /\ Open(sn, i) = Open(sl, i) \ {page}
        /\ Closed(sn, i) = Closed(sl, i) \cup {page}
    BY <1>1, <1>4, <1>6, FilledSets
  <2>2. Lists(<<page>> \o fu[i], Closed(sn, i))
    BY <1>1, <1>2, <2>1, ListPush
  <2>3. Lists(rest, Open(sn, i))
    BY <2>1, <1>4
  <2> QED BY <1>2, <1>3, <1>4, <2>2, <2>3 DEF Listing
<1>5. CASE B # {} /\ pt[i] = <<page>> \o rest
  <2>1. Open(sn, i) = Open(sl, i) /\ Closed(sn, i) = Closed(sl, i)
    <3>1. B # {}
      BY <1>5
    <3>2. /\ Open(sn, i) = Open(sl, i) \cup {page}
          /\ Closed(sn, i) = Closed(sl, i) \ {page}
      BY <1>6, <3>1, OpenedSets
    <3> QED BY <1>1, <3>2
  <2>2. [pt EXCEPT ![i] = <<page>> \o rest] = pt
    BY <1>2, <1>5
  <2> QED BY <1>2, <1>3, <1>5, <2>1, <2>2 DEF Listing
<1> QED BY <1>4, <1>5

LEMMA ListingReturned ==
    ASSUME NEW sl, Good(sl), NEW pt, NEW fu, Listing(sl, pt, fu),
           NEW page \in DOMAIN sl,
           NEW B, B \subseteq Slots(sl, page), B # {},
           NEW sn, Changed(sl, sn, page, B)
    PROVE  LET i == sl[page].cache_idx
           IN  /\ sl[page].free_count = 0
                    => Listing(sn, [pt EXCEPT ![i] = <<page>> \o @],
                                   [fu EXCEPT ![i] = RemoveFirst(@, page)])
               /\ sl[page].free_count # 0 => Listing(sn, pt, fu)
<1> DEFINE i == sl[page].cache_idx
<1>1. i \in Caches /\ sl[page].free_count \in Nat
  BY SlabFacts
<1>2. /\ pt = [j \in Caches |-> pt[j]] /\ fu = [j \in Caches |-> fu[j]]
      /\ \A j \in Caches : /\ Lists(pt[j], Open(sl, j))
                           /\ Lists(fu[j], Closed(sl, j))
  BY DEF Listing
<1>3. \A j \in Caches : j # i => /\ Open(sn, j) = Open(sl, j)
                                /\ Closed(sn, j) = Closed(sl, j)
  BY OtherSets
<1>4. /\ Open(sn, i) = Open(sl, i) \cup {page}
      /\ Closed(sn, i) = Closed(sl, i) \ {page}
  BY OpenedSets
<1>5. CASE sl[page].free_count = 0
  <2>1. page \in Closed(sl, i) /\ page \notin Open(sl, i)
    BY <1>5 DEF Open, Closed
  <2>2. Lists(<<page>> \o pt[i], Open(sn, i))
    BY <1>1, <1>2, <1>4, <2>1, ListPush
  <2>3. Lists(RemoveFirst(fu[i], page), Closed(sn, i))
    BY <1>1, <1>2, <1>4, <2>1, ListRemove
  <2> DEFINE pn == [pt EXCEPT ![i] = <<page>> \o @]
             fn == [fu EXCEPT ![i] = RemoveFirst(@, page)]
  <2>4. /\ pn = [j \in Caches |-> pn[j]] /\ fn = [j \in Caches |-> fn[j]]
        /\ pn[i] = <<page>> \o pt[i] /\ fn[i] = RemoveFirst(fu[i], page)
        /\ \A j \in Caches : j # i => pn[j] = pt[j] /\ fn[j] = fu[j]
    BY <1>1, <1>2
  <2> HIDE DEF pn, fn
  <2>5. Listing(sn, pn, fn)
    BY <1>2, <1>3, <2>2, <2>3, <2>4 DEF Listing
  <2> QED BY <1>5, <2>5 DEF pn, fn
<1>6. CASE sl[page].free_count # 0
  <2>1. page \in Open(sl, i) /\ page \notin Closed(sl, i)
    BY <1>1, <1>6 DEF Open, Closed
  <2> QED BY <1>2, <1>3, <1>4, <1>6, <2>1 DEF Listing
<1> QED BY <1>5, <1>6

LEMMA PiecesTaken ==
    ASSUME NEW sl, Good(sl), NEW lv, Pieces(sl, lv), NEW page \in DOMAIN sl,
           NEW slot \in sl[page].free_bitmap,
           NEW sn, Changed(sl, sn, page, sl[page].free_bitmap \ {slot}),
           NEW n \in Addr, n <= sl[page].obj_size
    PROVE  /\ Pieces(sn, lv \cup {Piece(Obj(sl, page, slot), n)})
           /\ \A q \in lv : q.ptr # Obj(sl, page, slot)
<1> DEFINE B == sl[page].free_bitmap \ {slot}
           new == Piece(Obj(sl, page, slot), n)
           ln == lv \cup {new}
<1>1. /\ slot \in Slots(sl, page) /\ B \subseteq Slots(sl, page)
      /\ sl[page].free_bitmap \subseteq Slots(sl, page)
  BY SlabFacts
<1>2. /\ \A p \in DOMAIN sl : Slots(sn, p) = Slots(sl, p)
      /\ \A p, k : p \in DOMAIN sl => Obj(sn, p, k) = Obj(sl, p, k)
      /\ DOMAIN sn = DOMAIN sl
      /\ \A p \in DOMAIN sl : sn[p].obj_size = sl[p].obj_size
      /\ \A p \in DOMAIN sl : sn[p].free_bitmap = IF p = page THEN B
                                                  ELSE sl[p].free_bitmap
  <2>1. Changed(sl, sn, page, B)
    OBVIOUS
  <2> HIDE DEF B
  <2>2. /\ \A p \in DOMAIN sl : Slots(sn, p) = Slots(sl, p)
        /\ \A p, k : p \in DOMAIN sl => Obj(sn, p, k) = Obj(sl, p, k)
    BY <1>1, <2>1, ChangedGood
  <2>3. /\ DOMAIN sn = DOMAIN sl
        /\ \A p \in DOMAIN sl : sn[p].obj_size = sl[p].obj_size
        /\ \A p \in DOMAIN sl : sn[p].free_bitmap = IF p = page THEN B
                                                    ELSE sl[p].free_bitmap
    BY <2>1 DEF Changed
  <2> QED BY <2>2, <2>3
<1>3. /\ lv \subseteq [ptr : Addr, size : Addr] /\ IsFiniteSet(lv)
      /\ \A q, r \in lv : q.ptr = r.ptr => q = r
      /\ \A q \in lv : \E p \in DOMAIN sl : \E k \in Slots(sl, p) :
            /\ k \notin sl[p].free_bitmap
            /\ q.ptr = Obj(sl, p, k) /\ q.size <= sl[p].obj_size
      /\ \A p \in DOMAIN sl : \A k \in Slots(sl, p) \ sl[p].free_bitmap :
            \E q \in lv : q.ptr = Obj(sl, p, k)
  BY DEF Pieces
<1>4. \A q \in lv : q.ptr # Obj(sl, page, slot)
  <2> SUFFICES ASSUME NEW q \in lv, q.ptr = Obj(sl, page, slot) PROVE FALSE
    OBVIOUS
  <2>1. PICK p \in DOMAIN sl : \E k \in Slots(sl, p) :
            k \notin sl[p].free_bitmap /\ q.ptr = Obj(sl, p, k)
    BY <1>3
  <2>2. PICK k \in Slots(sl, p) :
            k \notin sl[p].free_bitmap /\ q.ptr = Obj(sl, p, k)
    BY <2>1
  <2>3. p = page /\ k = slot
    BY <1>1, <2>2, ObjUnique
  <2> QED BY <2>2, <2>3
<1>5. new.ptr = Obj(sl, page, slot) /\ new.size = n
  BY DEF Piece
<1>6. new \in [ptr : Addr, size : Addr]
  <2>1. Obj(sl, page, slot) \in Addr
    BY <1>1, ObjFacts
  <2> QED BY <2>1 DEF Piece
<1> HIDE DEF B, new
<1>7. ln \subseteq [ptr : Addr, size : Addr] /\ IsFiniteSet(ln)
  BY <1>3, <1>6, FS_AddElement
<1>8. \A q, r \in ln : q.ptr = r.ptr => q = r
  BY <1>3, <1>4, <1>5
<1>9. slot \notin B
  BY DEF B
<1>10. ASSUME NEW q \in ln
       PROVE  \E p \in DOMAIN sn : \E k \in Slots(sn, p) :
                /\ k \notin sn[p].free_bitmap
                /\ q.ptr = Obj(sn, p, k) /\ q.size <= sn[p].obj_size
  <2>1. CASE q = new
    BY <2>1, <1>1, <1>2, <1>5, <1>9
  <2>2. CASE q \in lv
    <3>1. PICK p \in DOMAIN sl : \E k \in Slots(sl, p) :
            /\ k \notin sl[p].free_bitmap
            /\ q.ptr = Obj(sl, p, k) /\ q.size <= sl[p].obj_size
      BY <2>2, <1>3
    <3>2. PICK k \in Slots(sl, p) :
            /\ k \notin sl[p].free_bitmap
            /\ q.ptr = Obj(sl, p, k) /\ q.size <= sl[p].obj_size
      BY <3>1
    <3>3. k \notin sn[p].free_bitmap
      BY <3>2, <1>2 DEF B
    <3> QED BY <3>2, <3>3, <1>2
  <2> QED BY <2>1, <2>2
<1>11. ASSUME NEW p \in DOMAIN sn, NEW k \in Slots(sn, p) \ sn[p].free_bitmap
       PROVE  \E q \in ln : q.ptr = Obj(sn, p, k)
  <2>1. CASE p = page /\ k = slot
    BY <2>1, <1>2, <1>5
  <2>2. CASE ~(p = page /\ k = slot)
    <3>1. p \in DOMAIN sl /\ k \in Slots(sl, p) \ sl[p].free_bitmap
      BY <2>2, <1>2 DEF B
    <3> QED BY <3>1, <1>2, <1>3
  <2> QED BY <2>1, <2>2
<1>12. Pieces(sn, ln)
  BY <1>7, <1>8, <1>10, <1>11 DEF Pieces
<1> QED BY <1>4, <1>12 DEF new

LEMMA PiecesReturned ==
    ASSUME NEW sl, Good(sl), NEW lv, Pieces(sl, lv), NEW page \in DOMAIN sl,
           NEW slot \in Slots(sl, page) \ sl[page].free_bitmap,
           NEW sn, Changed(sl, sn, page, sl[page].free_bitmap \cup {slot}),
           NEW old \in lv, old.ptr = Obj(sl, page, slot)
    PROVE  Pieces(sn, lv \ {old})
<1> DEFINE B == sl[page].free_bitmap \cup {slot}
           ln == lv \ {old}
<1>1. B \subseteq Slots(sl, page)
  BY SlabFacts
<1>2. /\ \A p \in DOMAIN sl : Slots(sn, p) = Slots(sl, p)
      /\ \A p, k : p \in DOMAIN sl => Obj(sn, p, k) = Obj(sl, p, k)
      /\ DOMAIN sn = DOMAIN sl
      /\ \A p \in DOMAIN sl : sn[p].obj_size = sl[p].obj_size
      /\ \A p \in DOMAIN sl : sn[p].free_bitmap = IF p = page THEN B
                                                  ELSE sl[p].free_bitmap
  <2>1. Changed(sl, sn, page, B)
    OBVIOUS
  <2> HIDE DEF B
  <2>2. /\ \A p \in DOMAIN sl : Slots(sn, p) = Slots(sl, p)
        /\ \A p, k : p \in DOMAIN sl => Obj(sn, p, k) = Obj(sl, p, k)
    BY <1>1, <2>1, ChangedGood
  <2>3. /\ DOMAIN sn = DOMAIN sl
        /\ \A p \in DOMAIN sl : sn[p].obj_size = sl[p].obj_size
        /\ \A p \in DOMAIN sl : sn[p].free_bitmap = IF p = page THEN B
                                                    ELSE sl[p].free_bitmap
    BY <2>1 DEF Changed
  <2> QED BY <2>2, <2>3
<1>3. /\ lv \subseteq [ptr : Addr, size : Addr] /\ IsFiniteSet(lv)
      /\ \A q, r \in lv : q.ptr = r.ptr => q = r
      /\ \A q \in lv : \E p \in DOMAIN sl : \E k \in Slots(sl, p) :
            /\ k \notin sl[p].free_bitmap
            /\ q.ptr = Obj(sl, p, k) /\ q.size <= sl[p].obj_size
      /\ \A p \in DOMAIN sl : \A k \in Slots(sl, p) \ sl[p].free_bitmap :
            \E q \in lv : q.ptr = Obj(sl, p, k)
  BY DEF Pieces
<1>4. ln \subseteq [ptr : Addr, size : Addr] /\ IsFiniteSet(ln)
      /\ \A q, r \in ln : q.ptr = r.ptr => q = r
  BY <1>3, FS_RemoveElement
<1>5. ASSUME NEW q \in ln
      PROVE  \E p \in DOMAIN sn : \E k \in Slots(sn, p) :
                /\ k \notin sn[p].free_bitmap
                /\ q.ptr = Obj(sn, p, k) /\ q.size <= sn[p].obj_size
  <2>1. PICK p \in DOMAIN sl : \E k \in Slots(sl, p) :
            /\ k \notin sl[p].free_bitmap
            /\ q.ptr = Obj(sl, p, k) /\ q.size <= sl[p].obj_size
    BY <1>3
  <2>2. PICK k \in Slots(sl, p) :
            /\ k \notin sl[p].free_bitmap
            /\ q.ptr = Obj(sl, p, k) /\ q.size <= sl[p].obj_size
    BY <2>1
  <2>3. q.ptr # old.ptr
    BY <1>3
  <2>4. ~(p = page /\ k = slot)
    BY <2>2, <2>3
  <2>5. k \notin sn[p].free_bitmap
    BY <2>2, <2>4, <1>2
  <2> QED BY <2>2, <2>5, <1>2
<1>6. ASSUME NEW p \in DOMAIN sn, NEW k \in Slots(sn, p) \ sn[p].free_bitmap
      PROVE  \E q \in ln : q.ptr = Obj(sn, p, k)
  <2>1. /\ p \in DOMAIN sl /\ k \in Slots(sl, p) \ sl[p].free_bitmap
        /\ ~(p = page /\ k = slot)
    BY <1>2
  <2>2. PICK q \in lv : q.ptr = Obj(sl, p, k)
    BY <2>1, <1>3
  <2>3. q # old
    <3>1. CASE q = old
      <4>1. Obj(sl, p, k) = Obj(sl, page, slot)
        BY <2>2, <3>1
      <4>2. p = page /\ k = slot
        BY <4>1, <2>1, ObjUnique
      <4> QED BY <4>2, <2>1
    <3> QED BY <3>1
  <2> QED BY <2>2, <2>3, <1>2
<1> QED BY <1>4, <1>5, <1>6 DEF Pieces

LEMMA PiecePage ==
    ASSUME NEW sl, Good(sl), NEW lv, Pieces(sl, lv), NEW q \in lv
    PROVE  /\ PageOf(q.ptr) \in DOMAIN sl
           /\ q.ptr \in Addr /\ q.size \in Addr
           /\ \E k \in Slots(sl, PageOf(q.ptr)) :
                 /\ k \notin sl[PageOf(q.ptr)].free_bitmap
                 /\ q.ptr = Obj(sl, PageOf(q.ptr), k)
                 /\ q.size <= sl[PageOf(q.ptr)].obj_size
                 /\ ((q.ptr - PageOf(q.ptr) - SLAB_HDR_SIZE) % W)
                       \div sl[PageOf(q.ptr)].obj_size = k
<1>1. PICK p \in DOMAIN sl : \E k \in Slots(sl, p) :
          /\ k \notin sl[p].free_bitmap
          /\ q.ptr = Obj(sl, p, k) /\ q.size <= sl[p].obj_size
  BY DEF Pieces
<1>2. PICK k \in Slots(sl, p) :
          /\ k \notin sl[p].free_bitmap
          /\ q.ptr = Obj(sl, p, k) /\ q.size <= sl[p].obj_size
  BY <1>1
<1>3. /\ PageOf(q.ptr) = p
      /\ ((q.ptr - p - SLAB_HDR_SIZE) % W) \div sl[p].obj_size = k
  BY <1>2, ObjFacts
<1>4. q.ptr \in Addr /\ q.size \in Addr
  BY DEF Pieces
<1> QED BY <1>2, <1>3, <1>4

LEMMA SumsCountable ==
    ASSUME NEW sl, Good(sl), NEW lv, Pieces(sl, lv)
    PROVE  /\ Countable(Handed(sl)) /\ Countable(HandedBytes(sl))
           /\ Countable(PieceBytes(sl, lv))
<1>1. IsFiniteSet(DOMAIN sl) /\ IsFiniteSet(lv)
  BY DEF Good, Pieces
<1>2. ASSUME NEW p \in DOMAIN sl
      PROVE  /\ sl[p].capacity - sl[p].free_count \in Nat
             /\ sl[p].obj_size \in Nat
             /\ (sl[p].capacity - sl[p].free_count) * sl[p].obj_size \in Nat
  BY SlabFacts, Product
<1>3. \A q \in lv : sl[PageOf(q.ptr)].obj_size \in Nat
  BY <1>2, PiecePage
<1> QED BY <1>1, <1>2, <1>3 DEF Countable, Handed, HandedBytes, PieceBytes

\* Object sizes of slabs that stay are the same.
LEMMA SamePieceBytes ==
    ASSUME NEW sl, Good(sl), NEW lv, Pieces(sl, lv), NEW sn,
           \A p \in DOMAIN sl : sn[p].obj_size = sl[p].obj_size
    PROVE  \A q \in lv : sn[PageOf(q.ptr)].obj_size = sl[PageOf(q.ptr)].obj_size
  BY PiecePage

LEMMA SumsTaken ==
    ASSUME NEW sl, Good(sl), NEW lv, Pieces(sl, lv), Sums(sl, lv),
           NEW page \in DOMAIN sl, NEW slot \in sl[page].free_bitmap,
           NEW sn, Changed(sl, sn, page, sl[page].free_bitmap \ {slot}),
           NEW n \in Addr, n <= sl[page].obj_size
    PROVE  Sums(sn, lv \cup {Piece(Obj(sl, page, slot), n)})
<1> DEFINE B == sl[page].free_bitmap \ {slot}
           new == Piece(Obj(sl, page, slot), n)
           ln == lv \cup {new}
           o == sl[page].obj_size
           u == sl[page].capacity - sl[page].free_count
<1>1. /\ sl[page].free_bitmap \subseteq Slots(sl, page) /\ B \subseteq Slots(sl, page)
      /\ slot \in Slots(sl, page)
      /\ sl[page].free_count = Cardinality(sl[page].free_bitmap)
      /\ IsFiniteSet(sl[page].free_bitmap)
      /\ sl[page].free_count \in Nat /\ sl[page].capacity \in Nat
      /\ o \in Nat /\ u \in Nat
  BY SlabFacts, ConstFacts
<1>2. Cardinality(B) = sl[page].free_count - 1
  BY <1>1, FS_RemoveElement
<1>3. /\ DOMAIN sn = DOMAIN sl /\ sn[page].capacity = sl[page].capacity
      /\ \A p \in DOMAIN sl : sn[p].obj_size = sl[p].obj_size
      /\ \A p \in DOMAIN sl : p # page => sn[p] = sl[p]
      /\ sn[page].free_count = sl[page].free_count - 1
  BY <1>2 DEF Changed
<1>4. /\ Pieces(sn, ln) /\ new \notin lv
      /\ new.ptr = Obj(sl, page, slot) /\ PageOf(new.ptr) = page
  <2>1. Pieces(sn, ln) /\ \A q \in lv : q.ptr # Obj(sl, page, slot)
    BY PiecesTaken
  <2>2. new.ptr = Obj(sl, page, slot)
    BY DEF Piece
  <2>3. PageOf(Obj(sl, page, slot)) = page
    BY <1>1, ObjFacts
  <2> QED BY <2>1, <2>2, <2>3
<1>5. Good(sn)
  <2>1. Changed(sl, sn, page, B)
    OBVIOUS
  <2> QED BY <1>1, <2>1, ChangedGood
<1> HIDE DEF new, B, o, u
<1>6. /\ Countable(Handed(sl)) /\ Countable(HandedBytes(sl))
      /\ Countable(PieceBytes(sl, lv))
      /\ Countable(Handed(sn)) /\ Countable(HandedBytes(sn))
      /\ Countable(PieceBytes(sn, ln))
  BY <1>4, <1>5, SumsCountable
<1>7. sn[page].capacity - sn[page].free_count = u + 1
  BY <1>1, <1>3 DEF u
<1>8. Total(Handed(sn)) = Total(Handed(sl)) + 1
  <2> DEFINE f == Handed(sl)
             g == Handed(sn)
  <2>1. /\ DOMAIN f = DOMAIN sl /\ DOMAIN g = DOMAIN f
        /\ f[page] = u /\ g[page] = u + 1
        /\ \A x \in DOMAIN f : x # page => g[x] = f[x]
    BY <1>3, <1>7 DEF Handed, u
  <2> HIDE DEF f, g
  <2>2. /\ Total(f) \in Nat /\ Total(g) \in Nat
        /\ Total(g) - g[page] = Total(f) - f[page]
    BY <2>1, <1>6, TotalChanges DEF f, g
  <2>4. u \in Nat /\ f[page] = u /\ g[page] = u + 1
    BY <2>1, <1>1
  <2>3. Total(g) = Total(f) + 1
    BY <2>2, <2>4
  <2> QED BY <2>3 DEF f, g
<1>9. Total(HandedBytes(sn)) = Total(HandedBytes(sl)) + o
  <2> DEFINE f == HandedBytes(sl)
             g == HandedBytes(sn)
  <2>1. /\ DOMAIN f = DOMAIN sl /\ DOMAIN g = DOMAIN f
        /\ f[page] = u * o /\ g[page] = (u + 1) * o
        /\ \A x \in DOMAIN f : x # page => g[x] = f[x]
    BY <1>3, <1>7 DEF HandedBytes, u, o
  <2>2. (u + 1) * o = u * o + o /\ u * o \in Nat
    BY <1>1, Product
  <2> HIDE DEF f, g
  <2>3. /\ Total(f) \in Nat /\ Total(g) \in Nat
        /\ Total(g) - g[page] = Total(f) - f[page]
    BY <2>1, <1>6, TotalChanges DEF f, g
  <2> QED BY <2>1, <2>2, <2>3, <1>1 DEF f, g
<1>10. Total(PieceBytes(sn, ln)) = Total(PieceBytes(sl, lv)) + o
  <2> DEFINE f == PieceBytes(sl, lv)
             g == PieceBytes(sn, ln)
  <2>1. /\ DOMAIN f = lv /\ DOMAIN g = DOMAIN f \cup {new}
        /\ \A q \in DOMAIN f : g[q] = f[q]
    BY <1>3, SamePieceBytes DEF PieceBytes
  <2>2. g[new] = o
    BY <1>3, <1>4 DEF PieceBytes, o
  <2> HIDE DEF f, g
  <2>4. Countable(f) /\ Countable(g)
    BY <1>6 DEF f, g
  <2>5. new \notin DOMAIN f
    BY <2>1, <1>4
  <2>3. Total(g) = Total(f) + g[new]
    BY <2>1, <2>4, <2>5, TotalExtends
  <2> QED BY <2>2, <2>3 DEF f, g
<1>11. Cardinality(ln) = Cardinality(lv) + 1
  BY <1>4, FS_AddElement DEF Pieces
<1>12. Sums(sn, ln)
  BY <1>8, <1>9, <1>10, <1>11 DEF Sums
<1> QED BY <1>12 DEF new

LEMMA SumsReturned ==
    ASSUME NEW sl, Good(sl), NEW lv, Pieces(sl, lv), Sums(sl, lv),
           NEW page \in DOMAIN sl,
           NEW slot \in Slots(sl, page) \ sl[page].free_bitmap,
           NEW sn, Changed(sl, sn, page, sl[page].free_bitmap \cup {slot}),
           NEW old \in lv, old.ptr = Obj(sl, page, slot)
    PROVE  Sums(sn, lv \ {old})
<1> DEFINE B == sl[page].free_bitmap \cup {slot}
           ln == lv \ {old}
           o == sl[page].obj_size
           u == sl[page].capacity - sl[page].free_count
<1>1. /\ B \subseteq Slots(sl, page)
      /\ sl[page].free_count = Cardinality(sl[page].free_bitmap)
      /\ IsFiniteSet(sl[page].free_bitmap)
      /\ sl[page].free_count \in Nat /\ sl[page].capacity \in Nat
      /\ o \in Nat /\ u \in Nat
  BY SlabFacts, ConstFacts
<1>2. Cardinality(B) = sl[page].free_count + 1
  BY <1>1, FS_AddElement
<1>3. /\ DOMAIN sn = DOMAIN sl /\ sn[page].capacity = sl[page].capacity
      /\ \A p \in DOMAIN sl : sn[p].obj_size = sl[p].obj_size
      /\ \A p \in DOMAIN sl : p # page => sn[p] = sl[p]
      /\ sn[page].free_count = sl[page].free_count + 1
  BY <1>2 DEF Changed
<1>4. Pieces(sn, ln) /\ PageOf(old.ptr) = page
  <2>1. PageOf(Obj(sl, page, slot)) = page
    BY ObjFacts
  <2> QED BY <2>1, PiecesReturned
<1>5. Good(sn)
  <2>1. Changed(sl, sn, page, B)
    OBVIOUS
  <2> QED BY <1>1, <2>1, ChangedGood
<1> HIDE DEF B, o, u
<1>6. /\ Countable(Handed(sl)) /\ Countable(HandedBytes(sl))
      /\ Countable(PieceBytes(sl, lv))
      /\ Countable(Handed(sn)) /\ Countable(HandedBytes(sn))
      /\ Countable(PieceBytes(sn, ln))
  BY <1>4, <1>5, SumsCountable
<1>7. sn[page].capacity - sn[page].free_count = u - 1
  BY <1>1, <1>3 DEF u
<1>8. Total(Handed(sn)) = Total(Handed(sl)) - 1
  <2> DEFINE f == Handed(sl)
             g == Handed(sn)
  <2>1. /\ DOMAIN f = DOMAIN sl /\ DOMAIN g = DOMAIN f
        /\ f[page] = u /\ g[page] = u - 1
        /\ \A x \in DOMAIN f : x # page => g[x] = f[x]
    BY <1>3, <1>7 DEF Handed, u
  <2> HIDE DEF f, g
  <2>2. /\ Total(f) \in Nat /\ Total(g) \in Nat
        /\ Total(g) - g[page] = Total(f) - f[page]
    BY <2>1, <1>6, TotalChanges DEF f, g
  <2>4. u \in Nat /\ f[page] = u /\ g[page] = u - 1
    BY <2>1, <1>1
  <2>3. Total(g) = Total(f) - 1
    BY <2>2, <2>4
  <2> QED BY <2>3 DEF f, g
<1>9. Total(HandedBytes(sn)) + o = Total(HandedBytes(sl))
  <2> DEFINE f == HandedBytes(sl)
             g == HandedBytes(sn)
  <2>1. /\ DOMAIN f = DOMAIN sl /\ DOMAIN g = DOMAIN f
        /\ f[page] = u * o /\ g[page] = (u - 1) * o
        /\ \A x \in DOMAIN f : x # page => g[x] = f[x]
    BY <1>3, <1>7 DEF HandedBytes, u, o
  <2>2. (u - 1) * o = u * o - o /\ u * o \in Nat
    BY <1>1, Product
  <2> HIDE DEF f, g
  <2>3. /\ Total(f) \in Nat /\ Total(g) \in Nat
        /\ Total(g) - g[page] = Total(f) - f[page]
    BY <2>1, <1>6, TotalChanges DEF f, g
  <2> QED BY <2>1, <2>2, <2>3, <1>1 DEF f, g
<1>10. Total(PieceBytes(sn, ln)) + o = Total(PieceBytes(sl, lv))
  <2> DEFINE f == PieceBytes(sl, lv)
             g == PieceBytes(sn, ln)
  <2>1. /\ DOMAIN f = DOMAIN g \cup {old} /\ DOMAIN g = ln
        /\ \A q \in DOMAIN g : f[q] = g[q]
    BY <1>3, SamePieceBytes DEF PieceBytes
  <2>2. f[old] = o
    BY <1>4 DEF PieceBytes, o
  <2> HIDE DEF f, g
  <2>4. Countable(f) /\ Countable(g)
    BY <1>6 DEF f, g
  <2>5. old \notin DOMAIN g
    BY <2>1
  <2>3. Total(f) = Total(g) + f[old]
    BY <2>1, <2>4, <2>5, TotalExtends
  <2> QED BY <2>2, <2>3 DEF f, g
<1>11. Cardinality(ln) = Cardinality(lv) - 1
  BY FS_RemoveElement DEF Pieces
<1>12. /\ Total(PieceBytes(sn, ln)) \in Nat /\ Total(HandedBytes(sn)) \in Nat
  <2>1. \A f : Countable(f) => Total(f) \in Nat
    BY UnitsFinite, TotalIsUnits DEF Countable
  <2> QED BY <2>1, <1>6
<1>13. /\ Total(Handed(sl)) = Cardinality(lv)
       /\ Total(HandedBytes(sl)) = Total(PieceBytes(sl, lv))
  BY DEF Sums
<1>14. Total(HandedBytes(sn)) = Total(PieceBytes(sn, ln))
  BY <1>1, <1>9, <1>10, <1>12, <1>13
<1>15. Total(Handed(sn)) = Cardinality(ln)
  BY <1>8, <1>11, <1>13
<1> QED BY <1>14, <1>15 DEF Sums

-----------------------------------------------------------------------------
(* A slab is added *)

Whole(sl, pt, fu, lv) ==
    /\ Good(sl) /\ Listing(sl, pt, fu) /\ Pieces(sl, lv) /\ Sums(sl, lv)

LEMMA NewSlabGood ==
    ASSUME NEW i \in Caches
    PROVE  /\ NewSlab(i) \in Header
           /\ NewSlab(i).cache_idx = i /\ NewSlab(i).obj_size = cache_sizes[i]
           /\ NewSlab(i).capacity = Capacity(i)
           /\ NewSlab(i).free_count = Capacity(i)
           /\ NewSlab(i).free_bitmap = 0 .. Capacity(i) - 1
           /\ Cardinality(0 .. Capacity(i) - 1) = Capacity(i)
           /\ Capacity(i) > 0
<1> DEFINE c == Capacity(i)
<1>1. c \in Nat /\ c > 0 /\ cache_sizes[i] \in Nat \ {0}
  BY CacheFacts, ConstFacts
<1> HIDE DEF c
<1>2. 0 \in Int /\ c - 1 \in Int /\ ~(0 > c - 1) /\ c - 1 - 0 + 1 = c
  BY <1>1
<1>3. Cardinality(0 .. c - 1) = IF 0 > c - 1 THEN 0 ELSE c - 1 - 0 + 1
  BY <1>2, FS_Interval, Zenon
<1>4. 0 .. c - 1 \subseteq Nat
  BY <1>1
<1>5. NewSlab(i) = [cache_idx |-> i, obj_size |-> cache_sizes[i], capacity |-> c,
                    free_count |-> c, free_bitmap |-> 0 .. c - 1]
  BY DEF NewSlab, c
<1>6. NewSlab(i) \in Header
  BY <1>1, <1>4, <1>5 DEF Header
<1>7. Cardinality(0 .. c - 1) = c
  BY <1>2, <1>3
<1> QED BY <1>1, <1>5, <1>6, <1>7 DEF c

LEMMA WholeWithNew ==
    ASSUME NEW sl, NEW pt, NEW fu, NEW lv, Whole(sl, pt, fu, lv),
           NEW i \in Caches, NEW page \in Nat, page \notin DOMAIN sl,
           page % VMM_PAGE_SIZE = 0, START <= page,
           page + VMM_PAGE_SIZE <= KHEAP_END,
           NEW sn, sn = [p \in DOMAIN sl \cup {page} |->
                           IF p = page THEN NewSlab(i) ELSE sl[p]]
    PROVE  /\ Whole(sn, [pt EXCEPT ![i] = <<page>> \o @], fu, lv)
           /\ page \in Open(sn, i)
<1>1. /\ IsFiniteSet(DOMAIN sl)
      /\ pt = [j \in Caches |-> pt[j]] /\ fu = [j \in Caches |-> fu[j]]
      /\ \A j \in Caches : /\ Lists(pt[j], Open(sl, j))
                           /\ Lists(fu[j], Closed(sl, j))
      /\ Good(sl) /\ Pieces(sl, lv) /\ Sums(sl, lv)
  BY DEF Whole, Good, Listing
<1>2. /\ DOMAIN sn = DOMAIN sl \cup {page} /\ sn[page] = NewSlab(i)
      /\ \A p \in DOMAIN sl : p # page /\ sn[p] = sl[p]
  OBVIOUS
<1>3. /\ NewSlab(i) \in Header
      /\ NewSlab(i).cache_idx = i /\ NewSlab(i).obj_size = cache_sizes[i]
      /\ NewSlab(i).capacity = Capacity(i)
      /\ NewSlab(i).free_count = Capacity(i)
      /\ NewSlab(i).free_bitmap = 0 .. Capacity(i) - 1
      /\ Cardinality(0 .. Capacity(i) - 1) = Capacity(i)
      /\ Capacity(i) > 0
      /\ Capacity(i) \in Nat
  BY NewSlabGood, CacheFacts, ConstFacts
<1>4. /\ \A p \in DOMAIN sl : Slots(sn, p) = Slots(sl, p)
      /\ \A p, k : p \in DOMAIN sl => Obj(sn, p, k) = Obj(sl, p, k)
      /\ Slots(sn, page) = sn[page].free_bitmap
  BY <1>2, <1>3 DEF Slots, Obj
<1>5. Good(sn)
  <2>1. IsFiniteSet(DOMAIN sn)
    BY <1>1, <1>2, FS_AddElement
  <2>2. ASSUME NEW p \in DOMAIN sn
        PROVE  /\ p \in Nat /\ p % VMM_PAGE_SIZE = 0
               /\ START <= p /\ p + VMM_PAGE_SIZE <= KHEAP_END
               /\ sn[p] \in Header
               /\ sn[p].obj_size = cache_sizes[sn[p].cache_idx]
               /\ sn[p].capacity = Capacity(sn[p].cache_idx)
               /\ sn[p].free_bitmap \subseteq Slots(sn, p)
               /\ sn[p].free_count = Cardinality(sn[p].free_bitmap)
    <3>1. CASE p = page
      BY <3>1, <1>2, <1>3, <1>4
    <3>2. CASE p \in DOMAIN sl
      BY <3>2, <1>1, <1>2, <1>4 DEF Good
    <3> QED BY <1>2, <3>1, <3>2
  <2> QED BY <2>1, <2>2 DEF Good
<1>6. /\ Open(sn, i) = Open(sl, i) \cup {page} /\ page \notin Open(sl, i)
      /\ \A j \in Caches : j # i => Open(sn, j) = Open(sl, j)
      /\ \A j \in Caches : Closed(sn, j) = Closed(sl, j)
  BY <1>2, <1>3 DEF Open, Closed
<1> DEFINE pn == [pt EXCEPT ![i] = <<page>> \o @]
<1>7. Listing(sn, pn, fu)
  <2>1. Lists(<<page>> \o pt[i], Open(sn, i))
    <3>1. Lists(pt[i], Open(sl, i)) /\ page \notin Open(sl, i)
      BY <1>1, <1>6
    <3>2. Lists(<<page>> \o pt[i], Open(sl, i) \cup {page})
      BY <3>1, ListPush
    <3> QED BY <3>2, <1>6, Zenon
  <2>2. /\ pn = [j \in Caches |-> pn[j]] /\ pn[i] = <<page>> \o pt[i]
        /\ \A j \in Caches : j # i => pn[j] = pt[j]
    BY <1>1
  <2> HIDE DEF pn
  <2> QED BY <1>1, <1>6, <2>1, <2>2 DEF Listing
<1> HIDE DEF pn
<1>8. Pieces(sn, lv)
  <2>1. /\ lv \subseteq [ptr : Addr, size : Addr] /\ IsFiniteSet(lv)
        /\ \A q, r \in lv : q.ptr = r.ptr => q = r
        /\ \A q \in lv : \E p \in DOMAIN sl : \E k \in Slots(sl, p) :
              /\ k \notin sl[p].free_bitmap
              /\ q.ptr = Obj(sl, p, k) /\ q.size <= sl[p].obj_size
        /\ \A p \in DOMAIN sl : \A k \in Slots(sl, p) \ sl[p].free_bitmap :
              \E q \in lv : q.ptr = Obj(sl, p, k)
    BY <1>1 DEF Pieces
  <2>2. ASSUME NEW q \in lv
        PROVE  \E p \in DOMAIN sn : \E k \in Slots(sn, p) :
                  /\ k \notin sn[p].free_bitmap
                  /\ q.ptr = Obj(sn, p, k) /\ q.size <= sn[p].obj_size
    <3>1. PICK p \in DOMAIN sl : \E k \in Slots(sl, p) :
              /\ k \notin sl[p].free_bitmap
              /\ q.ptr = Obj(sl, p, k) /\ q.size <= sl[p].obj_size
      BY <2>1
    <3>2. /\ p \in DOMAIN sn /\ Slots(sn, p) = Slots(sl, p) /\ sn[p] = sl[p]
          /\ \A k : Obj(sn, p, k) = Obj(sl, p, k)
      BY <1>2, <1>4
    <3> QED BY <3>1, <3>2
  <2>3. ASSUME NEW p \in DOMAIN sn, NEW k \in Slots(sn, p) \ sn[p].free_bitmap
        PROVE  \E q \in lv : q.ptr = Obj(sn, p, k)
    <3>1. p \in DOMAIN sl
      BY <1>2, <1>4
    <3>2. k \in Slots(sl, p) \ sl[p].free_bitmap /\ Obj(sn, p, k) = Obj(sl, p, k)
      BY <3>1, <1>2, <1>4
    <3> QED BY <3>1, <3>2, <2>1
  <2> QED BY <2>1, <2>2, <2>3 DEF Pieces
<1>9. Sums(sn, lv)
  <2>1. /\ Countable(Handed(sl)) /\ Countable(HandedBytes(sl))
        /\ Countable(Handed(sn)) /\ Countable(HandedBytes(sn))
    BY <1>1, <1>5, <1>8, SumsCountable
  <2>2. sn[page].capacity - sn[page].free_count = 0
    BY <1>2, <1>3
  <2>3. /\ DOMAIN Handed(sn) = DOMAIN Handed(sl) \cup {page}
        /\ page \notin DOMAIN Handed(sl)
        /\ Handed(sn)[page] = 0
        /\ \A p \in DOMAIN Handed(sl) : Handed(sn)[p] = Handed(sl)[p]
    BY <1>2, <2>2 DEF Handed
  <2>4. 0 * sn[page].obj_size = 0
    BY <1>2, <1>3, CacheFacts
  <2>5. /\ DOMAIN HandedBytes(sn) = DOMAIN HandedBytes(sl) \cup {page}
        /\ page \notin DOMAIN HandedBytes(sl)
        /\ HandedBytes(sn)[page] = 0
        /\ \A p \in DOMAIN HandedBytes(sl) : HandedBytes(sn)[p] = HandedBytes(sl)[p]
    BY <1>2, <2>2, <2>4 DEF HandedBytes
  <2>6. Total(Handed(sn)) = Total(Handed(sl)) + 0 /\ Total(Handed(sl)) \in Nat
    <3> DEFINE f == Handed(sl)
               g == Handed(sn)
    <3>1. /\ Countable(f) /\ Countable(g)
          /\ DOMAIN g = DOMAIN f \cup {page} /\ page \notin DOMAIN f
          /\ g[page] = 0 /\ \A p \in DOMAIN f : g[p] = f[p]
      BY <2>1, <2>3
    <3> HIDE DEF f, g
    <3>2. Total(f) \in Nat /\ Total(g) = Total(f) + g[page]
      BY <3>1, TotalExtends
    <3> QED BY <3>1, <3>2 DEF f, g
  <2>7. /\ Total(HandedBytes(sn)) = Total(HandedBytes(sl)) + 0
        /\ Total(HandedBytes(sl)) \in Nat
    <3> DEFINE f == HandedBytes(sl)
               g == HandedBytes(sn)
    <3>1. /\ Countable(f) /\ Countable(g)
          /\ DOMAIN g = DOMAIN f \cup {page} /\ page \notin DOMAIN f
          /\ g[page] = 0 /\ \A p \in DOMAIN f : g[p] = f[p]
      BY <2>1, <2>5
    <3> HIDE DEF f, g
    <3>2. Total(f) \in Nat /\ Total(g) = Total(f) + g[page]
      BY <3>1, TotalExtends
    <3> QED BY <3>1, <3>2 DEF f, g
  <2>8. PieceBytes(sn, lv) = PieceBytes(sl, lv)
    <3>1. \A q \in lv : sn[PageOf(q.ptr)].obj_size = sl[PageOf(q.ptr)].obj_size
      BY <1>1, <1>2, SamePieceBytes
    <3> QED BY <3>1 DEF PieceBytes
  <2> QED BY <1>1, <2>6, <2>7, <2>8 DEF Sums
<1> QED BY <1>5, <1>6, <1>7, <1>8, <1>9 DEF Whole, pn

-----------------------------------------------------------------------------
(* An object is taken or comes back *)

LEMMA MinProp ==
    ASSUME NEW S \in SUBSET Nat, S # {}
    PROVE  Min(S) \in S /\ \A y \in S : Min(S) <= y
<1>1. \E x \in S : \A y \in S : ~(<<y, x>> \in OpToRel(<, Nat))
  BY NatLessThanWellFounded, WFMin
<1>2. \A x, y \in Nat : y < x => <<y, x>> \in OpToRel(<, Nat)
  BY DEF OpToRel
<1> HIDE DEF OpToRel
<1>3. PICK x \in S : \A y \in S : ~(y < x)
  BY <1>1, <1>2
<1>4. \A y \in S : x <= y
  BY <1>3
<1> QED BY <1>4 DEF Min

\* What ByteAllocator asks of a piece of n bytes at p.
Granted(lv, p, n) ==
    /\ p \in Addr /\ p % ALIGN = 0
    /\ p .. p + n - 1 \subseteq START .. KHEAP_END - 1
    /\ \A q \in lv : /\ q.ptr # p
                     /\ (q.ptr .. q.ptr + q.size - 1) \cap (p .. p + n - 1) = {}

LEMMA TakeGranted ==
    ASSUME NEW sl, Good(sl), NEW lv, Pieces(sl, lv), NEW page \in DOMAIN sl,
           NEW slot \in sl[page].free_bitmap, NEW n \in Nat, n <= sl[page].obj_size
    PROVE  Granted(lv, Obj(sl, page, slot), n)
<1> DEFINE p == Obj(sl, page, slot)
<1>1. slot \in Slots(sl, page)
  BY SlabFacts
<1>2. /\ p \in Nat /\ p \in Addr /\ p % ALIGN = 0 /\ START <= p
      /\ p + sl[page].obj_size <= KHEAP_END
      /\ sl[page].obj_size \in Nat /\ START \in Nat /\ KHEAP_END \in Nat
  BY <1>1, ObjFacts, SlabFacts, ConstFacts
<1>3. ASSUME NEW q \in lv
      PROVE  /\ q.ptr # p
             /\ (q.ptr .. q.ptr + q.size - 1) \cap (p .. p + n - 1) = {}
  <2> DEFINE r == PageOf(q.ptr)
  <2>1. r \in DOMAIN sl /\ q.ptr \in Nat /\ q.size \in Nat
    BY PiecePage, ConstFacts
  <2>2. PICK k \in Slots(sl, r) :
            /\ k \notin sl[r].free_bitmap /\ q.ptr = Obj(sl, r, k)
            /\ q.size <= sl[r].obj_size
    BY PiecePage
  <2>3. r # page \/ k # slot
    BY <2>2
  <2> HIDE DEF r
  <2>4. sl[r].obj_size \in Nat \ {0} /\ sl[page].obj_size \in Nat \ {0}
    BY <2>1, SlabFacts
  <2>5. \/ Obj(sl, r, k) + sl[r].obj_size <= Obj(sl, page, slot)
        \/ Obj(sl, page, slot) + sl[page].obj_size <= Obj(sl, r, k)
    BY <1>1, <2>1, <2>2, <2>3, ObjApart
  <2> HIDE DEF p
  <2>6. q.ptr + sl[r].obj_size <= p \/ p + sl[page].obj_size <= q.ptr
    BY <2>2, <2>5 DEF p
  <2> DEFINE a == q.ptr
             b == q.size
             c == sl[r].obj_size
             d == sl[page].obj_size
  <2>7. /\ a \in Nat /\ b \in Nat /\ c \in Nat \ {0} /\ d \in Nat \ {0}
        /\ b <= c /\ n <= d /\ (a + c <= p \/ p + d <= a)
    BY <2>1, <2>2, <2>4, <2>6
  <2> HIDE DEF a, b, c, d
  <2>8. a # p /\ (a .. a + b - 1) \cap (p .. p + n - 1) = {}
    BY <2>7, <1>2
  <2> QED BY <2>8 DEF a, b
<1>4. p .. p + n - 1 \subseteq START .. KHEAP_END - 1
  <2> DEFINE d == sl[page].obj_size
  <2>1. d \in Nat /\ n <= d /\ p + d <= KHEAP_END
    BY <1>2
  <2> HIDE DEF d, p
  <2> QED BY <1>2, <2>1
<1> QED BY <1>2, <1>3, <1>4 DEF Granted

LEMMA TakeStep ==
    ASSUME NEW sl, NEW pt, NEW fu, NEW lv, Whole(sl, pt, fu, lv),
           NEW i \in Caches, NEW page, page \in Open(sl, i),
           NEW n \in Addr, n <= cache_sizes[i],
           NEW slot, slot = Min(sl[page].free_bitmap),
           NEW sn, sn = [p \in DOMAIN sl |->
                           IF p = page
                              THEN [sl[page] EXCEPT !.free_bitmap = @ \ {slot},
                                                    !.free_count = @ - 1]
                              ELSE sl[p]],
           NEW rest
    PROVE  /\ Granted(lv, Obj(sl, page, slot), n)
           /\ sl[page].free_count = 1 /\ Lists(rest, Open(sl, i) \ {page})
                => Whole(sn, [pt EXCEPT ![i] = rest],
                         [fu EXCEPT ![i] = <<page>> \o @],
                         lv \cup {Piece(Obj(sl, page, slot), n)})
           /\ sl[page].free_count # 1 /\ pt[i] = <<page>> \o rest
                => Whole(sn, [pt EXCEPT ![i] = <<page>> \o rest], fu,
                         lv \cup {Piece(Obj(sl, page, slot), n)})
<1> DEFINE B == sl[page].free_bitmap \ {slot}
<1>1. Good(sl) /\ Listing(sl, pt, fu) /\ Pieces(sl, lv) /\ Sums(sl, lv)
  BY DEF Whole
<1>2. /\ page \in DOMAIN sl /\ sl[page].cache_idx = i /\ sl[page].free_count > 0
  BY DEF Open
<1>3. /\ sl[page].free_bitmap \subseteq Slots(sl, page)
      /\ IsFiniteSet(sl[page].free_bitmap)
      /\ sl[page].free_count \in Nat
      /\ sl[page].free_count = Cardinality(sl[page].free_bitmap)
      /\ sl[page].free_bitmap # {}
  BY <1>1, <1>2, SlabFacts
<1>4. sl[page].free_bitmap \in SUBSET Nat
  BY <1>3 DEF Slots
<1>5. slot \in sl[page].free_bitmap
  BY <1>3, <1>4, MinProp
<1>6. Cardinality(B) = sl[page].free_count - 1 /\ IsFiniteSet(B)
  <2>1. \A S : \A x \in S : IsFiniteSet(S) =>
           IsFiniteSet(S \ {x}) /\ Cardinality(S \ {x}) = Cardinality(S) - 1
    BY FS_RemoveElement
  <2> QED BY <1>3, <1>5, <2>1
<1>7. Changed(sl, sn, page, B)
  <2>1. sn = [p \in DOMAIN sl |->
                IF p = page
                   THEN [sl[page] EXCEPT !.free_bitmap = B,
                                         !.free_count = sl[page].free_count - 1]
                   ELSE sl[p]]
    OBVIOUS
  <2>2. sl[page].free_count - 1 \in Nat /\ B \in SUBSET Nat
    BY <1>2, <1>3, <1>4
  <2> HIDE DEF B
  <2> QED BY <1>1, <1>2, <1>6, <2>1, <2>2, ChangedHeader
<1>8. B \subseteq Slots(sl, page)
  BY <1>3
<1>9. n \in Nat /\ n <= sl[page].obj_size
  <2>1. sl[page].obj_size = cache_sizes[i]
    BY <1>1, <1>2 DEF Good
  <2> QED BY <2>1, ConstFacts
<1>10. Good(sn)
  BY <1>1, <1>2, <1>7, <1>8, ChangedGood
<1>11. /\ Pieces(sn, lv \cup {Piece(Obj(sl, page, slot), n)})
       /\ Sums(sn, lv \cup {Piece(Obj(sl, page, slot), n)})
  BY <1>1, <1>2, <1>5, <1>7, <1>9, PiecesTaken, SumsTaken
<1>12. Granted(lv, Obj(sl, page, slot), n)
  BY <1>1, <1>2, <1>5, <1>9, TakeGranted
<1>13. B = {} <=> sl[page].free_count = 1
  BY <1>3, <1>6, FS_EmptySet
<1> HIDE DEF B
<1>14. /\ sl[page].free_count = 1 /\ Lists(rest, Open(sl, i) \ {page})
            => Listing(sn, [pt EXCEPT ![i] = rest],
                           [fu EXCEPT ![i] = <<page>> \o @])
       /\ sl[page].free_count # 1 /\ pt[i] = <<page>> \o rest
            => Listing(sn, [pt EXCEPT ![i] = <<page>> \o rest], fu)
  BY <1>1, <1>2, <1>7, <1>8, <1>13, ListingTaken
<1> QED BY <1>10, <1>11, <1>12, <1>14 DEF Whole

LEMMA ReturnStep ==
    ASSUME NEW sl, NEW pt, NEW fu, NEW lv, Whole(sl, pt, fu, lv),
           NEW old \in lv, NEW page \in DOMAIN sl,
           NEW slot \in Slots(sl, page) \ sl[page].free_bitmap,
           old.ptr = Obj(sl, page, slot),
           NEW sn, sn = [sl EXCEPT ![page].free_bitmap = @ \cup {slot},
                                   ![page].free_count = @ + 1]
    PROVE  LET i == sl[page].cache_idx
           IN  /\ sl[page].free_count = 0
                    => Whole(sn, [pt EXCEPT ![i] = <<page>> \o @],
                             [fu EXCEPT ![i] = RemoveFirst(@, page)], lv \ {old})
               /\ sl[page].free_count # 0 => Whole(sn, pt, fu, lv \ {old})
<1> DEFINE B == sl[page].free_bitmap \cup {slot}
<1>1. Good(sl) /\ Listing(sl, pt, fu) /\ Pieces(sl, lv) /\ Sums(sl, lv)
  BY DEF Whole
<1>2. /\ sl[page].free_bitmap \subseteq Slots(sl, page)
      /\ IsFiniteSet(sl[page].free_bitmap)
      /\ sl[page].free_count \in Nat /\ sl[page].capacity \in Nat
      /\ sl[page].free_count = Cardinality(sl[page].free_bitmap)
      /\ sl[page] \in Header
  <2>1. sl[page] \in Header
    BY <1>1 DEF Good
  <2>2. /\ sl[page].free_bitmap \subseteq Slots(sl, page)
        /\ IsFiniteSet(sl[page].free_bitmap)
        /\ sl[page].free_count \in Nat
        /\ sl[page].capacity \in 1 .. BITMAP_BITS
        /\ sl[page].free_count = Cardinality(sl[page].free_bitmap)
    BY <1>1, SlabFacts
  <2>3. sl[page].capacity \in Nat
    BY <2>2, ConstFacts
  <2> QED BY <2>1, <2>2, <2>3
<1>3. Cardinality(B) = sl[page].free_count + 1
  <2>1. \A S, x : x \notin S /\ IsFiniteSet(S) =>
           Cardinality(S \cup {x}) = Cardinality(S) + 1
    BY FS_AddElement
  <2> QED BY <1>2, <2>1
<1>4. B \in SUBSET Nat /\ B \subseteq Slots(sl, page) /\ B # {}
  <2>1. Slots(sl, page) \subseteq Nat
    BY <1>2 DEF Slots
  <2>2. B \subseteq Slots(sl, page) /\ B # {}
    BY <1>2
  <2> QED BY <2>1, <2>2
<1>5. Changed(sl, sn, page, B)
  <2>1. sn = [p \in DOMAIN sl |->
                IF p = page
                   THEN [sl[page] EXCEPT !.free_bitmap = B,
                                         !.free_count = sl[page].free_count + 1]
                   ELSE sl[p]]
    BY <1>2 DEF Header
  <2>2. sl[page].free_count + 1 \in Nat /\ B \in SUBSET Nat
    BY <1>2, <1>4
  <2> HIDE DEF B
  <2> QED BY <1>1, <1>3, <2>1, <2>2, ChangedHeader
<1>6. Good(sn)
  BY <1>1, <1>4, <1>5, ChangedGood
<1>7. Pieces(sn, lv \ {old}) /\ Sums(sn, lv \ {old})
  BY <1>1, <1>5, PiecesReturned, SumsReturned
<1> HIDE DEF B
<1>8. LET i == sl[page].cache_idx
      IN  /\ sl[page].free_count = 0
               => Listing(sn, [pt EXCEPT ![i] = <<page>> \o @],
                              [fu EXCEPT ![i] = RemoveFirst(@, page)])
          /\ sl[page].free_count # 0 => Listing(sn, pt, fu)
  BY <1>1, <1>4, <1>5, ListingReturned
<1> QED BY <1>4, <1>6, <1>7, <1>8 DEF Whole

-----------------------------------------------------------------------------
(* The invariant *)

\* The pages of the heap up to slab_brk are slabs.
PagesInv ==
    /\ slab_brk \in Nat /\ slab_brk % VMM_PAGE_SIZE = 0 /\ START <= slab_brk
    /\ slab_committed \in Nat /\ slab_committed % VMM_PAGE_SIZE = 0
    /\ slab_brk <= slab_committed /\ slab_committed <= KHEAP_END
    /\ held \in Nat
    /\ slab_committed = START + INITIAL + held * VMM_PAGE_SIZE
    /\ Slabs = {p \in START .. slab_brk - 1 : p % VMM_PAGE_SIZE = 0}

RetInv == ret \in [op : {"none", "alloc", "free"}, size : Addr,
                   ptr : Addr \cup {NULL}]

IInv ==
    /\ Whole(slab, partial, full, live)
    /\ PagesInv
    /\ RetInv

LEMMA IInvInit == Init => IInv
<1> SUFFICES ASSUME Init PROVE IInv
  OBVIOUS
<1>1. /\ slab_brk = START /\ slab_committed = START + INITIAL
      /\ DOMAIN slab = {} /\ partial = [i \in Caches |-> <<>>]
      /\ full = [i \in Caches |-> <<>>] /\ held = 0 /\ live = {}
      /\ ret = Answer("none", 0, NULL)
  BY DEF Init
<1>2. Good(slab)
  BY <1>1, FS_EmptySet DEF Good
<1>3. Listing(slab, partial, full)
  <2>1. \A i \in Caches : Open(slab, i) = {} /\ Closed(slab, i) = {}
    BY <1>1 DEF Open, Closed
  <2> QED BY <1>1, <2>1, ListOfNothing DEF Listing
<1>4. Pieces(slab, live)
  BY <1>1, FS_EmptySet DEF Pieces
<1>5. Sums(slab, live)
  <2>1. /\ DOMAIN Handed(slab) = {} /\ DOMAIN HandedBytes(slab) = {}
        /\ DOMAIN PieceBytes(slab, live) = {}
    BY <1>1 DEF Handed, HandedBytes, PieceBytes
  <2>2. Cardinality(live) = 0
    BY <1>1, FS_EmptySet
  <2> QED BY <2>1, <2>2, TotalOfNothing DEF Sums
<1>6. PagesInv
  <2>1. (START + INITIAL) % VMM_PAGE_SIZE = 0
    BY ConstFacts, SumOfMultiples
  <2>2. START + INITIAL = START + INITIAL + 0 * VMM_PAGE_SIZE
    BY ConstFacts
  <2>3. Slabs = {p \in START .. slab_brk - 1 : p % VMM_PAGE_SIZE = 0}
    BY <1>1, ConstFacts DEF Slabs
  <2> QED BY <1>1, <2>1, <2>2, <2>3, ConstFacts DEF PagesInv
<1>7. RetInv
  <2>1. 0 \in Addr
    BY ConstFacts
  <2> QED BY <1>1, <2>1 DEF RetInv, Answer
<1> QED BY <1>2, <1>3, <1>4, <1>5, <1>6, <1>7 DEF IInv, Whole

LEMMA FindCache ==
    ASSUME NEW n, Cached(n) # {}
    PROVE  find_cache(n) \in Caches /\ n <= cache_sizes[find_cache(n)]
<1>1. Cached(n) \subseteq Caches /\ \A i \in Cached(n) : n <= cache_sizes[i]
  BY DEF Cached
<1>2. Caches \subseteq Nat
  BY CacheFacts
<1>3. Min(Cached(n)) \in Cached(n)
  BY <1>1, <1>2, MinProp
<1> QED BY <1>1, <1>3 DEF find_cache

\* What a call that grants a piece leaves behind.
GrantStep(n) ==
    /\ Whole(slab, partial, full, live)'
    /\ \E p : /\ Granted(live, p, n)
              /\ live' = live \cup {Piece(p, n)}
              /\ ret' = Answer("alloc", n, p)

LEMMA GrantedRet ==
    ASSUME NEW n \in Addr, GrantStep(n)
    PROVE  RetInv'
  BY DEF GrantStep, Granted, RetInv, Answer

LEMMA FromPartial ==
    ASSUME IInv, NEW n \in Request, AllocFromPartial(n)
    PROVE  GrantStep(n) /\ Slabs' = Slabs
<1> DEFINE i == find_cache(n)
           page == Head(partial[i])
           rest == Tail(partial[i])
           slot == Min(slab[page].free_bitmap)
           p == Obj(slab, page, slot)
<1>1. /\ i \in Caches /\ n <= cache_sizes[i] /\ n \in Addr
      /\ partial[i] # <<>> /\ Take(i, page, slab[page], n)
  BY FindCache, ConstFacts DEF AllocFromPartial
<1>2. /\ Whole(slab, partial, full, live)
      /\ Lists(partial[i], Open(slab, i))
      /\ partial = [j \in Caches |-> partial[j]]
  BY <1>1 DEF IInv, Whole, Listing
<1>3. /\ page \in Open(slab, i)
      /\ Lists(rest, Open(slab, i) \ {page})
      /\ <<page>> \o rest = partial[i]
  BY <1>1, <1>2, ListPop
<1>4. page \in Slabs
  BY <1>3 DEF Open, Slabs
<1> DEFINE sn == [q \in Slabs |->
                    IF q = page
                       THEN [slab[page] EXCEPT !.free_bitmap = @ \ {slot},
                                               !.free_count = @ - 1]
                       ELSE slab[q]]
<1>5. /\ slab' = sn
      /\ slab[page].free_count = 1 =>
            /\ partial' = [partial EXCEPT ![i] = rest]
            /\ full' = [full EXCEPT ![i] = <<page>> \o @]
      /\ slab[page].free_count # 1 =>
            /\ partial' = [partial EXCEPT ![i] = <<page>> \o rest]
            /\ full' = full
      /\ live' = live \cup {Piece(p, n)}
      /\ ret' = Answer("alloc", n, p)
  <2>1. Slabs \cup {page} = Slabs
    BY <1>4
  <2>2. slab' = [q \in Slabs \cup {page} |->
                   IF q = page
                      THEN [slab[page] EXCEPT !.free_bitmap = @ \ {slot},
                                              !.free_count = @ - 1]
                      ELSE slab[q]]
    BY <1>1 DEF Take
  <2>3. p = page + SLAB_HDR_SIZE + slot * slab[page].obj_size
    BY DEF Obj
  <2> QED BY <1>1, <2>1, <2>2, <2>3 DEF Take
<1>6. /\ Granted(live, p, n)
      /\ slab[page].free_count = 1
            => Whole(sn, [partial EXCEPT ![i] = rest],
                     [full EXCEPT ![i] = <<page>> \o @], live \cup {Piece(p, n)})
      /\ slab[page].free_count # 1
            => Whole(sn, [partial EXCEPT ![i] = <<page>> \o rest], full,
                     live \cup {Piece(p, n)})
  <2>1. sn = [q \in DOMAIN slab |->
                    IF q = page
                       THEN [slab[page] EXCEPT !.free_bitmap = @ \ {slot},
                                               !.free_count = @ - 1]
                       ELSE slab[q]]
    BY DEF Slabs
  <2> HIDE DEF sn, i, page, rest
  <2> QED BY <1>1, <1>2, <1>3, <2>1, TakeStep
<1> HIDE DEF sn, page, rest, i, p
<1>7. Whole(slab, partial, full, live)'
  <2>1. Whole(slab', partial', full', live')
    BY <1>5, <1>6
  <2> QED BY <2>1
<1>8. Slabs' = Slabs
  BY <1>5 DEF Slabs, sn
<1> QED BY <1>5, <1>6, <1>7, <1>8 DEF GrantStep

\* A page more, and everything stays in the heap.
LEMMA NextPage ==
    ASSUME PagesInv, slab_brk < KHEAP_END
    PROVE  /\ slab_brk \in Nat /\ slab_brk % VMM_PAGE_SIZE = 0
           /\ START <= slab_brk /\ slab_brk + VMM_PAGE_SIZE <= KHEAP_END
           /\ (slab_brk + VMM_PAGE_SIZE) % VMM_PAGE_SIZE = 0
           /\ slab_brk \notin Slabs
           /\ slab_brk < slab_committed => slab_brk + VMM_PAGE_SIZE <= slab_committed
<1>1. /\ slab_brk \in Nat /\ slab_brk % VMM_PAGE_SIZE = 0 /\ START <= slab_brk
      /\ slab_committed \in Nat /\ slab_committed % VMM_PAGE_SIZE = 0
      /\ Slabs = {p \in START .. slab_brk - 1 : p % VMM_PAGE_SIZE = 0}
  BY DEF PagesInv
<1>2. slab_brk + VMM_PAGE_SIZE <= KHEAP_END
  BY <1>1, ConstFacts, MultiplesApart
<1>3. slab_brk < slab_committed => slab_brk + VMM_PAGE_SIZE <= slab_committed
  BY <1>1, ConstFacts, MultiplesApart
<1>4. VMM_PAGE_SIZE % VMM_PAGE_SIZE = 0
  <2>1. (VMM_PAGE_SIZE * 1) % VMM_PAGE_SIZE = 0
    BY ConstFacts, MultipleOf
  <2> QED BY <2>1, ConstFacts
<1>5. (slab_brk + VMM_PAGE_SIZE) % VMM_PAGE_SIZE = 0
  <2>1. VMM_PAGE_SIZE \in Nat /\ VMM_PAGE_SIZE \in Nat \ {0}
    BY ConstFacts
  <2> QED BY <2>1, <1>1, <1>4, SumOfMultiples
<1>6. slab_brk \notin Slabs
  BY <1>1, ConstFacts
<1> QED BY <1>1, <1>2, <1>3, <1>5, <1>6

LEMMA PagesGrow ==
    ASSUME PagesInv, NEW n, AllocNewSlab(n), Slabs' = Slabs \cup {slab_brk}
    PROVE  PagesInv'
<1>1. /\ slab_brk' = slab_brk + VMM_PAGE_SIZE /\ slab_brk < KHEAP_END
      /\ slab_brk >= slab_committed =>
            /\ held' = held + 1
            /\ slab_committed' = slab_committed + VMM_PAGE_SIZE
      /\ ~(slab_brk >= slab_committed) =>
            held' = held /\ slab_committed' = slab_committed
  BY DEF AllocNewSlab
<1>2. /\ slab_brk \in Nat /\ slab_brk % VMM_PAGE_SIZE = 0
      /\ START <= slab_brk /\ slab_brk + VMM_PAGE_SIZE <= KHEAP_END
      /\ (slab_brk + VMM_PAGE_SIZE) % VMM_PAGE_SIZE = 0
      /\ slab_brk < slab_committed => slab_brk + VMM_PAGE_SIZE <= slab_committed
  BY <1>1, NextPage
<1>3. /\ slab_committed \in Nat /\ slab_committed % VMM_PAGE_SIZE = 0
      /\ slab_brk <= slab_committed /\ slab_committed <= KHEAP_END
      /\ held \in Nat /\ slab_committed = START + INITIAL + held * VMM_PAGE_SIZE
      /\ Slabs = {p \in START .. slab_brk - 1 : p % VMM_PAGE_SIZE = 0}
  BY DEF PagesInv
<1> DEFINE brk == slab_brk + VMM_PAGE_SIZE
<1>4. Slabs' = {p \in START .. brk - 1 : p % VMM_PAGE_SIZE = 0}
  <2>1. brk \in Nat /\ slab_brk < brk /\ START \in Nat
    BY <1>2, ConstFacts
  <2>2. ASSUME NEW p \in Slabs \cup {slab_brk}
        PROVE  p \in START .. brk - 1 /\ p % VMM_PAGE_SIZE = 0
    BY <2>1, <1>2, <1>3
  <2>3. ASSUME NEW p \in START .. brk - 1, p % VMM_PAGE_SIZE = 0
        PROVE  p \in Slabs \cup {slab_brk}
    <3>1. p \in Nat
      BY <2>1
    <3>2. CASE slab_brk < p
      <4>1. slab_brk + VMM_PAGE_SIZE <= p
        BY <1>2, <2>3, <3>1, <3>2, ConstFacts, MultiplesApart
      <4> QED BY <4>1, <1>2, <3>1, ConstFacts
    <3>3. CASE ~(slab_brk < p)
      BY <3>1, <3>3, <1>2, <1>3, <2>3
    <3> QED BY <3>2, <3>3
  <2> HIDE DEF brk
  <2> QED BY <2>2, <2>3
<1>5. CASE slab_brk >= slab_committed
  <2>1. slab_brk = slab_committed
    BY <1>2, <1>3, <1>5
  <2>2. (held + 1) * VMM_PAGE_SIZE = held * VMM_PAGE_SIZE + VMM_PAGE_SIZE
    BY <1>3, ConstFacts
  <2>3. held * VMM_PAGE_SIZE \in Nat
    BY <1>3, ConstFacts, Product
  <2>4. brk = START + INITIAL + (held + 1) * VMM_PAGE_SIZE
    BY <2>1, <2>2, <2>3, <1>3, ConstFacts
  <2>5. brk \in Nat /\ START <= brk /\ held + 1 \in Nat /\ brk <= brk
    BY <1>2, <1>3, ConstFacts
  <2> QED BY <1>1, <1>2, <1>4, <1>5, <2>1, <2>4, <2>5 DEF PagesInv
<1>6. CASE ~(slab_brk >= slab_committed)
  <2>1. slab_brk < slab_committed
    BY <1>2, <1>3, <1>6
  <2>2. brk \in Nat /\ START <= brk /\ brk <= slab_committed
    BY <2>1, <1>2, <1>3, ConstFacts
  <2> QED BY <1>1, <1>2, <1>3, <1>4, <1>6, <2>2 DEF PagesInv
<1> QED BY <1>5, <1>6

LEMMA FromNewSlab ==
    ASSUME IInv, NEW n \in Request, AllocNewSlab(n)
    PROVE  GrantStep(n) /\ PagesInv'
<1> DEFINE i == find_cache(n)
           page == slab_brk
           new == NewSlab(i)
           slot == Min(new.free_bitmap)
           p == page + SLAB_HDR_SIZE + slot * new.obj_size
           sl == [q \in Slabs \cup {page} |-> IF q = page THEN new ELSE slab[q]]
           pt == [partial EXCEPT ![i] = <<page>> \o @]
<1>1. /\ i \in Caches /\ n <= cache_sizes[i] /\ n \in Addr
      /\ partial[i] = <<>> /\ slab_brk < KHEAP_END
      /\ Take(i, page, new, n)
  BY FindCache, ConstFacts DEF AllocNewSlab, NeedsSlab
<1>2. /\ Whole(slab, partial, full, live) /\ PagesInv
      /\ partial = [j \in Caches |-> partial[j]]
  BY DEF IInv, Whole, Listing
<1>3. /\ page \in Nat /\ page \notin DOMAIN slab
      /\ page % VMM_PAGE_SIZE = 0 /\ START <= page
      /\ page + VMM_PAGE_SIZE <= KHEAP_END
  BY <1>1, <1>2, NextPage DEF Slabs
<1>4. Whole(sl, pt, full, live) /\ page \in Open(sl, i)
  <2>1. sl = [q \in DOMAIN slab \cup {page} |->
                IF q = page THEN NewSlab(i) ELSE slab[q]]
    BY DEF Slabs
  <2> HIDE DEF sl, i, new
  <2> QED BY <1>1, <1>2, <1>3, <2>1, WholeWithNew
<1>5. sl[page] = new /\ DOMAIN sl = Slabs \cup {page}
  OBVIOUS
<1>6. new.free_count = Capacity(i) /\ new.free_bitmap = 0 .. Capacity(i) - 1
  BY <1>1, NewSlabGood
<1>7. pt[i] = <<page>> \o <<>> /\ Lists(pt[i], Open(sl, i))
  BY <1>1, <1>2, <1>4 DEF Whole, Listing
<1>8. /\ [pt EXCEPT ![i] = <<>>] = [partial EXCEPT ![i] = <<>>]
      /\ [pt EXCEPT ![i] = <<page>> \o <<>>] = [partial EXCEPT ![i] = <<page>> \o <<>>]
  BY <1>1, <1>2
<1>9. Lists(<<>>, Open(sl, i) \ {page})
  <2>1. pt[i] = <<page>>
    BY <1>7
  <2> HIDE DEF pt, i, sl, page
  <2>2. <<page>> # <<>> /\ Head(<<page>>) = page /\ Tail(<<page>>) = <<>>
    OBVIOUS
  <2>3. pt[i] # <<>> /\ Head(pt[i]) = page /\ Tail(pt[i]) = <<>>
    BY <2>1, <2>2
  <2>4. Lists(Tail(pt[i]), Open(sl, i) \ {Head(pt[i])})
    BY <1>7, <2>3, ListPop
  <2> QED BY <2>3, <2>4
<1> DEFINE sn == [q \in DOMAIN sl |->
                    IF q = page
                       THEN [sl[page] EXCEPT !.free_bitmap = @ \ {slot},
                                             !.free_count = @ - 1]
                       ELSE sl[q]]
<1>10. /\ slab' = sn
       /\ new.free_count = 1 =>
             /\ partial' = [partial EXCEPT ![i] = <<>>]
             /\ full' = [full EXCEPT ![i] = <<page>> \o @]
       /\ new.free_count # 1 =>
             /\ partial' = [partial EXCEPT ![i] = <<page>> \o <<>>]
             /\ full' = full
       /\ live' = live \cup {Piece(p, n)}
       /\ ret' = Answer("alloc", n, p)
  <2>1. slab' = [q \in Slabs \cup {page} |->
                   IF q = page
                      THEN [new EXCEPT !.free_bitmap = @ \ {slot},
                                       !.free_count = @ - 1]
                      ELSE slab[q]]
    BY <1>1 DEF Take
  <2>2. sn = [q \in Slabs \cup {page} |->
                   IF q = page
                      THEN [new EXCEPT !.free_bitmap = @ \ {slot},
                                       !.free_count = @ - 1]
                      ELSE slab[q]]
    BY <1>5
  <2> HIDE DEF sn, i, new, slot, p
  <2>3. slab' = sn
    BY <2>1, <2>2
  <2> QED BY <1>1, <2>3 DEF Take, p, slot
<1>11. p = Obj(sl, page, slot)
  BY <1>5 DEF Obj
<1>12. /\ Granted(live, p, n)
       /\ new.free_count = 1
             => Whole(sn, [partial EXCEPT ![i] = <<>>],
                      [full EXCEPT ![i] = <<page>> \o @], live \cup {Piece(p, n)})
       /\ new.free_count # 1
             => Whole(sn, [partial EXCEPT ![i] = <<page>> \o <<>>], full,
                      live \cup {Piece(p, n)})
  <2>1. sn = [q \in DOMAIN sl |->
                IF q = page
                   THEN [sl[page] EXCEPT !.free_bitmap = @ \ {slot},
                                         !.free_count = @ - 1]
                   ELSE sl[q]]
    OBVIOUS
  <2>2. slot = Min(sl[page].free_bitmap) /\ sl[page].free_count = new.free_count
    BY <1>5
  <2> HIDE DEF sn, sl, pt, i, page, new, slot, p
  <2>3. /\ Granted(live, Obj(sl, page, slot), n)
        /\ sl[page].free_count = 1 /\ Lists(<<>>, Open(sl, i) \ {page})
             => Whole(sn, [pt EXCEPT ![i] = <<>>],
                      [full EXCEPT ![i] = <<page>> \o @],
                      live \cup {Piece(Obj(sl, page, slot), n)})
        /\ sl[page].free_count # 1 /\ pt[i] = <<page>> \o <<>>
             => Whole(sn, [pt EXCEPT ![i] = <<page>> \o <<>>], full,
                      live \cup {Piece(Obj(sl, page, slot), n)})
    BY <1>1, <1>4, <2>1, <2>2, TakeStep
  <2> QED BY <2>2, <2>3, <1>7, <1>8, <1>9, <1>11
<1> HIDE DEF sl, pt, i, new, slot, p
<1>13. Slabs' = Slabs \cup {slab_brk}
  BY <1>5, <1>10 DEF Slabs
<1> HIDE DEF sn
<1>14. Whole(slab, partial, full, live)'
  <2>1. Whole(slab', partial', full', live')
    BY <1>10, <1>12
  <2> QED BY <2>1
<1>15. GrantStep(n)
  BY <1>10, <1>12, <1>14 DEF GrantStep
<1>16. PagesInv'
  BY <1>2, <1>13, PagesGrow
<1> QED BY <1>15, <1>16

\* A live piece is the object its address tells, and no object is free and
\* handed out.
LEMMA FreedObject ==
    ASSUME Whole(slab, partial, full, live), NEW q \in live
    PROVE  /\ PageOf(q.ptr) \in Slabs
           /\ SlotOf(q.ptr) \in Slots(slab, PageOf(q.ptr))
           /\ SlotOf(q.ptr) \notin slab[PageOf(q.ptr)].free_bitmap
           /\ SlotOf(q.ptr) < slab[PageOf(q.ptr)].capacity
           /\ q.ptr = Obj(slab, PageOf(q.ptr), SlotOf(q.ptr))
           /\ q.ptr \in Addr
<1> DEFINE page == PageOf(q.ptr)
<1>1. Good(slab) /\ Pieces(slab, live)
  BY DEF Whole
<1>2. page \in DOMAIN slab /\ q.ptr \in Addr
  BY <1>1, PiecePage
<1>3. PICK k \in Slots(slab, page) :
          /\ k \notin slab[page].free_bitmap
          /\ q.ptr = Obj(slab, page, k)
          /\ ((q.ptr - page - SLAB_HDR_SIZE) % W) \div slab[page].obj_size = k
  BY <1>1, PiecePage
<1>4. SlotOf(q.ptr) = k
  BY <1>3 DEF SlotOf
<1>5. slab[page].capacity \in Nat
  BY <1>1, <1>2, SlabFacts, ConstFacts
<1>6. k < slab[page].capacity
  BY <1>3, <1>5 DEF Slots
<1> QED BY <1>2, <1>3, <1>4, <1>6 DEF Slabs

LEMMA FreeKeeps ==
    ASSUME IInv, NEW q \in live, Free(q)
    PROVE  /\ Whole(slab, partial, full, live)' /\ Slabs' = Slabs
           /\ live' = live \ {q} /\ ret' = Answer("free", 0, q.ptr)
           /\ q.ptr \in Addr
           /\ UNCHANGED <<slab_brk, slab_committed, held>>
<1> DEFINE page == PageOf(q.ptr)
           slot == SlotOf(q.ptr)
           i == slab[page].cache_idx
           sn == [slab EXCEPT ![page].free_bitmap = @ \cup {slot},
                              ![page].free_count = @ + 1]
<1>1. /\ Whole(slab, partial, full, live)
      /\ page \in DOMAIN slab /\ q.ptr \in Addr
      /\ slot \in Slots(slab, page) \ slab[page].free_bitmap
      /\ q.ptr = Obj(slab, page, slot)
  BY FreedObject DEF IInv, Slabs
<1>2. /\ slab' = sn /\ Relist(page)
      /\ live' = live \ {q} /\ ret' = Answer("free", 0, q.ptr)
      /\ UNCHANGED <<slab_brk, slab_committed, held>>
  BY DEF Free
<1>3. /\ slab[page].free_count = 0
            => /\ full' = [full EXCEPT ![i] = RemoveFirst(@, page)]
               /\ partial' = [partial EXCEPT ![i] = <<page>> \o @]
      /\ slab[page].free_count # 0 => partial' = partial /\ full' = full
  BY <1>2 DEF Relist, lists
<1>4. DOMAIN sn = DOMAIN slab
  OBVIOUS
<1>5. /\ slab[page].free_count = 0
           => Whole(sn, [partial EXCEPT ![i] = <<page>> \o @],
                    [full EXCEPT ![i] = RemoveFirst(@, page)], live \ {q})
      /\ slab[page].free_count # 0 => Whole(sn, partial, full, live \ {q})
  <2>1. sn = [slab EXCEPT ![page].free_bitmap = @ \cup {slot},
                          ![page].free_count = @ + 1]
    OBVIOUS
  <2> HIDE DEF sn, page, slot
  <2> QED BY <1>1, <2>1, ReturnStep
<1> HIDE DEF sn, page, slot, i
<1>6. Whole(slab, partial, full, live)'
  <2>1. Whole(slab', partial', full', live')
    BY <1>2, <1>3, <1>5
  <2> QED BY <2>1
<1> QED BY <1>1, <1>2, <1>4, <1>6 DEF Slabs

\* Calls that change nothing but their answer.
LEMMA RestKept ==
    ASSUME IInv, NEW a \in Addr, NEW p \in Addr \cup {NULL},
           NEW op \in {"alloc", "free"}, ret' = Answer(op, a, p),
           UNCHANGED <<slab_brk, slab_committed, slab, lists, held, live>>
    PROVE  IInv'
<1>1. /\ slab' = slab /\ partial' = partial /\ full' = full /\ live' = live
      /\ slab_brk' = slab_brk /\ slab_committed' = slab_committed
      /\ held' = held
  BY DEF lists
<1>2. Slabs' = Slabs
  BY <1>1 DEF Slabs
<1>3. PagesInv /\ Whole(slab, partial, full, live)
  BY DEF IInv
<1>4. PagesInv'
  BY <1>1, <1>2, <1>3 DEF PagesInv
<1>5. Whole(slab, partial, full, live)'
  <2>1. Whole(slab', partial', full', live')
    BY <1>1, <1>3
  <2> QED BY <2>1
<1>6. RetInv'
  BY DEF RetInv, Answer
<1> QED BY <1>4, <1>5, <1>6 DEF IInv

LEMMA PagesKept ==
    ASSUME PagesInv, Slabs' = Slabs,
           UNCHANGED <<slab_brk, slab_committed, held>>
    PROVE  PagesInv'
  BY DEF PagesInv

LEMMA IInvNext == IInv /\ [Next]_vars => IInv'
<1> SUFFICES ASSUME IInv, [Next]_vars PROVE IInv'
  OBVIOUS
<1>1. /\ 0 \in Addr /\ \A n \in Request : n \in Addr
      /\ \A p \in Stray : p \in Addr
  BY ConstFacts
<1>2. ASSUME NEW n \in Request, AllocRefused(n) PROVE IInv'
  <2>1. /\ ret' = Answer("alloc", n, NULL)
        /\ UNCHANGED <<slab_brk, slab_committed, slab, lists, held, live>>
    BY <1>2 DEF AllocRefused
  <2> QED BY <1>1, <2>1, RestKept
<1>3. ASSUME NEW n \in Request, AllocFromPartial(n) PROVE IInv'
  <2>1. GrantStep(n) /\ Slabs' = Slabs
    BY <1>3, FromPartial
  <2>2. UNCHANGED <<slab_brk, slab_committed, held>> /\ PagesInv
    BY <1>3 DEF AllocFromPartial, IInv
  <2>3. PagesInv'
    BY <2>1, <2>2, PagesKept
  <2>4. RetInv'
    BY <1>1, <2>1, GrantedRet
  <2> QED BY <2>1, <2>3, <2>4 DEF IInv, GrantStep
<1>4. ASSUME NEW n \in Request, AllocNewSlab(n) PROVE IInv'
  <2>1. GrantStep(n) /\ PagesInv'
    BY <1>4, FromNewSlab
  <2>2. RetInv'
    BY <1>1, <2>1, GrantedRet
  <2> QED BY <2>1, <2>2 DEF IInv, GrantStep
<1>5. ASSUME NEW n \in Request, AllocNoPage(n) PROVE IInv'
  <2>1. /\ ret' = Answer("alloc", n, NULL)
        /\ UNCHANGED <<slab_brk, slab_committed, slab, lists, held, live>>
    BY <1>5 DEF AllocNoPage
  <2> QED BY <1>1, <2>1, RestKept
<1>6. ASSUME NEW p \in Stray \cup {NULL}, FreeIgnored(p) PROVE IInv'
  <2>1. /\ ret' = Answer("free", 0, p)
        /\ UNCHANGED <<slab_brk, slab_committed, slab, lists, held, live>>
    BY <1>6 DEF FreeIgnored
  <2>2. p \in Addr \cup {NULL}
    BY <1>1
  <2> QED BY <1>1, <2>1, <2>2, RestKept
<1>7. ASSUME NEW q \in live, Free(q) PROVE IInv'
  <2>1. /\ Whole(slab, partial, full, live)' /\ Slabs' = Slabs
        /\ ret' = Answer("free", 0, q.ptr) /\ q.ptr \in Addr
        /\ UNCHANGED <<slab_brk, slab_committed, held>>
    BY <1>7, FreeKeeps
  <2>2. PagesInv'
    BY <2>1, PagesKept DEF IInv
  <2>3. RetInv'
    BY <1>1, <2>1 DEF RetInv, Answer
  <2> QED BY <2>1, <2>2, <2>3 DEF IInv
<1>8. CASE UNCHANGED vars
  <2>1. /\ slab' = slab /\ partial' = partial /\ full' = full /\ live' = live
        /\ slab_brk' = slab_brk /\ slab_committed' = slab_committed
        /\ held' = held /\ ret' = ret
    BY <1>8 DEF vars
  <2>2. Slabs' = Slabs
    BY <2>1 DEF Slabs
  <2>3. PagesInv'
    BY <2>1, <2>2, PagesKept DEF IInv
  <2>4. Whole(slab, partial, full, live)'
    <3>1. Whole(slab', partial', full', live')
      BY <2>1 DEF IInv
    <3> QED BY <3>1
  <2> QED BY <2>1, <2>3, <2>4 DEF IInv, RetInv
<1> QED BY <1>2, <1>3, <1>4, <1>5, <1>6, <1>7, <1>8 DEF Next

-----------------------------------------------------------------------------
(* What the invariant says of the properties *)

LEMMA Invariance == Spec => []IInv
  BY IInvInit, IInvNext, PTL DEF Spec

LEMMA IInvTypes == IInv => TypeOK
<1> SUFFICES ASSUME IInv PROVE TypeOK
  OBVIOUS
<1>1. /\ Good(slab) /\ Listing(slab, partial, full) /\ Pieces(slab, live)
      /\ PagesInv /\ RetInv
  BY DEF IInv, Whole
<1>2. slab_brk \in START .. KHEAP_END /\ slab_committed \in START .. KHEAP_END
  BY <1>1, ConstFacts DEF PagesInv
<1>3. ASSUME NEW p \in Slabs
      PROVE  slab[p] \in [cache_idx : Caches, obj_size : ToSet(cache_sizes),
                          capacity : 1 .. BITMAP_BITS,
                          free_count : 0 .. BITMAP_BITS,
                          free_bitmap : SUBSET (0 .. BITMAP_BITS - 1)]
  <2>1. p \in DOMAIN slab
    BY DEF Slabs
  <2>2. /\ slab[p] \in Header /\ slab[p].obj_size = cache_sizes[slab[p].cache_idx]
        /\ slab[p].cache_idx \in Caches
    BY <1>1, <2>1 DEF Good, Header
  <2>3. slab[p].obj_size \in ToSet(cache_sizes)
    BY <2>2, CacheFacts
  <2>4. /\ slab[p].capacity \in 1 .. BITMAP_BITS
        /\ slab[p].free_count \in Nat /\ slab[p].free_count <= slab[p].capacity
        /\ slab[p].free_bitmap \subseteq 0 .. slab[p].capacity - 1
    BY <1>1, <2>1, SlabFacts DEF Slots
  <2>5. /\ slab[p].free_count \in 0 .. BITMAP_BITS
        /\ slab[p].free_bitmap \in SUBSET (0 .. BITMAP_BITS - 1)
    BY <2>4, ConstFacts
  <2> QED BY <2>2, <2>3, <2>4, <2>5 DEF Header
<1>4. partial \in [Caches -> Seq(Slabs)] /\ full \in [Caches -> Seq(Slabs)]
  <2>1. ASSUME NEW i \in Caches
        PROVE  partial[i] \in Seq(Slabs) /\ full[i] \in Seq(Slabs)
    <3>1. partial[i] \in Seq(Open(slab, i)) /\ full[i] \in Seq(Closed(slab, i))
      BY <1>1 DEF Listing, Lists
    <3>2. Open(slab, i) \subseteq Slabs /\ Closed(slab, i) \subseteq Slabs
      BY DEF Open, Closed, Slabs
    <3> QED BY <3>1, <3>2, SeqMonotonic
  <2>2. /\ partial = [i \in Caches |-> partial[i]]
        /\ full = [i \in Caches |-> full[i]]
    BY <1>1 DEF Listing
  <2> QED BY <2>1, <2>2
<1>5. held \in Nat /\ live \subseteq [ptr : Addr, size : Addr]
  BY <1>1 DEF PagesInv, Pieces
<1> QED BY <1>1, <1>2, <1>3, <1>4, <1>5 DEF TypeOK, RetInv

LEMMA IInvLists == IInv => SlabsOnTheirList
  BY DEF IInv, Whole, Listing, Lists, Open, Closed, Slabs, SlabsOnTheirList

LEMMA IInvBitmaps == IInv => BitmapMatchesPieces
<1> SUFFICES ASSUME IInv, NEW p \in Slabs
             PROVE  /\ slab[p].free_count = Cardinality(slab[p].free_bitmap)
                    /\ \A k \in 0 .. slab[p].capacity - 1 :
                          k \notin slab[p].free_bitmap
                            <=> \E q \in live :
                                  q.ptr = p + SLAB_HDR_SIZE + k * slab[p].obj_size
  BY DEF BitmapMatchesPieces
<1>1. Good(slab) /\ Pieces(slab, live) /\ p \in DOMAIN slab
  BY DEF IInv, Whole, Slabs
<1>2. slab[p].free_count = Cardinality(slab[p].free_bitmap)
  BY <1>1 DEF Good
<1>3. ASSUME NEW k \in Slots(slab, p)
      PROVE  k \notin slab[p].free_bitmap <=> \E q \in live : q.ptr = Obj(slab, p, k)
  <2>1. ASSUME k \notin slab[p].free_bitmap
        PROVE  \E q \in live : q.ptr = Obj(slab, p, k)
    BY <1>1, <2>1 DEF Pieces
  <2>2. ASSUME NEW q \in live, q.ptr = Obj(slab, p, k)
        PROVE  k \notin slab[p].free_bitmap
    <3>1. PICK r \in DOMAIN slab : \E j \in Slots(slab, r) :
              j \notin slab[r].free_bitmap /\ q.ptr = Obj(slab, r, j)
      BY <1>1 DEF Pieces
    <3>2. PICK j \in Slots(slab, r) :
              j \notin slab[r].free_bitmap /\ q.ptr = Obj(slab, r, j)
      BY <3>1
    <3>3. Obj(slab, p, k) = Obj(slab, r, j)
      BY <2>2, <3>2
    <3>4. p = r /\ k = j
      BY <1>1, <3>3, ObjUnique
    <3> QED BY <3>2, <3>4
  <2> QED BY <2>1, <2>2
<1> QED BY <1>2, <1>3 DEF Slots, Obj

LEMMA IInvPages == IInv => PagesAccountedFor
  BY DEF IInv, PagesInv, PagesAccountedFor

LEMMA IInvStats == IInv => StatsMatchPieces
<1> SUFFICES ASSUME IInv PROVE StatsMatchPieces
  OBVIOUS
<1>1. Good(slab) /\ Listing(slab, partial, full) /\ Sums(slab, live)
  BY DEF IInv, Whole
<1> DEFINE seen == Listed(partial) \cup Listed(full)
<1>2. seen = Slabs
  <2>1. \A i \in Caches : /\ ToSet(partial[i]) = Open(slab, i)
                          /\ ToSet(full[i]) = Closed(slab, i)
    BY <1>1 DEF Listing, Lists
  <2>2. ASSUME NEW p \in Slabs PROVE p \in seen
    <3>1. slab[p].cache_idx \in Caches /\ slab[p].free_count \in Nat
      BY <1>1, SlabFacts DEF Slabs
    <3>2. p \in Open(slab, slab[p].cache_idx) \cup Closed(slab, slab[p].cache_idx)
      BY <3>1 DEF Open, Closed, Slabs
    <3> QED BY <2>1, <3>1, <3>2 DEF Listed
  <2>3. ASSUME NEW p \in seen PROVE p \in Slabs
    <3>1. PICK i \in Caches : p \in ToSet(partial[i]) \cup ToSet(full[i])
      BY DEF Listed
    <3> QED BY <2>1, <3>1 DEF Open, Closed, Slabs
  <2> HIDE DEF seen
  <2> QED BY <2>2, <2>3
<1>3. /\ [p \in seen |-> Used(p)] = Handed(slab)
      /\ [p \in seen |-> UsedBytes(p)] = HandedBytes(slab)
  BY <1>2 DEF Used, UsedBytes, Handed, HandedBytes, Slabs
<1>4. /\ heap_slab_stats.alloc_count = Total([p \in seen |-> Used(p)])
      /\ heap_slab_stats.used_bytes = Total([p \in seen |-> UsedBytes(p)])
  BY DEF heap_slab_stats
<1>5. [q \in live |-> slab[PageOf(q.ptr)].obj_size] = PieceBytes(slab, live)
  BY DEF PieceBytes
<1> HIDE DEF seen
<1> QED BY <1>1, <1>3, <1>4, <1>5 DEF Sums, StatsMatchPieces

\* For every table of caches, heap and sequence of calls, the slab lists hold
\* every slab once and where its counter says, bitmaps and counters tell which
\* objects callers hold, the pages below slab_brk are slabs, each page beyond
\* the first is a frame of the PMM, and the statistics count the live pieces.
THEOREM BookkeepingAlwaysAgrees == Spec => []BookkeepingAgrees
<1>1. IInv => BookkeepingAgrees
  BY IInvTypes, IInvLists, IInvBitmaps, IInvPages, IInvStats
     DEF BookkeepingAgrees
<1> QED BY <1>1, Invariance, PTL

\* heap_slab_alloc answers NULL to a request that fits a cache only when all
\* objects of that cache's slabs are handed out and no page mapped at boot is
\* left.
THEOREM RefusedOnlyWhenFull == Spec => RefusesOnlyWhenFull
<1> DEFINE Refusal == /\ ret' # ret /\ ret'.op = "alloc" /\ ret'.ptr = NULL
                      /\ ret'.size # 0 /\ Cached(ret'.size) # {}
           AllFull == /\ slab_brk >= slab_committed
                      /\ \A p \in Slabs :
                            slab[p].cache_idx = find_cache(ret'.size)
                              => slab[p].free_bitmap = {}
<1>1. IInv /\ [Next]_vars => [Refusal => AllFull]_vars
  <2> SUFFICES ASSUME IInv, Next, Refusal PROVE AllFull
    BY DEF vars
  <2> HIDE DEF AllFull
  <2>1. ASSUME NEW n \in Request, AllocRefused(n) PROVE FALSE
    BY <2>1 DEF AllocRefused, Answer
  <2>2. ASSUME NEW n \in Request, GrantStep(n) PROVE FALSE
    <3>1. PICK p : Granted(live, p, n) /\ ret' = Answer("alloc", n, p)
      BY <2>2 DEF GrantStep
    <3>2. ret'.ptr = p /\ p \in Addr
      BY <3>1 DEF Answer, Granted
    <3> QED BY <3>2, ConstFacts
  <2>3. ASSUME NEW n \in Request, AllocNoPage(n) PROVE AllFull
    <3>1. /\ ret'.size = n
          /\ partial[find_cache(n)] = <<>> /\ find_cache(n) \in Caches
      BY <2>3, FindCache DEF AllocNoPage, NeedsSlab, Answer
    <3>2. slab_brk >= slab_committed
      BY <2>3, ConstFacts DEF AllocNoPage, IInv, PagesInv
    <3>3. Open(slab, find_cache(n)) = {}
      <4>1. Lists(<<>>, Open(slab, find_cache(n)))
        BY <3>1 DEF IInv, Whole, Listing
      <4> QED BY <4>1, EmptyList
    <3>4. ASSUME NEW p \in Slabs, slab[p].cache_idx = find_cache(n)
          PROVE  slab[p].free_bitmap = {}
      <4>1. /\ slab[p].free_count \in Nat
            /\ slab[p].free_count = 0 <=> slab[p].free_bitmap = {}
        BY SlabFacts DEF IInv, Whole, Slabs
      <4>2. ~(slab[p].free_count > 0)
        BY <3>3, <3>4 DEF Open, Slabs
      <4> QED BY <4>1, <4>2
    <3> QED BY <3>1, <3>2, <3>4 DEF AllFull
  <2>4. ASSUME NEW p, FreeIgnored(p) PROVE FALSE
    BY <2>4 DEF FreeIgnored, Answer
  <2>5. ASSUME NEW q \in live, Free(q) PROVE FALSE
    BY <2>5 DEF Free, Answer
  <2> QED BY <2>1, <2>2, <2>3, <2>4, <2>5, FromPartial, FromNewSlab DEF Next
<1> QED BY <1>1, Invariance, PTL DEF Spec, RefusesOnlyWhenFull

-----------------------------------------------------------------------------
(* The heap is a byte allocator *)

LEMMA GrantRefines ==
    ASSUME NEW n \in Request, GrantStep(n)
    PROVE  ByteAlloc!Alloc(n)
<1>1. PICK p : /\ Granted(live, p, n)
               /\ live' = live \cup {Piece(p, n)}
               /\ ret' = Answer("alloc", n, p)
  BY DEF GrantStep
<1>2. p \in (Addr \cup {NULL}) \ {NULL}
  BY <1>1, ConstFacts DEF Granted
<1>3. /\ ByteAlloc!Piece(p, n) = Piece(p, n)
      /\ ByteAlloc!Answer("alloc", n, p) = Answer("alloc", n, p)
      /\ ByteAlloc!Bytes(Piece(p, n)) = p .. p + n - 1
  BY DEF ByteAlloc!Piece, Piece, ByteAlloc!Answer, Answer, ByteAlloc!Bytes
<1>4. /\ p % ALIGN = 0
      /\ ByteAlloc!Bytes(Piece(p, n)) \subseteq START .. KHEAP_END - 1
      /\ \A q \in live : /\ q.ptr # p
                         /\ ByteAlloc!Bytes(q) \cap ByteAlloc!Bytes(Piece(p, n)) = {}
  BY <1>1, <1>3 DEF Granted, ByteAlloc!Bytes
<1> QED BY <1>1, <1>2, <1>3, <1>4 DEF ByteAlloc!Alloc

LEMMA RefineStep == IInv /\ [Next]_vars => [ByteAlloc!Next]_(ByteAlloc!vars)
<1> SUFFICES ASSUME IInv, [Next]_vars
             PROVE  [ByteAlloc!Next]_(ByteAlloc!vars)
  OBVIOUS
<1>1. ASSUME NEW n \in Request, GrantStep(n) PROVE ByteAlloc!Next
  BY <1>1, GrantRefines DEF ByteAlloc!Next
<1>2. ASSUME NEW n \in Request, AllocRefused(n) \/ AllocNoPage(n)
      PROVE  ByteAlloc!Next
  <2>1. ret' = Answer("alloc", n, NULL) /\ live' = live
    BY <1>2 DEF AllocRefused, AllocNoPage
  <2>2. ByteAlloc!AllocFails(n)
    BY <2>1 DEF ByteAlloc!AllocFails, ByteAlloc!Answer, Answer
  <2> QED BY <2>2 DEF ByteAlloc!Next
<1>3. ASSUME NEW p \in Stray \cup {NULL}, FreeIgnored(p) PROVE ByteAlloc!Next
  <2>1. /\ ret' = Answer("free", 0, p) /\ live' = live
        /\ p # NULL => SlotOf(p) >= slab[PageOf(p)].capacity
    BY <1>3 DEF FreeIgnored
  <2>2. p \in Addr \cup {NULL}
    BY ConstFacts
  <2>3. ASSUME NEW q \in live PROVE q.ptr # p
    <3>1. /\ q.ptr \in Addr /\ SlotOf(q.ptr) < slab[PageOf(q.ptr)].capacity
          /\ SlotOf(q.ptr) \in Slots(slab, PageOf(q.ptr))
          /\ PageOf(q.ptr) \in Slabs
      BY FreedObject DEF IInv
    <3>2. slab[PageOf(q.ptr)].capacity \in Nat
      BY <3>1, SlabFacts, ConstFacts DEF IInv, Whole, Slabs
    <3>3. SlotOf(q.ptr) \in Nat
      BY <3>1, <3>2 DEF Slots
    <3>4. ~(SlotOf(q.ptr) >= slab[PageOf(q.ptr)].capacity)
      BY <3>1, <3>2, <3>3
    <3>5. q.ptr # NULL
      BY <3>1, ConstFacts
    <3> QED BY <2>1, <3>4, <3>5
  <2>4. ByteAlloc!FreeIgnored(p)
    BY <2>1, <2>3 DEF ByteAlloc!FreeIgnored, ByteAlloc!Answer, Answer
  <2> QED BY <2>2, <2>4 DEF ByteAlloc!Next
<1>4. ASSUME NEW q \in live, Free(q) PROVE ByteAlloc!Next
  <2>1. /\ live' = live \ {q} /\ ret' = Answer("free", 0, q.ptr)
        /\ q.ptr \in Addr
    BY <1>4, FreeKeeps
  <2>2. ByteAlloc!Free(q.ptr)
    BY <2>1 DEF ByteAlloc!Free, ByteAlloc!Answer, Answer
  <2> QED BY <2>1, <2>2 DEF ByteAlloc!Next
<1>5. CASE UNCHANGED vars
  BY <1>5 DEF vars, ByteAlloc!vars
<1> QED BY <1>1, <1>2, <1>3, <1>4, <1>5, FromPartial, FromNewSlab DEF Next

\* Every behaviour of the slab heap is one of the byte allocator: what
\* heap_slab_alloc grants is in the heap, aligned, as large as asked and shares
\* no byte with a piece that is held, whatever caches and pages they come from.
THEOREM Refinement == Spec => ImplementsByteAllocator
<1>1. Init => ByteAlloc!Init
  BY DEF Init, ByteAlloc!Init, Answer, ByteAlloc!Answer
<1> QED BY <1>1, RefineStep, Invariance, PTL
        DEF Spec, ImplementsByteAllocator, ByteAlloc!Spec

=============================================================================
