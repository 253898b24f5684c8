-------------------------- MODULE PmmBitmapProofs --------------------------
(***************************************************************************)
(* The bitmap back end, for every memory map, kernel image, page size and  *)
(* sequence of calls: its regions and their bitmaps lie in safe places,    *)
(* its cached counters are exact, no page is lost and none that init set   *)
(* aside is handed out, and it implements the page allocator's contract.   *)
(***************************************************************************)
EXTENDS PmmBitmap, FiniteSetTheorems, WellFoundedInduction, TLAPS

\* A non-empty set of naturals has a least element, and Least denotes it.
LEMMA LeastProp ==
    ASSUME NEW S \in SUBSET Nat, S # {}
    PROVE  Least(S) \in S /\ \A y \in S : Least(S) <= y
<1>1. \E x \in S : \A y \in S : ~(<<y, x>> \in OpToRel(<, Nat))
  BY NatLessThanWellFounded, WFMin
<1>2. \A x, y \in Nat : y < x => <<y, x>> \in OpToRel(<, Nat)
  BY DEF OpToRel
<1> HIDE DEF OpToRel
<1>3. PICK x \in S : \A y \in S : ~(y < x)
  BY <1>1, <1>2
<1>4. \A y \in S : x <= y
  BY <1>3
<1> QED
  BY <1>4 DEF Least

LEMMA DivProp ==
    ASSUME NEW x \in Nat
    PROVE  /\ x \div PAGE_SIZE \in Nat
           /\ PAGE_SIZE * (x \div PAGE_SIZE) <= x
           /\ x < PAGE_SIZE * (x \div PAGE_SIZE) + PAGE_SIZE
  BY ConstantsAssumption

LEMMA DivMono ==
    ASSUME NEW x \in Nat, NEW y \in Nat, x <= y
    PROVE  x \div PAGE_SIZE <= y \div PAGE_SIZE
<1> DEFINE p == x \div PAGE_SIZE
           q == y \div PAGE_SIZE
<1>1. /\ p \in Nat /\ q \in Nat
      /\ PAGE_SIZE * p <= x /\ y < PAGE_SIZE * q + PAGE_SIZE
  BY DivProp
<1> HIDE DEF p, q
<1>2. ASSUME p >= q + 1 PROVE FALSE
  <2>1. PAGE_SIZE * p >= PAGE_SIZE * (q + 1)
    BY <1>1, <1>2, ConstantsAssumption
  <2>2. PAGE_SIZE * (q + 1) = PAGE_SIZE * q + PAGE_SIZE
    BY <1>1, ConstantsAssumption
  <2> QED BY <1>1, <2>1, <2>2, ConstantsAssumption
<1> QED BY <1>1, <1>2 DEF p, q

LEMMA BitmapCoversRegion ==
    ASSUME NEW n \in Nat
    PROVE  BitmapBytes(n) \in Nat /\ BitmapBytes(n) * BITS >= n
<1>1. /\ (n + BITS - 1) \div BITS \in Nat
      /\ n + BITS - 1 < BITS * ((n + BITS - 1) \div BITS) + BITS
  BY ConstantsAssumption
<1> QED BY <1>1, ConstantsAssumption DEF BitmapBytes

-----------------------------------------------------------------------------
(* The regions init lays out.                                              *)

\* Rounding down, and what every rounding up answers.
LEMMA FloorProp ==
    ASSUME NEW x \in Nat
    PROVE  /\ FloorFrame(x) \in Nat /\ CeilFrame(x) \in Nat
           /\ FloorFrame(x) * PAGE_SIZE <= x
<1>1. /\ FloorFrame(x) \in Nat /\ PAGE_SIZE * FloorFrame(x) <= x
  BY DivProp DEF FloorFrame
<1>2. CeilFrame(x) \in Nat
  <2>1. (x + PAGE_SIZE - 1) % LIMIT \in Nat
    BY ConstantsAssumption
  <2> QED BY <2>1, DivProp DEF CeilFrame
<1>3. PAGE_SIZE * FloorFrame(x) = FloorFrame(x) * PAGE_SIZE
  BY <1>1, ConstantsAssumption
<1> QED BY <1>1, <1>2, <1>3

\* Below the last page, rounding up does not wrap.
LEMMA CeilPlain ==
    ASSUME NEW x \in Nat, BelowLastPage(x)
    PROVE  /\ x + PAGE_SIZE - 1 \in Nat /\ x + PAGE_SIZE - 1 < LIMIT
           /\ CeilFrame(x) = (x + PAGE_SIZE - 1) \div PAGE_SIZE
<1>1. x + PAGE_SIZE - 1 \in Nat /\ x + PAGE_SIZE - 1 < LIMIT
  BY ConstantsAssumption DEF BelowLastPage
<1>2. \A n \in Nat : n < LIMIT => n % LIMIT = n
  BY ConstantsAssumption
<1> QED BY <1>1, <1>2 DEF CeilFrame

LEMMA FrameProp ==
    ASSUME NEW x \in Nat, BelowLastPage(x)
    PROVE  /\ FloorFrame(x) \in Nat /\ CeilFrame(x) \in Nat
           /\ FloorFrame(x) <= CeilFrame(x)
           /\ FloorFrame(x) * PAGE_SIZE <= x
           /\ x <= CeilFrame(x) * PAGE_SIZE
<1>1. /\ x + PAGE_SIZE - 1 \in Nat /\ x <= x + PAGE_SIZE - 1
      /\ CeilFrame(x) = (x + PAGE_SIZE - 1) \div PAGE_SIZE
  BY CeilPlain, ConstantsAssumption
<1>2. /\ CeilFrame(x) \in Nat
      /\ x + PAGE_SIZE - 1 < PAGE_SIZE * CeilFrame(x) + PAGE_SIZE
  BY <1>1, DivProp
<1>3. FloorFrame(x) <= CeilFrame(x)
  BY <1>1, DivMono DEF FloorFrame
<1>4. /\ PAGE_SIZE * CeilFrame(x) = CeilFrame(x) * PAGE_SIZE
      /\ PAGE_SIZE * CeilFrame(x) \in Nat
  BY <1>2, ConstantsAssumption
<1>5. FloorFrame(x) \in Nat /\ FloorFrame(x) * PAGE_SIZE <= x
  BY FloorProp
<1> HIDE DEF FloorFrame, CeilFrame
<1> QED BY <1>2, <1>3, <1>4, <1>5, ConstantsAssumption

LEMMA FrameMono ==
    ASSUME NEW x \in Nat, NEW y \in Nat, x <= y
    PROVE  /\ FloorFrame(x) <= FloorFrame(y)
           /\ BelowLastPage(y) => CeilFrame(x) <= CeilFrame(y)
<1>1. FloorFrame(x) <= FloorFrame(y)
  BY DivMono DEF FloorFrame
<1>2. ASSUME BelowLastPage(y) PROVE CeilFrame(x) <= CeilFrame(y)
  <2>1. BelowLastPage(x)
    BY <1>2, ConstantsAssumption DEF BelowLastPage
  <2>2. /\ x + PAGE_SIZE - 1 \in Nat /\ y + PAGE_SIZE - 1 \in Nat
        /\ x + PAGE_SIZE - 1 <= y + PAGE_SIZE - 1
    BY ConstantsAssumption
  <2>3. /\ CeilFrame(x) = (x + PAGE_SIZE - 1) \div PAGE_SIZE
        /\ CeilFrame(y) = (y + PAGE_SIZE - 1) \div PAGE_SIZE
    BY <1>2, <2>1, CeilPlain
  <2> QED BY <2>2, <2>3, DivMono
<1> QED BY <1>1, <1>2

\* What is rounded up is below the last page, too.
LEMMA CeilBelow ==
    ASSUME NEW x \in Nat, BelowLastPage(x)
    PROVE  CeilFrame(x) * PAGE_SIZE \in Nat /\ BelowLastPage(CeilFrame(x) * PAGE_SIZE)
<1> DEFINE c == CeilFrame(x)
           k == LIMIT \div PAGE_SIZE
<1>1. /\ c \in Nat /\ PAGE_SIZE * c <= x + PAGE_SIZE - 1 /\ x + PAGE_SIZE - 1 < LIMIT
  BY CeilPlain, DivProp
<1>2. k \in Nat /\ LIMIT = PAGE_SIZE * k
  <2>1. \A n \in Nat, d \in Nat \ {0} : n % d = 0 => n \div d \in Nat /\ n = d * (n \div d)
    OBVIOUS
  <2> QED BY <2>1, ConstantsAssumption
<1> HIDE DEF c, k
<1>3. c + 1 <= k
  <2> SUFFICES ASSUME k <= c PROVE FALSE
    BY <1>1, <1>2
  <2>1. PAGE_SIZE * k <= PAGE_SIZE * c
    BY <1>1, <1>2, ConstantsAssumption
  <2> QED BY <1>1, <1>2, <2>1, ConstantsAssumption
<1>4. PAGE_SIZE * (c + 1) <= PAGE_SIZE * k
  BY <1>1, <1>2, <1>3, ConstantsAssumption
<1>5. PAGE_SIZE * (c + 1) = c * PAGE_SIZE + PAGE_SIZE /\ c * PAGE_SIZE \in Nat
  BY <1>1, ConstantsAssumption
<1> QED BY <1>2, <1>4, <1>5 DEF BelowLastPage, c

\* Comparing multiples of the page size is comparing the frames.
LEMMA MultipleMono ==
    ASSUME NEW a \in Nat, NEW b \in Nat, a * PAGE_SIZE <= b * PAGE_SIZE
    PROVE  a <= b
<1>1. ASSUME a >= b + 1 PROVE FALSE
  <2>1. a * PAGE_SIZE >= (b + 1) * PAGE_SIZE
    BY <1>1, ConstantsAssumption
  <2>2. (b + 1) * PAGE_SIZE = b * PAGE_SIZE + PAGE_SIZE
    BY ConstantsAssumption
  <2>3. a * PAGE_SIZE \in Nat /\ b * PAGE_SIZE \in Nat
    BY ConstantsAssumption
  <2> QED BY <2>1, <2>2, <2>3, ConstantsAssumption
<1> QED BY <1>1

\* Region r lies in whole pages of [start, end).
Within(r, start, end) ==
    /\ r.base \in Nat /\ r.pages \in Nat \ {0}
    /\ r.base >= CeilFrame(start)
    /\ r.base + r.pages <= FloorFrame(end)

LEMMA AttemptWithin ==
    ASSUME NEW b \in BootInfos, NEW start \in Nat, NEW end \in Nat,
           Attempt(b, start, end) # NoRegion
    PROVE  Within(Attempt(b, start, end), start, end)
<1>1. b.kernel_end \in Nat
  BY BootAssumption
<1>2. /\ CeilFrame(b.kernel_end) \in Nat
      /\ CeilFrame(start) \in Nat /\ FloorFrame(end) \in Nat
  BY <1>1, FloorProp
<1> QED
  BY <1>2 DEF Attempt, Within, NoRegion

LEMMA LayoutWithin ==
    ASSUME NEW b \in BootInfos, NEW start \in Nat, NEW end \in Nat,
           pmm_compute_region_layout(b, start, end) # NoRegion
    PROVE  Within(pmm_compute_region_layout(b, start, end), start, end)
<1> DEFINE r == Attempt(b, start, end)
           mb2_end == b.mb2 + b.mb2_size
           start2 == CeilFrame(mb2_end) * PAGE_SIZE
           end2 == FloorFrame(end) * PAGE_SIZE
           r2 == Attempt(b, start2, end2)
           result == pmm_compute_region_layout(b, start, end)
<1>1. /\ b.mb2 \in Nat /\ b.mb2_size \in Nat /\ mb2_end \in Nat
      /\ BelowLastPage(mb2_end)
  BY BootAssumption
<1>2. r # NoRegion
  BY DEF pmm_compute_region_layout
<1>3. Within(r, start, end)
  BY <1>2, AttemptWithin
<1>4. CASE result = r
  BY <1>3, <1>4
<1>5. CASE result # r
  <2>1. result = r2 /\ r2 # NoRegion /\ BitmapHitsMb2(b, r)
    BY <1>2, <1>5 DEF pmm_compute_region_layout
  <2>2. start2 \in Nat /\ end2 \in Nat /\ BelowLastPage(start2)
    BY <1>1, CeilBelow, FloorProp, ConstantsAssumption
  <2>3. Within(r2, start2, end2)
    BY <2>1, <2>2, AttemptWithin
  <2>4. r2.base >= CeilFrame(mb2_end)
    <3>1. /\ CeilFrame(mb2_end) \in Nat /\ CeilFrame(start2) \in Nat
          /\ start2 <= CeilFrame(start2) * PAGE_SIZE
      BY <1>1, <2>2, FrameProp
    <3>2. CeilFrame(mb2_end) <= CeilFrame(start2)
      BY <3>1, MultipleMono
    <3> QED BY <2>3, <3>1, <3>2 DEF Within
  <2>5. r2.base + r2.pages <= FloorFrame(end)
    <3>1. /\ FloorFrame(end) \in Nat /\ FloorFrame(end2) \in Nat
          /\ FloorFrame(end2) * PAGE_SIZE <= end2
      BY <2>2, FloorProp
    <3>2. FloorFrame(end2) <= FloorFrame(end)
      BY <3>1, MultipleMono
    <3> QED BY <2>3, <3>1, <3>2 DEF Within
  <2>6. CeilFrame(mb2_end) >= r.base
    <3>1. r.base * PAGE_SIZE <= mb2_end
      <4>1. r.base * PAGE_SIZE \in Nat
        BY <1>3, ConstantsAssumption DEF Within
      <4> DEFINE x == (r.base + BitmapPages(r.pages)) * PAGE_SIZE
      <4>2. ranges_overlap(r.base * PAGE_SIZE, x, b.mb2, mb2_end)
        BY <2>1 DEF BitmapHitsMb2
      <4>3. x \in Int
        <5>1. BitmapBytes(r.pages) \in Nat
          BY <1>3, BitmapCoversRegion DEF Within
        <5>2. BitmapPages(r.pages) \in Nat
          BY <5>1, FloorProp DEF BitmapPages
        <5> QED BY <1>3, <5>2, ConstantsAssumption DEF Within
      <4> HIDE DEF x, r, mb2_end
      <4> QED BY <1>1, <4>1, <4>2, <4>3 DEF ranges_overlap
    <3>2. /\ CeilFrame(mb2_end) \in Nat
          /\ mb2_end <= CeilFrame(mb2_end) * PAGE_SIZE
      BY <1>1, FrameProp
    <3>3. r.base * PAGE_SIZE <= CeilFrame(mb2_end) * PAGE_SIZE
      BY <1>1, <1>3, <3>1, <3>2, ConstantsAssumption DEF Within
    <3> QED BY <1>3, <3>2, <3>3, MultipleMono DEF Within
  <2>7. CeilFrame(start) \in Nat /\ CeilFrame(mb2_end) \in Nat
    BY <1>1, FloorProp
  <2> QED BY <1>3, <2>1, <2>3, <2>4, <2>5, <2>6, <2>7 DEF Within
<1> QED BY <1>4, <1>5

\* What the operations rely on: regions are made of pages, and of different
\* ones.
GoodRegions(rs) ==
    /\ DOMAIN rs \subseteq Nat
    /\ \A i \in DOMAIN rs :
          /\ rs[i].base \in Nat /\ rs[i].pages \in Nat
          /\ Frames(rs[i]) \subseteq AllFrames \ {NULL}
    /\ \A i, j \in DOMAIN rs :
          i # j => Frames(rs[i]) \cap Frames(rs[j]) = {}

LEMMA SeqElement ==
    ASSUME NEW T, NEW m \in Seq(T), NEW i \in DOMAIN m
    PROVE  i \in Nat /\ m[i] \in T
OBVIOUS

LEMMA EntryWithin ==
    ASSUME NEW b \in BootInfos, NEW i \in RegionIds(b)
    PROVE  LET e == b.mmap[i]
           IN  /\ i \in DOMAIN b.mmap /\ i \in Nat
               /\ e \in [addr : Nat, len : Nat, type : Nat] /\ e.type = 1
               /\ EntryStart(e) \in Nat /\ EntryEnd(e) \in Nat
               /\ e.addr <= EntryStart(e) /\ LOW <= EntryStart(e)
               /\ EntryEnd(e) <= e.addr + e.len /\ EntryEnd(e) <= LIMIT - 1
               /\ BelowLastPage(EntryStart(e))
               /\ Within(Regions(b)[i], EntryStart(e), EntryEnd(e))
<1> DEFINE e == b.mmap[i]
<1>1. i \in DOMAIN b.mmap /\ Layout(b, i) # NoRegion
  BY DEF RegionIds, LaidOut
<1>2. b.mmap \in Seq([addr : Nat, len : Nat, type : Nat])
  BY BootAssumption
<1>3. i \in Nat /\ e \in [addr : Nat, len : Nat, type : Nat]
  BY <1>1, <1>2, SeqElement
<1>4. Usable(e)
  BY <1>1 DEF Layout
<1> HIDE DEF e
<1>5. /\ EntryStart(e) \in Nat /\ EntryEnd(e) \in Nat
      /\ e.addr <= EntryStart(e) /\ LOW <= EntryStart(e)
      /\ EntryEnd(e) <= e.addr + e.len /\ EntryEnd(e) <= LIMIT - 1
      /\ e.type = 1
  BY <1>3, <1>4, ConstantsAssumption DEF Usable, EntryStart, EntryEnd
<1>9. BelowLastPage(EntryStart(e))
  <2>1. e.addr < LIMIT
    BY <1>4 DEF Usable
  <2>2. BelowLastPage(e.addr)
    BY <1>1, <1>5, <2>1, BootAssumption DEF e
  <2> QED BY <2>2, ConstantsAssumption DEF EntryStart, BelowLastPage
<1>6. Regions(b)[i] = pmm_compute_region_layout(b, EntryStart(e), EntryEnd(e))
  BY <1>4 DEF Regions, Layout, e
<1>7. Regions(b)[i] # NoRegion
  BY <1>1 DEF Regions
<1>8. Within(Regions(b)[i], EntryStart(e), EntryEnd(e))
  BY <1>5, <1>6, <1>7, LayoutWithin
<1> QED BY <1>1, <1>3, <1>5, <1>8, <1>9 DEF e

\* A region is large enough to hold its bitmap.
LEMMA BitmapFitsRegion ==
    ASSUME NEW b \in BootInfos, NEW i \in RegionIds(b)
    PROVE  /\ BitmapFrames(Regions(b)[i]) \subseteq Frames(Regions(b)[i])
           /\ BitmapPages(Regions(b)[i].pages) \in Nat
<1> DEFINE r == Regions(b)[i]
<1>1. r.base \in Nat /\ r.pages \in Nat
  BY EntryWithin DEF Within
<1>2. BitmapPages(r.pages) \in Nat
  BY <1>1, BitmapCoversRegion, FloorProp DEF BitmapPages
<1>3. \E start, end : r = Attempt(b, start, end) /\ r # NoRegion
  BY DEF Regions, RegionIds, LaidOut, Layout, pmm_compute_region_layout
<1>4. BitmapPages(r.pages) < r.pages
  BY <1>3 DEF Attempt
<1> HIDE DEF r
<1>5. BitmapFrames(r) \subseteq Frames(r)
  BY <1>1, <1>2, <1>4 DEF BitmapFrames, Frames
<1> QED BY <1>2, <1>5 DEF r

LEMMA RegionsAreGood ==
    ASSUME NEW b \in BootInfos
    PROVE  GoodRegions(Regions(b)) /\ DOMAIN Regions(b) = RegionIds(b)
<1> DEFINE rs == Regions(b)
<1>0. DOMAIN rs = RegionIds(b)
  BY DEF Regions
<1>1. ASSUME NEW i \in RegionIds(b)
      PROVE  /\ i \in Nat
             /\ rs[i].base \in Nat /\ rs[i].pages \in Nat
             /\ Frames(rs[i]) \subseteq AllFrames \ {NULL}
  <2> DEFINE e == b.mmap[i]
  <2>1. /\ i \in Nat /\ EntryStart(e) \in Nat /\ EntryEnd(e) \in Nat
        /\ LOW <= EntryStart(e) /\ EntryEnd(e) <= LIMIT - 1
        /\ BelowLastPage(EntryStart(e))
        /\ Within(rs[i], EntryStart(e), EntryEnd(e))
    BY EntryWithin
  <2>2. FloorFrame(EntryEnd(e)) <= FloorFrame(LIMIT - 1)
    BY <2>1, FrameMono, ConstantsAssumption
  <2>3. CeilFrame(EntryStart(e)) \in Nat \ {0}
    <3>1. /\ CeilFrame(EntryStart(e)) \in Nat
          /\ EntryStart(e) <= CeilFrame(EntryStart(e)) * PAGE_SIZE
      BY <2>1, FrameProp
    <3> QED BY <2>1, <3>1, ConstantsAssumption
  <2>4. FloorFrame(EntryEnd(e)) \in Nat /\ FloorFrame(LIMIT - 1) \in Nat
    BY <2>1, FloorProp, ConstantsAssumption
  <2>5. /\ rs[i].base \in Nat \ {0} /\ rs[i].pages \in Nat \ {0}
        /\ rs[i].base + rs[i].pages <= FloorFrame(LIMIT - 1)
    BY <2>1, <2>2, <2>3, <2>4 DEF Within
  <2> QED BY <2>1, <2>4, <2>5 DEF Frames, AllFrames, NULL
<1>2. ASSUME NEW i \in RegionIds(b), NEW j \in RegionIds(b), i # j
      PROVE  Frames(rs[i]) \cap Frames(rs[j]) = {}
  <2>1. ASSUME NEW x \in RegionIds(b), NEW y \in RegionIds(b),
               b.mmap[x].addr + b.mmap[x].len <= b.mmap[y].addr
        PROVE  Frames(rs[x]) \cap Frames(rs[y]) = {}
    <3> DEFINE end == EntryEnd(b.mmap[x])
               start == EntryStart(b.mmap[y])
    <3>1. /\ end \in Nat /\ end <= b.mmap[x].addr + b.mmap[x].len
          /\ b.mmap[x] \in [addr : Nat, len : Nat, type : Nat]
          /\ rs[x].base \in Nat /\ rs[x].pages \in Nat \ {0}
          /\ rs[x].base + rs[x].pages <= FloorFrame(end)
      BY EntryWithin DEF Within
    <3>2. /\ start \in Nat /\ b.mmap[y].addr <= start /\ BelowLastPage(start)
          /\ b.mmap[y] \in [addr : Nat, len : Nat, type : Nat]
          /\ rs[y].base \in Nat /\ rs[y].pages \in Nat \ {0}
          /\ rs[y].base >= CeilFrame(start)
      BY EntryWithin DEF Within
    <3> HIDE DEF end, start
    <3>3. end <= start
      BY <2>1, <3>1, <3>2
    <3>4. /\ FloorFrame(end) <= FloorFrame(start)
          /\ FloorFrame(start) <= CeilFrame(start)
          /\ FloorFrame(end) \in Nat /\ FloorFrame(start) \in Nat
          /\ CeilFrame(start) \in Nat
      BY <3>1, <3>2, <3>3, FrameMono, FloorProp, FrameProp
    <3>5. rs[x].base + rs[x].pages <= rs[y].base
      BY <3>1, <3>2, <3>4
    <3> HIDE DEF rs
    <3> QED BY <3>1, <3>2, <3>5 DEF Frames
  <2>2. /\ b.mmap[i].type = 1 /\ b.mmap[j].type = 1
        /\ i \in DOMAIN b.mmap /\ j \in DOMAIN b.mmap
    BY EntryWithin
  <2>3. \/ b.mmap[i].addr + b.mmap[i].len <= b.mmap[j].addr
        \/ b.mmap[j].addr + b.mmap[j].len <= b.mmap[i].addr
    BY <1>2, <2>2, BootAssumption
  <2> QED BY <2>1, <2>3
<1> HIDE DEF rs
<1>3. GoodRegions(rs)
  BY <1>0, <1>1, <1>2 DEF GoodRegions
<1> QED BY <1>0, <1>3 DEF rs

-----------------------------------------------------------------------------
(* The operations keep the counters exact.                                 *)

Exact(rs, s) ==
    /\ s \in [clear : SUBSET Managed(rs), free : [DOMAIN rs -> Nat],
              total_free : Nat, rr : Nat]
    /\ \A i \in DOMAIN rs :
          s.free[i] = Cardinality(s.clear \cap Frames(rs[i]))
    /\ s.total_free = Cardinality(s.clear)

LEMMA FiniteFrames ==
    ASSUME NEW rs, GoodRegions(rs), NEW S \in SUBSET Managed(rs)
    PROVE  /\ S \subseteq AllFrames \ {NULL} /\ S \subseteq Nat
           /\ IsFiniteSet(S)
<1>1. Managed(rs) \subseteq AllFrames \ {NULL}
  BY DEF Managed, GoodRegions
<1>2. FloorFrame(LIMIT - 1) \in Nat
  BY FloorProp, ConstantsAssumption
<1>3. IsFiniteSet(AllFrames) /\ AllFrames \subseteq Nat
  BY <1>2, FS_Interval DEF AllFrames
<1> QED BY <1>1, <1>3, FS_Subset

LEMMA ResyncExact ==
    ASSUME NEW rs, GoodRegions(rs), NEW s,
           s.clear \in SUBSET Managed(rs), s.rr \in Nat
    PROVE  /\ Exact(rs, resync_free_count(rs, s))
           /\ resync_free_count(rs, s).clear = s.clear
<1> DEFINE n == resync_free_count(rs, s)
<1>1. s.clear \cap Managed(rs) = s.clear
  OBVIOUS
<1>2. Cardinality(s.clear) \in Nat
  BY FiniteFrames, FS_CardinalityType
<1>3. \A i \in DOMAIN rs : Cardinality(s.clear \cap Frames(rs[i])) \in Nat
  BY FiniteFrames, FS_CardinalityType
<1>4. n = [clear |-> s.clear,
           free |-> [i \in DOMAIN rs |->
                       Cardinality(s.clear \cap Frames(rs[i]))],
           total_free |-> Cardinality(s.clear),
           rr |-> s.rr]
  BY <1>1, Zenon DEF resync_free_count
<1> HIDE DEF n
<1>5. Exact(rs, n) /\ n.clear = s.clear
  BY <1>2, <1>3, <1>4 DEF Exact
<1> QED BY <1>5 DEF n

\* The bits pmm_find_free_index looks at are all the clear bits of a region.
LEMMA ScannedIsAll ==
    ASSUME NEW rs, GoodRegions(rs), NEW s, NEW i \in DOMAIN rs
    PROVE  Scanned(rs[i], s) = s.clear \cap Frames(rs[i])
<1> DEFINE r == rs[i]
           last == BitmapBytes(r.pages) * BITS
<1>1. r.base \in Nat /\ r.pages \in Nat
  BY DEF GoodRegions
<1>2. last \in Int /\ last >= r.pages
  BY <1>1, BitmapCoversRegion, ConstantsAssumption
<1> HIDE DEF last, r
<1>3. Frames(r) \subseteq r.base .. r.base + last - 1
  BY <1>1, <1>2 DEF Frames
<1>4. s.clear \cap (r.base .. r.base + last - 1) \cap Frames(r)
         = s.clear \cap Frames(r)
  BY <1>3
<1> QED BY <1>4 DEF Scanned, last, r

\* The round-robin scan has a first region among those it can serve from.
LEMMA ScanHasFirst ==
    ASSUME NEW S \in SUBSET Nat, S # {}, NEW rr \in Nat
    PROVE  \E i \in S : \A j \in S : NotAfter(rr, i, j)
<1> DEFINE A == {i \in S : i >= rr}
           m == IF A # {} THEN Least(A) ELSE Least(S)
<1>1. CASE A # {}
  <2>1. Least(A) \in A /\ \A y \in A : Least(A) <= y
    BY <1>1, LeastProp
  <2>2. m \in S /\ m >= rr /\ \A j \in S : j >= rr => m <= j
    BY <1>1, <2>1
  <2> HIDE DEF m
  <2> QED BY <2>2 DEF NotAfter
<1>2. CASE A = {}
  <2>1. Least(S) \in S /\ \A y \in S : Least(S) <= y
    BY LeastProp
  <2>2. m \in S /\ \A j \in S : j < rr /\ m <= j
    BY <1>2, <2>1
  <2> HIDE DEF m
  <2> QED BY <2>2 DEF NotAfter
<1> QED BY <1>1, <1>2

\* How many bits of region i are clear.
Clear(rs, C, i) == Cardinality(C \cap Frames(rs[i]))

\* Taking a frame out of, or putting one into, the clear bits changes the
\* count of its own region by one and no other.
LEMMA CountRemove ==
    ASSUME NEW rs, GoodRegions(rs), NEW C \in SUBSET Managed(rs),
           NEW k \in DOMAIN rs, NEW f \in Frames(rs[k]), f \in C
    PROVE  /\ Cardinality(C \ {f}) = Cardinality(C) - 1
           /\ Cardinality(C) \in Nat \ {0}
           /\ \A i \in DOMAIN rs :
                 /\ Clear(rs, C, i) \in Nat
                 /\ Clear(rs, C \ {f}, i)
                       = IF i = k THEN Clear(rs, C, i) - 1
                                  ELSE Clear(rs, C, i)
           /\ Clear(rs, C, k) # 0
<1>1. IsFiniteSet(C)
  BY FiniteFrames
<1>2. /\ Cardinality(C \ {f}) = Cardinality(C) - 1
      /\ Cardinality(C) \in Nat \ {0}
  BY <1>1, FS_RemoveElement, FS_CardinalityType, FS_EmptySet
<1>3. ASSUME NEW i \in DOMAIN rs
      PROVE  /\ Clear(rs, C, i) \in Nat
             /\ Clear(rs, C \ {f}, i)
                   = IF i = k THEN Clear(rs, C, i) - 1
                              ELSE Clear(rs, C, i)
  <2> DEFINE D == C \cap Frames(rs[i])
  <2>1. IsFiniteSet(D) /\ Cardinality(D) \in Nat
    BY <1>1, FS_Subset, FS_CardinalityType
  <2>2. (C \ {f}) \cap Frames(rs[i]) = D \ {f}
    OBVIOUS
  <2>3. f \in D <=> i = k
    BY DEF GoodRegions
  <2>4. Clear(rs, C, i) = Cardinality(D)
    BY DEF Clear
  <2>5. Clear(rs, C \ {f}, i) = Cardinality(D \ {f})
    BY <2>2 DEF Clear
  <2> HIDE DEF D
  <2>6. CASE i = k
    BY <2>1, <2>3, <2>4, <2>5, <2>6, FS_RemoveElement
  <2>7. CASE i # k
    <3>1. D \ {f} = D
      BY <2>3, <2>7
    <3> QED BY <2>1, <2>4, <2>5, <2>7, <3>1
  <2> QED BY <2>6, <2>7
<1>4. Clear(rs, C, k) # 0
  BY <1>1, FS_Subset, FS_EmptySet DEF Clear
<1> QED BY <1>2, <1>3, <1>4

LEMMA CountAdd ==
    ASSUME NEW rs, GoodRegions(rs), NEW C \in SUBSET Managed(rs),
           NEW k \in DOMAIN rs, NEW f \in Frames(rs[k]), f \notin C
    PROVE  /\ Cardinality(C \cup {f}) = Cardinality(C) + 1
           /\ Cardinality(C) \in Nat
           /\ \A i \in DOMAIN rs :
                 /\ Clear(rs, C, i) \in Nat
                 /\ Clear(rs, C \cup {f}, i)
                       = IF i = k THEN Clear(rs, C, i) + 1
                                  ELSE Clear(rs, C, i)
<1>1. IsFiniteSet(C)
  BY FiniteFrames
<1>2. Cardinality(C \cup {f}) = Cardinality(C) + 1 /\ Cardinality(C) \in Nat
  BY <1>1, FS_AddElement, FS_CardinalityType
<1>3. ASSUME NEW i \in DOMAIN rs
      PROVE  /\ Clear(rs, C, i) \in Nat
             /\ Clear(rs, C \cup {f}, i)
                   = IF i = k THEN Clear(rs, C, i) + 1
                              ELSE Clear(rs, C, i)
  <2> DEFINE D == C \cap Frames(rs[i])
  <2>1. IsFiniteSet(D) /\ Cardinality(D) \in Nat /\ f \notin D
    BY <1>1, FS_Subset, FS_CardinalityType
  <2>2. (C \cup {f}) \cap Frames(rs[i]) = IF i = k THEN D \cup {f} ELSE D
    BY DEF GoodRegions
  <2> QED BY <2>1, <2>2, FS_AddElement DEF Clear
<1> QED BY <1>2, <1>3

\* The state after a clear bit is set, and after a set bit is cleared, with
\* the counters of that bit's region adjusted.
LEMMA TakeProp ==
    ASSUME NEW rs, GoodRegions(rs), NEW s, Exact(rs, s),
           NEW ri \in DOMAIN rs, NEW frame \in s.clear \cap Frames(rs[ri])
    PROVE  /\ Exact(rs, TakeFrame(s, ri, frame))
           /\ TakeFrame(s, ri, frame).clear = s.clear \ {frame}
<1> DEFINE C == s.clear
           n == TakeFrame(s, ri, frame)
<1>1. /\ C \in SUBSET Managed(rs) /\ s.rr \in Nat
      /\ s.free \in [DOMAIN rs -> Nat]
      /\ s.total_free = Cardinality(C)
      /\ \A i \in DOMAIN rs : s.free[i] = Clear(rs, C, i)
  BY DEF Exact, Clear
<1>2. frame \in C /\ frame \in Frames(rs[ri])
  OBVIOUS
<1>3. /\ n.clear = C \ {frame} /\ n.rr = ri
      /\ n.total_free = s.total_free - 1
      /\ n.free = [s.free EXCEPT ![ri] = @ - 1]
      /\ n = [clear |-> n.clear, free |-> n.free,
              total_free |-> n.total_free, rr |-> n.rr]
  BY DEF TakeFrame
<1> HIDE DEF n, C
<1>4. /\ Cardinality(C \ {frame}) = Cardinality(C) - 1
      /\ Cardinality(C) \in Nat \ {0}
      /\ \A i \in DOMAIN rs :
            /\ Clear(rs, C, i) \in Nat
            /\ Clear(rs, C \ {frame}, i)
                  = IF i = ri THEN Clear(rs, C, i) - 1 ELSE Clear(rs, C, i)
      /\ Clear(rs, C, ri) # 0
  <2> HIDE DEF Exact, GoodRegions
  <2>1. ri \in DOMAIN rs
    OBVIOUS
  <2>2. C \in SUBSET Managed(rs)
    BY <1>1
  <2> QED BY <1>2, <2>1, <2>2, CountRemove
<1>5. n.free \in [DOMAIN rs -> Nat]
  BY <1>1, <1>3, <1>4
<1>6. ASSUME NEW i \in DOMAIN rs
      PROVE  n.free[i] = Clear(rs, n.clear, i)
  <2>1. n.free[i] = IF i = ri THEN s.free[i] - 1 ELSE s.free[i]
    BY <1>1, <1>3
  <2> QED BY <1>1, <1>3, <1>4, <2>1
<1>7. /\ n.total_free \in Nat /\ n.total_free = Cardinality(n.clear)
      /\ n.clear \in SUBSET Managed(rs) /\ n.rr \in Nat
  BY <1>1, <1>3, <1>4 DEF GoodRegions
<1>8. n \in [clear : SUBSET Managed(rs), free : [DOMAIN rs -> Nat],
             total_free : Nat, rr : Nat]
  BY <1>3, <1>5, <1>7
<1>9. Exact(rs, n) /\ n.clear = C \ {frame}
  BY <1>3, <1>6, <1>7, <1>8 DEF Exact, Clear
<1> QED BY <1>9 DEF n, C

\* A state with a free page has a region to serve it from.
LEMMA ServeProp ==
    ASSUME NEW rs, GoodRegions(rs), NEW s, Exact(rs, s), s.total_free # 0
    PROVE  /\ Servable(rs, s) # {}
           /\ NextRegion(rs, s) \in DOMAIN rs
           /\ Least(Scanned(rs[NextRegion(rs, s)], s))
                 \in s.clear \cap Frames(rs[NextRegion(rs, s)])
<1> DEFINE C == s.clear
           ri == NextRegion(rs, s)
<1>1. /\ C \in SUBSET Managed(rs) /\ s.rr \in Nat
      /\ s.total_free = Cardinality(C)
      /\ \A i \in DOMAIN rs : s.free[i] = Cardinality(C \cap Frames(rs[i]))
  BY DEF Exact
<1> HIDE DEF C
<1>2. IsFiniteSet(C) /\ C \subseteq Nat
  BY <1>1, FiniteFrames
<1>3. PICK f0 \in C : TRUE
  BY <1>1, FS_EmptySet
<1>4. PICK k \in DOMAIN rs : f0 \in Frames(rs[k])
  BY <1>1, <1>3 DEF Managed
<1>5. Servable(rs, s) # {}
  <2>1. Scanned(rs[k], s) = C \cap Frames(rs[k])
    BY ScannedIsAll DEF C
  <2>2. f0 \in C /\ f0 \in Frames(rs[k])
    BY <1>3, <1>4
  <2>3. Cardinality(C \cap Frames(rs[k])) # 0
    BY <1>1, <2>2, CountRemove DEF Clear
  <2> QED BY <1>1, <2>1, <2>2, <2>3 DEF Servable
<1>6. Servable(rs, s) \in SUBSET Nat
  BY DEF GoodRegions, Servable
<1>7. \E i \in Servable(rs, s) :
         \A j \in Servable(rs, s) : NotAfter(s.rr, i, j)
  BY <1>1, <1>5, <1>6, ScanHasFirst
<1>8. ri \in Servable(rs, s)
  BY <1>7, Zenon DEF NextRegion
<1> HIDE DEF ri
<1>9. ri \in DOMAIN rs /\ Scanned(rs[ri], s) # {}
  BY <1>8 DEF Servable
<1>10. Scanned(rs[ri], s) = C \cap Frames(rs[ri])
  BY <1>9, ScannedIsAll DEF C
<1>11. Least(Scanned(rs[ri], s)) \in C \cap Frames(rs[ri])
  <2>1. Scanned(rs[ri], s) \in SUBSET Nat
    BY <1>2, <1>10
  <2> QED BY <1>9, <1>10, <2>1, LeastProp
<1> QED BY <1>5, <1>9, <1>11 DEF ri, C

\* pmm_bitmap_alloc_page: NULL only when no bit is clear; otherwise some
\* frame whose bit was clear, and nothing else changes.  The resynchronising
\* branch is never reached.
LEMMA AllocProp ==
    ASSUME NEW rs, GoodRegions(rs), NEW s, Exact(rs, s)
    PROVE  \/ s.clear = {} /\ alloc_page(rs, s) = [frame |-> NULL, s |-> s]
           \/ /\ alloc_page(rs, s).frame \in s.clear
              /\ alloc_page(rs, s).frame # NULL
              /\ Exact(rs, alloc_page(rs, s).s)
              /\ alloc_page(rs, s).s.clear
                    = s.clear \ {alloc_page(rs, s).frame}
<1>1. s.clear \in SUBSET Managed(rs) /\ s.total_free = Cardinality(s.clear)
  BY DEF Exact
<1>2. IsFiniteSet(s.clear) /\ s.clear \subseteq AllFrames \ {NULL}
  BY <1>1, FiniteFrames
<1>3. CASE s.total_free = 0
  <2>1. s.clear = {}
    BY <1>1, <1>2, <1>3, FS_EmptySet
  <2>2. alloc_page(rs, s) = [frame |-> NULL, s |-> s]
    BY <1>3, Zenon DEF alloc_page
  <2> QED BY <2>1, <2>2
<1>4. CASE s.total_free # 0
  <2> DEFINE ri == NextRegion(rs, s)
             frame == Least(Scanned(rs[ri], s))
  <2>1. /\ Servable(rs, s) # {} /\ ri \in DOMAIN rs
        /\ frame \in s.clear \cap Frames(rs[ri])
    BY <1>4, ServeProp
  <2>2. alloc_page(rs, s) = [frame |-> frame, s |-> TakeFrame(s, ri, frame)]
    BY <1>4, <2>1, Zenon DEF alloc_page
  <2> HIDE DEF ri, frame
  <2>3. alloc_page(rs, s).frame = frame
    BY <2>2
  <2>4. alloc_page(rs, s).s = TakeFrame(s, ri, frame)
    BY <2>2
  <2>5. /\ Exact(rs, TakeFrame(s, ri, frame))
        /\ TakeFrame(s, ri, frame).clear = s.clear \ {frame}
    BY <2>1, TakeProp
  <2>6. frame \in s.clear /\ frame # NULL
    BY <1>2, <2>1
  <2> QED BY <2>3, <2>4, <2>5, <2>6
<1> QED BY <1>1, <1>3, <1>4

\* pmm_bitmap_free_page of a managed page whose bit is set.
LEMMA FreeProp ==
    ASSUME NEW rs, GoodRegions(rs), NEW s, Exact(rs, s),
           NEW frame \in Managed(rs) \ s.clear
    PROVE  /\ Exact(rs, free_page(rs, s, frame))
           /\ free_page(rs, s, frame).clear = s.clear \cup {frame}
<1> DEFINE ri == RegionOf(rs, frame)
           C == s.clear
           n == free_page(rs, s, frame)
<1>1. /\ C \in SUBSET Managed(rs) /\ s.rr \in Nat
      /\ s.free \in [DOMAIN rs -> Nat]
      /\ s.total_free = Cardinality(C)
      /\ \A i \in DOMAIN rs : s.free[i] = Clear(rs, C, i)
      /\ frame \notin C
  BY DEF Exact, Clear
<1>2. ri \in DOMAIN rs /\ frame \in Frames(rs[ri])
  <2> DEFINE S == {i \in DOMAIN rs : frame \in Frames(rs[i])}
  <2>1. S \in SUBSET Nat /\ S # {}
    BY DEF Managed, GoodRegions
  <2>2. Least(S) \in S
    BY <2>1, LeastProp
  <2> QED BY <2>2 DEF RegionOf
<1>3. /\ n.clear = C \cup {frame} /\ n.rr = s.rr
      /\ n.total_free = s.total_free + 1
      /\ n.free = [s.free EXCEPT ![ri] = @ + 1]
      /\ n = [clear |-> n.clear, free |-> n.free,
              total_free |-> n.total_free, rr |-> n.rr]
  BY DEF free_page
<1> HIDE DEF n, C, ri
<1>4. /\ Cardinality(C \cup {frame}) = Cardinality(C) + 1
      /\ Cardinality(C) \in Nat
      /\ \A i \in DOMAIN rs :
            /\ Clear(rs, C, i) \in Nat
            /\ Clear(rs, C \cup {frame}, i)
                  = IF i = ri THEN Clear(rs, C, i) + 1 ELSE Clear(rs, C, i)
  BY <1>1, <1>2, CountAdd
<1>5. n.free \in [DOMAIN rs -> Nat]
  BY <1>1, <1>2, <1>3, <1>4
<1>6. ASSUME NEW i \in DOMAIN rs
      PROVE  n.free[i] = Clear(rs, n.clear, i)
  <2>1. n.free[i] = IF i = ri THEN s.free[i] + 1 ELSE s.free[i]
    BY <1>1, <1>2, <1>3
  <2> QED BY <1>1, <1>3, <1>4, <2>1
<1>7. /\ n.total_free \in Nat /\ n.total_free = Cardinality(n.clear)
      /\ n.clear \in SUBSET Managed(rs) /\ n.rr \in Nat
  <2>1. n.clear \in SUBSET Managed(rs) /\ n.rr \in Nat
    BY <1>1, <1>3
  <2>2. n.total_free = Cardinality(n.clear)
    BY <1>1, <1>3, <1>4
  <2>3. n.total_free \in Nat
    BY <1>1, <1>3, <1>4
  <2> QED BY <2>1, <2>2, <2>3
<1>8. n \in [clear : SUBSET Managed(rs), free : [DOMAIN rs -> Nat],
             total_free : Nat, rr : Nat]
  BY <1>3, <1>5, <1>7
<1>9. Exact(rs, n) /\ n.clear = C \cup {frame}
  BY <1>3, <1>6, <1>7, <1>8 DEF Exact, Clear
<1> QED BY <1>9 DEF n, C

\* pmm_selftest leaves the bitmaps as they were.
LEMMA SelftestProp ==
    ASSUME NEW rs, GoodRegions(rs), NEW s, Exact(rs, s)
    PROVE  /\ Exact(rs, selftest(rs, s))
           /\ selftest(rs, s).clear = s.clear
<1> DEFINE a1 == alloc_page(rs, s)
           a2 == alloc_page(rs, a1.s)
           a3 == alloc_page(rs, a2.s)
           a4 == alloc_page(rs, a3.s)
           give(x, f) == IF f = NULL THEN x ELSE free_page(rs, x, f)
           Step(x, a) == \/ a.frame = NULL /\ a.s = x
                         \/ /\ a.frame \in x.clear /\ a.frame # NULL
                            /\ a.s.clear = x.clear \ {a.frame}
<1>1. ASSUME NEW x, Exact(rs, x)
      PROVE  Exact(rs, alloc_page(rs, x).s) /\ Step(x, alloc_page(rs, x))
  BY <1>1, AllocProp
<1>2. ASSUME NEW x, Exact(rs, x), NEW f,
             f = NULL \/ f \in Managed(rs) \ x.clear
      PROVE  /\ Exact(rs, give(x, f))
             /\ give(x, f).clear = IF f = NULL THEN x.clear
                                   ELSE x.clear \cup {f}
  <2>1. CASE f = NULL
    BY <1>2, <2>1
  <2>2. CASE f # NULL
    <3>1. give(x, f) = free_page(rs, x, f)
      BY <2>2
    <3> QED BY <1>2, <2>2, <3>1, FreeProp
  <2> QED BY <2>1, <2>2
<1>3. Exact(rs, a1.s) /\ Step(s, a1)
  BY <1>1
<1> HIDE DEF a1
<1>4. Exact(rs, a2.s) /\ Step(a1.s, a2)
  BY <1>1, <1>3
<1> HIDE DEF a2
<1>5. Exact(rs, a3.s) /\ Step(a2.s, a3)
  BY <1>1, <1>4
<1> HIDE DEF a3
<1>6. Exact(rs, a4.s) /\ Step(a3.s, a4)
  BY <1>1, <1>5
<1> HIDE DEF a4
<1>7. s.clear \subseteq Managed(rs)
  BY DEF Exact
<1> DEFINE g1 == give(a4.s, a1.frame)
           g2 == give(g1, a2.frame)
           g3 == give(g2, a3.frame)
           g4 == give(g3, a4.frame)
           Opt(f) == IF f = NULL THEN {} ELSE {f}
<1>8. Exact(rs, g1) /\ g1.clear = a4.s.clear \cup Opt(a1.frame)
  <2>1. a1.frame = NULL \/ a1.frame \in Managed(rs) \ a4.s.clear
    BY <1>3, <1>4, <1>5, <1>6, <1>7
  <2> HIDE DEF give
  <2>2. /\ Exact(rs, give(a4.s, a1.frame))
        /\ give(a4.s, a1.frame).clear = IF a1.frame = NULL THEN a4.s.clear
                                        ELSE a4.s.clear \cup {a1.frame}
    BY <1>2, <1>6, <2>1
  <2> QED BY <2>2
<1> HIDE DEF g1
<1>9. Exact(rs, g2) /\ g2.clear = g1.clear \cup Opt(a2.frame)
  <2>1. a2.frame = NULL \/ a2.frame \in Managed(rs) \ g1.clear
    BY <1>3, <1>4, <1>5, <1>6, <1>7, <1>8
  <2> HIDE DEF give
  <2>2. /\ Exact(rs, give(g1, a2.frame))
        /\ give(g1, a2.frame).clear = IF a2.frame = NULL THEN g1.clear
                                      ELSE g1.clear \cup {a2.frame}
    BY <1>2, <1>8, <2>1
  <2> QED BY <2>2
<1> HIDE DEF g2
<1>10. Exact(rs, g3) /\ g3.clear = g2.clear \cup Opt(a3.frame)
  <2>1. a3.frame = NULL \/ a3.frame \in Managed(rs) \ g2.clear
    BY <1>3, <1>4, <1>5, <1>6, <1>7, <1>8, <1>9
  <2> HIDE DEF give
  <2>2. /\ Exact(rs, give(g2, a3.frame))
        /\ give(g2, a3.frame).clear = IF a3.frame = NULL THEN g2.clear
                                      ELSE g2.clear \cup {a3.frame}
    BY <1>2, <1>9, <2>1
  <2> QED BY <2>2
<1> HIDE DEF g3
<1>11. Exact(rs, g4) /\ g4.clear = g3.clear \cup Opt(a4.frame)
  <2>1. a4.frame = NULL \/ a4.frame \in Managed(rs) \ g3.clear
    BY <1>3, <1>4, <1>5, <1>6, <1>7, <1>8, <1>9, <1>10
  <2> HIDE DEF give
  <2>2. /\ Exact(rs, give(g3, a4.frame))
        /\ give(g3, a4.frame).clear = IF a4.frame = NULL THEN g3.clear
                                      ELSE g3.clear \cup {a4.frame}
    BY <1>2, <1>10, <2>1
  <2> QED BY <2>2
<1> HIDE DEF g4
<1>12. g4.clear = s.clear
  BY <1>3, <1>4, <1>5, <1>6, <1>8, <1>9, <1>10, <1>11
<1>13. selftest(rs, s) = IF s.total_free < 4 THEN s ELSE g4
  BY Zenon DEF selftest, a1, a2, a3, a4, g1, g2, g3, g4
<1> QED BY <1>11, <1>12, <1>13

-----------------------------------------------------------------------------
(* The inductive invariant.                                                *)

Answers == [op : {"none", "init", "alloc", "free"}, page : AllFrames]

IInv ==
    /\ g_pmm_ready \in BOOLEAN
    /\ boot \in BootInfos
    /\ ret \in Answers
    /\ ~g_pmm_ready => g = ResetState /\ held = {}
    /\ g_pmm_ready => Exact(Regions(boot), g)
    /\ PagesAccountedFor

\* pmm_bitmap_init: the clear bits are the managed pages not set aside.
LEMMA InitProp ==
    ASSUME NEW b \in BootInfos
    PROVE  LET rs == Regions(b)
               n == selftest(rs, resync_free_count(rs, BuildBitmaps(b)))
           IN  Exact(rs, n) /\ n.clear = Managed(rs) \ SetAside(b)
<1> DEFINE rs == Regions(b)
           B == BuildBitmaps(b)
           c == (UNION {Frames(rs[i]) \ BitmapFrames(rs[i]) : i \in DOMAIN rs})
                   \ ReservedFrames(b)
<1>1. GoodRegions(rs) /\ DOMAIN rs = RegionIds(b)
  BY RegionsAreGood
<1>2. B.clear = c /\ B.rr = 0
  BY DEF BuildBitmaps, ResetState
<1> HIDE DEF B
<1>3. c = Managed(rs) \ SetAside(b)
  <2>1. ASSUME NEW f \in Managed(rs) \ SetAside(b)
        PROVE  f \in c
    BY <1>1 DEF Managed, SetAside
  <2>2. ASSUME NEW f \in c
        PROVE  f \in Managed(rs) \ SetAside(b)
    <3>1. PICK i \in DOMAIN rs : f \in Frames(rs[i]) \ BitmapFrames(rs[i])
      OBVIOUS
    <3>2. f \in Managed(rs) /\ f \notin ReservedFrames(b)
      BY <3>1 DEF Managed
    <3>3. ASSUME NEW j \in DOMAIN rs
          PROVE  f \notin BitmapFrames(rs[j])
      <4>1. BitmapFrames(rs[j]) \subseteq Frames(rs[j])
        BY <1>1, BitmapFitsRegion
      <4> HIDE DEF rs
      <4> QED BY <1>1, <3>1, <4>1 DEF GoodRegions
    <3> QED BY <1>1, <3>2, <3>3 DEF SetAside
  <2> QED BY <2>1, <2>2
<1> HIDE DEF c, rs
<1>4. B.clear \in SUBSET Managed(rs) /\ B.rr \in Nat
  BY <1>2, <1>3
<1> DEFINE m == resync_free_count(rs, B)
<1>5. Exact(rs, m) /\ m.clear = B.clear
  BY <1>1, <1>4, ResyncExact
<1> HIDE DEF m
<1>6. Exact(rs, selftest(rs, m)) /\ selftest(rs, m).clear = m.clear
  BY <1>1, <1>5, SelftestProp
<1> QED BY <1>2, <1>3, <1>5, <1>6 DEF m, B, rs

LEMMA ManagedFrames ==
    ASSUME NEW b \in BootInfos
    PROVE  Managed(Regions(b)) \subseteq AllFrames \ {NULL} /\ NULL \in AllFrames
<1>1. Managed(Regions(b)) \subseteq AllFrames \ {NULL}
  BY RegionsAreGood, FiniteFrames
<1>2. FloorFrame(LIMIT - 1) \in Nat
  BY FloorProp, ConstantsAssumption
<1> QED BY <1>1, <1>2 DEF AllFrames, NULL

LEMMA IInvInit == Init => IInv
<1> SUFFICES ASSUME Init PROVE IInv
  OBVIOUS
<1>1. ret \in Answers
  BY ManagedFrames DEF Init, Answer, Answers
<1> QED BY <1>1 DEF Init, IInv, PagesAccountedFor

LEMMA IInvNext == IInv /\ [Next]_vars => IInv'
<1> SUFFICES ASSUME IInv, [Next]_vars PROVE IInv'
  OBVIOUS
<1> DEFINE rs == Regions(boot)
<1>1. boot \in BootInfos /\ boot' = boot
  BY DEF IInv, Next, vars, pmm_bitmap_init, pmm_bitmap_alloc_page,
         pmm_bitmap_free_page
<1>2. /\ NULL \in AllFrames /\ Managed(rs) \subseteq AllFrames \ {NULL}
      /\ \A f \in AllFrames, op \in {"init", "alloc", "free"} :
            Answer(op, f) \in Answers
  BY <1>1, ManagedFrames DEF Answer, Answers
<1>3. GoodRegions(rs)
  BY <1>1, RegionsAreGood
<1>4. g_pmm_ready => g.clear \subseteq Managed(rs) /\ held \subseteq Managed(rs)
  BY DEF IInv, PagesAccountedFor
<1>5. CASE pmm_bitmap_init
  <2>1. held = {} /\ held' = {} /\ ret' \in Answers
    BY <1>2, <1>5 DEF pmm_bitmap_init, IInv
  <2>2. CASE RegionIds(boot) = {}
    BY <1>1, <1>2, <1>5, <2>1, <2>2
    DEF pmm_bitmap_init, IInv, PagesAccountedFor
  <2>3. CASE RegionIds(boot) # {}
    <3>1. g_pmm_ready' = TRUE /\ Exact(rs, g')
          /\ g'.clear = Managed(rs) \ SetAside(boot)
      BY <1>1, <1>5, <2>3, InitProp DEF pmm_bitmap_init
    <3> QED BY <1>1, <1>2, <2>1, <3>1 DEF IInv, PagesAccountedFor
  <2> QED BY <2>2, <2>3
<1>6. CASE pmm_bitmap_alloc_page
  <2>1. CASE ~g_pmm_ready
    BY <1>1, <1>2, <1>6, <2>1
    DEF pmm_bitmap_alloc_page, IInv, PagesAccountedFor
  <2>2. CASE g_pmm_ready
    <3> DEFINE a == alloc_page(rs, g)
    <3>1. /\ g' = a.s /\ ret' = Answer("alloc", a.frame) /\ g_pmm_ready' = TRUE
          /\ held' = held \cup ({a.frame} \ {NULL})
      BY <1>6, <2>2 DEF pmm_bitmap_alloc_page, IInv
    <3>2. Exact(rs, g)
      BY <2>2 DEF IInv
    <3>3. \/ g.clear = {} /\ a = [frame |-> NULL, s |-> g]
          \/ /\ a.frame \in g.clear /\ a.frame # NULL
             /\ Exact(rs, a.s) /\ a.s.clear = g.clear \ {a.frame}
      BY <1>3, <3>2, AllocProp
    <3> HIDE DEF a
    <3>4. held \cap g.clear = {}
          /\ held \cup g.clear = Managed(rs) \ SetAside(boot)
      BY <2>2 DEF IInv, PagesAccountedFor
    <3> HIDE DEF rs
    <3>5. CASE a = [frame |-> NULL, s |-> g]
      <4>1. g' = g /\ ret' \in Answers /\ held' = held
        BY <1>2, <3>1, <3>5
      <4> QED BY <1>1, <1>2, <3>1, <3>2, <3>4, <4>1
              DEF IInv, PagesAccountedFor, rs
    <3>6. CASE /\ a.frame \in g.clear /\ a.frame # NULL
               /\ Exact(rs, a.s) /\ a.s.clear = g.clear \ {a.frame}
      <4>1. held' = held \cup {a.frame} /\ g'.clear = g.clear \ {a.frame}
        BY <3>1, <3>6
      <4>2. held' \cap g'.clear = {}
        BY <3>4, <4>1
      <4>3. held' \cup g'.clear = Managed(rs) \ SetAside(boot)
        BY <3>4, <3>6, <4>1
      <4>4. ret' \in Answers
        BY <1>2, <1>4, <2>2, <3>1, <3>6 DEF rs
      <4> QED BY <1>1, <3>1, <3>6, <4>2, <4>3, <4>4
              DEF IInv, PagesAccountedFor, rs
    <3> QED BY <3>3, <3>5, <3>6
  <2> QED BY <2>1, <2>2
<1>7. ASSUME NEW frame \in AllFrames, NEW aligned \in BOOLEAN,
             CallerMayFree(frame, aligned),
             pmm_bitmap_free_page(frame, aligned)
      PROVE  IInv'
  <2> DEFINE ok == g_pmm_ready /\ Accepted(rs, g, frame, aligned)
  <2>1. CASE ~ok
    <3>1. /\ g' = g /\ held' = held /\ g_pmm_ready' = g_pmm_ready
          /\ ret' \in Answers
      BY <1>2, <1>7, <2>1 DEF pmm_bitmap_free_page
    <3> QED BY <1>1, <1>2, <3>1 DEF IInv, PagesAccountedFor
  <2>2. CASE ok
    <3>1. /\ g' = free_page(rs, g, frame) /\ held' = held \ {frame}
          /\ g_pmm_ready' = TRUE /\ ret' \in Answers
      BY <1>2, <1>7, <2>2 DEF pmm_bitmap_free_page, IInv
    <3>2. frame \in Managed(rs) \ g.clear /\ frame \in held
      BY <1>7, <2>2 DEF Accepted, CallerMayFree
    <3>3. Exact(rs, g') /\ g'.clear = g.clear \cup {frame}
      BY <1>3, <2>2, <3>1, <3>2, FreeProp DEF IInv
    <3>4. held \cap g.clear = {}
          /\ held \cup g.clear = Managed(rs) \ SetAside(boot)
      BY <2>2 DEF IInv, PagesAccountedFor
    <3> HIDE DEF rs
    <3>5. /\ held' \cap g'.clear = {}
          /\ held' \cup g'.clear = Managed(rs) \ SetAside(boot)
      BY <3>1, <3>2, <3>3, <3>4
    <3> QED BY <1>1, <1>2, <3>1, <3>3, <3>5 DEF IInv, PagesAccountedFor, rs
  <2> QED BY <2>1, <2>2
<1>8. CASE UNCHANGED vars
  BY <1>8 DEF vars, IInv, PagesAccountedFor
<1> QED BY <1>5, <1>6, <1>7, <1>8 DEF Next

LEMMA IInvType == IInv => TypeOK
<1> SUFFICES ASSUME IInv PROVE TypeOK
  OBVIOUS
<1>1. boot \in BootInfos
  BY DEF IInv
<1>2. /\ Managed(Regions(boot)) \subseteq AllFrames
      /\ DOMAIN Regions(boot) = RegionIds(boot)
  BY <1>1, ManagedFrames, RegionsAreGood
<1>3. CASE g_pmm_ready
  <2>1. held \subseteq AllFrames
    BY <1>2, <1>3 DEF IInv, PagesAccountedFor
  <2>2. g \in [clear : SUBSET AllFrames, free : [RegionIds(boot) -> Nat],
               total_free : Nat, rr : Nat]
    BY <1>2, <1>3 DEF IInv, Exact
  <2> QED BY <1>1, <1>3, <2>1, <2>2 DEF TypeOK, IInv, Answers
<1>4. CASE ~g_pmm_ready
  <2> DEFINE none == << >>
  <2>1. none \in [{} -> Nat]
    OBVIOUS
  <2>2. g = [clear |-> {}, free |-> none, total_free |-> 0, rr |-> 0]
    BY <1>4 DEF IInv, ResetState
  <2> HIDE DEF none
  <2>3. g \in [clear : SUBSET AllFrames, free : [{} -> Nat],
               total_free : Nat, rr : Nat]
    BY <2>1, <2>2
  <2> QED BY <1>1, <1>4, <2>3 DEF TypeOK, IInv, Answers
<1> QED BY <1>3, <1>4

LEMMA IInvCounters == IInv => CountersExact
<1> SUFFICES ASSUME IInv, g_pmm_ready PROVE CountersExact
  BY DEF CountersExact
<1>1. boot \in BootInfos /\ Exact(Regions(boot), g)
  BY DEF IInv
<1>2. DOMAIN Regions(boot) = RegionIds(boot)
  BY <1>1, RegionsAreGood
<1> QED BY <1>1, <1>2 DEF Exact, CountersExact

\* A frame that holds a byte of a range is one bitmap_mark_used_range marks.
LEMMA HoldsMarked ==
    ASSUME NEW f \in Nat, NEW start \in Nat, NEW end \in Nat,
           BelowLastPage(end), PageHolds(f, start, end)
    PROVE  f \in FramesOf(start, end)
<1>1. /\ start < end /\ f * PAGE_SIZE < end /\ start < (f + 1) * PAGE_SIZE
  BY DEF PageHolds
<1>2. /\ FloorFrame(start) \in Nat /\ CeilFrame(end) \in Nat
      /\ FloorFrame(start) * PAGE_SIZE <= start
      /\ end <= CeilFrame(end) * PAGE_SIZE
  BY FloorProp, FrameProp
<1> DEFINE lo == FloorFrame(start)
           hi == CeilFrame(end)
<1>3. /\ f * PAGE_SIZE \in Nat /\ (f + 1) * PAGE_SIZE \in Nat
      /\ lo * PAGE_SIZE \in Nat /\ hi * PAGE_SIZE \in Nat
      /\ f + 1 \in Nat
  BY <1>2, ConstantsAssumption
<1> HIDE DEF lo, hi
<1>4. ~(f + 1 <= lo)
  <2> SUFFICES ASSUME f + 1 <= lo PROVE FALSE
    OBVIOUS
  <2>1. (f + 1) * PAGE_SIZE <= lo * PAGE_SIZE
    BY <1>2, ConstantsAssumption DEF lo
  <2> QED BY <1>1, <1>2, <1>3, <2>1 DEF lo
<1>5. ~(hi <= f)
  <2> SUFFICES ASSUME hi <= f PROVE FALSE
    OBVIOUS
  <2>1. hi * PAGE_SIZE <= f * PAGE_SIZE
    BY <1>2, ConstantsAssumption DEF hi
  <2> QED BY <1>1, <1>2, <1>3, <2>1 DEF hi
<1>6. lo <= f /\ f <= hi - 1
  BY <1>2, <1>4, <1>5 DEF lo, hi
<1> QED BY <1>1, <1>2, <1>6 DEF FramesOf, lo, hi

\* The pages of a region lie in the memory map entry it was made from.
LEMMA RegionInEntry ==
    ASSUME NEW b \in BootInfos, NEW i \in RegionIds(b),
           NEW f \in Frames(Regions(b)[i])
    PROVE  /\ i \in DOMAIN b.mmap /\ b.mmap[i].type = 1
           /\ b.mmap[i].addr <= f * PAGE_SIZE
           /\ (f + 1) * PAGE_SIZE <= b.mmap[i].addr + b.mmap[i].len
<1> DEFINE r == Regions(b)[i]
           e == b.mmap[i]
           start == EntryStart(e)
           end == EntryEnd(e)
<1>1. /\ i \in DOMAIN b.mmap /\ e.type = 1
      /\ e \in [addr : Nat, len : Nat, type : Nat]
      /\ start \in Nat /\ end \in Nat
      /\ e.addr <= start /\ end <= e.addr + e.len /\ BelowLastPage(start)
      /\ Within(r, start, end)
  BY EntryWithin
<1> HIDE DEF r, e, start, end
<1>2. /\ CeilFrame(start) \in Nat /\ FloorFrame(end) \in Nat
      /\ start <= CeilFrame(start) * PAGE_SIZE
      /\ FloorFrame(end) * PAGE_SIZE <= end
  BY <1>1, FloorProp, FrameProp
<1>3. /\ f \in Nat /\ CeilFrame(start) <= f /\ f + 1 <= FloorFrame(end)
  BY <1>1, <1>2 DEF Within, Frames, r
<1>4. CeilFrame(start) * PAGE_SIZE <= f * PAGE_SIZE
  BY <1>2, <1>3, ConstantsAssumption
<1>5. (f + 1) * PAGE_SIZE <= FloorFrame(end) * PAGE_SIZE
  BY <1>2, <1>3, ConstantsAssumption
<1>6. /\ f * PAGE_SIZE \in Nat /\ (f + 1) * PAGE_SIZE \in Nat
      /\ CeilFrame(start) * PAGE_SIZE \in Nat
      /\ FloorFrame(end) * PAGE_SIZE \in Nat
  BY <1>2, <1>3, ConstantsAssumption
<1>7. e.addr \in Nat /\ e.len \in Nat
  BY <1>1
<1>8. e.addr <= f * PAGE_SIZE /\ (f + 1) * PAGE_SIZE <= e.addr + e.len
  BY <1>1, <1>2, <1>4, <1>5, <1>6, <1>7
<1> QED BY <1>1, <1>8 DEF e

LEMMA IInvReserved == IInv => ReservedNeverHandedOut
<1> SUFFICES ASSUME IInv, NEW f \in held
             PROVE  /\ ~PageHolds(f, boot.kernel_start, boot.kernel_end)
                    /\ ~PageHolds(f, boot.mb2, boot.mb2 + boot.mb2_size)
                    /\ \A i \in RegionIds(boot) :
                          f \notin BitmapFrames(Regions(boot)[i])
                    /\ \E i \in DOMAIN boot.mmap :
                          /\ boot.mmap[i].type = 1
                          /\ boot.mmap[i].addr <= f * PAGE_SIZE
                          /\ (f + 1) * PAGE_SIZE
                                <= boot.mmap[i].addr + boot.mmap[i].len
  BY DEF ReservedNeverHandedOut
<1>1. boot \in BootInfos /\ f \in Managed(Regions(boot)) \ SetAside(boot)
  BY DEF IInv, PagesAccountedFor
<1>2. /\ boot.kernel_start \in Nat /\ boot.kernel_end \in Nat
      /\ boot.mb2 \in Nat /\ boot.mb2 + boot.mb2_size \in Nat
      /\ BelowLastPage(boot.kernel_end) /\ BelowLastPage(boot.mb2 + boot.mb2_size)
  BY <1>1, BootAssumption
<1>3. f \in Nat
  BY <1>1, RegionsAreGood, FiniteFrames
<1>4. f \notin ReservedFrames(boot)
  BY <1>1 DEF SetAside
<1>5. /\ ~PageHolds(f, boot.kernel_start, boot.kernel_end)
      /\ ~PageHolds(f, boot.mb2, boot.mb2 + boot.mb2_size)
  BY <1>2, <1>3, <1>4, HoldsMarked DEF ReservedFrames
<1>6. \A i \in RegionIds(boot) : f \notin BitmapFrames(Regions(boot)[i])
  BY <1>1 DEF SetAside
<1>7. PICK i \in RegionIds(boot) : f \in Frames(Regions(boot)[i])
  BY <1>1, RegionsAreGood DEF Managed
<1>8. /\ i \in DOMAIN boot.mmap /\ boot.mmap[i].type = 1
      /\ boot.mmap[i].addr <= f * PAGE_SIZE
      /\ (f + 1) * PAGE_SIZE <= boot.mmap[i].addr + boot.mmap[i].len
  BY <1>1, <1>7, RegionInEntry
<1> QED BY <1>5, <1>6, <1>8

-----------------------------------------------------------------------------
(* Where the bitmaps lie.                                                  *)

\* A frame that bitmap_mark_used_range marks holds bytes of the range.
LEMMA MarkedHolds ==
    ASSUME NEW start \in Nat, NEW end \in Nat, BelowLastPage(end),
           NEW f \in FramesOf(start, end)
    PROVE  /\ f \in Nat /\ start < end
           /\ FloorFrame(start) <= f /\ f + 1 <= CeilFrame(end)
           /\ f * PAGE_SIZE < end /\ start < (f + 1) * PAGE_SIZE
<1>1. start < end /\ f \in FloorFrame(start) .. CeilFrame(end) - 1
  BY DEF FramesOf
<1>2. /\ FloorFrame(start) \in Nat /\ CeilFrame(end) \in Nat
      /\ start < PAGE_SIZE * FloorFrame(start) + PAGE_SIZE
      /\ PAGE_SIZE * CeilFrame(end) <= end + PAGE_SIZE - 1
  <2>1. /\ end + PAGE_SIZE - 1 \in Nat
        /\ CeilFrame(end) = (end + PAGE_SIZE - 1) \div PAGE_SIZE
    BY CeilPlain
  <2> QED BY <2>1, DivProp, FloorProp DEF FloorFrame
<1> DEFINE lo == FloorFrame(start)
           hi == CeilFrame(end)
<1> HIDE DEF lo, hi
<1>3. f \in Nat /\ lo <= f /\ f + 1 <= hi
  BY <1>1, <1>2 DEF lo, hi
<1>4. start < (f + 1) * PAGE_SIZE
  <2>1. PAGE_SIZE * lo <= PAGE_SIZE * f
    BY <1>2, <1>3, ConstantsAssumption DEF lo
  <2>2. (f + 1) * PAGE_SIZE = PAGE_SIZE * f + PAGE_SIZE
    BY <1>3, ConstantsAssumption
  <2>3. PAGE_SIZE * f \in Nat /\ PAGE_SIZE * lo \in Nat
    BY <1>2, <1>3, ConstantsAssumption DEF lo
  <2> QED BY <1>2, <2>1, <2>2, <2>3, ConstantsAssumption DEF lo
<1>5. f * PAGE_SIZE < end
  <2>1. PAGE_SIZE * (f + 1) <= PAGE_SIZE * hi
    BY <1>2, <1>3, ConstantsAssumption DEF hi
  <2>2. PAGE_SIZE * (f + 1) = f * PAGE_SIZE + PAGE_SIZE
    BY <1>3, ConstantsAssumption
  <2>3. f * PAGE_SIZE \in Nat /\ PAGE_SIZE * hi \in Nat
    BY <1>2, <1>3, ConstantsAssumption DEF hi
  <2> QED BY <1>2, <2>1, <2>2, <2>3, ConstantsAssumption DEF hi
<1> QED BY <1>1, <1>3, <1>4, <1>5 DEF lo, hi

\* What an attempt lays out is behind the kernel image or in front of it.
LEMMA AttemptAvoidsKernel ==
    ASSUME NEW b \in BootInfos, NEW start \in Nat, NEW end \in Nat,
           BelowLastPage(start), Attempt(b, start, end) # NoRegion
    PROVE  Frames(Attempt(b, start, end)) \cap FramesOf(b.kernel_start, b.kernel_end) = {}
<1> DEFINE r == Attempt(b, start, end)
           ks == b.kernel_start
           ke == b.kernel_end
<1>1. ks \in Nat /\ ke \in Nat /\ BelowLastPage(ke)
  BY BootAssumption
<1>2. Within(r, start, end)
  BY AttemptWithin
<1>3. ranges_overlap(start, end, ks, ke) => r.base >= CeilFrame(ke)
  <2>1. CeilFrame(ke) \in Nat /\ CeilFrame(start) \in Nat
    BY <1>1, FloorProp
  <2> QED BY <2>1 DEF Attempt, NoRegion
<1> HIDE DEF r, ks, ke
<1> SUFFICES ASSUME NEW f \in Frames(r), f \in FramesOf(ks, ke) PROVE FALSE
  BY DEF r, ks, ke
<1>4. /\ f \in Nat /\ ks < ke /\ FloorFrame(ks) <= f /\ f + 1 <= CeilFrame(ke)
  BY <1>1, MarkedHolds
<1>5. /\ CeilFrame(start) \in Nat /\ FloorFrame(end) \in Nat /\ CeilFrame(end) \in Nat
      /\ FloorFrame(start) \in Nat
      /\ CeilFrame(ke) \in Nat /\ FloorFrame(ks) \in Nat
  BY <1>1, FloorProp
<1>6. /\ r.base \in Nat /\ r.pages \in Nat \ {0} /\ r.base >= CeilFrame(start)
      /\ r.base + r.pages <= FloorFrame(end) /\ r.base <= f /\ f < r.base + r.pages
  BY <1>2, <1>4 DEF Within, Frames
<1>7. ~(r.base >= CeilFrame(ke))
  BY <1>4, <1>5, <1>6
<1>8. ~ranges_overlap(start, end, ks, ke)
  BY <1>3, <1>7
<1>9. ~(ke <= start)
  <2> SUFFICES ASSUME ke <= start PROVE FALSE
    OBVIOUS
  <2>1. CeilFrame(ke) <= CeilFrame(start)
    BY <1>1, FrameMono
  <2> QED BY <1>5, <1>6, <1>7, <2>1
<1>10. ~(end <= ks)
  <2> SUFFICES ASSUME end <= ks PROVE FALSE
    OBVIOUS
  <2>1. FloorFrame(end) <= FloorFrame(ks)
    BY <1>1, FrameMono
  <2> QED BY <1>4, <1>5, <1>6, <2>1
<1>11. ~(end <= start)
  <2> SUFFICES ASSUME end <= start PROVE FALSE
    OBVIOUS
  <2>1. FloorFrame(end) <= FloorFrame(start) /\ FloorFrame(start) <= CeilFrame(start)
    BY FrameMono, FrameProp
  <2> QED BY <1>5, <1>6, <2>1
<1> QED BY <1>1, <1>4, <1>8, <1>9, <1>10, <1>11 DEF ranges_overlap

\* A bitmap that does not hit the boot information shares no page with it.
LEMMA BitmapAvoidsMb2 ==
    ASSUME NEW b \in BootInfos, NEW r, r.base \in Nat, r.pages \in Nat,
           BitmapPages(r.pages) \in Nat, ~BitmapHitsMb2(b, r)
    PROVE  BitmapFrames(r) \cap FramesOf(b.mb2, b.mb2 + b.mb2_size) = {}
<1> DEFINE start == b.mb2
           end == b.mb2 + b.mb2_size
           lo == r.base * PAGE_SIZE
           hi == (r.base + BitmapPages(r.pages)) * PAGE_SIZE
<1>1. /\ b.mb2 \in Nat /\ b.mb2_size \in Nat /\ start \in Nat /\ end \in Nat
      /\ BelowLastPage(end)
  BY BootAssumption
<1> SUFFICES ASSUME NEW f \in BitmapFrames(r), f \in FramesOf(start, end) PROVE FALSE
  OBVIOUS
<1>2. /\ f \in Nat /\ start < end
      /\ f * PAGE_SIZE < end /\ start < (f + 1) * PAGE_SIZE
  BY <1>1, MarkedHolds
<1>3. r.base <= f /\ f + 1 <= r.base + BitmapPages(r.pages)
  BY <1>2 DEF BitmapFrames
<1>4. /\ lo \in Nat /\ hi \in Nat /\ f * PAGE_SIZE \in Nat /\ (f + 1) * PAGE_SIZE \in Nat
      /\ lo <= f * PAGE_SIZE /\ (f + 1) * PAGE_SIZE <= hi
      /\ f * PAGE_SIZE < (f + 1) * PAGE_SIZE
  BY <1>2, <1>3, ConstantsAssumption
<1>5. b.mb2_size > 0
  BY <1>1, <1>2
<1>6. ~ranges_overlap(lo, hi, start, end)
  BY <1>5 DEF BitmapHitsMb2
<1> HIDE DEF lo, hi, start, end
<1> QED BY <1>1, <1>2, <1>4, <1>6 DEF ranges_overlap

\* pmm_compute_region_layout answers with a region that spares both.
LEMMA LayoutSpares ==
    ASSUME NEW b \in BootInfos, NEW start \in Nat, NEW end \in Nat,
           BelowLastPage(start),
           pmm_compute_region_layout(b, start, end) # NoRegion
    PROVE  /\ Frames(pmm_compute_region_layout(b, start, end))
                 \cap FramesOf(b.kernel_start, b.kernel_end) = {}
           /\ ~BitmapHitsMb2(b, pmm_compute_region_layout(b, start, end))
<1> DEFINE start2 == CeilFrame(b.mb2 + b.mb2_size) * PAGE_SIZE
           end2 == FloorFrame(end) * PAGE_SIZE
           r == Attempt(b, start, end)
           r2 == Attempt(b, start2, end2)
           result == pmm_compute_region_layout(b, start, end)
<1>1. /\ b.mb2 \in Nat /\ b.mb2_size \in Nat /\ b.mb2 + b.mb2_size \in Nat
      /\ BelowLastPage(b.mb2 + b.mb2_size)
  BY BootAssumption
<1>2. start2 \in Nat /\ end2 \in Nat /\ BelowLastPage(start2)
  BY <1>1, CeilBelow, FloorProp, ConstantsAssumption
<1>3. /\ r # NoRegion /\ result # NoRegion
      /\ \/ result = r /\ ~BitmapHitsMb2(b, r)
         \/ result = r2 /\ ~BitmapHitsMb2(b, r2)
  BY DEF pmm_compute_region_layout
<1> HIDE DEF result, start2, end2
<1>4. /\ r # NoRegion => Frames(r) \cap FramesOf(b.kernel_start, b.kernel_end) = {}
      /\ r2 # NoRegion => Frames(r2) \cap FramesOf(b.kernel_start, b.kernel_end) = {}
  BY <1>2, AttemptAvoidsKernel
<1> HIDE DEF r, r2
<1> QED BY <1>3, <1>4 DEF result

\* So the bitmap of every region init makes spares them.
LEMMA BootInfoSafe ==
    ASSUME NEW b \in BootInfos, NEW i \in RegionIds(b)
    PROVE  BitmapFrames(Regions(b)[i]) \cap ReservedFrames(b) = {}
<1> DEFINE r == Regions(b)[i]
           e == b.mmap[i]
<1>1. /\ EntryStart(e) \in Nat /\ EntryEnd(e) \in Nat /\ BelowLastPage(EntryStart(e))
      /\ r.base \in Nat /\ r.pages \in Nat
  BY EntryWithin DEF Within
<1>2. r = Layout(b, i) /\ Layout(b, i) # NoRegion
  BY DEF Regions, RegionIds, LaidOut
<1>3. r = pmm_compute_region_layout(b, EntryStart(e), EntryEnd(e)) /\ r # NoRegion
  BY <1>2 DEF Layout
<1> HIDE DEF r
<1>4. /\ Frames(r) \cap FramesOf(b.kernel_start, b.kernel_end) = {}
      /\ ~BitmapHitsMb2(b, r)
  BY <1>1, <1>3, LayoutSpares
<1>5. BitmapFrames(r) \subseteq Frames(r) /\ BitmapPages(r.pages) \in Nat
  BY BitmapFitsRegion DEF r
<1>6. BitmapFrames(r) \cap FramesOf(b.mb2, b.mb2 + b.mb2_size) = {}
  BY <1>1, <1>4, <1>5, BitmapAvoidsMb2
<1> QED BY <1>4, <1>5, <1>6 DEF ReservedFrames, r

\* That is about the boot information alone, which never changes.
LEMMA IInvSafe == IInv => BitmapsInSafePlaces
<1> SUFFICES ASSUME IInv PROVE BitmapsInSafePlaces
  OBVIOUS
<1>1. boot \in BootInfos
  BY DEF IInv
<1>2. GoodRegions(Regions(boot)) /\ DOMAIN Regions(boot) = RegionIds(boot)
  BY <1>1, RegionsAreGood
<1> QED BY <1>1, <1>2, BootInfoSafe, BitmapFitsRegion DEF BitmapsInSafePlaces, GoodRegions

-----------------------------------------------------------------------------
(* The theorems.                                                           *)

LEMMA Invariance == Spec => []IInv
<1> QED BY IInvInit, IInvNext, PTL DEF Spec

\* The variables of the back end keep their types, whatever the boot loader
\* hands over and however the calls are ordered.
THEOREM TypeCorrect == Spec => []TypeOK
<1> QED BY Invariance, IInvType, PTL

\* The cached counters always agree with the bitmaps, so neither shortcut of
\* alloc_page ever misses a page.
THEOREM CountersAlwaysExact == Spec => []CountersExact
<1> QED BY Invariance, IInvCounters, PTL

\* No page is lost and none is both free and held.
THEOREM PagesAlwaysAccountedFor == Spec => []PagesAccountedFor
<1>1. IInv => PagesAccountedFor
  BY DEF IInv
<1> QED BY <1>1, Invariance, PTL

\* Whatever the boot loader hands over, no page given to a caller holds a
\* byte of the kernel, of the Multiboot2 information or of a bitmap, or lies
\* outside usable memory.
THEOREM ReservedNeverLeaves == Spec => []ReservedNeverHandedOut
<1> QED BY IInvReserved, Invariance, PTL

\* init writes no bitmap over the kernel image, over the boot information it
\* is still reading or over another region: in every region that
\* pmm_compute_region_layout accepts, whatever the memory map.
THEOREM BitmapsAlwaysInSafePlaces == Spec => []BitmapsInSafePlaces
<1> QED BY IInvSafe, Invariance, PTL

LEMMA StepRefines == IInv /\ [Next]_vars => [PA!Next]_(PA!vars)
<1> SUFFICES ASSUME IInv, [Next]_vars PROVE [PA!Next]_(PA!vars)
  OBVIOUS
<1> DEFINE rs == Regions(boot)
<1>1. boot \in BootInfos /\ GoodRegions(rs)
  BY RegionsAreGood DEF IInv
<1>2. Managed(rs) \subseteq AllFrames \ {NULL}
  BY <1>1, ManagedFrames
<1>3. CASE pmm_bitmap_init
  <2>1. CASE RegionIds(boot) = {}
    BY <1>3, <2>1
    DEF pmm_bitmap_init, Answer, PA!Next, PA!StartFails, PA!Answer
  <2>2. CASE RegionIds(boot) # {}
    <3>1. g'.clear \subseteq Managed(rs)
      BY <1>1, <1>3, <2>2, InitProp DEF pmm_bitmap_init
    <3>2. PA!Start
      BY <1>2, <1>3, <2>2, <3>1 
         DEF pmm_bitmap_init, Answer, PA!Start, PA!Answer
    <3> QED BY <3>2 DEF PA!Next
  <2> QED BY <2>1, <2>2
<1>4. CASE pmm_bitmap_alloc_page
  <2>1. CASE ~g_pmm_ready
    BY <1>4, <2>1 DEF pmm_bitmap_alloc_page, IInv, ResetState,
                      Answer, PA!Next, PA!AllocFails, PA!Answer
  <2>2. CASE g_pmm_ready
    <3> DEFINE a == alloc_page(rs, g)
    <3>1. /\ g' = a.s /\ ret' = Answer("alloc", a.frame)
          /\ g_pmm_ready' = g_pmm_ready
          /\ held' = held \cup ({a.frame} \ {NULL})
      BY <1>4, <2>2 DEF pmm_bitmap_alloc_page
    <3>2. \/ g.clear = {} /\ a = [frame |-> NULL, s |-> g]
          \/ /\ a.frame \in g.clear /\ a.frame # NULL
             /\ a.s.clear = g.clear \ {a.frame}
      BY <1>1, <2>2, AllocProp DEF IInv
    <3> HIDE DEF a, rs
    <3>3. CASE g.clear = {} /\ a = [frame |-> NULL, s |-> g]
      <4>1. g' = g /\ ret' = Answer("alloc", NULL) /\ held' = held
        BY <3>1, <3>3
      <4> QED BY <3>1, <3>3, <4>1 
              DEF Answer, PA!Next, PA!AllocFails, PA!Answer
    <3>4. CASE /\ a.frame \in g.clear /\ a.frame # NULL
               /\ a.s.clear = g.clear \ {a.frame}
      <4>1. /\ g'.clear = g.clear \ {a.frame} 
            /\ ret' = Answer("alloc", a.frame)
            /\ held' = held \cup {a.frame}
        BY <3>1, <3>4
      <4> QED BY <3>1, <3>4, <4>1 
              DEF Answer, PA!Next, PA!Alloc, PA!Answer
    <3> QED BY <3>2, <3>3, <3>4
  <2> QED BY <2>1, <2>2
<1>5. ASSUME NEW frame \in AllFrames, NEW aligned \in BOOLEAN,
             CallerMayFree(frame, aligned),
             pmm_bitmap_free_page(frame, aligned)
      PROVE  PA!Next
  <2> DEFINE ok == g_pmm_ready /\ Accepted(rs, g, frame, aligned)
  <2> DEFINE p == IF aligned THEN frame ELSE NULL
  <2>1. p \in (AllFrames \ {NULL}) \cup {NULL}
    OBVIOUS
  <2>2. held \subseteq Managed(rs) /\ held \cap g.clear = {}
    BY DEF IInv, PagesAccountedFor
  <2>3. CASE ~ok
    <3>1. p \notin held
      <4>1. held = {} \/ g_pmm_ready
        BY DEF IInv
      <4> QED BY <1>2, <2>2, <2>3, <4>1 DEF Accepted
    <3>2. /\ UNCHANGED <<g_pmm_ready, g, held>> /\ ret' = Answer("free", p)
      BY <1>5, <2>3 DEF pmm_bitmap_free_page
    <3>3. PA!FreeIgnored(p)
      BY <3>1, <3>2 DEF PA!FreeIgnored, PA!Answer, Answer
    <3> QED BY <2>1, <3>3 DEF PA!Next
  <2>4. CASE ok
    <3>1. p = frame /\ frame \in Managed(rs) \ g.clear /\ frame \in held
      BY <1>5, <2>4 DEF Accepted, CallerMayFree
    <3>2. /\ g' = free_page(rs, g, frame) /\ held' = held \ {frame}
          /\ g_pmm_ready' = g_pmm_ready /\ ret' = Answer("free", p)
      BY <1>5, <2>4 DEF pmm_bitmap_free_page
    <3>3. g'.clear = g.clear \cup {frame}
      BY <1>1, <2>4, <3>1, <3>2, FreeProp DEF IInv
    <3>4. PA!Free(p)
      BY <3>1, <3>2, <3>3 DEF PA!Free, PA!Answer, Answer
    <3> QED BY <2>1, <3>4 DEF PA!Next
  <2> QED BY <2>3, <2>4
<1>6. CASE UNCHANGED vars
  BY <1>6 DEF vars, PA!vars
<1> QED BY <1>3, <1>4, <1>5, <1>6 DEF Next

\* The bitmap back end implements the contract of pmm_ops_t.
THEOREM Refinement == Spec => ImplementsPageAllocator
<1>1. Init => PA!Init
  BY DEF Init, PA!Init, ResetState, Answer, PA!Answer
<1> QED BY <1>1, StepRefines, Invariance, PTL
        DEF Spec, ImplementsPageAllocator, PA!Spec
=============================================================================
