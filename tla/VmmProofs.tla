----------------------------- MODULE VmmProofs -----------------------------
(***************************************************************************)
(* The virtual memory manager keeps account of every frame, keeps the      *)
(* direct map in place, and the heap where the bump pointer has not        *)
(* passed it, hands out runs of pages that are their callers' alone, and   *)
(* shows ring 3 only its pages: for every size of the address space, the   *)
(* tables and memory, every pool and every content of RAM, and wherever    *)
(* frames run out.                                                         *)
(***************************************************************************)
EXTENDS Vmm, FiniteSetTheorems, TLAPS

\* Quotient and remainder.
LEMMA DivMod ==
    ASSUME NEW x \in Nat, NEW T \in Nat \ {0}
    PROVE  /\ x \div T \in Nat /\ x % T \in Nat /\ x % T < T
           /\ x = T * (x \div T) + (x % T)
  OBVIOUS

\* A larger factor, a larger product.
LEMMA MulMono ==
    ASSUME NEW T \in Nat, NEW a \in Nat, NEW b \in Nat, a <= b
    PROVE  T * a <= T * b
  OBVIOUS

\* Lower quotient: lower number.
LEMMA MulSplit ==
    ASSUME NEW T \in Nat \ {0}, NEW a \in Nat, NEW b \in Nat, NEW s \in Nat, NEW t \in Nat,
           s < T, T * a + s < T * b + t, t < T
    PROVE  a <= b
<1> SUFFICES ASSUME b + 1 <= a PROVE FALSE
  OBVIOUS
<1>1. T * (b + 1) <= T * a
  BY MulMono
<1>2. T * (b + 1) = T * b + T
  OBVIOUS
<1> QED BY <1>1, <1>2

\* The address space and its kernel half begin and end where tables do.
LEMMA LayoutFacts ==
    /\ NPages \in Nat /\ TableSize \in Nat \ {0} /\ KernelBase \in Nat
    /\ NPages = TableSize * (NPages \div TableSize)
    /\ NPages \div TableSize \in Nat
    /\ KernelBase = TableSize * (KernelBase \div TableSize)
    /\ KernelBase \div TableSize \in Nat
    /\ KernelBase < NPages
<1> NPages \in Nat /\ TableSize \in Nat \ {0} /\ KernelBase \in Nat
   /\ NPages % TableSize = 0 /\ KernelBase % TableSize = 0 /\ KernelBase < NPages
  BY LayoutAssumption
<1>1. NPages = TableSize * (NPages \div TableSize) + (NPages % TableSize) /\ NPages \div TableSize \in Nat
  BY DivMod
<1>2. KernelBase = TableSize * (KernelBase \div TableSize) + (KernelBase % TableSize) /\ KernelBase \div TableSize \in Nat
  BY DivMod
<1>3. \A n \in Nat : TableSize * n + 0 = TableSize * n
  OBVIOUS
<1> QED BY <1>1, <1>2, <1>3

\* directMapEnd and nextVaddr may be 0 after the wrap, but never in between.
LEMMA WrapFacts ==
    ASSUME NEW n \in Nat, n <= NPages
    PROVE  n % NPages = IF n = NPages THEN 0 ELSE n
<1> NPages \in Nat \ {0}
  BY LayoutFacts
<1>1. CASE n = NPages
  BY <1>1
<1>2. CASE n # NPages
  BY <1>2
<1> QED BY <1>1, <1>2

\* A page is named by its directory index and its table index.
LEMMA IndexTypes ==
    ASSUME NEW v \in VPage
    PROVE  PdIndex(v) \in PdIndices /\ PtIndex(v) \in TableIndex
<1> v \in Nat /\ v < NPages
  BY LayoutFacts DEF VPage
<1>1. /\ v \div TableSize \in Nat /\ v % TableSize \in Nat /\ v % TableSize < TableSize
      /\ v = TableSize * (v \div TableSize) + (v % TableSize)
  BY DivMod, LayoutFacts
<1>2. v \div TableSize <= NPages \div TableSize - 1
  <2> SUFFICES ASSUME NPages \div TableSize <= v \div TableSize PROVE FALSE
    BY <1>1, LayoutFacts
  <2>1. TableSize * (NPages \div TableSize) <= TableSize * (v \div TableSize)
    BY MulMono, <1>1, LayoutFacts
  <2>2. TableSize * (v \div TableSize) <= v
    BY <1>1, LayoutFacts
  <2> QED BY <2>1, <2>2, LayoutFacts
<1> QED BY <1>1, <1>2, LayoutFacts DEF PdIndex, PtIndex, PdIndices, TableIndex

\* Two pages with the same indices are one page.
LEMMA IndexInjective ==
    ASSUME NEW v \in VPage, NEW w \in VPage,
           PdIndex(v) = PdIndex(w), PtIndex(v) = PtIndex(w)
    PROVE  v = w
<1>1. v \in Nat /\ w \in Nat /\ TableSize \in Nat \ {0}
  BY LayoutFacts DEF VPage
<1> QED BY <1>1, DivMod DEF PdIndex, PtIndex

\* The two halves share no page table.
LEMMA IndexHalves ==
    ASSUME NEW v \in VPage
    PROVE  v < KernelBase <=> PdIndex(v) < PdIndex(KernelBase)
<1> v \in Nat /\ v < NPages
  BY LayoutFacts DEF VPage
<1> DEFINE q == v \div TableSize
           k == KernelBase \div TableSize
<1>1. /\ q \in Nat /\ v % TableSize \in Nat /\ v % TableSize < TableSize
      /\ v = TableSize * q + (v % TableSize)
  BY DivMod, LayoutFacts
<1>2. k \in Nat /\ KernelBase = TableSize * k
  BY LayoutFacts
<1> TableSize \in Nat \ {0}
  BY LayoutFacts
<1> HIDE DEF q, k
<1>3. ASSUME q < k PROVE v < KernelBase
  <2>1. TableSize * (q + 1) <= TableSize * k
    BY MulMono, <1>1, <1>2, <1>3
  <2>2. TableSize * (q + 1) = TableSize * q + TableSize
    BY <1>1
  <2> QED BY <2>1, <2>2, <1>1, <1>2
<1>4. ASSUME k <= q PROVE KernelBase <= v
  <2>1. TableSize * k <= TableSize * q
    BY MulMono, <1>1, <1>2, <1>4
  <2> QED BY <2>1, <1>1, <1>2
<1> QED BY <1>1, <1>2, <1>3, <1>4, LayoutFacts DEF PdIndex, q, k

-----------------------------------------------------------------------------
\* The tables as the processor walks them: the frame of each page, the pages
\* with the U/S bit, and the frame of each page table.
Map == [v \in VPage |-> Walk(v)]
UserBits == {v \in VPage : Pte(v) # None /\ Pte(v).user}
TableOf == [d \in PdIndices |-> IF pd[d] = None THEN None ELSE pd[d].frame]

\* What the proofs need of MemoryFits: no managed frame is beyond the direct
\* map, which ends below the heap.
Fits ==
    /\ Managed \subseteq 0..(MapEnd - 1)
    /\ MapEnd <= NFrames
    /\ KernelBase + MapEnd <= KheapStart

\* The part of TypeOK that is about the tables.
MemoryTyped ==
    /\ pd \in [PdIndices -> PTE \cup {None}]
    /\ mem \in [Frame -> [TableIndex -> PTE \cup {None}]]
    /\ avail \subseteq Managed

\* Page tables are taken frames, a frame for each.
TablesSound ==
    /\ \A d \in PdIndices : TableOf[d] # None => TableOf[d] \in Managed \ avail
    /\ \A d, e \in PdIndices : d # e /\ TableOf[d] # None => TableOf[d] # TableOf[e]

\* The kernel reaches every managed frame through PHYS_TO_VIRT.
Reach == \A f \in Managed : Target(f) = f

\* Entries are none of the absent ones, and hold what was put in.
LEMMA EntryFacts ==
    /\ None \notin PTE /\ None \notin Frame
    /\ \A p \in PTE : p.frame \in Frame /\ p.user \in BOOLEAN
    /\ \A f \in Frame, u \in BOOLEAN :
          Entry(f, u) \in PTE /\ Entry(f, u).frame = f /\ Entry(f, u).user = u
    /\ Managed \subseteq Frame
  BY NoneAssumption, PoolAssumption DEF PTE, Entry, Frame

\* What vmm_map_page does to the tables.
MapPageDone(v, f, u, pool) ==
    /\ Map' = [Map EXCEPT ![v] = f]
    /\ UserBits' = IF u THEN UserBits \cup {v} ELSE UserBits \ {v}
    /\ \/ TableOf' = TableOf /\ avail' = pool
       \/ \E t \in pool :
             /\ TableOf[PdIndex(v)] = None
             /\ TableOf' = [TableOf EXCEPT ![PdIndex(v)] = t]
             /\ avail' = pool \ {t}
    /\ tlb' = Invlpg(v)
    /\ MemoryTyped'

\* vmm_map_page changes the entry of its page, and at most one table, even
\* though it writes through the map that it edits.
LEMMA MapPageEffect ==
    ASSUME MemoryTyped, TablesSound, Reach,
           NEW v \in VPage, NEW f \in Frame, NEW u \in BOOLEAN,
           NEW pool \in SUBSET avail, MapPage(v, f, u, pool)
    PROVE  MapPageDone(v, f, u, pool)
<1> DEFINE d == PdIndex(v)
           n == NeedsTable(v)
<1>0. d \in PdIndices /\ PtIndex(v) \in TableIndex
  BY IndexTypes
<1>t. PICK t \in TableChoice(v, pool) :
       /\ Target(t) # None
       /\ pd' = [pd EXCEPT ![PdIndex(v)] =
                    Entry(t, u \/ (~NeedsTable(v) /\ pd[PdIndex(v)].user))]
       /\ mem' = [mem EXCEPT ![Target(t)] =
                    [(IF NeedsTable(v) THEN Zeroed ELSE mem[Target(t)])
                        EXCEPT ![PtIndex(v)] = Entry(f, u)]]
       /\ avail' = IF NeedsTable(v) THEN pool \ {t} ELSE pool
       /\ tlb' = Invlpg(v)
  BY DEF MapPage
<1>1. pd \in [PdIndices -> PTE \cup {None}] /\ mem \in [Frame -> [TableIndex -> PTE \cup {None}]]
      /\ avail \subseteq Managed
  BY DEF MemoryTyped
<1>2. /\ t \in Frame /\ Target(t) = t
      /\ n => t \in pool
      /\ ~n => pd[d] \in PTE /\ t = pd[d].frame
  <2>1. CASE n
    <3>1. pool \in SUBSET Managed
      BY <1>1
    <3>2. t \in AllocChoice(pool)
      BY <2>1, <1>t DEF TableChoice
    <3>3. t \in pool
      BY <3>1, <3>2, PoolAssumption
    <3> QED BY <2>1, <3>1, <3>3, EntryFacts DEF Reach
  <2>2. CASE ~n
    <3>1. t = pd[d].frame
      BY <2>2, <1>t DEF TableChoice
    <3>2. pd[d] # None /\ pd[d] \in PTE
      BY <1>0, <1>1, <2>2 DEF NeedsTable
    <3>3. t \in Managed
      BY <1>0, <3>1, <3>2, EntryFacts DEF TablesSound, TableOf
    <3> QED BY <2>2, <3>1, <3>2, <3>3, EntryFacts DEF Reach
  <2> QED BY <2>1, <2>2
<1>3. \A e \in PdIndices : e # d /\ pd[e] # None => pd[e].frame # t
  <2>1. CASE n
    BY <2>1, <1>1, <1>2, EntryFacts DEF TablesSound, TableOf
  <2>2. CASE ~n
    BY <2>2, <1>0, <1>2, EntryFacts DEF TablesSound, TableOf
  <2> QED BY <2>1, <2>2
<1> DEFINE row == IF n THEN Zeroed ELSE mem[t]
           b == u \/ (~n /\ pd[d].user)
<1>4. /\ row \in [TableIndex -> PTE \cup {None}]
      /\ b \in BOOLEAN
      /\ pd' = [pd EXCEPT ![d] = Entry(t, b)]
      /\ mem' = [mem EXCEPT ![t] = [row EXCEPT ![PtIndex(v)] = Entry(f, u)]]
  <2>1. Zeroed \in [TableIndex -> PTE \cup {None}]
    BY DEF Zeroed
  <2>2. ~n => pd[d].user \in BOOLEAN
    BY <1>2, EntryFacts
  <2>3. row \in [TableIndex -> PTE \cup {None}]
    BY <2>1, <1>1, <1>2
  <2>4. b \in BOOLEAN
    BY <2>2
  <2>5. Target(t) = t
    BY <1>2
  <2> QED BY <2>3, <2>4, <2>5, <1>t
<1>5. /\ pd'[d] = Entry(t, b)
      /\ \A e \in PdIndices : e # d => pd'[e] = pd[e]
      /\ mem'[t][PtIndex(v)] = Entry(f, u)
      /\ \A x \in TableIndex : x # PtIndex(v) => mem'[t][x] = row[x]
      /\ \A g \in Frame : g # t => mem'[g] = mem[g]
  BY <1>0, <1>1, <1>2, <1>4
<1>6. MemoryTyped'
  <2>1. pd' \in [PdIndices -> PTE \cup {None}]
    <3>1. Entry(t, b) \in PTE
      BY <1>2, <1>4, EntryFacts
    <3> QED BY <3>1, <1>1, <1>4
  <2>2. mem' \in [Frame -> [TableIndex -> PTE \cup {None}]]
    <3>1. [row EXCEPT ![PtIndex(v)] = Entry(f, u)] \in [TableIndex -> PTE \cup {None}]
      <4>1. Entry(f, u) \in PTE
        BY EntryFacts
      <4> HIDE DEF row
      <4> QED BY <4>1, <1>4
    <3> HIDE DEF row
    <3> QED BY <3>1, <1>1, <1>4
  <2>3. avail' \subseteq Managed
    BY <1>1, <1>t
  <2> QED BY <2>1, <2>2, <2>3 DEF MemoryTyped
<1>7. /\ Pte(v)' = Entry(f, u)
      /\ \A w \in VPage : w # v => Pte(w)' = Pte(w)
  <2>1. Pte(v)' = Entry(f, u)
    BY <1>0, <1>2, <1>5, EntryFacts DEF Pte
  <2>2. ASSUME NEW w \in VPage, w # v PROVE Pte(w)' = Pte(w)
    <3>0. PdIndex(w) \in PdIndices /\ PtIndex(w) \in TableIndex
      BY IndexTypes
    <3>1. CASE PdIndex(w) # d
      <4>1. pd'[PdIndex(w)] = pd[PdIndex(w)]
        BY <3>0, <3>1, <1>5
      <4>2. CASE pd[PdIndex(w)] = None
        BY <4>1, <4>2 DEF Pte
      <4>3. CASE pd[PdIndex(w)] # None
        <5>1. pd[PdIndex(w)].frame \in Frame /\ pd[PdIndex(w)].frame # t
          BY <4>3, <3>0, <3>1, <1>1, <1>3, EntryFacts
        <5>2. mem'[pd[PdIndex(w)].frame] = mem[pd[PdIndex(w)].frame]
          BY <5>1, <1>5
        <5> QED BY <5>2, <4>1, <4>3 DEF Pte
      <4> QED BY <4>2, <4>3
    <3>2. CASE PdIndex(w) = d
      <4>1. PtIndex(w) # PtIndex(v)
        BY <3>2, <2>2, IndexInjective
      <4>2. Pte(w)' = row[PtIndex(w)]
        BY <3>0, <3>2, <4>1, <1>2, <1>5, EntryFacts DEF Pte
      <4>3. Pte(w) = row[PtIndex(w)]
        BY <3>0, <3>2, <1>2, EntryFacts DEF Pte, Zeroed, NeedsTable
      <4> QED BY <4>2, <4>3
    <3> QED BY <3>1, <3>2
  <2> QED BY <2>1, <2>2
<1>8. Map' = [Map EXCEPT ![v] = f]
  <2>1. Walk(v)' = f
    BY <1>7, EntryFacts DEF Walk
  <2>2. \A w \in VPage : w # v => Walk(w)' = Walk(w)
    BY <1>7 DEF Walk
  <2> QED BY <2>1, <2>2 DEF Map
<1>9. UserBits' = IF u THEN UserBits \cup {v} ELSE UserBits \ {v}
  BY <1>7, EntryFacts DEF UserBits
<1>10. CASE n
  <2>1. TableOf[d] = None
    BY <1>0, <1>10 DEF TableOf, NeedsTable
  <2>2. TableOf' = [TableOf EXCEPT ![d] = t]
    <3>1. pd'[d] # None /\ pd'[d].frame = t
      BY <1>2, <1>5, <1>4, EntryFacts
    <3> QED BY <1>0, <1>5, <3>1 DEF TableOf
  <2> QED BY <1>t, <1>2, <1>6, <1>8, <1>9, <1>10, <2>1, <2>2 DEF MapPageDone
<1>11. CASE ~n
  <2>1. TableOf' = TableOf
    BY <1>0, <1>2, <1>5, <1>11, EntryFacts DEF TableOf
  <2> QED BY <1>t, <1>6, <1>8, <1>9, <1>11, <2>1 DEF MapPageDone
<1> QED BY <1>10, <1>11

\* What vmm_unmap_page does to the tables.
UnmapPageDone(v) ==
    /\ Map' = [Map EXCEPT ![v] = None]
    /\ UserBits' = UserBits \ {v}
    /\ TableOf' = TableOf
    /\ tlb' = Invlpg(v) \/ (tlb' = tlb /\ Map' = Map)
    /\ pd' \in [PdIndices -> PTE \cup {None}]
    /\ mem' \in [Frame -> [TableIndex -> PTE \cup {None}]]

\* vmm_unmap_page clears the entry of its page and no other.
LEMMA UnmapPageEffect ==
    ASSUME MemoryTyped, TablesSound, Reach, NEW v \in VPage, UnmapPage(v)
    PROVE  UnmapPageDone(v)
<1> DEFINE d == PdIndex(v)
<1>0. d \in PdIndices /\ PtIndex(v) \in TableIndex
  BY IndexTypes
<1>1. /\ pd \in [PdIndices -> PTE \cup {None}]
      /\ mem \in [Frame -> [TableIndex -> PTE \cup {None}]]
  BY DEF MemoryTyped
<1>2. CASE NeedsTable(v)
  <2>1. UNCHANGED <<pd, mem, tlb>>
    BY <1>2 DEF UnmapPage
  <2>2. Pte(v) = None /\ \A w : Pte(w)' = Pte(w)
    BY <1>2, <2>1 DEF NeedsTable, Pte
  <2>3. Map' = Map /\ Map = [Map EXCEPT ![v] = None]
    BY <2>2 DEF Map, Walk
  <2>4. UserBits' = UserBits /\ UserBits = UserBits \ {v}
    BY <2>2 DEF UserBits
  <2>5. TableOf' = TableOf
    BY <2>1 DEF TableOf
  <2> QED BY <1>1, <2>1, <2>3, <2>4, <2>5 DEF UnmapPageDone
<1>3. CASE ~NeedsTable(v)
  <2> DEFINE t == pd[d].frame
  <2>1. pd[d] # None /\ pd[d] \in PTE
    BY <1>0, <1>1, <1>3 DEF NeedsTable
  <2>2. t \in Frame /\ Target(t) = t
    BY <1>0, <2>1, EntryFacts DEF TablesSound, TableOf, Reach
  <2>3. mem' = [mem EXCEPT ![t][PtIndex(v)] = None] /\ tlb' = Invlpg(v) /\ pd' = pd
    BY <1>3, <2>2 DEF UnmapPage
  <2>4. ASSUME NEW e \in PdIndices, e # d, pd[e] # None PROVE pd[e].frame # t
    <3>1. TableOf[e] = pd[e].frame /\ TableOf[d] = t
      BY <1>0, <2>1, <2>4 DEF TableOf
    <3>2. pd[e].frame # None
      BY <1>1, <2>4, EntryFacts
    <3>3. t # None
      BY <2>1, EntryFacts
    <3> QED BY <1>0, <2>4, <3>1, <3>2, <3>3 DEF TablesSound
  <2>5. /\ mem'[t][PtIndex(v)] = None
        /\ \A x \in TableIndex : x # PtIndex(v) => mem'[t][x] = mem[t][x]
        /\ \A g \in Frame : g # t => mem'[g] = mem[g]
    BY <1>0, <1>1, <2>2, <2>3
  <2>6. mem' \in [Frame -> [TableIndex -> PTE \cup {None}]]
    BY <1>1, <2>2, <2>3
  <2>7. Pte(v)' = None
    BY <2>1, <2>3, <2>5 DEF Pte
  <2>8. ASSUME NEW w \in VPage, w # v PROVE Pte(w)' = Pte(w)
    <3>0. PdIndex(w) \in PdIndices /\ PtIndex(w) \in TableIndex
      BY IndexTypes
    <3>1. CASE PdIndex(w) # d
      <4>1. CASE pd[PdIndex(w)] = None
        BY <2>3, <4>1 DEF Pte
      <4>2. CASE pd[PdIndex(w)] # None
        <5>1. pd[PdIndex(w)].frame \in Frame /\ pd[PdIndex(w)].frame # t
          BY <3>0, <3>1, <4>2, <1>1, <2>4, EntryFacts
        <5>2. mem'[pd[PdIndex(w)].frame] = mem[pd[PdIndex(w)].frame]
          BY <5>1, <2>5
        <5> QED BY <5>2, <2>3 DEF Pte
      <4> QED BY <4>1, <4>2
    <3>2. CASE PdIndex(w) = d
      <4>1. PtIndex(w) # PtIndex(v)
        BY <3>2, <2>8, IndexInjective
      <4> QED BY <3>0, <3>2, <4>1, <2>3, <2>5 DEF Pte
    <3> QED BY <3>1, <3>2
  <2>9. Map' = [Map EXCEPT ![v] = None]
    <3>1. Walk(v)' = None
      BY <2>7 DEF Walk
    <3>2. \A w \in VPage : w # v => Walk(w)' = Walk(w)
      BY <2>8 DEF Walk
    <3> QED BY <3>1, <3>2 DEF Map
  <2>10. UserBits' = UserBits \ {v}
    BY <2>7, <2>8 DEF UserBits
  <2>11. TableOf' = TableOf
    BY <2>3 DEF TableOf
  <2>12. pd' \in [PdIndices -> PTE \cup {None}]
    BY <1>1, <2>3
  <2>13. tlb' = Invlpg(v)
    BY <2>3
  <2>14. tlb' = Invlpg(v) \/ (tlb' = tlb /\ Map' = Map)
    BY <2>13
  <2> HIDE DEF t, d
  <2> QED BY <2>6, <2>9, <2>10, <2>11, <2>12, <2>14 DEF UnmapPageDone
<1> QED BY <1>2, <1>3

\* vmm_get_physical reads what the processor walks.
LEMMA GetPhysicalIsWalk ==
    ASSUME MemoryTyped, TablesSound, Reach, NEW v \in VPage
    PROVE  GetPhysical(v) = Map[v]
<1>0. PdIndex(v) \in PdIndices
  BY IndexTypes
<1>1. CASE NeedsTable(v)
  BY <1>1 DEF GetPhysical, NeedsTable, Map, Walk, Pte
<1>2. CASE ~NeedsTable(v)
  <2>1. pd[PdIndex(v)] # None /\ pd[PdIndex(v)] \in PTE
    BY <1>0, <1>2 DEF NeedsTable, MemoryTyped
  <2>2. Target(pd[PdIndex(v)].frame) = pd[PdIndex(v)].frame
    BY <1>0, <2>1, EntryFacts DEF TablesSound, TableOf, Reach
  <2> QED BY <1>2, <2>1, <2>2 DEF GetPhysical, Map, Walk, Pte
<1> QED BY <1>1, <1>2

\* What the walk finds is a frame or nothing.
LEMMA MapTyped ==
    ASSUME MemoryTyped
    PROVE  /\ Map \in [VPage -> Frame \cup {None}]
           /\ TableOf \in [PdIndices -> Frame \cup {None}]
           /\ UserBits \subseteq VPage
<1>1. ASSUME NEW v \in VPage PROVE Walk(v) \in Frame \cup {None}
  <2>1. PdIndex(v) \in PdIndices /\ PtIndex(v) \in TableIndex
    BY IndexTypes
  <2>2. Pte(v) \in PTE \cup {None}
    BY <2>1, EntryFacts DEF MemoryTyped, Pte
  <2> QED BY <2>2, EntryFacts DEF Walk
<1>2. ASSUME NEW d \in PdIndices PROVE TableOf[d] \in Frame \cup {None}
  BY EntryFacts DEF MemoryTyped, TableOf
<1> QED BY <1>1, <1>2 DEF Map, TableOf, UserBits

\* The direct map ends in the address space, and the low half is as large.
LEMMA MapEndFacts ==
    /\ MapEnd \in Nat /\ MapEnd <= MaxMap /\ MaxMap \in Nat
    /\ KernelBase + MapEnd <= NPages /\ MapEnd <= KernelBase
<1>1. /\ KernelEnd \in Nat /\ MinMap \in Nat /\ ManagedBase + TotalPages \in Nat
      /\ KernelBase \in Nat /\ NPages \in Nat /\ KernelBase < NPages
      /\ MaxMap <= KernelBase
  BY LayoutAssumption
<1> DEFINE e == (ManagedBase + TotalPages) % NPages
<1>0. e \in Nat
  BY <1>1, DivMod
<1> HIDE DEF e
<1>2. MaxMap \in Nat /\ KernelBase + MaxMap = NPages
  BY <1>1 DEF MaxMap
<1>3. \A a, b \in Nat : Larger(a, b) \in Nat
  BY DEF Larger
<1>4. \A a, b \in Nat : Smaller(a, b) \in Nat /\ Smaller(a, b) <= b
  BY DEF Smaller
<1>5. Larger(Larger(KernelEnd, MinMap), e) \in Nat
  BY <1>0, <1>1, <1>3
<1>6. MapEnd \in Nat /\ MapEnd <= MaxMap
  BY <1>2, <1>4, <1>5 DEF MapEnd, e
<1> QED BY <1>1, <1>2, <1>6

\* MapEnd is the largest of the three ends unless the address space cuts it.
LEMMA FitsFacts == MemoryFits => Fits
<1> SUFFICES ASSUME MemoryFits PROVE Fits
  OBVIOUS
<1> DEFINE e == ManagedBase + TotalPages
<1>1. /\ KernelEnd \in Nat /\ MinMap \in Nat /\ ManagedBase \in Nat /\ e \in Nat
      /\ KernelBase \in Nat /\ NPages \in Nat /\ NFrames \in Nat /\ TotalPages \in Nat
      /\ KheapStart \in Nat /\ KheapStart <= NPages
  BY LayoutAssumption
<1>2. /\ KernelEnd <= NFrames /\ MinMap <= NFrames /\ e <= NFrames
      /\ KernelBase + KernelEnd <= KheapStart /\ KernelBase + MinMap <= KheapStart
      /\ KernelBase + e <= KheapStart
  BY DEF MemoryFits
<1>3. PICK l \in {KernelEnd, MinMap, e} : l = Larger(Larger(KernelEnd, MinMap), e) /\ e <= l
  BY <1>1 DEF Larger
<1>4. MapEnd = l
  <2>1. l \in Nat /\ l <= MaxMap
    BY <1>1, <1>2, <1>3 DEF MaxMap
  <2>2. e < NPages
    <3>1. KernelBase # 0
      BY LayoutAssumption DEF MaxMap
    <3> QED BY <3>1, <1>1, <1>2
  <2> HIDE DEF e
  <2>3. e % NPages = e
    BY <2>2, <1>1, WrapFacts
  <2>4. MapEnd = Smaller(l, MaxMap)
    BY <1>3, <2>3 DEF MapEnd, e
  <2> QED BY <1>1, <2>1, <2>4 DEF Smaller, MaxMap
<1>5. MapEnd <= NFrames /\ KernelBase + MapEnd <= KheapStart
  BY <1>2, <1>3, <1>4
<1>6. Managed \subseteq 0..(MapEnd - 1)
  BY <1>1, <1>3, <1>4 DEF MemoryFits
<1> QED BY <1>5, <1>6 DEF Fits, MemoryFits

\* PHYS_TO_VIRT works: over the map of boot.asm before CR3 is loaded, over the
\* direct map from then on.
LEMMA ReachHolds ==
    ASSUME Fits, ready => \A f \in 0..(MapEnd - 1) : Map[KernelBase + f] = f
    PROVE  Reach
<1> SUFFICES ASSUME NEW f \in Managed PROVE Target(f) = f
  BY DEF Reach
<1>1. f \in 0..(MapEnd - 1)
  BY DEF Fits
<1>2. /\ KernelBase + f \in Nat /\ KernelBase + f < NPages /\ f \in Nat
      /\ KernelBase \in Nat /\ NPages \in Nat
  BY <1>1, MapEndFacts, LayoutFacts
<1>3. PhysToVirt(f) = KernelBase + f
  BY <1>2 DEF PhysToVirt
<1>4. CASE ready
  <2>1. KernelBase + f \in VPage
    BY <1>2 DEF VPage
  <2> QED BY <1>1, <1>3, <1>4, <2>1 DEF Target, Active, Map
<1>5. CASE ~ready
  BY <1>2, <1>3, <1>5 DEF Target, Active, BootWalk
<1> QED BY <1>4, <1>5

-----------------------------------------------------------------------------
(* Where every frame of the pool is *)

\* Each managed frame is in one place: free (A), lost (D), a page table (T), or
\* behind one of the owned pages O of the map W.
Account(O, W, T, A, D) ==
    /\ \A d \in PdIndices : T[d] # None => T[d] \in Managed \ (A \cup D)
    /\ \A d, e \in PdIndices : d # e /\ T[d] # None => T[d] # T[e]
    /\ \A v \in O : W[v] # None =>
          W[v] \in Managed \ (A \cup D) /\ \A d \in PdIndices : T[d] # W[v]
    /\ \A v, w \in O : v # w /\ W[v] # None => W[v] # W[w]
    /\ A \cap D = {}
    /\ \A f \in Managed : \/ f \in A \cup D
                          \/ \E d \in PdIndices : T[d] = f
                          \/ \E v \in O : W[v] = f

\* A free frame becomes a page table.
LEMMA AccountTable ==
    ASSUME NEW O, NEW W, NEW T, NEW A, NEW D, Account(O, W, T, A, D),
           A \subseteq Managed, T = [d \in PdIndices |-> T[d]],
           NEW d \in PdIndices, T[d] = None, NEW t \in A
    PROVE  Account(O, W, [T EXCEPT ![d] = t], A \ {t}, D)
<1> DEFINE T2 == [T EXCEPT ![d] = t]
<1>1. T2[d] = t /\ \A e \in PdIndices : e # d => T2[e] = T[e]
  OBVIOUS
<1>2. t \in Managed /\ t # None /\ t \notin D
  BY EntryFacts DEF Account
<1> HIDE DEF T2
<1>3. \A e \in PdIndices : T2[e] # None => T2[e] \in Managed \ ((A \ {t}) \cup D)
  BY <1>1, <1>2 DEF Account
<1>4. \A e, g \in PdIndices : e # g /\ T2[e] # None => T2[e] # T2[g]
  BY <1>1, <1>2 DEF Account
<1>5. \A v \in O : W[v] # None =>
          W[v] \in Managed \ ((A \ {t}) \cup D) /\ \A e \in PdIndices : T2[e] # W[v]
  BY <1>1 DEF Account
<1>6. \A v, w \in O : v # w /\ W[v] # None => W[v] # W[w]
  BY DEF Account
<1>7. \A f \in Managed : \/ f \in (A \ {t}) \cup D
                         \/ \E e \in PdIndices : T2[e] = f
                         \/ \E v \in O : W[v] = f
  <2> SUFFICES ASSUME NEW f \in Managed, f \notin (A \ {t}) \cup D,
                      ~\E v \in O : W[v] = f
               PROVE  \E e \in PdIndices : T2[e] = f
    OBVIOUS
  <2>1. CASE f = t
    BY <1>1, <2>1
  <2>2. CASE f # t
    <3>1. PICK e \in PdIndices : T[e] = f
      BY <2>2 DEF Account
    <3>2. e # d
      BY <3>1, EntryFacts
    <3> QED BY <1>1, <3>1, <3>2
  <2> QED BY <2>1, <2>2
<1>8. (A \ {t}) \cap D = {}
  BY DEF Account
<1>9. Account(O, W, T2, A \ {t}, D)
  BY <1>3, <1>4, <1>5, <1>6, <1>7, <1>8 DEF Account
<1> QED BY <1>9 DEF T2

\* A free frame goes behind an owned page.
LEMMA AccountMap ==
    ASSUME NEW O, NEW W, NEW T, NEW A, NEW D, Account(O, W, T, A, D),
           A \subseteq Managed, O \subseteq VPage, W = [v \in VPage |-> W[v]],
           NEW v \in O, W[v] = None, NEW f \in A
    PROVE  Account(O, [W EXCEPT ![v] = f], T, A \ {f}, D)
<1> DEFINE W2 == [W EXCEPT ![v] = f]
<1>1. W2[v] = f /\ \A w \in O : w # v => W2[w] = W[w]
  OBVIOUS
<1>2. f \in Managed /\ f # None /\ f \notin D /\ \A d \in PdIndices : T[d] # f
  BY EntryFacts DEF Account
<1> HIDE DEF W2
<1>3. \A w \in O : W2[w] # None =>
          W2[w] \in Managed \ ((A \ {f}) \cup D) /\ \A d \in PdIndices : T[d] # W2[w]
  BY <1>1, <1>2 DEF Account
<1>4. \A u, w \in O : u # w /\ W2[u] # None => W2[u] # W2[w]
  BY <1>1, <1>2 DEF Account
<1>5. \A g \in Managed : \/ g \in (A \ {f}) \cup D
                         \/ \E d \in PdIndices : T[d] = g
                         \/ \E w \in O : W2[w] = g
  BY <1>1, EntryFacts DEF Account
<1>6. Account(O, W2, T, A \ {f}, D)
  BY <1>3, <1>4, <1>5 DEF Account
<1> QED BY <1>6 DEF W2

\* An owned page is unmapped and its frame freed.
LEMMA AccountUnmap ==
    ASSUME NEW O, NEW W, NEW T, NEW A, NEW D, Account(O, W, T, A, D),
           A \subseteq Managed, O \subseteq VPage, W = [v \in VPage |-> W[v]],
           NEW v \in O, W[v] # None
    PROVE  /\ Account(O, [W EXCEPT ![v] = None], T, A \cup {W[v]}, D)
           /\ W[v] \in Managed
<1> DEFINE W2 == [W EXCEPT ![v] = None]
<1>1. W2[v] = None /\ \A w \in O : w # v => W2[w] = W[w]
  OBVIOUS
<1>2. /\ W[v] \in Managed /\ W[v] # None /\ W[v] \notin D
      /\ \A d \in PdIndices : T[d] # W[v]
      /\ \A w \in O : w # v => W[w] # W[v]
  BY EntryFacts DEF Account
<1> HIDE DEF W2
<1>3. \A w \in O : W2[w] # None =>
          /\ W2[w] \in Managed \ ((A \cup {W[v]}) \cup D)
          /\ \A d \in PdIndices : T[d] # W2[w]
  BY <1>1, <1>2 DEF Account
<1>4. \A u, w \in O : u # w /\ W2[u] # None => W2[u] # W2[w]
  BY <1>1, <1>2 DEF Account
<1>5. \A g \in Managed : \/ g \in (A \cup {W[v]}) \cup D
                         \/ \E d \in PdIndices : T[d] = g
                         \/ \E w \in O : W2[w] = g
  BY <1>1, EntryFacts DEF Account
<1>6. \A d \in PdIndices : T[d] # None => T[d] \in Managed \ ((A \cup {W[v]}) \cup D)
  BY <1>2 DEF Account
<1>7. Account(O, W2, T, A \cup {W[v]}, D)
  BY <1>2, <1>3, <1>4, <1>5, <1>6 DEF Account
<1> QED BY <1>2, <1>7 DEF W2

\* Frames lost on purpose.
LEMMA AccountDrop ==
    ASSUME NEW O, NEW W, NEW T, NEW A, NEW D, Account(O, W, T, A, D), NEW f \in A
    PROVE  Account(O, W, T, A \ {f}, D \cup {f})
  BY DEF Account

\* The entry of an owned page is overwritten.
LEMMA AccountForgetPage ==
    ASSUME NEW O, NEW W, NEW T, NEW A, NEW D, Account(O, W, T, A, D),
           A \subseteq Managed, O \subseteq VPage, W = [v \in VPage |-> W[v]], NEW v \in O
    PROVE  /\ Account(O, [W EXCEPT ![v] = None], T, A, D \cup ({W[v]} \ {None}))
           /\ {W[v]} \ {None} \subseteq Managed
<1>1. CASE W[v] = None
  <2>1. [W EXCEPT ![v] = None] = W /\ {W[v]} \ {None} = {}
    BY <1>1
  <2> QED BY <2>1
<1>2. CASE W[v] # None
  <2>1. /\ Account(O, [W EXCEPT ![v] = None], T, A \cup {W[v]}, D)
        /\ W[v] \in Managed /\ W[v] \notin A
    <3>1. W[v] \notin A
      BY <1>2 DEF Account
    <3> QED BY <1>2, <3>1, AccountUnmap
  <2>2. Account(O, [W EXCEPT ![v] = None], T, (A \cup {W[v]}) \ {W[v]}, D \cup {W[v]})
    BY <2>1, AccountDrop
  <2>3. (A \cup {W[v]}) \ {W[v]} = A /\ {W[v]} \ {None} = {W[v]}
    BY <1>2, <2>1
  <2> QED BY <2>1, <2>2, <2>3
<1> QED BY <1>1, <1>2

\* Other owners, other pages: what counts is what the owned pages map.
LEMMA AccountOwners ==
    ASSUME NEW O, NEW W, NEW T, NEW A, NEW D, Account(O, W, T, A, D),
           NEW O2, NEW W2,
           \A v \in O : W[v] # None => v \in O2,
           \A v \in O2 : IF v \in O THEN W2[v] = W[v] ELSE W2[v] = None
    PROVE  Account(O2, W2, T, A, D)
<1>1. \A v \in O2 : W2[v] # None => v \in O /\ W2[v] = W[v]
  OBVIOUS
<1>2. \A v \in O : W[v] # None => v \in O2 /\ W2[v] = W[v]
  OBVIOUS
<1>3. \A v \in O2 : W2[v] # None =>
          W2[v] \in Managed \ (A \cup D) /\ \A d \in PdIndices : T[d] # W2[v]
  BY <1>1 DEF Account
<1>4. \A v, w \in O2 : v # w /\ W2[v] # None => W2[v] # W2[w]
  BY <1>1 DEF Account
<1>5. \A f \in Managed : \/ f \in A \cup D
                         \/ \E d \in PdIndices : T[d] = f
                         \/ \E v \in O2 : W2[v] = f
  BY <1>2, EntryFacts DEF Account
<1> QED BY <1>3, <1>4, <1>5 DEF Account

\* Tables are forgotten.
LEMMA AccountForgetTables ==
    ASSUME NEW O, NEW W, NEW T, NEW A, NEW D, Account(O, W, T, A, D),
           T = [d \in PdIndices |-> T[d]],
           NEW L \in SUBSET PdIndices, \A d \in L : T[d] # None
    PROVE  /\ Account(O, W, [d \in PdIndices |-> IF d \in L THEN None ELSE T[d]],
                      A, D \cup {T[d] : d \in L})
           /\ {T[d] : d \in L} \subseteq Managed
<1> DEFINE T2 == [d \in PdIndices |-> IF d \in L THEN None ELSE T[d]]
           D2 == D \cup {T[d] : d \in L}
<1>0. /\ \A d \in PdIndices : d \in L => T2[d] = None
      /\ \A d \in PdIndices : d \notin L => T2[d] = T[d]
  OBVIOUS
<1>1. \A f : f \in D2 <=> f \in D \/ \E d \in L : f = T[d]
  OBVIOUS
<1> HIDE DEF T2, D2
<1>2. \A d \in PdIndices : T2[d] # None => T2[d] \in Managed \ (A \cup D2)
  BY <1>0, <1>1 DEF Account
<1>3. \A d, e \in PdIndices : d # e /\ T2[d] # None => T2[d] # T2[e]
  BY <1>0 DEF Account
<1>4. \A v \in O : W[v] # None =>
          W[v] \in Managed \ (A \cup D2) /\ \A d \in PdIndices : T2[d] # W[v]
  BY <1>0, <1>1 DEF Account
<1>5. A \cap D2 = {}
  BY <1>1 DEF Account
<1>6. \A f \in Managed : \/ f \in A \cup D2
                         \/ \E d \in PdIndices : T2[d] = f
                         \/ \E v \in O : W[v] = f
  BY <1>0, <1>1 DEF Account
<1>7. Account(O, W, T2, A, D2)
  BY <1>2, <1>3, <1>4, <1>5, <1>6 DEF Account
<1>8. {T[d] : d \in L} \subseteq Managed
  BY DEF Account
<1> QED BY <1>7, <1>8 DEF T2, D2

-----------------------------------------------------------------------------
(* The inductive invariant *)

\* The pages of the heap; the runs, the one in the making included; the pages
\* whose frames are accounted for; and where the kernel is.
HeapRange == KheapStart..(KheapStart + KheapPages - 1)
Runs == live \cup Running
Owners == IF Up THEN RunPages(Runs) \cup HeapRange \cup UserPages ELSE {}
Booting == pc \in {"map_low", "map_high"}
Busy == pc \in {"alloc", "rollback", "free"}

\* The rest of TypeOK.
RestTyped ==
    /\ pc \in PC /\ i \in Nat /\ call \in Run
    /\ ready \in BOOLEAN /\ nextVaddr \in VPage /\ directMapEnd \in VPage
    /\ vma \subseteq [start : 0..NPages, end : 0..NPages,
                      tag : {"direct-map", "kheap", "vmm-alloc", "user-code", "user-stack"}]
    /\ vmaReady \in BOOLEAN
    /\ heap \in [0..(KheapPages - 1) -> Frame \cup {None}] /\ heapReady \in BOOLEAN
    /\ live \subseteq Run /\ dropped \subseteq Managed

\* What has happened when the kernel is where it is.
PhaseInv ==
    /\ Booting => ~ready
    /\ ~ready => nextVaddr = 0 /\ directMapEnd = 0
    /\ ready => /\ directMapEnd = (KernelBase + MapEnd) % NPages
                /\ nextVaddr = 0 \/ KernelBase + MapEnd <= nextVaddr
    /\ ~ready /\ ~Booting => avail = {}
    /\ ~ready /\ pc \in {"kmalloc_init", "ring3"} => i = 0
    /\ pc = "unmap_identity" => i = 0
    /\ Busy => ready
    /\ vmaReady <=> pc \in {"idle", "alloc", "rollback", "free", "ring3", "halted"}
    /\ heapReady => pc \notin {"map_low", "map_high", "unmap_identity", "kmalloc_init"}
    /\ pc = "ring3" => i <= 2

\* The direct map grows with the loop, and stays.
DirectMapInv ==
    /\ Booting => i <= MapEnd /\ \A f \in 0..(i - 1) : Map[KernelBase + f] = f
    /\ pc = "map_high" => i < MapEnd
    /\ ready => \A f \in 0..(MapEnd - 1) : Map[KernelBase + f] = f

\* The kernel half maps nothing but the direct map, the heap and runs.
KernelHalfInv ==
    \A v \in VPage : v >= KernelBase /\ Map[v] # None =>
       v < KernelBase + MapEnd \/ v \in HeapRange \/ v \in RunPages(Runs)

\* Every frame of the pool has one use.  Some have lost it, if the bump pointer
\* has entered the heap.
LostBound(L) == nextVaddr <= KheapStart => L = {}
FramesInv ==
    \E L \in SUBSET Managed :
       LostBound(L) /\ Account(Owners, Map, TableOf, avail, dropped \cup L)

\* kmalloc_init's loop has mapped what it has passed and nothing yet of the
\* rest; a back end that was told of the heap has all of it that the bump
\* pointer has not passed.
HeapInv ==
    /\ pc \in {"map_low", "map_high", "unmap_identity"} =>
          \A v \in HeapRange : Map[v] = None
    /\ pc = "kmalloc_init" =>
          /\ i <= KheapPages
          /\ \A k \in 0..(KheapPages - 1) :
                IF k < i THEN Map[KheapStart + k] = heap[k] /\ heap[k] # None
                ELSE Map[KheapStart + k] = None
    /\ heapReady =>
          /\ \A k \in 0..(KheapPages - 1) :
                KheapStart + k >= nextVaddr =>
                   Map[KheapStart + k] = heap[k] /\ heap[k] # None
          /\ ~ready => KheapPages = 0

\* A run lies between the direct map and the bump pointer; runs do not meet.
RunPlaced(r, top) ==
    /\ r.count # 0 /\ KernelBase + MapEnd <= r.base
    /\ r.base + r.count <= top
Apart(q, r) == q.base + q.count <= r.base \/ r.base + r.count <= q.base

\* Runs of callers are backed in full; of the run in the making, the pages that
\* the loop of alloc has passed and those of the heap, and none that rollback or
\* free has passed.
RunInv ==
    /\ ~vmaReady => live = {}
    /\ \A r \in Runs : RunPlaced(r, nextVaddr)
    /\ \A q, r \in Runs : q # r => Apart(q, r)
    /\ Running \cap live = {}
    /\ \A v \in RunPages(live) : Map[v] # None
    /\ Busy => i <= call.count
    /\ pc = "alloc" =>
          \A k \in 0..(call.count - 1) :
             /\ k < i => Map[call.base + k] # None
             /\ k >= i /\ Map[call.base + k] # None => call.base + k \in HeapRange
    /\ pc \in {"rollback", "free"} =>
          \A k \in 0..(call.count - 1) : k < i => Map[call.base + k] = None

\* Only the pages of ring3_panic have the U/S bit.
UserInv == UserBits \subseteq UserPages

\* The TLB is empty or has one entry, which the tables have too.
TlbInv ==
    \/ tlb = {}
    \/ \E v \in VPage : Active(v) # None /\ tlb = {[page |-> v, frame |-> Active(v)]}

\* Until ring 3 is entered, areas are the two of kmain and those of runs.
RunArea(r) == Area(r.base, r.base + r.count, "vmm-alloc")
AreaInv ==
    /\ ~vmaReady => vma = {}
    /\ pc # "halted" =>
         \A a \in vma : \/ a = Area(KernelBase, directMapEnd, "direct-map")
                        \/ a = Area(KheapStart, KheapStart + KheapPages, "kheap")
                        \/ \E r \in live : a = RunArea(r)

\* The inductive invariant.
IInv ==
    /\ MemoryTyped /\ RestTyped /\ PhaseInv /\ DirectMapInv /\ KernelHalfInv
    /\ FramesInv /\ HeapInv /\ RunInv /\ UserInv /\ TlbInv /\ AreaInv

-----------------------------------------------------------------------------
(* Where pages are *)

\* Direct map, heap, user and shell pages lie apart.
LEMMA Geometry ==
    ASSUME Fits
    PROVE  /\ \A v \in HeapRange : v \in VPage /\ KernelBase + MapEnd <= v
           /\ \A v \in UserPages : v \in VPage /\ v < KernelBase
           /\ \A v \in ShellPages : v \in VPage /\ v < KernelBase /\ v \notin UserPages
           /\ \A f \in 0..(MapEnd - 1) :
                 /\ f \in VPage /\ f < KernelBase /\ f \in Frame
                 /\ KernelBase + f \in VPage /\ KernelBase + f \notin HeapRange
           /\ \A k \in 0..(KheapPages - 1) : KheapStart + k \in HeapRange
           /\ KernelBase \in Nat /\ MapEnd \in Nat /\ NPages \in Nat /\ KheapStart \in Nat
           /\ KheapPages \in Nat /\ KernelBase + MapEnd <= NPages
<1>1. /\ KernelBase \in Nat /\ MapEnd \in Nat /\ NPages \in Nat /\ KheapStart \in Nat
      /\ KheapPages \in Nat /\ KernelBase + MapEnd <= NPages /\ MapEnd <= KernelBase
      /\ KheapStart + KheapPages <= NPages /\ KernelBase + MapEnd <= KheapStart
      /\ MapEnd <= NFrames /\ NFrames \in Nat /\ KernelBase < NPages
  BY MapEndFacts, LayoutAssumption DEF Fits
<1>2. \A v \in HeapRange : v \in VPage /\ KernelBase + MapEnd <= v
  BY <1>1 DEF HeapRange, VPage
<1>3. \A v \in UserPages : v \in VPage /\ v < KernelBase
  BY <1>1, LayoutAssumption DEF UserPages, VPage
<1>4. \A v \in ShellPages : v \in VPage /\ v < KernelBase /\ v \notin UserPages
  BY <1>1, BoundsAssumption DEF UserPages, VPage
<1>5. \A f \in 0..(MapEnd - 1) :
         /\ f \in VPage /\ f < KernelBase /\ f \in Frame
         /\ KernelBase + f \in VPage /\ KernelBase + f \notin HeapRange
  BY <1>1 DEF HeapRange, VPage, Frame
<1>6. \A k \in 0..(KheapPages - 1) : KheapStart + k \in HeapRange
  BY <1>1 DEF HeapRange
<1> QED BY <1>1, <1>2, <1>3, <1>4, <1>5, <1>6

\* A page of some runs is a page of one of them.
LEMMA InRunPages ==
    ASSUME NEW R, NEW v
    PROVE  v \in RunPages(R) <=> \E r \in R : v \in Pages(r)
  BY DEF RunPages

\* Where a run lies.
LEMMA RunFacts ==
    ASSUME Fits, RestTyped, RunInv, NEW r \in Runs
    PROVE  /\ r \in Run /\ r.base \in Nat /\ r.count \in Nat /\ r.count # 0
           /\ KernelBase + MapEnd <= r.base
           /\ r.base + r.count <= nextVaddr /\ nextVaddr \in Nat /\ nextVaddr < NPages
           /\ \A v \in Pages(r) :
                 /\ v \in VPage /\ v \notin UserPages
                 /\ KernelBase + MapEnd <= v /\ v < nextVaddr
           /\ \A k \in 0..(r.count - 1) : r.base + k \in Pages(r)
<1>1. r \in Run
  BY DEF RestTyped, Runs, Running
<1>2. r.base \in Nat /\ r.count \in Nat
  BY <1>1 DEF Run, VPage
<1>3. /\ r.count # 0 /\ KernelBase + MapEnd <= r.base
      /\ r.base + r.count <= nextVaddr
  BY DEF RunInv, RunPlaced
<1>6. KernelBase \in Nat /\ MapEnd \in Nat /\ NPages \in Nat
  BY Geometry
<1>5. nextVaddr \in Nat /\ nextVaddr < NPages
  BY <1>6 DEF RestTyped, VPage
<1>8. ASSUME NEW v \in Pages(r)
      PROVE  /\ v \in VPage /\ v \notin UserPages
             /\ KernelBase + MapEnd <= v /\ v < nextVaddr
  <2>1. v \in Nat /\ r.base <= v /\ v < r.base + r.count
    BY <1>2, <1>3, <1>6 DEF Pages
  <2>2. v \in VPage
    BY <2>1, <1>2, <1>3, <1>5, <1>6 DEF VPage
  <2>4. v \notin UserPages
    <3>1. KernelBase <= v
      BY <2>1, <1>2, <1>3, <1>6
    <3> QED BY <3>1, <2>1, <1>6, Geometry
  <2> QED BY <2>1, <2>2, <2>4, <1>2, <1>3, <1>5, <1>6
<1>9. \A k \in 0..(r.count - 1) : r.base + k \in Pages(r)
  BY <1>2 DEF Pages
<1> QED BY <1>1, <1>2, <1>3, <1>5, <1>8, <1>9

\* What the memory actions need, from the invariant.
LEMMA MemoryFacts ==
    ASSUME Fits, IInv
    PROVE  /\ MemoryTyped /\ TablesSound /\ Reach
           /\ Map \in [VPage -> Frame \cup {None}] /\ Map = [v \in VPage |-> Map[v]]
           /\ TableOf = [d \in PdIndices |-> TableOf[d]]
           /\ UserBits \subseteq VPage /\ avail \subseteq Managed
<1>1. MemoryTyped /\ avail \subseteq Managed
  BY DEF IInv, MemoryTyped
<1>2. TablesSound
  <2>1. PICK L \in SUBSET Managed : Account(Owners, Map, TableOf, avail, dropped \cup L)
    BY DEF IInv, FramesInv
  <2> QED BY <2>1 DEF Account, TablesSound
<1>3. Reach
  BY ReachHolds DEF IInv, DirectMapInv
<1> QED BY <1>1, <1>2, <1>3, MapTyped

\* Only the entry of v changes.
LEMMA OtherPages ==
    ASSUME Fits, IInv, NEW v \in VPage, NEW x, Map' = [Map EXCEPT ![v] = x]
    PROVE  Map'[v] = x /\ \A w \in VPage : w # v => Map'[w] = Map[w]
  BY MemoryFacts

\* Same tables, same translations.
LEMMA SameMemory ==
    ASSUME UNCHANGED tables
    PROVE  Map' = Map /\ UserBits' = UserBits /\ TableOf' = TableOf
<1>1. pd' = pd /\ mem' = mem
  BY DEF tables
<1>2. \A v \in VPage : Pte(v)' = Pte(v)
  BY <1>1 DEF Pte
<1>3. Map' = Map
  BY <1>2 DEF Map, Walk
<1>4. UserBits' = UserBits
  BY <1>2 DEF UserBits
<1> QED BY <1>1, <1>3, <1>4 DEF TableOf

\* The map in force, in terms of Map.
LEMMA ActiveMap ==
    ASSUME NEW v \in VPage
    PROVE  Active(v) = IF ready THEN Map[v] ELSE BootWalk(v)
  BY DEF Active, Map

\* And after a step.
LEMMA ActiveMapPrime ==
    ASSUME NEW v \in VPage
    PROVE  Active(v)' = IF ready' THEN Map'[v] ELSE BootWalk(v)
  BY DEF Active, Map, BootWalk

\* The frames, after vmm_map_page with the given pool.
LEMMA AccountMapPage ==
    ASSUME NEW O, NEW D, NEW v \in VPage, NEW f, NEW u, NEW pool \in SUBSET Managed,
           MapPageDone(v, f, u, pool), TableOf = [d \in PdIndices |-> TableOf[d]],
           Account(O, [Map EXCEPT ![v] = f], TableOf, pool, D)
    PROVE  Account(O, Map', TableOf', avail', D)
<1>1. PdIndex(v) \in PdIndices
  BY IndexTypes
<1>2. Map' = [Map EXCEPT ![v] = f]
  BY DEF MapPageDone
<1>3. CASE TableOf' = TableOf /\ avail' = pool
  BY <1>2, <1>3
<1>4. ASSUME NEW t \in pool, TableOf[PdIndex(v)] = None,
             TableOf' = [TableOf EXCEPT ![PdIndex(v)] = t], avail' = pool \ {t}
      PROVE  Account(O, Map', TableOf', avail', D)
  <2>1. Account(O, [Map EXCEPT ![v] = f], [TableOf EXCEPT ![PdIndex(v)] = t], pool \ {t}, D)
    BY <1>1, <1>4, AccountTable
  <2> QED BY <2>1, <1>2, <1>4
<1> QED BY <1>3, <1>4 DEF MapPageDone

\* The TLB, after an entry changed and invlpg.
LEMMA TlbAfterInvlpg ==
    ASSUME TlbInv, ready' = ready, Map \in [VPage -> Frame \cup {None}],
           NEW v \in VPage, NEW x, Map' = [Map EXCEPT ![v] = x],
           tlb' = Invlpg(v) \/ (tlb' = tlb /\ Map' = Map)
    PROVE  TlbInv'
<1>1. CASE tlb = {}
  BY <1>1 DEF TlbInv, Invlpg
<1>2. ASSUME NEW w \in VPage, Active(w) # None, tlb = {[page |-> w, frame |-> Active(w)]}
      PROVE  TlbInv'
  <2>1. CASE tlb' = {}
    BY <2>1 DEF TlbInv
  <2>2. CASE tlb' # {}
    <3>1. tlb' = tlb
      BY <1>2, <2>2 DEF Invlpg
    <3>2. ready => Map'[w] = Map[w]
      <4>1. CASE w = v
        <5>1. ready => Invlpg(v) = {}
          BY <1>2, <4>1 DEF Invlpg
        <5> QED BY <5>1, <2>2
      <4>2. CASE w # v
        BY <4>2
      <4> QED BY <4>1, <4>2
    <3>3. Active(w)' = Active(w)
      BY <3>2, ActiveMap, ActiveMapPrime
    <3> QED BY <1>2, <3>1, <3>3 DEF TlbInv
  <2> QED BY <2>1, <2>2
<1> QED BY <1>1, <1>2 DEF TlbInv

\* The TLB, when no table changed.
LEMMA TlbSame ==
    ASSUME TlbInv, ready' = ready, Map' = Map, tlb' = tlb
    PROVE  TlbInv'
<1>1. \A w \in VPage : Active(w)' = Active(w)
  BY ActiveMap, ActiveMapPrime
<1> QED BY <1>1 DEF TlbInv

-----------------------------------------------------------------------------
(* Boot keeps the invariant *)

\* The address space before the VMM is up: no runs, no owners.
LEMMA NoRunsYet ==
    ASSUME IInv, ~vmaReady, ~Busy
    PROVE  live = {} /\ Runs = {} /\ RunPages(Runs) = {}
<1>1. live = {} /\ Running = {}
  BY DEF IInv, RunInv, Running, Busy
<1> QED BY <1>1 DEF Runs, RunPages

\* Both halves of a turn of vmm_init's loop.
LEMMA BootPage ==
    ASSUME Fits, IInv, Booting, NEW f \in 0..(MapEnd - 1), NEW v \in {f, KernelBase + f},
           MapPage(v, f, FALSE, avail), Booting',
           UNCHANGED <<call, layout, areas, heaps, live, dropped>>,
           i' \in Nat, pc' \in PC
    PROVE  /\ MapPageDone(v, f, FALSE, avail) /\ v \in VPage
           /\ MemoryTyped' /\ RestTyped' /\ PhaseInv' /\ KernelHalfInv'
           /\ FramesInv' /\ HeapInv' /\ RunInv' /\ UserInv' /\ TlbInv' /\ AreaInv'
<1>0. v \in VPage /\ f \in Frame /\ v \notin HeapRange
  BY Geometry
<1>1. MapPageDone(v, f, FALSE, avail)
  BY <1>0, MemoryFacts, MapPageEffect
<1>2. /\ Map' = [Map EXCEPT ![v] = f] /\ UserBits' = UserBits \ {v}
      /\ tlb' = Invlpg(v) /\ MemoryTyped' /\ avail' \subseteq Managed
  BY <1>1 DEF MapPageDone, MemoryTyped
<1>3. Map'[v] = f /\ \A w \in VPage : w # v => Map'[w] = Map[w]
  BY <1>0, <1>2, OtherPages
<1>4. /\ call' = call /\ ready' = ready /\ nextVaddr' = nextVaddr /\ directMapEnd' = directMapEnd
      /\ vma' = vma /\ vmaReady' = vmaReady /\ heap' = heap /\ heapReady' = heapReady
      /\ live' = live /\ dropped' = dropped
  BY DEF layout, areas, heaps
<1>5. ~ready /\ ~vmaReady /\ ~heapReady /\ ~Busy /\ ~Busy'
  BY DEF IInv, PhaseInv, RestTyped, Booting, Busy
<1>6. live = {} /\ Runs = {} /\ Runs' = {} /\ Running' = {}
  BY <1>4, <1>5, NoRunsYet DEF Runs, Running, Busy
<1>7. RestTyped'
  BY <1>4 DEF IInv, RestTyped
<1>8. PhaseInv'
  BY <1>4, <1>5 DEF IInv, PhaseInv, Booting, Busy
<1>9. KernelHalfInv'
  <2>1. v < KernelBase + MapEnd
    BY Geometry
  <2> QED BY <1>3, <1>6, <2>1 DEF IInv, KernelHalfInv
<1>10. FramesInv'
  <2>1. Owners = {} /\ Owners' = {}
    BY <1>4, <1>5 DEF Owners, Up
  <2>2. PICK L \in SUBSET Managed :
           LostBound(L) /\ Account({}, Map, TableOf, avail, dropped \cup L)
    BY <2>1 DEF IInv, FramesInv
  <2> DEFINE D == dropped \cup L
  <2> HIDE DEF D
  <2>3. Account({}, [Map EXCEPT ![v] = f], TableOf, avail, D)
    BY <2>2 DEF Account, D
  <2>4. Account({}, Map', TableOf', avail', D)
    BY <2>3, <1>0, <1>1, MemoryFacts, AccountMapPage
  <2> QED BY <2>1, <2>2, <2>4, <1>4 DEF FramesInv, LostBound, D
<1>11. HeapInv'
  <2>1. \A w \in HeapRange : Map'[w] = None
    <3>1. \A w \in HeapRange : w \in VPage /\ w # v /\ Map[w] = None
      BY <1>0, Geometry DEF IInv, HeapInv, Booting
    <3> QED BY <3>1, <1>3
  <2> QED BY <2>1, <1>4, <1>5 DEF HeapInv, Booting
<1>12. RunInv'
  BY <1>4, <1>5, <1>6 DEF RunInv, Busy, RunPages
<1>13. UserInv'
  BY <1>2 DEF IInv, UserInv
<1>14. TlbInv'
  BY <1>0, <1>2, <1>4, MemoryFacts, TlbAfterInvlpg DEF IInv
<1>15. AreaInv'
  BY <1>4, <1>5 DEF IInv, AreaInv
<1> QED BY <1>0, <1>1, <1>2, <1>7, <1>8, <1>9, <1>10, <1>11, <1>12, <1>13, <1>14, <1>15

\* The first half of a turn of vmm_init's loop keeps the invariant.
LEMMA MapLowStep ==
    ASSUME Fits, IInv, map_low
    PROVE  IInv'
<1>1. /\ Booting /\ i \in 0..(MapEnd - 1) /\ i \in Nat
      /\ MapPage(i, i, FALSE, avail) /\ Booting' /\ pc' \in PC /\ i' = i /\ pc' = "map_high"
      /\ UNCHANGED <<call, layout, areas, heaps, live, dropped>>
  <2>1. /\ pc = "map_low" /\ i < MapEnd /\ MapPage(i, i, FALSE, avail)
        /\ i' = i /\ pc' = "map_high"
        /\ UNCHANGED <<call, layout, areas, heaps, live, dropped>>
    BY DEF map_low
  <2>2. i \in Nat
    BY DEF IInv, RestTyped
  <2>3. i \in 0..(MapEnd - 1)
    BY <2>1, <2>2, MapEndFacts
  <2>4. Booting /\ Booting' /\ pc' \in PC
    BY <2>1 DEF Booting, PC
  <2> QED BY <2>1, <2>2, <2>3, <2>4
<1>2. /\ MapPageDone(i, i, FALSE, avail) /\ i \in VPage
      /\ MemoryTyped' /\ RestTyped' /\ PhaseInv' /\ KernelHalfInv'
      /\ FramesInv' /\ HeapInv' /\ RunInv' /\ UserInv' /\ TlbInv' /\ AreaInv'
  BY <1>1, BootPage
<1>3. \A w \in VPage : w # i => Map'[w] = Map[w]
  BY <1>2, OtherPages DEF MapPageDone
<1>4. \A g \in 0..(i - 1) : Map'[KernelBase + g] = g
  <2>1. \A g \in 0..(i - 1) : g \in 0..(MapEnd - 1)
    BY <1>1, MapEndFacts
  <2>2. \A g \in 0..(i - 1) : KernelBase + g \in VPage /\ KernelBase + g # i
    BY <1>1, <2>1, Geometry
  <2> QED BY <2>2, <1>1, <1>3 DEF IInv, DirectMapInv
<1>5. ~ready'
  BY <1>1, <1>2 DEF PhaseInv
<1>6. DirectMapInv'
  BY <1>1, <1>4, <1>5, MapEndFacts DEF DirectMapInv
<1> QED BY <1>2, <1>6 DEF IInv

\* The second half.
LEMMA MapHighStep ==
    ASSUME Fits, IInv, map_high
    PROVE  IInv'
<1>0. i \in Nat /\ i < MapEnd /\ MapEnd \in Nat
  BY MapEndFacts DEF map_high, IInv, RestTyped, DirectMapInv
<1>1. /\ Booting /\ i \in 0..(MapEnd - 1)
      /\ MapPage(KernelBase + i, i, FALSE, avail)
      /\ Booting' /\ pc' \in PC /\ i' = i + 1 /\ i' \in Nat /\ pc' = "map_low"
      /\ UNCHANGED <<call, layout, areas, heaps, live, dropped>>
  <2>1. /\ pc = "map_high" /\ MapPage(KernelBase + i, i, FALSE, avail)
        /\ i' = i + 1 /\ pc' = "map_low"
        /\ UNCHANGED <<call, layout, areas, heaps, live, dropped>>
    BY DEF map_high
  <2>2. i \in 0..(MapEnd - 1) /\ i' \in Nat
    BY <1>0, <2>1
  <2>3. Booting /\ Booting' /\ pc' \in PC
    BY <2>1 DEF Booting, PC
  <2> QED BY <2>1, <2>2, <2>3
<1>2. /\ MapPageDone(KernelBase + i, i, FALSE, avail) /\ KernelBase + i \in VPage
      /\ MemoryTyped' /\ RestTyped' /\ PhaseInv' /\ KernelHalfInv'
      /\ FramesInv' /\ HeapInv' /\ RunInv' /\ UserInv' /\ TlbInv' /\ AreaInv'
  BY <1>1, BootPage
<1>3. /\ Map'[KernelBase + i] = i
      /\ \A w \in VPage : w # KernelBase + i => Map'[w] = Map[w]
  BY <1>2, OtherPages DEF MapPageDone
<1>4. \A g \in 0..i : Map'[KernelBase + g] = g
  <2>1. \A g \in 0..(i - 1) : Map[KernelBase + g] = g
    BY <1>1 DEF IInv, DirectMapInv
  <2>2. \A g \in 0..(i - 1) : KernelBase + g \in VPage /\ KernelBase + g # KernelBase + i
    BY <1>0, Geometry
  <2>3. \A g \in 0..i : g = i \/ g \in 0..(i - 1)
    BY <1>0
  <2> QED BY <2>1, <2>2, <2>3, <1>3
<1>5. ~ready'
  BY <1>1, <1>2 DEF PhaseInv
<1>6. i' <= MapEnd /\ \A g \in 0..(i' - 1) : Map'[KernelBase + g] = g
  BY <1>0, <1>1, <1>4
<1>7. DirectMapInv'
  BY <1>1, <1>5, <1>6, MapEndFacts DEF DirectMapInv
<1> QED BY <1>2, <1>7 DEF IInv

\* vmm_init gives up: the frames of its tables are lost, the rest free.
LEMMA InitFailsStep ==
    ASSUME Fits, IInv, vmm_init_fails
    PROVE  IInv'
<1>1. /\ Booting /\ avail = {} /\ pc' = "unmap_identity" /\ i' = 0
      /\ UNCHANGED <<call, tables, layout, avail, areas, heaps, live, dropped, tlb>>
  BY DEF vmm_init_fails, NoTable, Booting
<1>2. Map' = Map /\ UserBits' = UserBits /\ TableOf' = TableOf
  BY <1>1, SameMemory
<1>3. /\ call' = call /\ ready' = ready /\ nextVaddr' = nextVaddr /\ directMapEnd' = directMapEnd
      /\ vma' = vma /\ vmaReady' = vmaReady /\ heap' = heap /\ heapReady' = heapReady
      /\ live' = live /\ dropped' = dropped /\ avail' = avail /\ tlb' = tlb
      /\ pd' = pd /\ mem' = mem
  BY <1>1 DEF layout, areas, heaps, tables
<1>4. ~ready /\ ~vmaReady /\ ~heapReady /\ ~Busy /\ ~Busy' /\ ~Booting'
  BY <1>1 DEF IInv, PhaseInv, RestTyped, Booting, Busy
<1>5. live = {} /\ Runs = {} /\ Runs' = {} /\ Running' = {}
  BY <1>3, <1>4, NoRunsYet DEF Runs, Running, Busy
<1>6. MemoryTyped'
  BY <1>3 DEF IInv, MemoryTyped
<1>7. RestTyped'
  BY <1>1, <1>3 DEF IInv, RestTyped, PC
<1>8. PhaseInv'
  BY <1>1, <1>3, <1>4 DEF IInv, PhaseInv, Booting, Busy
<1>9. DirectMapInv' /\ KernelHalfInv'
  BY <1>1, <1>2, <1>3, <1>4, <1>5 DEF IInv, DirectMapInv, KernelHalfInv
<1>10. FramesInv'
  <2>1. Owners = {} /\ Owners' = {}
    BY <1>3, <1>4 DEF Owners, Up
  <2> QED BY <2>1, <1>2, <1>3 DEF IInv, FramesInv, LostBound
<1>11. HeapInv'
  BY <1>1, <1>2, <1>3, <1>4 DEF IInv, HeapInv, Booting
<1>12. RunInv'
  BY <1>1, <1>3, <1>4, <1>5 DEF RunInv, Busy, RunPages
<1>13. UserInv' /\ AreaInv'
  BY <1>2, <1>3, <1>4 DEF IInv, UserInv, AreaInv
<1>14. TlbInv'
  BY <1>2, <1>3, TlbSame DEF IInv
<1> QED BY <1>6, <1>7, <1>8, <1>9, <1>10, <1>11, <1>12, <1>13, <1>14 DEF IInv

\* AlignUp(n) is the next multiple of the 4 MiB, so it does not skip the end
\* of the address space.
LEMMA AlignUpFacts ==
    ASSUME NEW n \in Nat, n <= NPages
    PROVE  AlignUp(n) \in Nat /\ n <= AlignUp(n) /\ AlignUp(n) <= NPages
<1> DEFINE m == n + TableSize - 1
           q == m \div TableSize
           k == NPages \div TableSize
<1>1. TableSize \in Nat \ {0} /\ NPages \in Nat /\ m \in Nat /\ k \in Nat /\ NPages = TableSize * k
  BY LayoutFacts
<1>2. /\ q \in Nat /\ m % TableSize \in Nat /\ m % TableSize < TableSize
      /\ m = TableSize * q + (m % TableSize)
  BY <1>1, DivMod
<1>3. AlignUp(n) = TableSize * q /\ TableSize * q \in Nat
  <2>1. q * TableSize = TableSize * q /\ TableSize * q \in Nat
    <3> HIDE DEF q
    <3> QED BY <1>1, <1>2
  <2> QED BY <2>1 DEF AlignUp
<1>4. m = n + TableSize - 1
  OBVIOUS
<1> HIDE DEF q, m, k
<1>5. n <= TableSize * q
  BY <1>1, <1>2, <1>3, <1>4
<1>6. q <= k
  <2> SUFFICES ASSUME k + 1 <= q PROVE FALSE
    BY <1>1, <1>2
  <2>1. TableSize * (k + 1) <= TableSize * q
    BY MulMono, <1>1, <1>2
  <2>2. TableSize * (k + 1) = TableSize * k + TableSize
    BY <1>1
  <2> QED BY <2>1, <2>2, <1>1, <1>2, <1>3, <1>4
<1>7. TableSize * q <= TableSize * k
  BY <1>1, <1>2, <1>6, MulMono
<1> QED BY <1>1, <1>3, <1>5, <1>7

\* CR3 is loaded when the direct map is complete.
LEMMA LoadCr3Step ==
    ASSUME Fits, IInv, load_cr3
    PROVE  IInv'
<1>1. /\ Booting /\ i = MapEnd /\ pc' = "unmap_identity" /\ i' = 0
      /\ ready' = TRUE /\ tlb' = {}
      /\ directMapEnd' = (KernelBase + MapEnd) % NPages
      /\ nextVaddr' = AlignUp(KernelBase + MapEnd) % NPages
      /\ UNCHANGED <<call, tables, avail, areas, heaps, live, dropped>>
  BY DEF load_cr3, Booting
<1>2. Map' = Map /\ UserBits' = UserBits /\ TableOf' = TableOf
  BY <1>1, SameMemory
<1>3. /\ call' = call /\ vma' = vma /\ vmaReady' = vmaReady
      /\ heap' = heap /\ heapReady' = heapReady
      /\ live' = live /\ dropped' = dropped /\ avail' = avail
      /\ pd' = pd /\ mem' = mem
  BY <1>1 DEF areas, heaps, tables
<1>4. ~ready /\ ~vmaReady /\ ~heapReady /\ ~Busy /\ ~Busy' /\ ~Booting'
  BY <1>1 DEF IInv, PhaseInv, RestTyped, Booting, Busy
<1>5. live = {} /\ Runs = {} /\ Runs' = {} /\ Running' = {}
  BY <1>3, <1>4, NoRunsYet DEF Runs, Running, Busy
<1>6. MemoryTyped'
  BY <1>3 DEF IInv, MemoryTyped
<1>7. /\ directMapEnd' \in VPage /\ nextVaddr' \in VPage
      /\ nextVaddr' = 0 \/ KernelBase + MapEnd <= nextVaddr'
  <2> DEFINE n == KernelBase + MapEnd
  <2>1. n \in Nat /\ n <= NPages /\ NPages \in Nat \ {0}
    BY MapEndFacts, LayoutFacts
  <2>2. AlignUp(n) \in Nat /\ n <= AlignUp(n) /\ AlignUp(n) <= NPages
    BY <2>1, AlignUpFacts
  <2>3. directMapEnd' = n % NPages /\ nextVaddr' = AlignUp(n) % NPages
    BY <1>1
  <2> HIDE DEF n
  <2>4. directMapEnd' = IF n = NPages THEN 0 ELSE n
    BY <2>1, <2>3, WrapFacts
  <2>5. nextVaddr' = IF AlignUp(n) = NPages THEN 0 ELSE AlignUp(n)
    BY <2>2, <2>3, WrapFacts
  <2>6. /\ directMapEnd' \in VPage /\ nextVaddr' \in VPage
        /\ nextVaddr' = 0 \/ n <= nextVaddr'
    BY <2>1, <2>2, <2>4, <2>5 DEF VPage
  <2> QED BY <2>6 DEF n
<1>8. RestTyped'
  BY <1>1, <1>3, <1>7 DEF IInv, RestTyped, PC
<1>9. PhaseInv'
  BY <1>1, <1>3, <1>4, <1>7 DEF IInv, PhaseInv, Booting, Busy
<1>10. DirectMapInv' /\ KernelHalfInv'
  BY <1>1, <1>2, <1>3, <1>4, <1>5 DEF IInv, DirectMapInv, KernelHalfInv, Booting
<1>11. FramesInv'
  <2>1. Owners = {} /\ Owners' = {}
    BY <1>1, <1>4 DEF Owners, Up
  <2>2. PICK L \in SUBSET Managed :
           LostBound(L) /\ Account({}, Map, TableOf, avail, dropped \cup L)
    BY <2>1 DEF IInv, FramesInv
  <2>3. L = {}
    BY <2>2, <1>4, LayoutAssumption DEF LostBound, IInv, PhaseInv
  <2> QED BY <2>1, <2>2, <2>3, <1>2, <1>3 DEF FramesInv, LostBound
<1>12. HeapInv'
  BY <1>1, <1>2, <1>3, <1>4 DEF IInv, HeapInv, Booting
<1>13. RunInv'
  BY <1>1, <1>3, <1>4, <1>5 DEF RunInv, Busy, RunPages
<1>14. UserInv' /\ AreaInv' /\ TlbInv'
  BY <1>1, <1>2, <1>3, <1>4 DEF IInv, UserInv, AreaInv, TlbInv
<1> QED BY <1>6, <1>8, <1>9, <1>10, <1>11, <1>12, <1>13, <1>14 DEF IInv

\* What vmm_unmap_identity does to the tables.
LEMMA UnmapIdentityEffect ==
    ASSUME MemoryTyped,
           pd' = [d \in PdIndices |-> IF d \in LowTables THEN None ELSE pd[d]],
           mem' = mem
    PROVE  /\ \A v \in VPage : Map'[v] = IF v < KernelBase THEN None ELSE Map[v]
           /\ UserBits' \subseteq UserBits
           /\ TableOf' = [d \in PdIndices |-> IF d \in LowTables THEN None ELSE TableOf[d]]
           /\ pd' \in [PdIndices -> PTE \cup {None}]
<1>1. ASSUME NEW v \in VPage
      PROVE  Pte(v)' = IF v < KernelBase THEN None ELSE Pte(v)
  <2>1. PdIndex(v) \in PdIndices /\ (v < KernelBase <=> PdIndex(v) < PdIndex(KernelBase))
    BY IndexTypes, IndexHalves
  <2>2. pd'[PdIndex(v)] = IF v < KernelBase THEN None ELSE pd[PdIndex(v)]
    BY <2>1 DEF LowTables
  <2> QED BY <2>2 DEF Pte
<1>2. \A v \in VPage : Map'[v] = IF v < KernelBase THEN None ELSE Map[v]
  BY <1>1 DEF Map, Walk
<1>3. UserBits' \subseteq UserBits
  BY <1>1 DEF UserBits
<1>4. TableOf' = [d \in PdIndices |-> IF d \in LowTables THEN None ELSE TableOf[d]]
  BY DEF TableOf
<1>5. pd' \in [PdIndices -> PTE \cup {None}]
  BY DEF MemoryTyped
<1> QED BY <1>2, <1>3, <1>4, <1>5

\* The low half's tables are dropped; no page of the kernel half is in one.
LEMMA UnmapIdentityStep ==
    ASSUME Fits, IInv, vmm_unmap_identity
    PROVE  IInv'
<1>1. /\ pc = "unmap_identity" /\ pc' = "kmalloc_init" /\ i' = i
      /\ UNCHANGED <<i, call, mem, layout, avail, areas, heaps, live>>
  BY DEF vmm_unmap_identity
<1>2. /\ call' = call /\ ready' = ready /\ nextVaddr' = nextVaddr /\ directMapEnd' = directMapEnd
      /\ vma' = vma /\ vmaReady' = vmaReady /\ heap' = heap /\ heapReady' = heapReady
      /\ live' = live /\ avail' = avail /\ mem' = mem
  BY <1>1 DEF layout, areas, heaps
<1>3. ~vmaReady /\ ~heapReady /\ ~Busy /\ ~Busy' /\ ~Booting /\ ~Booting' /\ i = 0
  BY <1>1 DEF IInv, PhaseInv, RestTyped, Booting, Busy
<1>4. live = {} /\ Runs = {} /\ Runs' = {} /\ Running' = {}
  BY <1>2, <1>3, NoRunsYet DEF Runs, Running, Busy
<1>5. /\ pd' \in [PdIndices -> PTE \cup {None}]
      /\ \A v \in VPage : v >= KernelBase => Map'[v] = Map[v]
      /\ UserBits' \subseteq UserBits /\ dropped' \subseteq Managed
      /\ FramesInv' /\ TlbInv'
  <2>1. CASE ready
    <3>1. /\ pd' = [d \in PdIndices |-> IF d \in LowTables THEN None ELSE pd[d]]
          /\ dropped' = dropped \cup {pd[d].frame : d \in LowTables}
          /\ tlb' = {}
      BY <2>1 DEF vmm_unmap_identity
    <3>2. /\ \A v \in VPage : Map'[v] = IF v < KernelBase THEN None ELSE Map[v]
          /\ UserBits' \subseteq UserBits
          /\ TableOf' = [d \in PdIndices |-> IF d \in LowTables THEN None ELSE TableOf[d]]
          /\ pd' \in [PdIndices -> PTE \cup {None}]
      BY <1>2, <3>1, UnmapIdentityEffect DEF IInv
    <3>3. \A v \in VPage : v >= KernelBase => Map'[v] = Map[v]
      BY <3>2, Geometry DEF VPage
    <3>4. /\ LowTables \in SUBSET PdIndices
          /\ \A d \in LowTables : TableOf[d] # None
          /\ {pd[d].frame : d \in LowTables} = {TableOf[d] : d \in LowTables}
      BY EntryFacts DEF IInv, MemoryTyped, LowTables, TableOf
    <3>5. Owners = {}
      BY <1>1 DEF Owners, Up
    <3>0. PICK M \in SUBSET Managed :
             LostBound(M) /\ Account({}, Map, TableOf, avail, dropped \cup M)
      BY <3>5 DEF IInv, FramesInv
    <3>6. /\ Account({}, Map, TableOf', avail, dropped' \cup M)
          /\ {TableOf[d] : d \in LowTables} \subseteq Managed
      <4> DEFINE L == LowTables  D == dropped \cup M
      <4>1. L \in SUBSET PdIndices /\ \A d \in L : TableOf[d] # None
        BY <3>4
      <4>2. Account({}, Map, TableOf, avail, D)
        BY <3>0
      <4>3. /\ TableOf' = [d \in PdIndices |-> IF d \in L THEN None ELSE TableOf[d]]
            /\ dropped' = dropped \cup {TableOf[d] : d \in L}
        BY <3>1, <3>2, <3>4
      <4>4. TableOf = [d \in PdIndices |-> TableOf[d]]
        BY MemoryFacts
      <4> HIDE DEF L, D
      <4>5. /\ Account({}, Map, [d \in PdIndices |-> IF d \in L THEN None ELSE TableOf[d]],
                       avail, D \cup {TableOf[d] : d \in L})
            /\ {TableOf[d] : d \in L} \subseteq Managed
        BY <4>1, <4>2, <4>4, AccountForgetTables
      <4>6. Account({}, Map, TableOf', avail, dropped' \cup M)
        <5>1. D \cup {TableOf[d] : d \in L} = dropped' \cup M
          BY <4>3 DEF D
        <5> QED BY <4>3, <4>5, <5>1
      <4> QED BY <4>5, <4>6 DEF L
    <3>7. dropped' \subseteq Managed
      BY <3>1, <3>4, <3>6 DEF IInv, RestTyped
    <3>8. Owners' = HeapRange \cup UserPages
      BY <1>1, <1>2, <1>4, <2>1 DEF Owners, Up, RunPages
    <3>9. \A v \in HeapRange \cup UserPages : Map'[v] = None
      <4>1. \A v \in HeapRange : Map'[v] = None
        <5>1. \A v \in HeapRange : v \in VPage /\ Map[v] = None
          BY <1>1, Geometry DEF IInv, HeapInv
        <5> QED BY <5>1, <3>2
      <4>2. \A v \in UserPages : Map'[v] = None
        BY <3>2, Geometry
      <4> QED BY <4>1, <4>2
    <3>10. Account(HeapRange \cup UserPages, Map', TableOf', avail, dropped' \cup M)
      BY <3>6, <3>9, AccountOwners
    <3>11. FramesInv'
      BY <3>0, <3>8, <3>10, <1>2 DEF FramesInv, LostBound
    <3>12. TlbInv'
      BY <3>1 DEF TlbInv
    <3> QED BY <3>2, <3>3, <3>7, <3>11, <3>12
  <2>2. CASE ~ready
    <3>1. pd' = pd /\ dropped' = dropped /\ tlb' = tlb
      BY <2>2 DEF vmm_unmap_identity
    <3>2. Map' = Map /\ UserBits' = UserBits /\ TableOf' = TableOf
      BY <1>2, <3>1, SameMemory DEF tables
    <3>3. Owners = {} /\ Owners' = {}
      BY <1>2, <2>2 DEF Owners, Up
    <3>4. FramesInv'
      BY <1>2, <3>1, <3>2, <3>3 DEF IInv, FramesInv, LostBound
    <3>5. TlbInv'
      BY <1>2, <3>1, <3>2, TlbSame DEF IInv
    <3> QED BY <3>1, <3>2, <3>4, <3>5 DEF IInv, MemoryTyped, RestTyped
  <2> QED BY <2>1, <2>2
<1>6. MemoryTyped'
  BY <1>2, <1>5 DEF IInv, MemoryTyped
<1>7. RestTyped'
  BY <1>1, <1>2, <1>5 DEF IInv, RestTyped, PC
<1>8. PhaseInv'
  BY <1>1, <1>2, <1>3 DEF IInv, PhaseInv, Booting, Busy
<1>9. DirectMapInv'
  <2>1. \A f \in 0..(MapEnd - 1) : Map'[KernelBase + f] = Map[KernelBase + f]
    BY <1>5, Geometry
  <2> QED BY <1>1, <1>2, <1>3, <2>1 DEF IInv, DirectMapInv
<1>10. KernelHalfInv'
  BY <1>4, <1>5 DEF IInv, KernelHalfInv
<1>11. HeapInv'
  <2>1. \A v \in HeapRange : v \in VPage /\ v >= KernelBase /\ Map[v] = None
    <3>1. \A v \in HeapRange : v \in VPage /\ KernelBase + MapEnd <= v
      BY Geometry
    <3>2. KernelBase \in Nat /\ MapEnd \in Nat /\ \A v \in VPage : v \in Nat
      BY Geometry DEF VPage
    <3>3. \A v \in HeapRange : Map[v] = None
      BY <1>1 DEF IInv, HeapInv
    <3> QED BY <3>1, <3>2, <3>3
  <2>2. \A v \in HeapRange : Map'[v] = None
    BY <1>5, <2>1
  <2>3. \A k \in 0..(KheapPages - 1) : Map'[KheapStart + k] = None /\ ~(k < 0)
    BY <2>2, Geometry
  <2>4. 0 <= KheapPages
    BY Geometry
  <2> QED BY <1>1, <1>2, <1>3, <2>3, <2>4 DEF HeapInv
<1>12. RunInv'
  BY <1>2, <1>3, <1>4, <1>1 DEF RunInv, Busy, RunPages
<1>13. UserInv' /\ AreaInv'
  BY <1>2, <1>3, <1>5 DEF IInv, UserInv, AreaInv
<1> QED BY <1>5, <1>6, <1>7, <1>8, <1>9, <1>10, <1>11, <1>12, <1>13 DEF IInv

\* Owned pages are pages.
LEMMA OwnersArePages ==
    ASSUME Fits, IInv
    PROVE  Owners \subseteq VPage
<1>1. \A r \in Runs : Pages(r) \subseteq VPage
  BY RunFacts DEF IInv
<1>2. RunPages(Runs) \subseteq VPage
  BY <1>1 DEF RunPages
<1> QED BY <1>2, Geometry DEF Owners

\* A frame of the pool goes behind an owned page; what was there is lost.
LEMMA PageGiven ==
    ASSUME Fits, IInv, NEW v \in Owners, NEW f \in AllocChoice(avail), NEW u \in BOOLEAN,
           MapPage(v, f, u, avail \ {f})
    PROVE  /\ MapPageDone(v, f, u, avail \ {f}) /\ v \in VPage /\ f \in Frame /\ f # None
           /\ \E L \in SUBSET Managed :
                 /\ LostBound(L)
                 /\ Account(Owners, Map', TableOf', avail', (dropped \cup L) \cup ({Map[v]} \ {None}))
           /\ {Map[v]} \ {None} \subseteq Managed
           /\ ready
<1>1. avail \subseteq Managed /\ avail \in SUBSET Managed
  BY MemoryFacts
<1>2. f \in avail /\ f \in Managed /\ f \in Frame /\ f # None
  <2>1. AllocChoice(avail) \subseteq avail
    BY <1>1, PoolAssumption
  <2> QED BY <2>1, <1>1, EntryFacts
<1>3. ready /\ Owners \subseteq VPage /\ v \in VPage
  BY OwnersArePages DEF Owners, Up
<1>4. MapPageDone(v, f, u, avail \ {f})
  BY <1>2, <1>3, MemoryFacts, MapPageEffect
<1>0. PICK L \in SUBSET Managed :
         LostBound(L) /\ Account(Owners, Map, TableOf, avail, dropped \cup L)
  BY DEF IInv, FramesInv
<1> DEFINE W == [Map EXCEPT ![v] = None]
           D == (dropped \cup L) \cup ({Map[v]} \ {None})
<1>5. Account(Owners, W, TableOf, avail, D) /\ {Map[v]} \ {None} \subseteq Managed
  BY <1>0, <1>1, <1>3, MemoryFacts, AccountForgetPage
<1>6. W = [w \in VPage |-> W[w]] /\ W[v] = None /\ [W EXCEPT ![v] = f] = [Map EXCEPT ![v] = f]
  BY <1>3, MemoryFacts
<1> HIDE DEF W, D
<1>7. Account(Owners, [W EXCEPT ![v] = f], TableOf, avail \ {f}, D)
  BY <1>1, <1>2, <1>3, <1>5, <1>6, AccountMap
<1>8. Account(Owners, [Map EXCEPT ![v] = f], TableOf, avail \ {f}, D)
  BY <1>6, <1>7
<1>9. Account(Owners, Map', TableOf', avail', D)
  <2>1. avail \ {f} \in SUBSET Managed
    BY <1>1
  <2> QED BY <2>1, <1>3, <1>4, <1>8, MemoryFacts, AccountMapPage
<1> QED BY <1>0, <1>2, <1>3, <1>4, <1>5, <1>9 DEF D

\* kmalloc_init maps one page.
LEMMA KmallocPageStep ==
    ASSUME Fits, IInv, kmalloc_init_page
    PROVE  IInv'
<1>0. PICK f \in AllocChoice(avail) :
         /\ MapPage(KheapStart + i, f, FALSE, avail \ {f})
         /\ heap' = [heap EXCEPT ![i] = f]
  BY DEF kmalloc_init_page
<1> DEFINE v == KheapStart + i
<1>1. /\ pc = "kmalloc_init" /\ i \in 0..(KheapPages - 1) /\ i \in Nat
      /\ pc' = pc /\ i' = i + 1 /\ i' <= KheapPages
      /\ UNCHANGED <<pc, call, layout, areas, heapReady, live, dropped>>
  BY Geometry DEF kmalloc_init_page, IInv, RestTyped
<1>2. /\ call' = call /\ ready' = ready /\ nextVaddr' = nextVaddr /\ directMapEnd' = directMapEnd
      /\ vma' = vma /\ vmaReady' = vmaReady /\ heapReady' = heapReady
      /\ live' = live /\ dropped' = dropped
  BY <1>1 DEF layout, areas
<1>3. ready
  <2>1. avail # {}
    BY <1>0, PoolAssumption, MemoryFacts
  <2> QED BY <2>1, <1>1 DEF IInv, PhaseInv, Booting, RestTyped
<1>4. ~vmaReady /\ ~heapReady /\ ~Busy /\ ~Busy' /\ ~Booting /\ ~Booting'
  BY <1>1 DEF IInv, PhaseInv, RestTyped, Booting, Busy
<1>5. live = {} /\ Runs = {} /\ Runs' = {} /\ Running' = {}
  BY <1>2, <1>4, NoRunsYet DEF Runs, Running, Busy
<1>6. v \in HeapRange /\ v \in Owners /\ v \in VPage /\ KernelBase + MapEnd <= v /\ Owners' = Owners
  <2>1. v \in HeapRange
    BY <1>1, Geometry
  <2>2. Owners = HeapRange \cup UserPages /\ Owners' = HeapRange \cup UserPages
    BY <1>1, <1>2, <1>3, <1>5 DEF Owners, Up, RunPages
  <2> QED BY <2>1, <2>2, Geometry
<1>7. Map[v] = None
  BY <1>1 DEF IInv, HeapInv
<1>8. /\ MapPageDone(v, f, FALSE, avail \ {f}) /\ f \in Frame /\ f # None
      /\ \E L \in SUBSET Managed :
            /\ LostBound(L)
            /\ Account(Owners, Map', TableOf', avail', (dropped \cup L) \cup ({Map[v]} \ {None}))
  BY <1>0, <1>6, PageGiven
<1>9. /\ Map' = [Map EXCEPT ![v] = f] /\ UserBits' = UserBits \ {v}
      /\ tlb' = Invlpg(v) /\ MemoryTyped'
  BY <1>8 DEF MapPageDone
<1>10. Map'[v] = f /\ \A w \in VPage : w # v => Map'[w] = Map[w]
  BY <1>6, <1>9, OtherPages
<1>11. RestTyped'
  <2>1. heap' \in [0..(KheapPages - 1) -> Frame \cup {None}]
    BY <1>0, <1>8 DEF IInv, RestTyped
  <2>2. i' \in Nat
    BY <1>1
  <2> QED BY <2>1, <2>2, <1>1, <1>2 DEF IInv, RestTyped
<1>12. PhaseInv'
  BY <1>1, <1>2, <1>3, <1>4 DEF IInv, PhaseInv, Booting, Busy
<1>13. DirectMapInv'
  <2>1. \A g \in 0..(MapEnd - 1) : KernelBase + g \in VPage /\ KernelBase + g # v
    BY <1>6, Geometry
  <2> QED BY <2>1, <1>1, <1>2, <1>4, <1>10 DEF IInv, DirectMapInv
<1>14. KernelHalfInv'
  BY <1>5, <1>6, <1>10 DEF IInv, KernelHalfInv
<1>15. FramesInv'
  <2>1. {Map[v]} \ {None} = {} /\ \A S : S \cup {} = S
    BY <1>7
  <2> QED BY <2>1, <1>2, <1>6, <1>8 DEF FramesInv, LostBound
<1>16. HeapInv'
  <2>1. ASSUME NEW k \in 0..(KheapPages - 1)
        PROVE  IF k < i' THEN Map'[KheapStart + k] = heap'[k] /\ heap'[k] # None
               ELSE Map'[KheapStart + k] = None
    <3>1. CASE k = i
      <4>1. heap'[k] = f
        BY <3>1, <1>0 DEF IInv, RestTyped
      <4> QED BY <3>1, <4>1, <1>1, <1>8, <1>10
    <3>2. CASE k # i
      <4>1. heap'[k] = heap[k]
        BY <3>2, <1>0 DEF IInv, RestTyped
      <4>2. KheapStart + k \in VPage /\ KheapStart + k # v /\ k \in Nat
        BY <3>2, <1>1, Geometry
      <4>3. Map'[KheapStart + k] = Map[KheapStart + k]
        BY <4>2, <1>10
      <4>4. k < i' <=> k < i
        BY <3>2, <4>2, <1>1
      <4> QED BY <4>1, <4>3, <4>4, <1>1 DEF IInv, HeapInv
    <3> QED BY <3>1, <3>2
  <2> QED BY <2>1, <1>1, <1>2, <1>4 DEF HeapInv
<1>17. RunInv'
  BY <1>1, <1>2, <1>4, <1>5 DEF RunInv, Busy, RunPages
<1>18. UserInv' /\ AreaInv'
  BY <1>2, <1>4, <1>9 DEF IInv, UserInv, AreaInv
<1>19. TlbInv'
  BY <1>2, <1>6, <1>9, MemoryFacts, TlbAfterInvlpg DEF IInv
<1> QED BY <1>9, <1>11, <1>12, <1>13, <1>14, <1>15, <1>16, <1>17, <1>18, <1>19 DEF IInv

\* A step that leaves the tables, the TLB and the pool alone.
LEMMA ControlStep ==
    ASSUME IInv, UNCHANGED <<tables, avail, dropped, tlb, ready, nextVaddr>>,
           Runs' = Runs, Up' = Up
    PROVE  /\ Map' = Map
           /\ MemoryTyped' /\ KernelHalfInv' /\ FramesInv' /\ UserInv' /\ TlbInv'
<1>1. Map' = Map /\ UserBits' = UserBits /\ TableOf' = TableOf
  BY SameMemory
<1>2. pd' = pd /\ mem' = mem
  BY DEF tables
<1>3. MemoryTyped'
  BY <1>2 DEF IInv, MemoryTyped
<1>4. KernelHalfInv'
  BY <1>1 DEF IInv, KernelHalfInv
<1>5. FramesInv'
  <2>1. Owners' = Owners
    BY DEF Owners
  <2> QED BY <1>1, <2>1 DEF IInv, FramesInv, LostBound
<1>6. UserInv'
  BY <1>1 DEF IInv, UserInv
<1>7. TlbInv'
  BY <1>1, TlbSame DEF IInv
<1> QED BY <1>1, <1>3, <1>4, <1>5, <1>6, <1>7

\* kmalloc_init ends, with or without the heap.
LEMMA KmallocEndStep ==
    ASSUME Fits, IInv, kmalloc_init_fails \/ kmalloc_init_done
    PROVE  IInv'
<1>1. /\ pc = "kmalloc_init" /\ pc' = "vma_init" /\ i' = 0
      /\ UNCHANGED <<call, tables, layout, avail, areas, heap, live, dropped, tlb>>
      /\ heapReady' = heapReady \/ (i = KheapPages /\ heapReady' = TRUE)
  BY DEF kmalloc_init_fails, kmalloc_init_done, heaps
<1>2. /\ call' = call /\ ready' = ready /\ nextVaddr' = nextVaddr /\ directMapEnd' = directMapEnd
      /\ vma' = vma /\ vmaReady' = vmaReady /\ heap' = heap /\ live' = live
  BY <1>1 DEF layout, areas
<1>3. ~vmaReady /\ ~heapReady /\ ~Busy /\ ~Busy' /\ ~Booting /\ ~Booting'
  BY <1>1 DEF IInv, PhaseInv, RestTyped, Booting, Busy
<1>4. Running = {} /\ Running' = {} /\ Runs' = Runs /\ Up' = Up
  BY <1>1, <1>2 DEF Runs, Running, Up
<1>5. /\ Map' = Map
      /\ MemoryTyped' /\ KernelHalfInv' /\ FramesInv' /\ UserInv' /\ TlbInv'
  BY <1>1, <1>2, <1>4, ControlStep
<1>6. RestTyped'
  BY <1>1, <1>2 DEF IInv, RestTyped, PC
<1>7. PhaseInv'
  BY <1>1, <1>2, <1>3 DEF IInv, PhaseInv, Booting, Busy
<1>8. DirectMapInv'
  BY <1>1, <1>2, <1>3, <1>5 DEF IInv, DirectMapInv
<1>9. HeapInv'
  <2>1. CASE heapReady' = heapReady
    BY <2>1, <1>1, <1>2, <1>3 DEF HeapInv
  <2>2. CASE i = KheapPages /\ heapReady' = TRUE
    <3>1. ~ready => KheapPages = 0
      BY <2>2, <1>1 DEF IInv, PhaseInv
    <3>2. \A k \in 0..(KheapPages - 1) : Map[KheapStart + k] = heap[k] /\ heap[k] # None
      <4>1. \A k \in 0..(KheapPages - 1) : k < i
        BY <2>2, Geometry
      <4> QED BY <4>1, <1>1 DEF IInv, HeapInv
    <3> QED BY <3>1, <3>2, <1>1, <1>2, <1>5 DEF HeapInv
  <2> QED BY <1>1, <2>1, <2>2
<1>10. RunInv'
  <2>1. live' = {} /\ Runs' = {}
    BY <1>2, <1>3, <1>4, NoRunsYet
  <2> QED BY <2>1, <1>1, <1>3, <1>4 DEF RunInv, RunPages
<1>11. AreaInv'
  BY <1>2, <1>3 DEF IInv, AreaInv
<1> QED BY <1>5, <1>6, <1>7, <1>8, <1>9, <1>10, <1>11 DEF IInv

\* vma_add adds the area it is given or none.
LEMMA VmaAddBounds ==
    ASSUME NEW S, NEW a
    PROVE  S \subseteq VmaAdd(S, a) /\ VmaAdd(S, a) \subseteq S \cup {a}
  BY DEF VmaAdd

\* kmain registers the direct map and the heap.
LEMMA VmaInitStep ==
    ASSUME Fits, IInv, vma_init
    PROVE  IInv'
<1> DEFINE a == Area(KernelBase, directMapEnd, "direct-map")
           b == Area(KheapStart, KheapStart + KheapPages, "kheap")
<1>1. /\ pc = "vma_init" /\ pc' = "idle" /\ vmaReady' = TRUE
      /\ vma' = VmaAdd(VmaAdd({}, a), b)
      /\ UNCHANGED <<i, call, tables, layout, avail, heaps, live, dropped, tlb>>
  BY DEF vma_init
<1>2. /\ i' = i /\ call' = call /\ ready' = ready /\ nextVaddr' = nextVaddr
      /\ directMapEnd' = directMapEnd
      /\ heap' = heap /\ heapReady' = heapReady /\ live' = live
  BY <1>1 DEF layout, heaps
<1>3. ~vmaReady /\ ~Busy /\ ~Busy' /\ ~Booting /\ ~Booting'
  BY <1>1 DEF IInv, PhaseInv, RestTyped, Booting, Busy
<1>4. Running = {} /\ Running' = {} /\ Runs' = Runs /\ Up' = Up
  BY <1>1, <1>2 DEF Runs, Running, Up
<1>5. /\ Map' = Map
      /\ MemoryTyped' /\ KernelHalfInv' /\ FramesInv' /\ UserInv' /\ TlbInv'
  BY <1>1, <1>2, <1>4, ControlStep
<1>6. \A x \in vma' : x = a \/ x = b
  BY <1>1, VmaAddBounds
<1>7. RestTyped'
  <2>1. /\ KernelBase \in 0..NPages /\ KheapStart \in 0..NPages
        /\ KheapStart + KheapPages \in 0..NPages /\ directMapEnd \in 0..NPages
    BY LayoutAssumption DEF IInv, RestTyped, VPage
  <2>2. \A x \in vma' : x \in [start : 0..NPages, end : 0..NPages,
                      tag : {"direct-map", "kheap", "vmm-alloc", "user-code", "user-stack"}]
    BY <1>6, <2>1 DEF Area
  <2> QED BY <2>2, <1>1, <1>2 DEF IInv, RestTyped, PC
<1>8. PhaseInv'
  BY <1>1, <1>2, <1>3 DEF IInv, PhaseInv, Booting, Busy
<1>9. DirectMapInv'
  BY <1>1, <1>2, <1>3, <1>5 DEF IInv, DirectMapInv
<1>10. HeapInv'
  BY <1>1, <1>2, <1>5 DEF IInv, HeapInv
<1>11. RunInv'
  <2>1. live' = {} /\ Runs' = {}
    BY <1>2, <1>3, <1>4, NoRunsYet
  <2> QED BY <2>1, <1>1, <1>3, <1>4 DEF RunInv, RunPages
<1>12. AreaInv'
  BY <1>1, <1>2, <1>6 DEF AreaInv
<1> QED BY <1>5, <1>7, <1>8, <1>9, <1>10, <1>11, <1>12 DEF IInv

-----------------------------------------------------------------------------
(* vmm_alloc_pages and vmm_free_pages keep the invariant *)

\* vmm_alloc_pages advances the bump pointer over pages nobody has mapped.
LEMMA AllocCallStep ==
    ASSUME Fits, IInv, NEW count \in Counts, vmm_alloc_pages(count)
    PROVE  IInv'
<1>1. /\ pc = "idle" /\ pc' = "alloc" /\ i' = 0 /\ ready /\ nextVaddr # 0
      /\ count % NPages < NPages - nextVaddr
      /\ call' = [base |-> nextVaddr, count |-> count]
      /\ nextVaddr' = nextVaddr + (count % NPages)
      /\ UNCHANGED <<tables, ready, directMapEnd, avail, areas, heaps, live, dropped, tlb>>
  BY DEF vmm_alloc_pages
<1>2. /\ ready' = ready /\ directMapEnd' = directMapEnd /\ vma' = vma /\ vmaReady' = vmaReady
      /\ heap' = heap /\ heapReady' = heapReady /\ live' = live
  BY <1>1 DEF areas, heaps
<1>3. vmaReady /\ ~Busy /\ Busy' /\ ~Booting /\ ~Booting' /\ Up /\ Up'
  BY <1>1, <1>2 DEF IInv, PhaseInv, Booting, Busy, Up
<1>4. /\ count \in Nat /\ count # 0 /\ nextVaddr \in Nat /\ nextVaddr \in VPage
      /\ count < NPages /\ NPages \in Nat
  BY LayoutAssumption DEF IInv, RestTyped, VPage
<1>5. /\ count < NPages /\ count % NPages = count
      /\ nextVaddr' = nextVaddr + count /\ nextVaddr' \in VPage /\ nextVaddr <= nextVaddr'
  <2>1. count < NPages
    BY <1>4
  <2>2. count % NPages = count
    BY <2>1, <1>4, WrapFacts
  <2>3. nextVaddr' = nextVaddr + count
    BY <1>1, <2>2
  <2> QED BY <2>1, <2>2, <2>3, <1>1, <1>4 DEF VPage
<1>6. /\ call' \in Run /\ call'.base = nextVaddr /\ call'.count = count
  BY <1>1, <1>4 DEF Run
<1>7. Running = {} /\ Running' = {call'} /\ Runs = live /\ Runs' = live \cup {call'}
  BY <1>1, <1>2 DEF Runs, Running
<1>8. KernelBase + MapEnd <= nextVaddr
  BY <1>1 DEF IInv, PhaseInv
<1>9. \A v \in Pages(call') : /\ v \notin HeapRange => Map[v] = None
                             /\ v \in VPage /\ v \notin RunPages(live)
  <2> SUFFICES ASSUME NEW v \in Pages(call')
               PROVE  /\ v \notin HeapRange => Map[v] = None
                      /\ v \in VPage /\ v \notin RunPages(live)
    OBVIOUS
  <2>1. v \in Nat /\ nextVaddr <= v /\ v < nextVaddr + count
    BY <1>4, <1>6 DEF Pages
  <2>2. v \in VPage
    BY <2>1, <1>4, <1>5 DEF VPage
  <2>3. v \notin RunPages(live)
    <3> SUFFICES ASSUME NEW r \in live, v \in Pages(r) PROVE FALSE
      BY InRunPages
    <3>1. v < nextVaddr
      BY <1>7, RunFacts DEF IInv
    <3> QED BY <3>1, <2>1, <1>4
  <2>4. v >= KernelBase /\ ~(v < KernelBase + MapEnd)
    BY <2>1, <2>2, <1>4, <1>8, Geometry
  <2> QED BY <2>2, <2>3, <2>4, <1>7 DEF IInv, KernelHalfInv
<1>10. RunPages(Runs') = RunPages(live) \cup Pages(call')
  BY <1>7 DEF RunPages
<1>11. Map' = Map /\ UserBits' = UserBits /\ TableOf' = TableOf /\ pd' = pd /\ mem' = mem
  BY <1>1, SameMemory DEF tables
<1>12. MemoryTyped'
  BY <1>1, <1>11 DEF IInv, MemoryTyped
<1>13. RestTyped'
  BY <1>1, <1>2, <1>5, <1>6 DEF IInv, RestTyped, PC
<1>14. PhaseInv'
  <2>1. KernelBase + MapEnd <= nextVaddr'
    BY <1>4, <1>5, <1>8, Geometry
  <2> QED BY <2>1, <1>1, <1>2, <1>3 DEF IInv, PhaseInv, Booting, Busy
<1>15. DirectMapInv'
  BY <1>1, <1>2, <1>3, <1>11 DEF IInv, DirectMapInv
<1>16. KernelHalfInv'
  BY <1>7, <1>10, <1>11 DEF IInv, KernelHalfInv
<1>17. FramesInv'
  <2>1. /\ Owners = RunPages(live) \cup HeapRange \cup UserPages
        /\ Owners' = Owners \cup Pages(call')
    BY <1>3, <1>7, <1>10 DEF Owners
  <2>0. PICK L \in SUBSET Managed :
           LostBound(L) /\ Account(Owners, Map, TableOf, avail, dropped \cup L)
    BY DEF IInv, FramesInv
  <2>2. Account(Owners', Map, TableOf, avail, dropped \cup L)
    <3> DEFINE O == Owners
               O2 == Owners'
    <3>1. \A v \in O : v \in O2
      BY <2>1
    <3>2. \A v \in O2 : IF v \in O THEN Map[v] = Map[v] ELSE Map[v] = None
      BY <2>1, <1>9
    <3>3. Account(O, Map, TableOf, avail, dropped \cup L)
      BY <2>0
    <3> HIDE DEF O, O2
    <3>4. Account(O2, Map, TableOf, avail, dropped \cup L)
      BY <3>1, <3>2, <3>3, AccountOwners
    <3> QED BY <3>4 DEF O2
  <2>3. nextVaddr' <= KheapStart => L = {}
    BY <2>0, <1>4, <1>5, LayoutAssumption DEF LostBound
  <2> QED BY <2>0, <2>2, <2>3, <1>1, <1>11 DEF FramesInv, LostBound
<1>18. HeapInv'
  <2>1. \A k \in 0..(KheapPages - 1) :
           KheapStart + k >= nextVaddr' => KheapStart + k >= nextVaddr
    BY <1>4, <1>5, LayoutAssumption
  <2> QED BY <2>1, <1>1, <1>2, <1>11 DEF IInv, HeapInv
<1>19. RunInv'
  <2>1. \A r \in live : /\ r.base \in Nat /\ r.count \in Nat /\ r.count # 0
                        /\ r.base + r.count <= nextVaddr
    BY <1>7, RunFacts DEF IInv
  <2>2. \A r \in live : RunPlaced(r, nextVaddr)
    BY <1>7 DEF IInv, RunInv
  <2>3. \A r \in Runs' : RunPlaced(r, nextVaddr')
    <3>1. \A r \in live : RunPlaced(r, nextVaddr')
      BY <2>1, <2>2, <1>4, <1>5 DEF RunPlaced
    <3>2. RunPlaced(call', nextVaddr')
      BY <1>1, <1>4, <1>5, <1>6, <1>8 DEF RunPlaced
    <3> QED BY <3>1, <3>2, <1>7
  <2>4. \A q, r \in Runs' : q # r => Apart(q, r)
    <3>1. \A q, r \in live : q # r => Apart(q, r)
      BY <1>7 DEF IInv, RunInv
    <3>2. \A q \in live : Apart(q, call') /\ Apart(call', q)
      BY <2>1, <1>4, <1>6 DEF Apart
    <3> QED BY <3>1, <3>2, <1>7
  <2>5. Running' \cap live' = {}
    <3>1. call' \notin live
      BY <2>1, <1>4, <1>6
    <3> QED BY <3>1, <1>2, <1>7
  <2>6. i' <= call'.count
    BY <1>1, <1>4, <1>6
  <2>7. \A k \in 0..(call'.count - 1) :
           ~(k < i') /\ (Map'[call'.base + k] # None => call'.base + k \in HeapRange)
    <3>1. \A k \in 0..(call'.count - 1) : call'.base + k \in Pages(call') /\ ~(k < 0)
      BY <1>4, <1>6 DEF Pages
    <3> QED BY <3>1, <1>1, <1>9, <1>11
  <2>8. \A v \in RunPages(live) : Map'[v] # None
    BY <1>11 DEF IInv, RunInv
  <2> QED BY <2>3, <2>4, <2>5, <2>6, <2>7, <2>8, <1>1, <1>2, <1>3 DEF RunInv
<1>20. UserInv' /\ AreaInv'
  BY <1>1, <1>2, <1>11 DEF IInv, UserInv, AreaInv
<1>21. TlbInv'
  BY <1>1, <1>2, <1>11, TlbSame DEF IInv
<1> QED BY <1>12, <1>13, <1>14, <1>15, <1>16, <1>17, <1>18, <1>19, <1>20, <1>21 DEF IInv

\* What holds throughout a call: the run is apart from everything else.
LEMMA BusyFacts ==
    ASSUME Fits, IInv, Busy
    PROVE  /\ Running = {call} /\ call \in Runs /\ call \in Run /\ call \notin live
           /\ Runs = live \cup {call} /\ RunPages(Runs) = RunPages(live) \cup Pages(call)
           /\ call.base \in Nat /\ call.count \in Nat /\ i \in Nat /\ i <= call.count
           /\ ready /\ vmaReady /\ Up /\ ~Booting
           /\ \A k \in 0..(call.count - 1) : call.base + k \in Pages(call)
           /\ \A v \in Pages(call) :
                 /\ v \in VPage /\ v \in Owners /\ v \notin RunPages(live)
                 /\ v \notin UserPages /\ KernelBase + MapEnd <= v
                 /\ v < nextVaddr /\ nextVaddr \in Nat
                 /\ \E k \in 0..(call.count - 1) : v = call.base + k
<1>1. Running = {call}
  BY DEF Running, Busy
<1>2. call \in Runs /\ Runs = live \cup {call} /\ RunPages(Runs) = RunPages(live) \cup Pages(call)
  BY <1>1 DEF Runs, RunPages
<1>3. call \notin live /\ i <= call.count
  BY <1>1 DEF IInv, RunInv
<1>4. ready /\ vmaReady /\ Up /\ ~Booting
  BY DEF IInv, PhaseInv, Busy, Up, Booting
<1>5. i \in Nat
  BY DEF IInv, RestTyped
<1>6. /\ call \in Run /\ call.base \in Nat /\ call.count \in Nat
      /\ \A k \in 0..(call.count - 1) : call.base + k \in Pages(call)
      /\ \A v \in Pages(call) : /\ v \in VPage /\ v \notin UserPages
                                /\ KernelBase + MapEnd <= v
                                /\ v < nextVaddr /\ nextVaddr \in Nat
  BY <1>2, RunFacts DEF IInv
<1>7. ASSUME NEW v \in Pages(call)
      PROVE  \E k \in 0..(call.count - 1) : v = call.base + k
  <2>1. v - call.base \in 0..(call.count - 1) /\ v = call.base + (v - call.base)
    BY <1>6 DEF Pages
  <2> QED BY <2>1
<1>8. ASSUME NEW v \in Pages(call) PROVE v \notin RunPages(live)
  <2> SUFFICES ASSUME NEW r \in live, v \in Pages(r) PROVE FALSE
    BY InRunPages
  <2>1. r \in Runs /\ r # call
    BY <1>2, <1>3
  <2>2. r.base \in Nat /\ r.count \in Nat
    BY <2>1, RunFacts DEF IInv
  <2>3. Apart(r, call)
    BY <1>2, <2>1 DEF IInv, RunInv
  <2> QED BY <2>2, <2>3, <1>6 DEF Apart, Pages
<1>9. \A v \in Pages(call) : v \in Owners
  BY <1>2, <1>4 DEF Owners
<1> QED BY <1>1, <1>2, <1>3, <1>4, <1>5, <1>6, <1>7, <1>8, <1>9

\* One turn of the loop of vmm_alloc_pages.
LEMMA AllocPageStep ==
    ASSUME Fits, IInv, alloc_page
    PROVE  IInv'
<1> DEFINE v == call.base + i
<1>0. /\ pc = "alloc" /\ i < call.count /\ pc' = pc /\ i' = i + 1
      /\ UNCHANGED <<pc, call, layout, areas, heaps, live, dropped>>
  BY DEF alloc_page
<1>1. PICK f \in AllocChoice(avail) : MapPage(v, f, FALSE, avail \ {f})
  BY DEF alloc_page
<1>2. /\ call' = call /\ ready' = ready /\ nextVaddr' = nextVaddr /\ directMapEnd' = directMapEnd
      /\ vma' = vma /\ vmaReady' = vmaReady /\ heap' = heap /\ heapReady' = heapReady
      /\ live' = live /\ dropped' = dropped
  BY <1>0 DEF layout, areas, heaps
<1>3. Busy /\ Busy' /\ ~Booting'
  BY <1>0 DEF Busy, Booting
<1>4. Runs' = Runs /\ Owners' = Owners /\ Running' = Running
  BY <1>0, <1>2 DEF Runs, Running, Owners, Up
<1>5. /\ i \in 0..(call.count - 1) /\ i \in Nat /\ i' \in Nat /\ i' <= call.count
      /\ call.count \in Nat /\ call.base \in Nat
  BY <1>0, <1>3, BusyFacts
<1>6. v \in Pages(call) /\ v \in VPage /\ v \in Owners
  BY <1>3, <1>5, BusyFacts
<1>7. nextVaddr <= KheapStart => Map[v] = None
  <2>1. Map[v] # None => v \in HeapRange
    BY <1>0, <1>5 DEF IInv, RunInv
  <2>2. nextVaddr <= KheapStart => v \notin HeapRange
    BY <1>3, <1>6, BusyFacts, LayoutAssumption DEF HeapRange, VPage
  <2> QED BY <2>1, <2>2
<1>8. /\ MapPageDone(v, f, FALSE, avail \ {f}) /\ f \in Frame /\ f # None
      /\ {Map[v]} \ {None} \subseteq Managed
  BY <1>1, <1>6, PageGiven
<1>9. /\ Map' = [Map EXCEPT ![v] = f] /\ UserBits' = UserBits \ {v}
      /\ tlb' = Invlpg(v) /\ MemoryTyped'
  BY <1>8 DEF MapPageDone
<1>10. Map'[v] = f /\ \A w \in VPage : w # v => Map'[w] = Map[w]
  BY <1>6, <1>9, OtherPages
<1>11. RestTyped'
  BY <1>0, <1>2, <1>5 DEF IInv, RestTyped
<1>12. PhaseInv'
  BY <1>0, <1>2, <1>3, BusyFacts DEF IInv, PhaseInv, Busy
<1>13. DirectMapInv'
  <2>1. KernelBase + MapEnd <= v
    BY <1>3, <1>6, BusyFacts
  <2>2. \A g \in 0..(MapEnd - 1) : KernelBase + g \in VPage /\ KernelBase + g # v
    BY <2>1, Geometry
  <2> QED BY <2>2, <1>0, <1>2, <1>3, <1>10 DEF IInv, DirectMapInv
<1>14. KernelHalfInv'
  <2>1. v \in RunPages(Runs')
    BY <1>3, <1>4, <1>6, BusyFacts
  <2> QED BY <2>1, <1>4, <1>10 DEF IInv, KernelHalfInv
<1>15. FramesInv'
  <2> DEFINE M == {Map[v]} \ {None}
  <2>1. PICK L \in SUBSET Managed :
           /\ LostBound(L)
           /\ Account(Owners, Map', TableOf', avail', (dropped \cup L) \cup M)
    BY <1>1, <1>6, PageGiven
  <2>2. L \cup M \in SUBSET Managed
    BY <1>8
  <2>3. nextVaddr <= KheapStart => L \cup M = {}
    BY <2>1, <1>7 DEF LostBound
  <2> HIDE DEF M
  <2>4. (dropped \cup L) \cup M = dropped \cup (L \cup M)
    OBVIOUS
  <2>5. Account(Owners, Map', TableOf', avail', dropped \cup (L \cup M))
    BY <2>1, <2>4
  <2> QED BY <2>2, <2>3, <2>5, <1>2, <1>4 DEF FramesInv, LostBound
<1>16. HeapInv'
  <2>1. \A k \in 0..(KheapPages - 1) :
           KheapStart + k >= nextVaddr => Map'[KheapStart + k] = Map[KheapStart + k]
    <3>1. v < nextVaddr /\ nextVaddr \in Nat /\ v \in Nat
      BY <1>3, <1>6, BusyFacts DEF VPage
    <3>2. \A k \in 0..(KheapPages - 1) : KheapStart + k \in VPage /\ KheapStart + k \in Nat
      BY Geometry DEF VPage
    <3> QED BY <3>1, <3>2, <1>10
  <2> QED BY <2>1, <1>0, <1>2, <1>3 DEF IInv, HeapInv
<1>17. RunInv'
  <2>1. \A w \in RunPages(live) : Map'[w] # None
    <3>1. \A w \in RunPages(live) : Map[w] # None /\ w \in Owners /\ w # v
      BY <1>3, <1>6, BusyFacts DEF IInv, RunInv, Owners
    <3> QED BY <3>1, <1>10, OwnersArePages
  <2>2. ASSUME NEW k \in 0..(call.count - 1)
        PROVE  /\ k < i' => Map'[call.base + k] # None
               /\ k >= i' /\ Map'[call.base + k] # None => call.base + k \in HeapRange
    <3>1. CASE k = i
      BY <3>1, <1>0, <1>5, <1>8, <1>10
    <3>2. CASE k # i
      <4>1. call.base + k \in VPage /\ call.base + k # v
        BY <3>2, <1>3, <1>5, BusyFacts
      <4>2. /\ k < i => Map[call.base + k] # None
            /\ k >= i /\ Map[call.base + k] # None => call.base + k \in HeapRange
        BY <1>0 DEF IInv, RunInv
      <4>3. (k < i' <=> k < i) /\ (k >= i' => k >= i)
        BY <3>2, <1>0, <1>5
      <4> QED BY <4>1, <4>2, <4>3, <1>10
    <3> QED BY <3>1, <3>2
  <2> QED BY <2>1, <2>2, <1>0, <1>2, <1>4, <1>5 DEF IInv, RunInv
<1>18. UserInv' /\ AreaInv'
  BY <1>0, <1>2, <1>9 DEF IInv, UserInv, AreaInv
<1>19. TlbInv'
  BY <1>2, <1>6, <1>9, MemoryFacts, TlbAfterInvlpg DEF IInv
<1> QED BY <1>9, <1>11, <1>12, <1>13, <1>14, <1>15, <1>16, <1>17, <1>18, <1>19 DEF IInv

\* An owned page goes, and its frame goes back to the pool.
LEMMA PageTaken ==
    ASSUME Fits, IInv, NEW v \in Owners,
           \/ GetPhysical(v) = None /\ UNCHANGED <<pd, mem, tlb>>
           \/ UnmapPage(v),
           avail' = IF GetPhysical(v) = None THEN avail ELSE FreePage(avail, GetPhysical(v)),
           ready' = ready
    PROVE  /\ Map' = [Map EXCEPT ![v] = None] /\ v \in VPage
           /\ UserBits' \subseteq UserBits
           /\ MemoryTyped' /\ TlbInv'
           /\ \E L \in SUBSET Managed :
                 LostBound(L) /\ Account(Owners, Map', TableOf', avail', dropped \cup L)
<1>0. PICK L \in SUBSET Managed :
         LostBound(L) /\ Account(Owners, Map, TableOf, avail, dropped \cup L)
  BY DEF IInv, FramesInv
<1> DEFINE D == dropped \cup L
<1>1. v \in VPage /\ Owners \subseteq VPage
  BY OwnersArePages
<1>2. GetPhysical(v) = Map[v]
  BY <1>1, MemoryFacts, GetPhysicalIsWalk
<1>3. /\ Map' = [Map EXCEPT ![v] = None] /\ TableOf' = TableOf
      /\ UserBits' \subseteq UserBits
      /\ pd' \in [PdIndices -> PTE \cup {None}]
      /\ mem' \in [Frame -> [TableIndex -> PTE \cup {None}]]
      /\ tlb' = Invlpg(v) \/ (tlb' = tlb /\ Map' = Map)
  <2>1. CASE UnmapPage(v)
    <3>1. UnmapPageDone(v)
      BY <2>1, <1>1, MemoryFacts, UnmapPageEffect
    <3> QED BY <3>1 DEF UnmapPageDone
  <2>2. CASE GetPhysical(v) = None /\ UNCHANGED <<pd, mem, tlb>>
    <3>1. Map' = Map /\ UserBits' = UserBits /\ TableOf' = TableOf
      BY <2>2, SameMemory DEF tables
    <3>2. Map = [Map EXCEPT ![v] = None]
      BY <2>2, <1>2, <1>1, MemoryFacts
    <3> QED BY <2>2, <3>1, <3>2 DEF IInv, MemoryTyped
  <2> QED BY <2>1, <2>2
<1>4. avail' \subseteq Managed /\ Account(Owners, [Map EXCEPT ![v] = None], TableOf, avail', D)
  <2>1. Account(Owners, Map, TableOf, avail, D) /\ avail \subseteq Managed
    BY <1>0, MemoryFacts
  <2> HIDE DEF D
  <2>2. CASE Map[v] = None
    <3>1. Map = [Map EXCEPT ![v] = None]
      BY <2>2, <1>1, MemoryFacts
    <3>2. avail' = avail
      BY <2>2, <1>2
    <3> QED BY <2>1, <3>1, <3>2
  <2>3. CASE Map[v] # None
    <3>1. /\ Account(Owners, [Map EXCEPT ![v] = None], TableOf, avail \cup {Map[v]}, D)
          /\ Map[v] \in Managed
      BY <2>1, <2>3, <1>1, MemoryFacts, AccountUnmap
    <3>2. avail' = avail \cup {Map[v]}
      BY <2>3, <3>1, <1>2 DEF FreePage
    <3> QED BY <2>1, <3>1, <3>2
  <2> QED BY <2>2, <2>3
<1>5. MemoryTyped'
  BY <1>3, <1>4 DEF MemoryTyped
<1>6. TlbInv'
  BY <1>1, <1>3, MemoryFacts, TlbAfterInvlpg DEF IInv
<1>7. Account(Owners, Map', TableOf', avail', D)
  BY <1>3, <1>4
<1> QED BY <1>0, <1>1, <1>3, <1>5, <1>6, <1>7

\* rollback_page and free_page undo one page of the run alike.
LEMMA UndoPageStep ==
    ASSUME Fits, IInv, rollback_page \/ free_page
    PROVE  IInv'
<1> DEFINE v == call.base + i
<1>0. /\ pc \in {"rollback", "free"} /\ i < call.count /\ pc' = pc /\ i' = i + 1
      /\ UNCHANGED <<pc, call, layout, areas, heaps, live, dropped>>
      /\ \/ GetPhysical(v) = None /\ UNCHANGED <<pd, mem, tlb>>
         \/ UnmapPage(v)
      /\ avail' = IF GetPhysical(v) = None THEN avail ELSE FreePage(avail, GetPhysical(v))
  BY DEF rollback_page, free_page
<1>2. /\ call' = call /\ ready' = ready /\ nextVaddr' = nextVaddr /\ directMapEnd' = directMapEnd
      /\ vma' = vma /\ vmaReady' = vmaReady /\ heap' = heap /\ heapReady' = heapReady
      /\ live' = live /\ dropped' = dropped
  BY <1>0 DEF layout, areas, heaps
<1>3. Busy /\ Busy' /\ ~Booting'
  BY <1>0 DEF Busy, Booting
<1>4. Runs' = Runs /\ Owners' = Owners /\ Running' = Running
  BY <1>0, <1>2 DEF Runs, Running, Owners, Up
<1>5. /\ i \in 0..(call.count - 1) /\ i \in Nat /\ i' \in Nat /\ i' <= call.count
      /\ call.count \in Nat /\ call.base \in Nat
  BY <1>0, <1>3, BusyFacts
<1>6. v \in Pages(call) /\ v \in VPage /\ v \in Owners
  BY <1>3, <1>5, BusyFacts
<1>9. /\ Map' = [Map EXCEPT ![v] = None] /\ UserBits' \subseteq UserBits
      /\ MemoryTyped' /\ TlbInv'
      /\ \E L \in SUBSET Managed :
            LostBound(L) /\ Account(Owners, Map', TableOf', avail', dropped \cup L)
  BY <1>0, <1>2, <1>6, PageTaken
<1>10. Map'[v] = None /\ \A w \in VPage : w # v => Map'[w] = Map[w]
  BY <1>6, <1>9, OtherPages
<1>11. RestTyped'
  BY <1>0, <1>2, <1>5 DEF IInv, RestTyped
<1>12. PhaseInv'
  BY <1>0, <1>2, <1>3, BusyFacts DEF IInv, PhaseInv, Busy
<1>13. DirectMapInv'
  <2>1. KernelBase + MapEnd <= v
    BY <1>3, <1>6, BusyFacts
  <2>2. \A g \in 0..(MapEnd - 1) : KernelBase + g \in VPage /\ KernelBase + g # v
    BY <2>1, Geometry
  <2> QED BY <2>2, <1>0, <1>2, <1>3, <1>10 DEF IInv, DirectMapInv
<1>14. KernelHalfInv'
  BY <1>4, <1>6, <1>10 DEF IInv, KernelHalfInv
<1>15. FramesInv'
  BY <1>2, <1>4, <1>9 DEF FramesInv, LostBound
<1>16. HeapInv'
  <2>1. \A k \in 0..(KheapPages - 1) :
           KheapStart + k >= nextVaddr => Map'[KheapStart + k] = Map[KheapStart + k]
    <3>1. v < nextVaddr /\ nextVaddr \in Nat /\ v \in Nat
      BY <1>3, <1>6, BusyFacts DEF VPage
    <3>2. \A k \in 0..(KheapPages - 1) : KheapStart + k \in VPage /\ KheapStart + k \in Nat
      BY Geometry DEF VPage
    <3> QED BY <3>1, <3>2, <1>10
  <2> QED BY <2>1, <1>0, <1>2, <1>3 DEF IInv, HeapInv
<1>17. RunInv'
  <2>1. \A w \in RunPages(live) : Map'[w] # None
    <3>1. \A w \in RunPages(live) : Map[w] # None /\ w \in Owners /\ w # v
      BY <1>3, <1>6, BusyFacts DEF IInv, RunInv, Owners
    <3> QED BY <3>1, <1>10, OwnersArePages
  <2>2. ASSUME NEW k \in 0..(call.count - 1), k < i'
        PROVE  Map'[call.base + k] = None
    <3>1. CASE k = i
      BY <3>1, <1>10
    <3>2. CASE k # i
      <4>1. call.base + k \in VPage /\ call.base + k # v
        BY <3>2, <1>3, <1>5, BusyFacts
      <4>2. k < i
        BY <2>2, <3>2, <1>0, <1>5
      <4>3. Map[call.base + k] = None
        BY <4>2, <1>0 DEF IInv, RunInv
      <4> QED BY <4>1, <4>3, <1>10
    <3> QED BY <3>1, <3>2
  <2> QED BY <2>1, <2>2, <1>0, <1>2, <1>4, <1>5 DEF IInv, RunInv
<1>18. UserInv' /\ AreaInv'
  BY <1>0, <1>2, <1>9 DEF IInv, UserInv, AreaInv
<1> QED BY <1>9, <1>11, <1>12, <1>13, <1>14, <1>15, <1>16, <1>17, <1>18 DEF IInv

\* No frame: the rollback begins.
LEMMA AllocFailsStep ==
    ASSUME Fits, IInv, alloc_page_fails
    PROVE  IInv'
<1>1. /\ pc = "alloc" /\ pc' = "rollback" /\ i' = 0
      /\ UNCHANGED <<call, tables, layout, avail, areas, heaps, live, dropped, tlb>>
  BY DEF alloc_page_fails
<1>2. /\ call' = call /\ ready' = ready /\ nextVaddr' = nextVaddr /\ directMapEnd' = directMapEnd
      /\ vma' = vma /\ vmaReady' = vmaReady /\ heap' = heap /\ heapReady' = heapReady
      /\ live' = live
  BY <1>1 DEF layout, areas, heaps
<1>3. Busy /\ Busy' /\ ~Booting' /\ vmaReady
  BY <1>1, BusyFacts DEF Busy, Booting
<1>4. Runs' = Runs /\ Running' = Running /\ Up' = Up
  BY <1>1, <1>2 DEF Runs, Running, Up
<1>5. /\ Map' = Map
      /\ MemoryTyped' /\ KernelHalfInv' /\ FramesInv' /\ UserInv' /\ TlbInv'
  BY <1>1, <1>2, <1>4, ControlStep
<1>6. RestTyped'
  BY <1>1, <1>2 DEF IInv, RestTyped, PC
<1>7. PhaseInv'
  BY <1>1, <1>2, <1>3, BusyFacts DEF IInv, PhaseInv, Busy
<1>8. DirectMapInv'
  BY <1>1, <1>2, <1>3, <1>5 DEF IInv, DirectMapInv
<1>9. HeapInv'
  BY <1>1, <1>2, <1>5 DEF IInv, HeapInv
<1>10. RunInv'
  <2>1. i' <= call'.count /\ \A k \in 0..(call'.count - 1) : ~(k < i')
    BY <1>1, <1>2, <1>3, BusyFacts
  <2> QED BY <2>1, <1>1, <1>2, <1>4, <1>5 DEF IInv, RunInv
<1>11. AreaInv'
  BY <1>1, <1>2 DEF IInv, AreaInv
<1> QED BY <1>5, <1>6, <1>7, <1>8, <1>9, <1>10, <1>11 DEF IInv

\* The run becomes the caller's.
LEMMA AllocReturnsStep ==
    ASSUME Fits, IInv, alloc_returns
    PROVE  IInv'
<1>1. /\ pc = "alloc" /\ i = call.count /\ pc' = "idle" /\ i' = 0 /\ call' = NoRun
      /\ live' = live \cup {call}
      /\ UNCHANGED <<tables, layout, avail, vmaReady, heaps, dropped, tlb>>
  BY DEF alloc_returns
<1>2. /\ ready' = ready /\ nextVaddr' = nextVaddr /\ directMapEnd' = directMapEnd
      /\ vmaReady' = vmaReady /\ heap' = heap /\ heapReady' = heapReady
  BY <1>1 DEF layout, heaps
<1>3. Busy /\ ~Busy' /\ ~Booting' /\ vmaReady
  BY <1>1, BusyFacts DEF Busy, Booting
<1>4. Runs' = Runs /\ Running' = {} /\ Up' = Up
  BY <1>1, <1>2, <1>3, BusyFacts DEF Runs, Running, Up
<1>5. /\ Map' = Map
      /\ MemoryTyped' /\ KernelHalfInv' /\ FramesInv' /\ UserInv' /\ TlbInv'
  BY <1>1, <1>2, <1>4, ControlStep
<1>6. vma' \subseteq vma \cup {RunArea(call)}
  BY <1>3, VmaAddBounds DEF alloc_returns, RunArea
<1>7. RestTyped'
  <2>1. RunArea(call) \in [start : 0..NPages, end : 0..NPages,
                      tag : {"direct-map", "kheap", "vmm-alloc", "user-code", "user-stack"}]
    <3>1. /\ call.base \in Nat /\ call.count \in Nat /\ call.base + call.count <= nextVaddr
          /\ nextVaddr < NPages /\ nextVaddr \in Nat /\ NPages \in Nat
      BY <1>3, BusyFacts, RunFacts, LayoutAssumption DEF IInv
    <3>2. call.base \in 0..NPages /\ call.base + call.count \in 0..NPages
      BY <3>1
    <3> QED BY <3>2 DEF RunArea, Area
  <2>2. NoRun \in Run
    BY LayoutFacts DEF NoRun, Run, VPage
  <2>3. live' \subseteq Run
    BY <1>1, <1>3, BusyFacts DEF IInv, RestTyped
  <2> QED BY <2>1, <2>2, <2>3, <1>1, <1>2, <1>6 DEF IInv, RestTyped, PC
<1>8. PhaseInv'
  BY <1>1, <1>2, <1>3, BusyFacts DEF IInv, PhaseInv, Busy, Booting
<1>9. DirectMapInv'
  BY <1>1, <1>2, <1>3, <1>5 DEF IInv, DirectMapInv
<1>10. HeapInv'
  BY <1>1, <1>2, <1>5 DEF IInv, HeapInv
<1>11. RunInv'
  <2>1. ASSUME NEW v \in RunPages(live') PROVE Map'[v] # None
    <3>1. v \in RunPages(live) \/ v \in Pages(call)
      BY <1>1 DEF RunPages
    <3>2. CASE v \in RunPages(live)
      BY <3>2, <1>5 DEF IInv, RunInv
    <3>3. CASE v \in Pages(call)
      <4>1. PICK k \in 0..(call.count - 1) : v = call.base + k
        BY <3>3, <1>3, BusyFacts
      <4>2. k < i
        BY <4>1, <1>1, <1>3, BusyFacts
      <4> QED BY <4>1, <4>2, <1>1, <1>5 DEF IInv, RunInv
    <3> QED BY <3>1, <3>2, <3>3
  <2> QED BY <2>1, <1>1, <1>2, <1>3, <1>4 DEF IInv, RunInv
<1>12. AreaInv'
  BY <1>1, <1>2, <1>3, <1>6 DEF IInv, AreaInv
<1> QED BY <1>5, <1>7, <1>8, <1>9, <1>10, <1>11, <1>12 DEF IInv

\* A run whose pages are all unmapped is forgotten.
LEMMA UndoneStep ==
    ASSUME Fits, IInv, rollback_returns \/ free_returns
    PROVE  IInv'
<1>1. /\ pc \in {"rollback", "free"} /\ i = call.count /\ pc' = "idle" /\ i' = 0 /\ call' = NoRun
      /\ UNCHANGED <<tables, layout, avail, areas, heaps, live, dropped, tlb>>
  BY DEF rollback_returns, free_returns
<1>2. /\ ready' = ready /\ nextVaddr' = nextVaddr /\ directMapEnd' = directMapEnd
      /\ vma' = vma /\ vmaReady' = vmaReady /\ heap' = heap /\ heapReady' = heapReady
      /\ live' = live
  BY <1>1 DEF layout, areas, heaps
<1>3. Busy /\ ~Busy' /\ ~Booting' /\ vmaReady /\ Up /\ Up'
  BY <1>1, <1>2, BusyFacts DEF Busy, Booting, Up
<1>4. Runs' = live /\ Running' = {} /\ RunPages(Runs) = RunPages(live) \cup Pages(call)
  BY <1>1, <1>2, <1>3, BusyFacts DEF Runs, Running
<1>5. Map' = Map /\ UserBits' = UserBits /\ TableOf' = TableOf /\ pd' = pd /\ mem' = mem
  BY <1>1, SameMemory DEF tables
<1>6. \A v \in Pages(call) : Map[v] = None
  <2> SUFFICES ASSUME NEW v \in Pages(call) PROVE Map[v] = None
    OBVIOUS
  <2>1. PICK k \in 0..(call.count - 1) : v = call.base + k
    BY <1>3, BusyFacts
  <2>2. k < i
    BY <2>1, <1>1, <1>3, BusyFacts
  <2> QED BY <2>1, <2>2, <1>1 DEF IInv, RunInv
<1>7. MemoryTyped' /\ UserInv' /\ TlbInv'
  BY <1>1, <1>2, <1>5, TlbSame DEF IInv, MemoryTyped, UserInv
<1>8. RestTyped'
  <2>1. NoRun \in Run
    BY LayoutFacts DEF NoRun, Run, VPage
  <2> QED BY <2>1, <1>1, <1>2 DEF IInv, RestTyped, PC
<1>9. PhaseInv'
  BY <1>1, <1>2, <1>3, BusyFacts DEF IInv, PhaseInv, Busy, Booting
<1>10. DirectMapInv'
  BY <1>1, <1>2, <1>3, <1>5 DEF IInv, DirectMapInv
<1>11. KernelHalfInv'
  BY <1>4, <1>5, <1>6 DEF IInv, KernelHalfInv
<1>12. FramesInv'
  <2> DEFINE O == Owners
             O2 == Owners'
  <2>1. /\ O = RunPages(live) \cup Pages(call) \cup HeapRange \cup UserPages
        /\ O2 = RunPages(live) \cup HeapRange \cup UserPages
    BY <1>3, <1>4 DEF Owners
  <2>2. /\ \A v \in O : Map[v] # None => v \in O2
        /\ \A v \in O2 : v \in O
    BY <2>1, <1>6
  <2>3. PICK L \in SUBSET Managed :
           LostBound(L) /\ Account(O, Map, TableOf, avail, dropped \cup L)
    BY DEF IInv, FramesInv
  <2>4. Owners' = O2
    OBVIOUS
  <2> HIDE DEF O, O2
  <2>5. Account(O2, Map, TableOf, avail, dropped \cup L)
    BY <2>2, <2>3, AccountOwners
  <2> QED BY <2>3, <2>4, <2>5, <1>1, <1>2, <1>5 DEF FramesInv, LostBound
<1>13. HeapInv'
  BY <1>1, <1>2, <1>5 DEF IInv, HeapInv
<1>14. RunInv'
  <2>1. \A r \in Runs' : r \in Runs
    BY <1>4 DEF Runs
  <2> QED BY <2>1, <1>1, <1>2, <1>3, <1>4, <1>5 DEF IInv, RunInv
<1>15. AreaInv'
  BY <1>1, <1>2 DEF IInv, AreaInv
<1> QED BY <1>7, <1>8, <1>9, <1>10, <1>11, <1>12, <1>13, <1>14, <1>15 DEF IInv

\* vmm_free_pages begins: the run is no longer its caller's.
LEMMA FreeCallStep ==
    ASSUME Fits, IInv, NEW r \in live, vmm_free_pages(r)
    PROVE  IInv'
<1>1. /\ pc = "idle" /\ pc' = "free" /\ i' = 0 /\ call' = r /\ live' = live \ {r}
      /\ UNCHANGED <<tables, layout, avail, vmaReady, heaps, dropped, tlb>>
  BY DEF vmm_free_pages
<1>2. /\ ready' = ready /\ nextVaddr' = nextVaddr /\ directMapEnd' = directMapEnd
      /\ vmaReady' = vmaReady /\ heap' = heap /\ heapReady' = heapReady
  BY <1>1 DEF layout, heaps
<1>3. Busy' /\ ~Booting' /\ vmaReady
  BY <1>1 DEF Busy, Booting, IInv, PhaseInv
<1>4. Running = {} /\ Runs = live /\ Runs' = Runs /\ Running' = {r}
  BY <1>1 DEF Runs, Running
<1>5. /\ r \in Run /\ r.base \in Nat /\ r.count \in Nat /\ r.count # 0
      /\ KernelBase + MapEnd <= r.base /\ r.base + r.count <= nextVaddr /\ nextVaddr \in Nat
  BY <1>4, RunFacts DEF IInv
<1>6. ready /\ Up' = Up
  <2>1. nextVaddr # 0
    BY <1>5
  <2> QED BY <2>1, <1>1, <1>2 DEF IInv, PhaseInv, Up
<1>7. /\ Map' = Map
      /\ MemoryTyped' /\ KernelHalfInv' /\ FramesInv' /\ UserInv' /\ TlbInv'
  BY <1>1, <1>2, <1>4, <1>6, ControlStep
<1>8. vma' \subseteq vma /\ \A a \in vma' : a.start # r.base
  BY <1>3 DEF vmm_free_pages, VmaRemove
<1>9. RestTyped'
  BY <1>1, <1>2, <1>5, <1>8 DEF IInv, RestTyped, PC
<1>10. PhaseInv'
  BY <1>1, <1>2, <1>3, <1>6 DEF IInv, PhaseInv, Busy, Booting
<1>11. DirectMapInv'
  BY <1>1, <1>2, <1>3, <1>7 DEF IInv, DirectMapInv
<1>12. HeapInv'
  BY <1>1, <1>2, <1>7 DEF IInv, HeapInv
<1>13. RunInv'
  <2>1. i' <= call'.count /\ \A k \in 0..(call'.count - 1) : ~(k < i')
    BY <1>1, <1>5
  <2>2. RunPages(live') \subseteq RunPages(live)
    BY <1>1 DEF RunPages
  <2>3. Running' \cap live' = {}
    BY <1>1, <1>4
  <2> QED BY <2>1, <2>2, <2>3, <1>1, <1>2, <1>3, <1>4, <1>7 DEF IInv, RunInv
<1>14. AreaInv'
  <2>1. \A a \in vma' : \A q \in live : a = RunArea(q) => q \in live'
    <3>1. \A q \in live : RunArea(q).start = q.base
      BY DEF RunArea, Area
    <3> QED BY <3>1, <1>1, <1>8
  <2> QED BY <2>1, <1>1, <1>2, <1>3, <1>8 DEF IInv, AreaInv
<1> QED BY <1>7, <1>9, <1>10, <1>11, <1>12, <1>13, <1>14 DEF IInv

-----------------------------------------------------------------------------
(* The shell's commands and the processor keep the invariant *)

\* The command begins; it maps nothing yet.
LEMMA Ring3PanicStep ==
    ASSUME Fits, IInv, ring3_panic
    PROVE  IInv'
<1>1. /\ pc = "idle" /\ pc' = "ring3" /\ i' = 0
      /\ UNCHANGED <<call, tables, layout, avail, areas, heaps, live, dropped, tlb>>
  BY DEF ring3_panic
<1>2. /\ call' = call /\ ready' = ready /\ nextVaddr' = nextVaddr /\ directMapEnd' = directMapEnd
      /\ vma' = vma /\ vmaReady' = vmaReady /\ heap' = heap /\ heapReady' = heapReady
      /\ live' = live
  BY <1>1 DEF layout, areas, heaps
<1>3. Runs' = Runs /\ Running' = {} /\ Up' = Up
  BY <1>1, <1>2 DEF Runs, Running, Up
<1>4. /\ Map' = Map
      /\ MemoryTyped' /\ KernelHalfInv' /\ FramesInv' /\ UserInv' /\ TlbInv'
  BY <1>1, <1>2, <1>3, ControlStep
<1>5. RestTyped'
  BY <1>1, <1>2 DEF IInv, RestTyped, PC
<1>6. PhaseInv'
  BY <1>1, <1>2 DEF IInv, PhaseInv, Busy, Booting
<1>7. DirectMapInv'
  BY <1>1, <1>2, <1>4 DEF IInv, DirectMapInv, Booting
<1>8. HeapInv'
  BY <1>1, <1>2, <1>4 DEF IInv, HeapInv
<1>9. RunInv'
  BY <1>1, <1>2, <1>3, <1>4 DEF IInv, RunInv, Busy
<1>10. AreaInv'
  BY <1>1, <1>2 DEF IInv, AreaInv
<1> QED BY <1>4, <1>5, <1>6, <1>7, <1>8, <1>9, <1>10 DEF IInv

\* A change of one low page: nothing that runs, the heap or the direct map
\* have in the kernel half is touched.
LEMMA LowPageStep ==
    ASSUME Fits, IInv, pc \in {"idle", "ring3"}, pc' = pc,
           NEW v \in VPage, v < KernelBase, NEW x, Map' = [Map EXCEPT ![v] = x],
           UNCHANGED <<call, layout, areas, heaps, live>>
    PROVE  /\ DirectMapInv' /\ KernelHalfInv' /\ HeapInv' /\ RunInv' /\ AreaInv'
           /\ Owners' = Owners
<1>1. /\ call' = call /\ ready' = ready /\ nextVaddr' = nextVaddr /\ directMapEnd' = directMapEnd
      /\ vma' = vma /\ vmaReady' = vmaReady /\ heap' = heap /\ heapReady' = heapReady
      /\ live' = live
  BY DEF layout, areas, heaps
<1>2. ~Busy /\ ~Busy' /\ ~Booting /\ ~Booting'
  BY DEF Busy, Booting
<1>3. Runs' = Runs /\ Running' = {} /\ Owners' = Owners
  BY <1>1 DEF Runs, Running, Owners, Up
<1>4. \A w \in VPage : w >= KernelBase => Map'[w] = Map[w]
  BY OtherPages, Geometry DEF VPage
<1>5. DirectMapInv'
  <2>1. \A f \in 0..(MapEnd - 1) : KernelBase + f \in VPage /\ KernelBase + f >= KernelBase
    BY Geometry
  <2> QED BY <2>1, <1>1, <1>2, <1>4 DEF IInv, DirectMapInv
<1>6. KernelHalfInv'
  BY <1>3, <1>4 DEF IInv, KernelHalfInv
<1>7. HeapInv'
  <2>1. \A k \in 0..(KheapPages - 1) :
           KheapStart + k \in VPage /\ KheapStart + k >= KernelBase
    <3>1. KernelBase <= KheapStart /\ KernelBase \in Nat /\ KheapStart \in Nat
      BY LayoutAssumption
    <3> QED BY <3>1, Geometry
  <2> QED BY <2>1, <1>1, <1>4 DEF IInv, HeapInv
<1>8. RunInv'
  <2>1. \A w \in RunPages(live) : w \in VPage /\ w >= KernelBase
    <3> SUFFICES ASSUME NEW w, NEW r \in live, w \in Pages(r)
                 PROVE  w \in VPage /\ w >= KernelBase
      BY InRunPages
    <3>1. w \in VPage /\ KernelBase + MapEnd <= w
      BY RunFacts DEF IInv, Runs
    <3> QED BY <3>1, Geometry DEF VPage
  <2> QED BY <2>1, <1>1, <1>2, <1>3, <1>4 DEF IInv, RunInv
<1>9. AreaInv'
  BY <1>1 DEF IInv, AreaInv
<1> QED BY <1>3, <1>5, <1>6, <1>7, <1>8, <1>9

\* ring3_panic maps a user page, over what an earlier attempt left.
LEMMA Ring3PageStep ==
    ASSUME Fits, IInv, ring3_page
    PROVE  IInv'
<1> DEFINE v == UserCode + i
<1>0. /\ pc = "ring3" /\ i < 2 /\ pc' = pc /\ i' = i + 1
      /\ dropped' = dropped \cup ({Walk(v)} \ {None})
      /\ UNCHANGED <<pc, call, layout, areas, heaps, live>>
  BY DEF ring3_page
<1>1. PICK f \in AllocChoice(avail) : MapPage(v, f, TRUE, avail \ {f})
  BY DEF ring3_page
<1>2. /\ call' = call /\ ready' = ready /\ nextVaddr' = nextVaddr /\ directMapEnd' = directMapEnd
      /\ vma' = vma /\ vmaReady' = vmaReady /\ heap' = heap /\ heapReady' = heapReady
      /\ live' = live
  BY <1>0 DEF layout, areas, heaps
<1>3. ready /\ Up
  <2>1. avail # {}
    BY <1>1, PoolAssumption, MemoryFacts
  <2> QED BY <2>1, <1>0 DEF IInv, PhaseInv, RestTyped, Booting, Up
<1>4. i \in Nat /\ i' \in Nat /\ i' <= 2
  BY <1>0 DEF IInv, RestTyped
<1>5. v \in UserPages
  <2>1. i = 0 \/ i = 1
    BY <1>0, <1>4
  <2>2. UserCode + 0 = UserCode
    BY LayoutAssumption
  <2> QED BY <2>1, <2>2 DEF UserPages
<1>6. v \in Owners /\ v \in VPage /\ v < KernelBase
  BY <1>3, <1>5, Geometry DEF Owners
<1>7. /\ MapPageDone(v, f, TRUE, avail \ {f})
      /\ \E L \in SUBSET Managed :
            /\ LostBound(L)
            /\ Account(Owners, Map', TableOf', avail', (dropped \cup L) \cup ({Map[v]} \ {None}))
      /\ {Map[v]} \ {None} \subseteq Managed
  BY <1>1, <1>6, PageGiven
<1>8. /\ Map' = [Map EXCEPT ![v] = f] /\ UserBits' = UserBits \cup {v}
      /\ tlb' = Invlpg(v) /\ MemoryTyped'
  BY <1>7 DEF MapPageDone
<1>9. /\ DirectMapInv' /\ KernelHalfInv' /\ HeapInv' /\ RunInv' /\ AreaInv'
      /\ Owners' = Owners
  BY <1>0, <1>6, <1>8, LowPageStep
<1>10. Walk(v) = Map[v]
  BY <1>6 DEF Map
<1>11. RestTyped'
  BY <1>0, <1>2, <1>4, <1>7, <1>10 DEF IInv, RestTyped
<1>12. PhaseInv'
  BY <1>0, <1>2, <1>3, <1>4 DEF IInv, PhaseInv, Booting, Busy
<1>13. FramesInv'
  <2>1. PICK L \in SUBSET Managed :
           /\ LostBound(L)
           /\ Account(Owners, Map', TableOf', avail', (dropped \cup L) \cup ({Map[v]} \ {None}))
    BY <1>7
  <2>2. (dropped \cup L) \cup ({Map[v]} \ {None}) = dropped' \cup L
    BY <1>0, <1>10
  <2>3. Account(Owners', Map', TableOf', avail', dropped' \cup L)
    BY <2>1, <2>2, <1>9
  <2> QED BY <2>1, <2>3, <1>2 DEF FramesInv, LostBound
<1>14. UserInv'
  BY <1>5, <1>8 DEF IInv, UserInv
<1>15. TlbInv'
  BY <1>2, <1>6, <1>8, MemoryFacts, TlbAfterInvlpg DEF IInv
<1> QED BY <1>8, <1>9, <1>11, <1>12, <1>13, <1>14, <1>15 DEF IInv

\* The command gives up and keeps what it has taken.
LEMMA Ring3FailsStep ==
    ASSUME Fits, IInv, ring3_fails
    PROVE  IInv'
<1>1. /\ pc = "ring3" /\ pc' = "idle" /\ i' = 0
      /\ UNCHANGED <<call, tables, layout, areas, heaps, live, tlb>>
  BY DEF ring3_fails
<1>2. /\ call' = call /\ ready' = ready /\ nextVaddr' = nextVaddr /\ directMapEnd' = directMapEnd
      /\ vma' = vma /\ vmaReady' = vmaReady /\ heap' = heap /\ heapReady' = heapReady
      /\ live' = live
  BY <1>1 DEF layout, areas, heaps
<1>3. Runs' = Runs /\ Running' = {} /\ Owners' = Owners
  BY <1>1, <1>2 DEF Runs, Running, Owners, Up
<1>4. Map' = Map /\ UserBits' = UserBits /\ TableOf' = TableOf /\ pd' = pd /\ mem' = mem
  BY <1>1, SameMemory DEF tables
<1>5. /\ avail' \subseteq avail /\ dropped' \subseteq Managed
      /\ \E L \in SUBSET Managed :
            LostBound(L) /\ Account(Owners, Map, TableOf, avail', dropped' \cup L)
  <2>1. PICK L \in SUBSET Managed :
           /\ LostBound(L) /\ Account(Owners, Map, TableOf, avail, dropped \cup L)
           /\ dropped \subseteq Managed
    BY DEF IInv, FramesInv, RestTyped
  <2>2. CASE avail' = avail /\ dropped' = dropped
    BY <2>1, <2>2
  <2>3. ASSUME NEW f \in AllocChoice(avail),
               avail' = avail \ {f}, dropped' = dropped \cup {f}
        PROVE  /\ avail' \subseteq avail /\ dropped' \subseteq Managed
               /\ Account(Owners, Map, TableOf, avail', dropped' \cup L)
    <3>1. f \in avail /\ f \in Managed
      BY <2>3, PoolAssumption, MemoryFacts
    <3>2. Account(Owners, Map, TableOf, avail \ {f}, (dropped \cup L) \cup {f})
      BY <2>1, <3>1, AccountDrop
    <3>3. (dropped \cup L) \cup {f} = dropped' \cup L
      BY <2>3
    <3> QED BY <2>1, <2>3, <3>1, <3>2, <3>3
  <2> QED BY <2>1, <2>2, <2>3 DEF ring3_fails
<1>6. MemoryTyped' /\ KernelHalfInv' /\ UserInv' /\ TlbInv'
  BY <1>1, <1>2, <1>3, <1>4, <1>5, TlbSame DEF IInv, MemoryTyped, KernelHalfInv, UserInv
<1>7. RestTyped'
  BY <1>1, <1>2, <1>5 DEF IInv, RestTyped, PC
<1>8. PhaseInv'
  BY <1>1, <1>2, <1>5 DEF IInv, PhaseInv, Busy, Booting
<1>9. DirectMapInv'
  BY <1>1, <1>2, <1>4 DEF IInv, DirectMapInv, Booting
<1>10. FramesInv'
  BY <1>2, <1>3, <1>4, <1>5 DEF FramesInv, LostBound
<1>11. HeapInv'
  BY <1>1, <1>2, <1>4 DEF IInv, HeapInv
<1>12. RunInv'
  BY <1>1, <1>2, <1>3, <1>4 DEF IInv, RunInv, Busy
<1>13. AreaInv'
  BY <1>1, <1>2 DEF IInv, AreaInv
<1> QED BY <1>6, <1>7, <1>8, <1>9, <1>10, <1>11, <1>12, <1>13 DEF IInv

\* Two areas more, and the kernel stops.
LEMMA Ring3EnterStep ==
    ASSUME Fits, IInv, ring3_enter
    PROVE  IInv'
<1> DEFINE a == Area(UserCode, UserCode + 1, "user-code")
           b == Area(UserCode + 1, UserCode + 2, "user-stack")
<1>1. /\ pc = "ring3" /\ pc' = "halted"
      /\ vma' = (IF vmaReady THEN VmaAdd(VmaAdd(vma, a), b) ELSE vma)
      /\ UNCHANGED <<i, call, tables, layout, avail, vmaReady, heaps, live, dropped, tlb>>
  BY DEF ring3_enter
<1>2. /\ i' = i /\ call' = call /\ ready' = ready /\ nextVaddr' = nextVaddr
      /\ directMapEnd' = directMapEnd
      /\ vmaReady' = vmaReady /\ heap' = heap /\ heapReady' = heapReady
      /\ live' = live
  BY <1>1 DEF layout, heaps
<1>3. Runs' = Runs /\ Running' = {} /\ Up' = Up
  BY <1>1, <1>2 DEF Runs, Running, Up
<1>4. /\ Map' = Map
      /\ MemoryTyped' /\ KernelHalfInv' /\ FramesInv' /\ UserInv' /\ TlbInv'
  BY <1>1, <1>2, <1>3, ControlStep
<1>5. vmaReady
  BY <1>1 DEF IInv, PhaseInv
<1>6. RestTyped'
  <2>1. \A x \in vma' : x \in vma \/ x = a \/ x = b
    BY <1>1, VmaAddBounds
  <2>2. UserCode \in 0..NPages /\ UserCode + 1 \in 0..NPages /\ UserCode + 2 \in 0..NPages
    BY LayoutAssumption
  <2>3. \A x \in vma' : x \in [start : 0..NPages, end : 0..NPages,
                      tag : {"direct-map", "kheap", "vmm-alloc", "user-code", "user-stack"}]
    BY <2>1, <2>2 DEF Area, IInv, RestTyped
  <2> QED BY <2>3, <1>1, <1>2 DEF IInv, RestTyped, PC
<1>7. PhaseInv'
  BY <1>1, <1>2 DEF IInv, PhaseInv, Busy, Booting
<1>8. DirectMapInv'
  BY <1>1, <1>2, <1>4 DEF IInv, DirectMapInv, Booting
<1>9. HeapInv'
  BY <1>1, <1>2, <1>4 DEF IInv, HeapInv
<1>10. RunInv'
  BY <1>1, <1>2, <1>3, <1>4, <1>5 DEF IInv, RunInv, Busy
<1>11. AreaInv'
  BY <1>1, <1>2, <1>5 DEF AreaInv
<1> QED BY <1>4, <1>6, <1>7, <1>8, <1>9, <1>10, <1>11 DEF IInv

\* `vmm map' touches a low page only.
LEMMA CmdMapStep ==
    ASSUME Fits, IInv, NEW v \in ShellPages, NEW f \in ShellFrames, cmd_vmm_map(v, f)
    PROVE  IInv'
<1>1. /\ pc = "idle" /\ pc' = pc /\ i' = i /\ ready /\ MapPage(v, f, FALSE, avail)
      /\ UNCHANGED <<call, layout, areas, heaps, live, dropped>>
  BY DEF cmd_vmm_map
<1>2. /\ call' = call /\ ready' = ready /\ nextVaddr' = nextVaddr /\ directMapEnd' = directMapEnd
      /\ vma' = vma /\ vmaReady' = vmaReady /\ heap' = heap /\ heapReady' = heapReady
      /\ live' = live /\ dropped' = dropped
  BY <1>1 DEF layout, areas, heaps
<1>3. f \in Frame /\ v \in VPage /\ v < KernelBase /\ v \notin UserPages
  BY Geometry, BoundsAssumption
<1>4. MapPageDone(v, f, FALSE, avail) /\ avail \in SUBSET Managed
  BY <1>1, <1>3, MemoryFacts, MapPageEffect
<1>5. /\ Map' = [Map EXCEPT ![v] = f] /\ UserBits' = UserBits \ {v}
      /\ tlb' = Invlpg(v) /\ MemoryTyped'
  BY <1>4 DEF MapPageDone
<1>6. /\ DirectMapInv' /\ KernelHalfInv' /\ HeapInv' /\ RunInv' /\ AreaInv'
      /\ Owners' = Owners
  BY <1>1, <1>3, <1>5, LowPageStep
<1>7. v \notin Owners
  <2>1. v \notin RunPages(Runs)
    <3> SUFFICES ASSUME NEW r \in Runs, v \in Pages(r) PROVE FALSE
      BY InRunPages
    <3>1. KernelBase + MapEnd <= v
      BY RunFacts DEF IInv
    <3> QED BY <3>1, <1>3, Geometry DEF VPage
  <2>2. v \notin HeapRange
    BY <1>3, Geometry DEF VPage
  <2> QED BY <2>1, <2>2, <1>3 DEF Owners
<1>8. FramesInv'
  <2> DEFINE W == [Map EXCEPT ![v] = f]
  <2>1. \A w \in Owners : W[w] = Map[w]
    BY <1>7, MemoryFacts, OwnersArePages
  <2>2. PICK L \in SUBSET Managed :
           LostBound(L) /\ Account(Owners, Map, TableOf, avail, dropped \cup L)
    BY DEF IInv, FramesInv
  <2> HIDE DEF W
  <2>3. Account(Owners, W, TableOf, avail, dropped \cup L)
    BY <2>1, <2>2, AccountOwners
  <2>4. Account(Owners, Map', TableOf', avail', dropped \cup L)
    BY <2>3, <1>3, <1>4, MemoryFacts, AccountMapPage DEF W
  <2> QED BY <2>2, <2>4, <1>2, <1>6 DEF FramesInv, LostBound
<1>9. RestTyped'
  BY <1>1, <1>2 DEF IInv, RestTyped
<1>10. PhaseInv'
  BY <1>1, <1>2 DEF IInv, PhaseInv, Busy, Booting
<1>11. UserInv'
  BY <1>5 DEF IInv, UserInv
<1>12. TlbInv'
  BY <1>2, <1>3, <1>5, MemoryFacts, TlbAfterInvlpg DEF IInv
<1> QED BY <1>5, <1>6, <1>8, <1>9, <1>10, <1>11, <1>12 DEF IInv

\* So does `vmm unmap'.
LEMMA CmdUnmapStep ==
    ASSUME Fits, IInv, NEW v \in ShellPages, cmd_vmm_unmap(v)
    PROVE  IInv'
<1>1. /\ pc = "idle" /\ pc' = pc /\ i' = i /\ ready /\ UnmapPage(v)
      /\ UNCHANGED <<call, layout, avail, areas, heaps, live, dropped>>
  BY DEF cmd_vmm_unmap
<1>2. /\ call' = call /\ ready' = ready /\ nextVaddr' = nextVaddr /\ directMapEnd' = directMapEnd
      /\ vma' = vma /\ vmaReady' = vmaReady /\ heap' = heap /\ heapReady' = heapReady
      /\ live' = live /\ dropped' = dropped /\ avail' = avail
  BY <1>1 DEF layout, areas, heaps
<1>3. v \in VPage /\ v < KernelBase /\ v \notin UserPages
  BY Geometry
<1>4. UnmapPageDone(v)
  BY <1>1, <1>3, MemoryFacts, UnmapPageEffect
<1>5. /\ Map' = [Map EXCEPT ![v] = None] /\ UserBits' = UserBits \ {v} /\ TableOf' = TableOf
      /\ tlb' = Invlpg(v) \/ (tlb' = tlb /\ Map' = Map)
  BY <1>4 DEF UnmapPageDone
<1>6. /\ DirectMapInv' /\ KernelHalfInv' /\ HeapInv' /\ RunInv' /\ AreaInv'
      /\ Owners' = Owners
  BY <1>1, <1>3, <1>5, LowPageStep
<1>7. v \notin Owners
  <2>1. v \notin RunPages(Runs)
    <3> SUFFICES ASSUME NEW r \in Runs, v \in Pages(r) PROVE FALSE
      BY InRunPages
    <3>1. KernelBase + MapEnd <= v
      BY RunFacts DEF IInv
    <3> QED BY <3>1, <1>3, Geometry DEF VPage
  <2>2. v \notin HeapRange
    BY <1>3, Geometry DEF VPage
  <2> QED BY <2>1, <2>2, <1>3 DEF Owners
<1>8. FramesInv'
  <2>1. \A w \in Owners : Map'[w] = Map[w]
    BY <1>5, <1>7, MemoryFacts, OwnersArePages
  <2>2. PICK L \in SUBSET Managed :
           LostBound(L) /\ Account(Owners, Map, TableOf, avail, dropped \cup L)
    BY DEF IInv, FramesInv
  <2>3. Account(Owners, Map', TableOf, avail, dropped \cup L)
    BY <2>1, <2>2, AccountOwners
  <2> QED BY <2>2, <2>3, <1>2, <1>5, <1>6 DEF FramesInv, LostBound
<1>9. MemoryTyped' /\ RestTyped'
  BY <1>1, <1>2, <1>4 DEF IInv, MemoryTyped, RestTyped, UnmapPageDone
<1>10. PhaseInv'
  BY <1>1, <1>2 DEF IInv, PhaseInv, Busy, Booting
<1>11. UserInv'
  BY <1>5 DEF IInv, UserInv
<1>12. TlbInv'
  BY <1>2, <1>3, <1>5, MemoryFacts, TlbAfterInvlpg DEF IInv
<1> QED BY <1>6, <1>8, <1>9, <1>10, <1>11, <1>12 DEF IInv

\* The processor caches what the map in force says.
LEMMA TlbFillStep ==
    ASSUME Fits, IInv, NEW v \in Probe, tlb_fill(v)
    PROVE  IInv'
<1>1. /\ Active(v) # None /\ tlb' = {[page |-> v, frame |-> Active(v)]}
      /\ UNCHANGED <<pc, i, call, tables, layout, avail, areas, heaps, live, dropped>>
  BY DEF tlb_fill
<1>2. /\ pc' = pc /\ i' = i /\ call' = call /\ ready' = ready /\ nextVaddr' = nextVaddr
      /\ directMapEnd' = directMapEnd
      /\ vma' = vma /\ vmaReady' = vmaReady /\ heap' = heap /\ heapReady' = heapReady
      /\ live' = live /\ dropped' = dropped /\ avail' = avail
  BY <1>1 DEF layout, areas, heaps
<1>3. Map' = Map /\ UserBits' = UserBits /\ TableOf' = TableOf /\ pd' = pd /\ mem' = mem
  BY <1>1, SameMemory DEF tables
<1>4. Runs' = Runs /\ Running' = Running /\ Owners' = Owners /\ Busy' = Busy /\ Booting' = Booting
  BY <1>2 DEF Runs, Running, Owners, Up, Busy, Booting
<1>5. v \in VPage
  BY BoundsAssumption
<1>6. Active(v)' = Active(v)
  BY <1>2, <1>3, <1>5, ActiveMap, ActiveMapPrime
<1>7. TlbInv'
  BY <1>1, <1>5, <1>6 DEF TlbInv
<1>8. MemoryTyped' /\ RestTyped'
  BY <1>2, <1>3 DEF IInv, MemoryTyped, RestTyped
<1>9. PhaseInv' /\ DirectMapInv' /\ KernelHalfInv'
  BY <1>2, <1>3, <1>4 DEF IInv, PhaseInv, DirectMapInv, KernelHalfInv
<1>10. FramesInv' /\ HeapInv' /\ UserInv' /\ AreaInv'
  BY <1>2, <1>3, <1>4 DEF IInv, FramesInv, LostBound, HeapInv, UserInv, AreaInv
<1>11. RunInv'
  BY <1>2, <1>3, <1>4 DEF IInv, RunInv
<1> QED BY <1>7, <1>8, <1>9, <1>10, <1>11 DEF IInv

-----------------------------------------------------------------------------
\* The invariant holds at reset.
LEMMA InitInv ==
    ASSUME Fits, Init
    PROVE  IInv
<1>1. /\ pc = "map_low" /\ i = 0 /\ call = NoRun
      /\ pd = [d \in PdIndices |-> None]
      /\ mem = [f \in Frame |-> Garbage]
      /\ ready = FALSE /\ nextVaddr = 0 /\ directMapEnd = 0
      /\ avail \subseteq Managed /\ dropped = Managed \ avail
      /\ vma = {} /\ vmaReady = FALSE
      /\ heap = [k \in 0..(KheapPages - 1) |-> None] /\ heapReady = FALSE
      /\ live = {} /\ tlb = {}
  BY PoolAssumption DEF Init
<1>2. Booting /\ ~Busy /\ Running = {} /\ Runs = {} /\ Owners = {} /\ RunPages(Runs) = {}
  BY <1>1 DEF Booting, Busy, Running, Runs, Owners, Up, RunPages
<1>3. \A v \in VPage : Pte(v) = None
  BY <1>1, IndexTypes DEF Pte
<1>4. /\ \A v \in VPage : Map[v] = None
      /\ UserBits = {} /\ \A d \in PdIndices : TableOf[d] = None
  BY <1>1, <1>3 DEF Map, Walk, UserBits, TableOf
<1>5. MemoryTyped
  <2>1. ASSUME NEW f \in Frame PROVE Garbage \in [TableIndex -> PTE \cup {None}]
    <3>1. 0 \in Frame
      BY LayoutAssumption DEF Frame
    <3>2. Entry(0, TRUE) \in PTE
      BY <3>1, EntryFacts
    <3> QED BY <3>2 DEF Garbage
  <2>2. mem \in [Frame -> [TableIndex -> PTE \cup {None}]]
    BY <1>1, <2>1
  <2>3. pd \in [PdIndices -> PTE \cup {None}]
    BY <1>1
  <2> QED BY <2>2, <2>3, <1>1 DEF MemoryTyped
<1>6. RestTyped
  <2>1. NoRun \in Run /\ 0 \in VPage
    BY LayoutFacts DEF NoRun, Run, VPage
  <2>2. heap \in [0..(KheapPages - 1) -> Frame \cup {None}]
    BY <1>1
  <2> QED BY <2>1, <2>2, <1>1 DEF RestTyped, PC
<1>7. PhaseInv
  BY <1>1, <1>2 DEF PhaseInv
<1>8. DirectMapInv
  BY <1>1, MapEndFacts DEF DirectMapInv
<1>9. KernelHalfInv /\ UserInv /\ TlbInv /\ AreaInv
  BY <1>1, <1>4 DEF KernelHalfInv, UserInv, TlbInv, AreaInv
<1>10. FramesInv
  <2>1. Account(Owners, Map, TableOf, avail, dropped \cup {})
    BY <1>1, <1>2, <1>4 DEF Account
  <2> QED BY <2>1 DEF FramesInv, LostBound
<1>11. HeapInv
  BY <1>1, <1>4, Geometry DEF HeapInv
<1>12. RunInv
  BY <1>1, <1>2 DEF RunInv, RunPages
<1> QED BY <1>5, <1>6, <1>7, <1>8, <1>9, <1>10, <1>11, <1>12 DEF IInv

\* Every step keeps it.
LEMMA StepInv ==
    ASSUME Fits, IInv, [Next]_vars
    PROVE  IInv'
<1>1. CASE Next
  <2>1. CASE Boot
    BY <2>1, MapLowStep, MapHighStep, InitFailsStep, LoadCr3Step, UnmapIdentityStep,
       KmallocPageStep, KmallocEndStep, VmaInitStep DEF Boot
  <2>2. CASE Alloc
    BY <2>2, AllocCallStep, AllocPageStep, AllocFailsStep, AllocReturnsStep,
       UndoPageStep, UndoneStep DEF Alloc
  <2>3. CASE Free
    BY <2>3, FreeCallStep, UndoPageStep, UndoneStep DEF Free
  <2>4. CASE Shell
    BY <2>4, Ring3PanicStep, Ring3PageStep, Ring3FailsStep, Ring3EnterStep,
       CmdMapStep, CmdUnmapStep DEF Shell
  <2>5. CASE \E v \in Probe : tlb_fill(v)
    BY <2>5, TlbFillStep
  <2> QED BY <1>1, <2>1, <2>2, <2>3, <2>4, <2>5 DEF Next
<1>2. CASE UNCHANGED vars
  <2>1. /\ pc' = pc /\ i' = i /\ call' = call /\ ready' = ready /\ nextVaddr' = nextVaddr
        /\ directMapEnd' = directMapEnd
        /\ vma' = vma /\ vmaReady' = vmaReady /\ heap' = heap /\ heapReady' = heapReady
        /\ live' = live /\ dropped' = dropped /\ avail' = avail /\ tlb' = tlb
        /\ UNCHANGED tables
    BY <1>2 DEF vars, layout, areas, heaps
  <2>2. Map' = Map /\ UserBits' = UserBits /\ TableOf' = TableOf /\ pd' = pd /\ mem' = mem
    BY <2>1, SameMemory DEF tables
  <2>3. Runs' = Runs /\ Running' = Running /\ Owners' = Owners /\ Busy' = Busy /\ Booting' = Booting
    BY <2>1 DEF Runs, Running, Owners, Up, Busy, Booting
  <2>4. MemoryTyped' /\ RestTyped' /\ TlbInv'
    BY <2>1, <2>2, TlbSame DEF IInv, MemoryTyped, RestTyped
  <2>5. PhaseInv' /\ DirectMapInv' /\ KernelHalfInv'
    BY <2>1, <2>2, <2>3 DEF IInv, PhaseInv, DirectMapInv, KernelHalfInv
  <2>6. FramesInv' /\ HeapInv' /\ UserInv' /\ AreaInv'
    BY <2>1, <2>2, <2>3 DEF IInv, FramesInv, LostBound, HeapInv, UserInv, AreaInv
  <2>7. RunInv'
    BY <2>1, <2>2, <2>3 DEF IInv, RunInv
  <2> QED BY <2>4, <2>5, <2>6, <2>7 DEF IInv
<1> QED BY <1>1, <1>2

\* The invariant holds in every state.
THEOREM Invariance == ASSUME MemoryFits PROVE Spec => []IInv
<1>1. Init => IInv
  BY FitsFacts, InitInv
<1>2. IInv /\ [Next]_vars => IInv'
  BY FitsFacts, StepInv
<1> QED BY <1>1, <1>2, PTL DEF Spec

-----------------------------------------------------------------------------
(* What the invariant says of the properties *)

\* Map is the walk, for pages of the address space.
LEMMA MapIsWalk ==
    ASSUME NEW v \in VPage
    PROVE  Map[v] = Walk(v)
  BY DEF Map

\* What DirectMapCoversPool asks is part of the invariant.
LEMMA InvDirectMap ==
    ASSUME Fits, IInv
    PROVE  DirectMapCoversPool
<1> SUFFICES ASSUME ready, NEW f \in Managed \cup 0..(MapEnd - 1)
             PROVE  Walk(KernelBase + f) = f
  BY DEF DirectMapCoversPool
<1>1. f \in 0..(MapEnd - 1)
  BY DEF Fits
<1>2. KernelBase + f \in VPage
  BY <1>1, Geometry
<1>3. Map[KernelBase + f] = f
  BY <1>1 DEF IInv, DirectMapInv
<1> QED BY <1>2, <1>3, MapIsWalk

\* The type invariant.
LEMMA InvTypeOK ==
    ASSUME Fits, IInv
    PROVE  TypeOK
<1>1. MemoryTyped /\ RestTyped /\ TlbInv
  BY DEF IInv
<1>2. tlb \subseteq [page : VPage, frame : Nat] /\ Cardinality(tlb) <= 1
  <2>1. CASE tlb = {}
    BY <2>1, FS_EmptySet
  <2>2. ASSUME NEW v \in VPage, Active(v) # None, tlb = {[page |-> v, frame |-> Active(v)]}
        PROVE  tlb \subseteq [page : VPage, frame : Nat] /\ Cardinality(tlb) <= 1
    <3>1. Active(v) \in Nat
      <4>1. CASE ready
        <5>1. Active(v) = Map[v] /\ Map[v] \in Frame \cup {None}
          BY <4>1, ActiveMap, MemoryFacts
        <5> QED BY <5>1, <2>2 DEF Frame
      <4>2. CASE ~ready
        <5>1. BootWalk(v) \in Nat \cup {None}
          BY LayoutFacts DEF BootWalk, VPage
        <5> QED BY <5>1, <4>2, <2>2 DEF Active
      <4> QED BY <4>1, <4>2
    <3>2. Cardinality(tlb) = 1
      BY <2>2, FS_Singleton
    <3> QED BY <2>2, <3>1, <3>2
  <2> QED BY <2>1, <2>2, <1>1 DEF TlbInv
<1> QED BY <1>1, <1>2 DEF TypeOK, MemoryTyped, RestTyped

\* Once the kernel is up, the owned pages are the owners that are backed.
LEMMA OwnedOwners ==
    ASSUME Fits, IInv, Up
    PROVE  /\ \A v : v \in OwnedPages <=> v \in Owners /\ Map[v] # None
           /\ \A v \in OwnedPages : v \in Owners /\ Map[v] # None /\ Walk(v) = Map[v]
<1>1. OwnedPages = Backed(Owners)
  BY DEF OwnedPages, Owners, HeapRange, Runs
<1> QED BY <1>1, OwnersArePages, MapIsWalk DEF Backed

\* With every frame in one place, none has two uses, and none is lost before
\* the bump pointer enters the heap.
LEMMA InvFrames ==
    ASSUME Fits, IInv
    PROVE  OneUsePerFrame /\ NoFrameLost
<1> SUFFICES ASSUME Up PROVE OneUsePerFrame /\ NoFrameLost
  BY DEF OneUsePerFrame, NoFrameLost
<1>1. PICK L \in SUBSET Managed :
         LostBound(L) /\ Account(Owners, Map, TableOf, avail, dropped \cup L)
  BY DEF IInv, FramesInv
<1>2. \A v \in OwnedPages : v \in Owners /\ Map[v] # None /\ Walk(v) = Map[v]
  BY OwnedOwners
<1>3. \A d \in PdIndices : pd[d] # None => TableOf[d] = pd[d].frame /\ TableOf[d] # None
  BY EntryFacts DEF IInv, MemoryTyped, TableOf
<1>4. PresentTables \subseteq PdIndices /\ \A d \in PresentTables : pd[d] # None
  BY DEF PresentTables
<1>5. OneUsePerFrame
  <2>1. \A d, e \in PresentTables : d # e => pd[d].frame # pd[e].frame
    BY <1>1, <1>3, <1>4 DEF Account
  <2>2. \A v, w \in OwnedPages : v # w => Walk(v) # Walk(w)
    BY <1>1, <1>2 DEF Account
  <2>3. \A d \in PresentTables, v \in OwnedPages : pd[d].frame # Walk(v)
    BY <1>1, <1>2, <1>3, <1>4 DEF Account
  <2>4. \A v \in OwnedPages : Walk(v) \notin avail
    BY <1>1, <1>2 DEF Account
  <2>5. \A d \in PresentTables : pd[d].frame \notin avail
    BY <1>1, <1>3, <1>4 DEF Account
  <2> QED BY <2>1, <2>2, <2>3, <2>4, <2>5 DEF OneUsePerFrame
<1>6. NoFrameLost
  <2> SUFFICES ASSUME nextVaddr <= KheapStart PROVE NoFrameLost
    BY DEF NoFrameLost
  <2>0. Account(Owners, Map, TableOf, avail, dropped)
    <3>1. dropped \cup L = dropped
      BY <1>1 DEF LostBound
    <3> QED BY <1>1, <3>1
  <2> DEFINE TF == {pd[d].frame : d \in PresentTables}
             OF == {Walk(v) : v \in OwnedPages}
  <2>1. ASSUME NEW f \in Managed \ avail PROVE f \in TF \cup OF \cup dropped
    <3>1. f # None
      BY EntryFacts
    <3>2. CASE \E d \in PdIndices : TableOf[d] = f
      <4>1. PICK d \in PdIndices : TableOf[d] = f
        BY <3>2
      <4>2. pd[d] # None
        BY <3>1, <4>1 DEF TableOf
      <4>3. d \in PresentTables /\ f = pd[d].frame
        BY <1>3, <4>1, <4>2 DEF PresentTables
      <4> QED BY <4>3
    <3>3. CASE \E v \in Owners : Map[v] = f
      <4>1. PICK v \in Owners : Map[v] = f
        BY <3>3
      <4>2. v \in OwnedPages /\ f = Walk(v)
        BY <3>1, <4>1, OwnedOwners
      <4> QED BY <4>2
    <3> QED BY <2>0, <3>2, <3>3 DEF Account
  <2>2. TF \subseteq Managed \ avail
    BY <2>0, <1>3, <1>4 DEF Account
  <2>3. OF \subseteq Managed \ avail
    BY <2>0, <1>2 DEF Account
  <2>4. dropped \subseteq Managed \ avail
    BY <2>0 DEF Account, IInv, RestTyped
  <2> QED BY <2>1, <2>2, <2>3, <2>4 DEF NoFrameLost
<1> QED BY <1>5, <1>6

\* The heap's pages are where kmalloc_init has put them.
LEMMA InvHeap ==
    ASSUME Fits, IInv
    PROVE  HeapUndisturbed
<1> SUFFICES ASSUME heapReady, NEW k \in 0..(KheapPages - 1), KheapStart + k >= nextVaddr
             PROVE  Active(KheapStart + k) = heap[k]
  BY DEF HeapUndisturbed
<1>1. ready
  BY Geometry DEF IInv, HeapInv
<1>2. KheapStart + k \in VPage
  BY Geometry
<1>3. Map[KheapStart + k] = heap[k]
  BY DEF IInv, HeapInv
<1> QED BY <1>1, <1>2, <1>3, ActiveMap

\* Runs are backed, between direct map and bump pointer, and apart.
LEMMA InvRunsUsable ==
    ASSUME Fits, IInv
    PROVE  RunsUsable
<1> SUFFICES ASSUME NEW r \in live
             PROVE  /\ \A v \in Pages(r) : Walk(v) # None
                    /\ Pages(r) \subseteq (KernelBase + MapEnd)..(nextVaddr - 1)
                    /\ \A q \in live \ {r} : Pages(q) \cap Pages(r) = {}
  BY DEF RunsUsable
<1>1. \A q \in live : q \in Runs
  BY DEF Runs
<1>2. \A v \in Pages(r) : /\ v \in VPage
                          /\ KernelBase + MapEnd <= v /\ v < nextVaddr
  BY <1>1, RunFacts DEF IInv
<1>3. \A v \in Pages(r) : Walk(v) # None
  <2>1. \A v \in Pages(r) : v \in RunPages(live)
    BY DEF RunPages
  <2> QED BY <2>1, <1>2, MapIsWalk DEF IInv, RunInv
<1>4. Pages(r) \subseteq (KernelBase + MapEnd)..(nextVaddr - 1)
  <2>1. nextVaddr \in Nat /\ KernelBase + MapEnd \in Nat /\ \A v \in VPage : v \in Nat
    BY Geometry DEF IInv, RestTyped, VPage
  <2> QED BY <1>2, <2>1
<1>6. ASSUME NEW q \in live \ {r} PROVE Pages(q) \cap Pages(r) = {}
  <2>1. Apart(q, r)
    BY <1>1 DEF IInv, RunInv
  <2>2. q.base \in Nat /\ q.count \in Nat /\ r.base \in Nat /\ r.count \in Nat
    BY <1>1, RunFacts DEF IInv
  <2> QED BY <2>1, <2>2 DEF Apart, Pages
<1> QED BY <1>3, <1>4, <1>6

\* Registered pages are backed, but for those of a heap that was not mapped or
\* that the bump pointer has passed.
LEMMA InvRegistered ==
    ASSUME Fits, IInv
    PROVE  RegisteredIsMapped
<1> SUFFICES ASSUME pc = "idle", NEW a \in vma, NEW v \in AreaPages(a),
                    ~(a.tag = "kheap" /\ (~heapReady \/ v < nextVaddr))
             PROVE  Active(v) # None
  BY DEF RegisteredIsMapped
<1>1. \/ a = Area(KernelBase, directMapEnd, "direct-map")
      \/ a = Area(KheapStart, KheapStart + KheapPages, "kheap")
      \/ \E r \in live : a = RunArea(r)
  BY DEF IInv, AreaInv
<1>2. CASE a = Area(KernelBase, directMapEnd, "direct-map")
  <2>1. v \in KernelBase..(directMapEnd - 1)
    BY <1>2 DEF AreaPages, Area
  <2>2. ready
    <3> SUFFICES ASSUME ~ready PROVE FALSE
      OBVIOUS
    <3>1. directMapEnd = 0
      BY DEF IInv, PhaseInv
    <3> QED BY <2>1, <3>1, Geometry
  <2>3. directMapEnd <= KernelBase + MapEnd /\ directMapEnd \in Nat
    <3> DEFINE n == KernelBase + MapEnd
    <3>1. directMapEnd = n % NPages /\ n \in Nat /\ n <= NPages
      BY <2>2, Geometry DEF IInv, PhaseInv
    <3> HIDE DEF n
    <3>2. directMapEnd = IF n = NPages THEN 0 ELSE n
      BY <3>1, WrapFacts
    <3>3. directMapEnd <= n /\ directMapEnd \in Nat
      BY <3>1, <3>2
    <3> QED BY <3>3 DEF n
  <2> DEFINE f == v - KernelBase
  <2>4. f \in 0..(MapEnd - 1) /\ v = KernelBase + f
    BY <2>1, <2>3, Geometry
  <2> HIDE DEF f
  <2>5. Map[v] = f /\ v \in VPage /\ f \in Frame
    BY <2>2, <2>4, Geometry DEF IInv, DirectMapInv
  <2> QED BY <2>2, <2>5, ActiveMap, EntryFacts
<1>3. CASE a = Area(KheapStart, KheapStart + KheapPages, "kheap")
  <2>1. v \in KheapStart..(KheapStart + KheapPages - 1) /\ heapReady /\ ~(v < nextVaddr)
    <3>1. a.start = KheapStart /\ a.end = KheapStart + KheapPages /\ a.tag = "kheap"
      BY <1>3 DEF Area
    <3>2. AreaPages(a) = KheapStart..(KheapStart + KheapPages - 1)
      BY <3>1, Geometry DEF AreaPages
    <3>3. heapReady /\ ~(v < nextVaddr)
      BY <3>1
    <3> QED BY <3>2, <3>3
  <2> DEFINE k == v - KheapStart
  <2>2. k \in 0..(KheapPages - 1) /\ v = KheapStart + k /\ KheapPages # 0
    BY <2>1, Geometry
  <2> HIDE DEF k
  <2>3. KheapStart + k >= nextVaddr /\ v \in VPage
    BY <2>1, <2>2, Geometry DEF IInv, RestTyped, VPage
  <2>4. ready /\ Map[KheapStart + k] # None
    BY <2>1, <2>2, <2>3, Geometry DEF IInv, HeapInv
  <2> QED BY <2>2, <2>3, <2>4, ActiveMap
<1>4. ASSUME NEW r \in live, a = RunArea(r)
      PROVE  Active(v) # None
  <2>1. v \in Pages(r)
    <3>1. a.start = r.base /\ a.end = r.base + r.count
      BY <1>4 DEF RunArea, Area
    <3>2. r.base \in Nat /\ r.count \in Nat
      BY RunFacts DEF IInv, Runs
    <3>3. AreaPages(a) = Pages(r)
      BY <3>1, <3>2 DEF AreaPages, Pages
    <3> QED BY <3>3
  <2>2. r \in Runs
    BY DEF Runs
  <2>3. v \in VPage /\ r.base + r.count <= nextVaddr /\ r.count # 0 /\ r.base \in Nat /\ r.count \in Nat
    BY <2>1, <2>2, RunFacts DEF IInv
  <2>4. ready
    <3>1. nextVaddr # 0
      BY <2>3
    <3> QED BY <3>1 DEF IInv, PhaseInv
  <2>5. Map[v] # None
    BY <2>1, InRunPages DEF IInv, RunInv
  <2> QED BY <2>3, <2>4, <2>5, ActiveMap
<1> QED BY <1>1, <1>2, <1>3, <1>4

\* Ring 3 needs the U/S bit in the entry.
LEMMA InvUser ==
    ASSUME IInv
    PROVE  OnlyUserPagesInRing3
  BY DEF IInv, UserInv, OnlyUserPagesInRing3, UserReach, UserBits

\* TLB and tables agree.
LEMMA InvTlb ==
    ASSUME IInv
    PROVE  TlbCoherent
  BY DEF IInv, TlbInv, TlbCoherent

-----------------------------------------------------------------------------
(* The registry, as long as it has room *)

\* When vmm_alloc_pages registers a run, there is a slot left for it.
RegistryHasRoom == pc = "alloc" => Cardinality(vma) < MaxAreas

\* Every run callers hold has its area, unless it meets the heap's.
LiveRegistered == vmaReady => \A r \in live : ClearOfHeap(r) => RunArea(r) \in vma

\* vma_add takes the area of a run that is complete.
LEMMA RunAreaFits ==
    ASSUME Fits, IInv, pc = "alloc", RegistryHasRoom, ClearOfHeap(call)
    PROVE  VmaAdd(vma, RunArea(call)) = vma \cup {RunArea(call)}
<1> DEFINE a == RunArea(call)
<1>1. Busy
  BY DEF Busy
<1>2. /\ call.base \in Nat /\ call.count \in Nat /\ call.count # 0
      /\ KernelBase + MapEnd <= call.base
      /\ KernelBase \in Nat /\ MapEnd \in Nat /\ KheapStart \in Nat /\ KheapPages \in Nat
  BY <1>1, BusyFacts, RunFacts, Geometry DEF IInv
<1>3. a.start = call.base /\ a.end = call.base + call.count
  BY DEF RunArea, Area
<1>4. Vma!Valid(a)
  <2>1. a.start < a.end /\ a.start % 1 = 0 /\ a.end % 1 = 0
    BY <1>2, <1>3
  <2> QED BY <2>1 DEF Vma!Valid
<1>5. ASSUME NEW b \in vma PROVE ~Vma!Overlap(a, b)
  <2>0. \/ b = Area(KernelBase, directMapEnd, "direct-map")
        \/ b = Area(KheapStart, KheapStart + KheapPages, "kheap")
        \/ \E r \in live : b = RunArea(r)
    BY DEF IInv, AreaInv
  <2>1. CASE b = Area(KernelBase, directMapEnd, "direct-map")
    <3>1. b.end = directMapEnd
      BY <2>1 DEF Area
    <3>2. directMapEnd <= KernelBase + MapEnd /\ directMapEnd \in Nat
      <4> DEFINE n == KernelBase + MapEnd
      <4>1. directMapEnd = n % NPages /\ n \in Nat /\ n <= NPages
        BY <1>1, BusyFacts, Geometry DEF IInv, PhaseInv
      <4> HIDE DEF n
      <4>2. directMapEnd = IF n = NPages THEN 0 ELSE n
        BY <4>1, WrapFacts
      <4>3. directMapEnd <= n /\ directMapEnd \in Nat
        BY <4>1, <4>2
      <4> QED BY <4>3 DEF n
    <3>3. ~(a.start < b.end)
      BY <1>2, <1>3, <3>1, <3>2
    <3> QED BY <3>3 DEF Vma!Overlap
  <2>2. CASE b = Area(KheapStart, KheapStart + KheapPages, "kheap")
    <3>1. b.start = KheapStart /\ b.end = KheapStart + KheapPages
      BY <2>2 DEF Area
    <3>2. ~(a.start < b.end /\ b.start < a.end)
      BY <1>2, <1>3, <3>1 DEF ClearOfHeap
    <3> QED BY <3>2 DEF Vma!Overlap
  <2>3. ASSUME NEW r \in live, b = RunArea(r) PROVE ~Vma!Overlap(a, b)
    <3>1. r \in Runs /\ call \in Runs /\ r # call
      BY <1>1, BusyFacts
    <3>2. Apart(r, call) /\ r.base \in Nat /\ r.count \in Nat
      BY <3>1, RunFacts DEF IInv, RunInv
    <3>3. b.start = r.base /\ b.end = r.base + r.count
      BY <2>3 DEF RunArea, Area
    <3>4. ~(a.start < b.end /\ b.start < a.end)
      BY <3>2, <3>3, <1>2, <1>3 DEF Apart
    <3> QED BY <3>4 DEF Vma!Overlap
  <2> QED BY <2>0, <2>1, <2>2, <2>3
<1>6. Cardinality(vma) < MaxAreas
  BY DEF RegistryHasRoom
<1> HIDE DEF a
<1>7. VmaAdd(vma, a) = vma \cup {a}
  BY <1>4, <1>5, <1>6 DEF VmaAdd
<1> QED BY <1>7 DEF a

\* With room in the registry no step leaves a run without its area.
LEMMA LiveRegisteredStep ==
    ASSUME Fits, IInv, RegistryHasRoom, LiveRegistered, [Next]_vars
    PROVE  LiveRegistered'
<1>1. CASE live' \subseteq live /\ vma' = vma /\ vmaReady' = vmaReady
  BY <1>1 DEF LiveRegistered
<1>2. CASE vma_init
  <2>1. live' = live /\ ~vmaReady
    BY <1>2 DEF vma_init, IInv, PhaseInv
  <2>2. live = {}
    BY <2>1 DEF IInv, RunInv
  <2> QED BY <2>1, <2>2 DEF LiveRegistered
<1>3. CASE alloc_returns
  <2>1. /\ pc = "alloc" /\ vmaReady /\ vmaReady' = vmaReady /\ live' = live \cup {call}
    BY <1>3 DEF alloc_returns, IInv, PhaseInv
  <2>2. vma' = VmaAdd(vma, RunArea(call))
    BY <1>3, <2>1 DEF alloc_returns, RunArea
  <2>3. vma \subseteq vma' /\ (ClearOfHeap(call) => RunArea(call) \in vma')
    BY <2>1, <2>2, RunAreaFits, VmaAddBounds
  <2> QED BY <2>1, <2>3 DEF LiveRegistered
<1>4. ASSUME NEW r \in live, vmm_free_pages(r) PROVE LiveRegistered'
  <2>1. /\ vmaReady' = vmaReady /\ live' = live \ {r}
        /\ vma' = IF vmaReady THEN VmaRemove(vma, r.base) ELSE vma
    BY <1>4 DEF vmm_free_pages
  <2>2. ASSUME NEW q \in live \ {r} PROVE RunArea(q).start # r.base
    <3>1. Apart(q, r)
      BY DEF IInv, RunInv, Runs
    <3>2. /\ q.base \in Nat /\ q.count \in Nat /\ q.count # 0
          /\ r.base \in Nat /\ r.count \in Nat /\ r.count # 0
      BY RunFacts DEF IInv, Runs
    <3>3. q.base # r.base
      BY <3>1, <3>2 DEF Apart
    <3> QED BY <3>3 DEF RunArea, Area
  <2> QED BY <2>1, <2>2 DEF LiveRegistered, VmaRemove
<1>5. CASE ring3_enter
  <2>1. vma \subseteq vma' /\ live' = live /\ vmaReady' = vmaReady
    <3>1. vma \subseteq vma'
      <4> DEFINE x == Area(UserCode, UserCode + 1, "user-code")
                 y == Area(UserCode + 1, UserCode + 2, "user-stack")
      <4>1. vma' = (IF vmaReady THEN VmaAdd(VmaAdd(vma, x), y) ELSE vma)
        BY <1>5 DEF ring3_enter
      <4> HIDE DEF x, y
      <4>2. vma \subseteq VmaAdd(vma, x) /\ VmaAdd(vma, x) \subseteq VmaAdd(VmaAdd(vma, x), y)
        BY VmaAddBounds
      <4> QED BY <4>1, <4>2
    <3> QED BY <3>1, <1>5 DEF ring3_enter
  <2> QED BY <2>1 DEF LiveRegistered
<1>6. CASE UNCHANGED <<areas, live>>
  BY <1>1, <1>6 DEF areas
<1>7. CASE Next
  <2>1. CASE Boot
    BY <1>2, <1>6, <2>1 DEF Boot, map_low, map_high, vmm_init_fails, load_cr3,
       vmm_unmap_identity, kmalloc_init_page, kmalloc_init_fails, kmalloc_init_done
  <2>2. CASE Alloc
    BY <1>3, <1>6, <2>2 DEF Alloc, vmm_alloc_pages, alloc_page, alloc_page_fails,
       rollback_page, rollback_returns
  <2>3. CASE Free
    BY <1>4, <1>6, <2>3 DEF Free, free_page, free_returns
  <2>4. CASE Shell
    BY <1>5, <1>6, <2>4 DEF Shell, ring3_panic, ring3_page, ring3_fails,
       cmd_vmm_map, cmd_vmm_unmap
  <2>5. CASE \E v \in Probe : tlb_fill(v)
    BY <1>6, <2>5 DEF tlb_fill
  <2> QED BY <1>7, <2>1, <2>2, <2>3, <2>4, <2>5 DEF Next
<1>8. CASE UNCHANGED vars
  BY <1>6, <1>8 DEF vars
<1> QED BY <1>7, <1>8

\* A run with its area has its pages registered.
LEMMA InvAllocated ==
    ASSUME RestTyped, LiveRegistered
    PROVE  AllocatedIsRegistered
<1> SUFFICES ASSUME vmaReady, NEW r \in live, ClearOfHeap(r), NEW v \in Pages(r)
             PROVE  \E a \in vma : v \in AreaPages(a)
  BY DEF AllocatedIsRegistered
<1>1. RunArea(r) \in vma
  BY DEF LiveRegistered
<1>2. v \in AreaPages(RunArea(r))
  <2>1. RunArea(r).start = r.base /\ RunArea(r).end = r.base + r.count
    BY DEF RunArea, Area
  <2>2. r.base \in Nat /\ r.count \in Nat
    BY DEF RestTyped, Run, VPage
  <2>3. AreaPages(RunArea(r)) = Pages(r)
    BY <2>1, <2>2 DEF AreaPages, Pages
  <2> QED BY <2>3
<1> QED BY <1>1, <1>2

-----------------------------------------------------------------------------
(* Callers see KernelPages *)

View == [v \in RunPages(live) |-> Walk(v)]

\* What a step does to one page that no live run holds does not show.
LEMMA OutsideView ==
    ASSUME Fits, IInv, NEW v \in VPage, v \notin RunPages(live),
           NEW x, Map' = [Map EXCEPT ![v] = x]
    PROVE  \A w \in RunPages(live) : Map'[w] = Map[w]
<1> SUFFICES ASSUME NEW w \in RunPages(live) PROVE Map'[w] = Map[w]
  OBVIOUS
<1>1. PICK r \in live : w \in Pages(r)
  BY InRunPages
<1>2. w \in VPage
  BY <1>1, RunFacts DEF IInv, Runs
<1> QED BY <1>2, OtherPages

\* A low page is in no run.
LEMMA LowPageOutside ==
    ASSUME Fits, IInv, NEW v \in VPage, v < KernelBase
    PROVE  v \notin RunPages(live)
<1> SUFFICES ASSUME NEW r \in live, v \in Pages(r) PROVE FALSE
  BY InRunPages
<1>1. KernelBase + MapEnd <= v
  BY RunFacts DEF IInv, Runs
<1> QED BY <1>1, Geometry DEF VPage

\* No step touches a page of a live run.
LEMMA LivePagesKept ==
    ASSUME Fits, IInv, [Next]_vars
    PROVE  \A v \in RunPages(live) : Map'[v] = Map[v]
<1>1. CASE live = {}
  BY <1>1 DEF RunPages
<1>2. CASE UNCHANGED tables
  BY <1>2, SameMemory
<1>3. CASE alloc_page
  <2> DEFINE v == call.base + i
  <2>1. PICK f \in AllocChoice(avail) : MapPage(v, f, FALSE, avail \ {f})
    BY <1>3 DEF alloc_page
  <2>2. Busy /\ i < call.count
    BY <1>3 DEF alloc_page, Busy
  <2>3. v \in Owners /\ v \notin RunPages(live)
    BY <2>2, BusyFacts
  <2>4. v \in VPage /\ Map' = [Map EXCEPT ![v] = f]
    BY <2>1, <2>3, PageGiven DEF MapPageDone
  <2> QED BY <2>3, <2>4, OutsideView
<1>4. CASE rollback_page \/ free_page
  <2> DEFINE v == call.base + i
  <2>1. /\ \/ GetPhysical(v) = None /\ UNCHANGED <<pd, mem, tlb>>
           \/ UnmapPage(v)
        /\ avail' = IF GetPhysical(v) = None THEN avail ELSE FreePage(avail, GetPhysical(v))
        /\ ready' = ready
    BY <1>4 DEF rollback_page, free_page, layout
  <2>2. Busy /\ i < call.count
    BY <1>4 DEF rollback_page, free_page, Busy
  <2>3. v \in Owners /\ v \notin RunPages(live)
    BY <2>2, BusyFacts
  <2>4. v \in VPage /\ Map' = [Map EXCEPT ![v] = None]
    BY <2>1, <2>3, PageTaken
  <2> QED BY <2>3, <2>4, OutsideView
<1>5. CASE ring3_page
  <2> DEFINE v == UserCode + i
  <2>1. PICK f \in AllocChoice(avail) : MapPage(v, f, TRUE, avail \ {f})
    BY <1>5 DEF ring3_page
  <2>2. v \in VPage /\ v < KernelBase
    BY <1>5, LayoutAssumption DEF ring3_page, IInv, RestTyped, VPage
  <2>3. f \in Frame /\ avail \ {f} \in SUBSET avail
    BY PoolAssumption, EntryFacts, MemoryFacts
  <2> HIDE DEF v
  <2>4. MapPageDone(v, f, TRUE, avail \ {f})
    BY <2>1, <2>2, <2>3, MemoryFacts, MapPageEffect
  <2>5. Map' = [Map EXCEPT ![v] = f]
    BY <2>4 DEF MapPageDone
  <2> QED BY <2>2, <2>5, LowPageOutside, OutsideView
<1>6. ASSUME NEW v \in ShellPages, NEW f \in ShellFrames, cmd_vmm_map(v, f)
      PROVE  \A w \in RunPages(live) : Map'[w] = Map[w]
  <2>1. MapPage(v, f, FALSE, avail) /\ f \in Frame /\ v \in VPage /\ v < KernelBase
    BY <1>6, Geometry, BoundsAssumption DEF cmd_vmm_map
  <2>2. Map' = [Map EXCEPT ![v] = f]
    BY <2>1, MemoryFacts, MapPageEffect DEF MapPageDone
  <2> QED BY <2>1, <2>2, LowPageOutside, OutsideView
<1>7. ASSUME NEW v \in ShellPages, cmd_vmm_unmap(v)
      PROVE  \A w \in RunPages(live) : Map'[w] = Map[w]
  <2>1. UnmapPage(v) /\ v \in VPage /\ v < KernelBase
    BY <1>7, Geometry DEF cmd_vmm_unmap
  <2>2. Map' = [Map EXCEPT ![v] = None]
    BY <2>1, MemoryFacts, UnmapPageEffect DEF UnmapPageDone
  <2> QED BY <2>1, <2>2, LowPageOutside, OutsideView
<1>8. CASE Next
  <2>1. CASE Boot
    <3>1. ~vmaReady
      BY <2>1 DEF Boot, map_low, map_high, vmm_init_fails, load_cr3,
         vmm_unmap_identity, kmalloc_init_page, kmalloc_init_fails, kmalloc_init_done,
         vma_init, IInv, PhaseInv
    <3> QED BY <3>1, <1>1 DEF IInv, RunInv
  <2>2. CASE Alloc
    BY <1>2, <1>3, <1>4, <2>2 DEF Alloc, vmm_alloc_pages, alloc_page_fails, alloc_returns,
       rollback_returns
  <2>3. CASE Free
    BY <1>2, <1>4, <2>3 DEF Free, vmm_free_pages, free_returns
  <2>4. CASE Shell
    BY <1>2, <1>5, <1>6, <1>7, <2>4 DEF Shell, ring3_panic, ring3_fails, ring3_enter
  <2>5. CASE \E v \in Probe : tlb_fill(v)
    BY <1>2, <2>5 DEF tlb_fill
  <2> QED BY <1>8, <2>1, <2>2, <2>3, <2>4, <2>5 DEF Next
<1>9. CASE UNCHANGED vars
  BY <1>2, <1>9 DEF vars
<1> QED BY <1>8, <1>9

\* Live runs are backed by frames of their own.
ViewInv ==
    /\ RunPages(live) \subseteq VPage
    /\ \A v \in RunPages(live) : Map[v] \in Frame
    /\ \A v, w \in RunPages(live) : v # w => Map[v] # Map[w]

\* What callers see is a function from pages to frames of their own.
LEMMA InvView ==
    ASSUME Fits, IInv
    PROVE  ViewInv
<1>1. RunPages(live) \subseteq VPage
  <2>1. \A r \in live : Pages(r) \subseteq VPage
    BY RunFacts DEF IInv, Runs
  <2> QED BY <2>1 DEF RunPages
<1>2. \A v \in RunPages(live) : Map[v] # None /\ Map[v] \in Frame
  BY <1>1, MemoryFacts DEF IInv, RunInv
<1>3. \A v, w \in RunPages(live) : v # w => Map[v] # Map[w]
  <2>1. CASE live = {}
    BY <2>1 DEF RunPages
  <2>2. CASE live # {}
    <3>1. vmaReady
      BY <2>2 DEF IInv, RunInv
    <3>2. ready
      <4>1. PICK r \in live : TRUE
        BY <2>2
      <4>2. r.base + r.count <= nextVaddr /\ r.base \in Nat /\ r.count \in Nat /\ r.count # 0
        BY <4>1, RunFacts DEF IInv, Runs
      <4>3. nextVaddr # 0
        BY <4>2
      <4> QED BY <4>3 DEF IInv, PhaseInv
    <3>3. RunPages(live) \subseteq Owners
      BY <3>1, <3>2 DEF Owners, Up, IInv, PhaseInv, RunPages, Runs
    <3>4. PICK L \in SUBSET Managed : Account(Owners, Map, TableOf, avail, dropped \cup L)
      BY DEF IInv, FramesInv
    <3> QED BY <3>3, <3>4, <1>2 DEF Account
  <2> QED BY <2>1, <2>2
<1> QED BY <1>1, <1>2, <1>3 DEF ViewInv

\* Taking a run is KernelPages' Alloc, returning it KernelPages' Free, and
\* nothing else shows.
LEMMA ViewStep ==
    ASSUME Fits, IInv, ViewInv, ViewInv', [Next]_vars
    PROVE  Caller!Next \/ View' = View
<1> DEFINE R == RunPages(live)
           S == RunPages(live')
           G == View
           H == View'
<1>1. G = [v \in R |-> Map[v]] /\ DOMAIN G = R
  BY DEF View, ViewInv, Map
<1>2. H = [v \in S |-> Map'[v]] /\ DOMAIN H = S
  BY DEF View, ViewInv, Map
<1>3. \A v \in R : Map'[v] = Map[v]
  BY LivePagesKept
<1>4. CASE alloc_returns
  <2>1. pc = "alloc" /\ live' = live \cup {call} /\ Busy
    BY <1>4 DEF alloc_returns, Busy
  <2>2. S = R \cup Pages(call) /\ S \ R = Pages(call)
    <3>1. S = R \cup Pages(call)
      BY <2>1 DEF RunPages
    <3>2. \A v \in Pages(call) : v \notin R
      BY <2>1, BusyFacts
    <3> QED BY <3>1, <3>2
  <2>3. Caller!IsRun(S \ R)
    <3>1. call.base \in Nat /\ call.count \in Nat /\ call.count # 0
      BY <2>1, BusyFacts, RunFacts DEF IInv
    <3>2. /\ call.base \in Pages(call) /\ call.base + call.count - 1 \in Pages(call)
          /\ Pages(call) = call.base..(call.base + call.count - 1)
      BY <3>1 DEF Pages
    <3> QED BY <3>2, <2>2 DEF Caller!IsRun
  <2>4. R \subseteq S /\ S \subseteq VPage
    BY <2>2 DEF ViewInv
  <2>5. H = [v \in S |-> IF v \in R THEN G[v] ELSE H[v]]
    BY <1>1, <1>2, <1>3, <2>2
  <2>6. Caller!OwnFrames(H)
    <3>1. \A v, w \in S : Map'[v] \in Frame /\ (v # w => Map'[v] # Map'[w])
      BY DEF ViewInv
    <3> HIDE DEF H, S
    <3> QED BY <1>2, <3>1 DEF Caller!OwnFrames
  <2>7. Caller!Alloc
    BY <1>1, <1>2, <2>3, <2>4, <2>5, <2>6 DEF Caller!Alloc, View
  <2> QED BY <2>7 DEF Caller!Next
<1>5. ASSUME NEW r \in live, vmm_free_pages(r) PROVE Caller!Next
  <2>1. live' = live \ {r}
    BY <1>5 DEF vmm_free_pages
  <2>2. S \subseteq R /\ R \ S = Pages(r)
    <3>1. \A q \in live \ {r} : Pages(q) \cap Pages(r) = {}
      BY InvRunsUsable DEF RunsUsable
    <3>2. S \subseteq R
      BY <2>1 DEF RunPages
    <3>3. \A v : v \in R \ S <=> v \in Pages(r)
      BY <2>1, <3>1, InRunPages
    <3> QED BY <3>2, <3>3
  <2>3. Caller!IsRun(R \ S)
    <3>1. r.base \in Nat /\ r.count \in Nat /\ r.count # 0
      BY RunFacts DEF IInv, Runs
    <3>2. /\ r.base \in Pages(r) /\ r.base + r.count - 1 \in Pages(r)
          /\ Pages(r) = r.base..(r.base + r.count - 1)
      BY <3>1 DEF Pages
    <3> QED BY <3>2, <2>2 DEF Caller!IsRun
  <2>4. H = [v \in S |-> G[v]]
    BY <1>1, <1>2, <1>3, <2>2
  <2>5. Caller!Free
    BY <1>1, <1>2, <2>2, <2>3, <2>4 DEF Caller!Free, View
  <2> QED BY <2>5 DEF Caller!Next
<1>6. CASE live' = live
  <2>1. S = R
    BY <1>6
  <2>2. H = G
    BY <1>1, <1>2, <1>3, <2>1
  <2> QED BY <2>2
<1>7. CASE Next
  <2>1. CASE Boot
    BY <1>6, <2>1 DEF Boot, map_low, map_high, vmm_init_fails, load_cr3,
       vmm_unmap_identity, kmalloc_init_page, kmalloc_init_fails, kmalloc_init_done, vma_init
  <2>2. CASE Alloc
    BY <1>4, <1>6, <2>2 DEF Alloc, vmm_alloc_pages, alloc_page, alloc_page_fails,
       rollback_page, rollback_returns
  <2>3. CASE Free
    BY <1>5, <1>6, <2>3 DEF Free, free_page, free_returns
  <2>4. CASE Shell
    BY <1>6, <2>4 DEF Shell, ring3_panic, ring3_page, ring3_fails, ring3_enter,
       cmd_vmm_map, cmd_vmm_unmap
  <2>5. CASE \E v \in Probe : tlb_fill(v)
    BY <1>6, <2>5 DEF tlb_fill
  <2> QED BY <1>7, <2>1, <2>2, <2>3, <2>4, <2>5 DEF Next
<1>8. CASE UNCHANGED vars
  BY <1>6, <1>8 DEF vars
<1> QED BY <1>7, <1>8

-----------------------------------------------------------------------------
\* The direct map covers the pool and nothing ever takes a page out of it:
\* PHYS_TO_VIRT, by which the kernel edits its own tables, never faults
\* (vmm_init, vmm_unmap_identity, vmm_map_page).
THEOREM DirectMap == ASSUME MemoryFits PROVE Spec => []DirectMapCoversPool
<1>1. IInv => DirectMapCoversPool
  BY FitsFacts, InvDirectMap
<1> QED BY <1>1, Invariance, PTL

\* pmm_alloc_page's frames have one use each and, until the bump pointer enters
\* the heap, none is lost, wherever vmm_init, kmalloc_init or vmm_alloc_pages run
\* out of them.
THEOREM Frames == ASSUME MemoryFits PROVE Spec => []FramesAccountedFor
<1>1. IInv => FramesAccountedFor
  BY FitsFacts, InvTypeOK, InvFrames DEF FramesAccountedFor
<1> QED BY <1>1, Invariance, PTL

\* No allocation, rollback, mapping or unmapping moves a page of the heap that
\* the bump pointer has not passed, wherever the pointer is: in the heap, too
\* (kmalloc_init, vmm_alloc_pages, vmm_free_pages).
THEOREM Heap == ASSUME MemoryFits PROVE Spec => []HeapUndisturbed
<1>1. IInv => HeapUndisturbed
  BY FitsFacts, InvHeap
<1> QED BY <1>1, Invariance, PTL

\* Runs are backed and apart, and the page fault handler finds no registered page
\* of a run without a frame, however full the registry is
\* (vmm_alloc_pages, vmm_free_pages, vma_add).
THEOREM RunsAndAreas == ASSUME MemoryFits PROVE Spec => [](RunsUsable /\ RegisteredIsMapped)
<1>1. IInv => RunsUsable /\ RegisteredIsMapped
  BY FitsFacts, InvRunsUsable, InvRegistered
<1> QED BY <1>1, Invariance, PTL

\* As long as the registry has a slot whenever a run is registered (vma_add's
\* answer is not looked at), every run that does not meet the heap is registered
\* until it is freed.
THEOREM Registered ==
    ASSUME MemoryFits
    PROVE  Spec /\ []RegistryHasRoom => []RunsAreRegistered
<1>1. Init => LiveRegistered
  BY DEF Init, LiveRegistered
<1>2. IInv /\ RegistryHasRoom /\ LiveRegistered /\ [Next]_vars => LiveRegistered'
  BY FitsFacts, LiveRegisteredStep
<1>3. IInv /\ LiveRegistered => RunsAreRegistered
  BY FitsFacts, InvRunsUsable, InvRegistered, InvAllocated DEF RunsAreRegistered, IInv
<1> QED BY <1>1, <1>2, <1>3, Invariance, PTL DEF Spec

\* Ring 3 reaches the code and the stack page of ring3_panic at most, for every
\* content RAM may have had (vmm_ensure_page_table clears a new table).
THEOREM UserPagesOnly == ASSUME MemoryFits PROVE Spec => []OnlyUserPagesInRing3
<1>1. IInv => OnlyUserPagesInRing3
  BY FitsFacts, InvUser
<1> QED BY <1>1, Invariance, PTL

\* The processor never uses a translation that the tables have lost
\* (invlpg in vmm_map_page and vmm_unmap_page, the loads of CR3).
THEOREM Tlb == ASSUME MemoryFits PROVE Spec => []TlbCoherent
<1>1. IInv => TlbCoherent
  BY FitsFacts, InvTlb
<1> QED BY <1>1, Invariance, PTL

\* vmm_alloc_pages and vmm_free_pages implement KernelPages: callers see runs
\* whose pages keep frames of their own until they give them back.
THEOREM Refinement == ASSUME MemoryFits PROVE Spec => ImplementsKernelPages
<1>1. Init => Caller!Init
  <2>1. Init => RunPages(live) = {}
    BY DEF Init, RunPages
  <2> QED BY <2>1 DEF Caller!Init
<1>2. IInv => ViewInv
  BY FitsFacts, InvView
<1>3. IInv /\ ViewInv /\ ViewInv' /\ [Next]_vars => Caller!Next \/ View' = View
  BY FitsFacts, ViewStep
<1>4. IInv /\ ViewInv /\ ViewInv' /\ [Next]_vars => [Caller!Next]_View
  BY <1>3
<1> QED BY <1>1, <1>2, <1>4, Invariance, PTL DEF Spec, ImplementsKernelPages, Caller!Spec, View
=============================================================================
