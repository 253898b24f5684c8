----------------------------- MODULE PmmBitmap -----------------------------
(***************************************************************************)
(* The bitmap back end of the physical memory manager                      *)
(* (src/kernel/mm/pmm_bitmap.c), the default one: every usable entry of    *)
(* the boot loader's memory map becomes a region whose first pages hold    *)
(* the region's bitmap; alloc_page scans the regions round robin, and      *)
(* counters cached per region and overall decide which scans are skipped.  *)
(*                                                                         *)
(* Pages are named by their frame number (address / page size), so that    *)
(* all bitmaps together are one set: the frames whose bit is clear.        *)
(* Boundaries the boot loader and the linker provide are byte addresses    *)
(* and need not be aligned.  A region is named by the index of its memory  *)
(* map entry; g_regions lists them in that order.                          *)
(***************************************************************************)
EXTENDS Integers, Sequences, FiniteSets

CONSTANTS
    PAGE_SIZE,      \* PMM_PAGE_SIZE (4096)
    BITS,           \* pages a byte of a bitmap stands for (8)
    LOW,            \* PMM_ONE_MIB: nothing below is managed
    LIMIT,          \* 0x100000000: nothing above is addressable
    U64_MAX,        \* UINT64_MAX, where u64_add_sat saturates
    MIN_PAGES,      \* smallest acceptable region, in pages (8)
    MAX_REGIONS,    \* PMM_MAX_REGIONS (32)
    BootInfos       \* what the boot loader and the linker may hand to init

NULL == 0   \* the null pointer, and its frame: below LOW, hence no page

ASSUME ConstantsAssumption ==
    /\ PAGE_SIZE \in Nat \ {0} /\ BITS \in Nat \ {0} /\ LIMIT \in Nat \ {0}
    /\ MIN_PAGES \in Nat \ {0} /\ MAX_REGIONS \in Nat /\ U64_MAX \in Nat
    /\ LOW \in Nat /\ LOW >= PAGE_SIZE
    /\ LIMIT % PAGE_SIZE = 0 /\ LOW + PAGE_SIZE <= LIMIT

\* Below the last addressable page, where rounding up does not wrap to 0.
BelowLastPage(addr) == addr + PAGE_SIZE <= LIMIT

\* What is known of the boot information: addresses are natural numbers, the
\* usable entries of a memory map do not overlap, and none of them begins in
\* the last page below 4 GiB, nor do kernel image and Multiboot2 information
\* reach into it (a PC has its firmware there).
ASSUME BootAssumption ==
    \A b \in BootInfos :
       /\ b.kernel_start \in Nat /\ b.kernel_end \in Nat
       /\ b.mb2 \in Nat /\ b.mb2_size \in Nat
       /\ BelowLastPage(b.kernel_end) /\ BelowLastPage(b.mb2 + b.mb2_size)
       /\ b.has_mmap \in BOOLEAN
       /\ b.mmap \in Seq([addr : Nat, len : Nat, type : Nat])
       /\ \A i \in DOMAIN b.mmap :
             b.mmap[i].type = 1 /\ b.mmap[i].addr < LIMIT => BelowLastPage(b.mmap[i].addr)
       /\ \A i, j \in DOMAIN b.mmap :
             i # j /\ b.mmap[i].type = 1 /\ b.mmap[j].type = 1 =>
                \/ b.mmap[i].addr + b.mmap[i].len <= b.mmap[j].addr
                \/ b.mmap[j].addr + b.mmap[j].len <= b.mmap[i].addr

VARIABLES
    g_pmm_ready,
    boot,       \* the boot information init was given
    g,          \* the bitmaps and the cached values, see TypeOK
    held,       \* frames handed out by alloc_page and not yet freed
    ret         \* the last call: its name, and its answer or argument

vars == <<g_pmm_ready, boot, g, held, ret>>

-----------------------------------------------------------------------------
(* The layout of a region.                                                 *)

Least(S) == CHOOSE x \in S : \A y \in S : x <= y

\* align_up_u32, in 32 bits, and align_down_u32, as frame numbers
CeilFrame(addr) == ((addr + PAGE_SIZE - 1) % LIMIT) \div PAGE_SIZE
FloorFrame(addr) == addr \div PAGE_SIZE

ranges_overlap(a_start, a_end, b_start, b_end) ==
    LET s == IF a_start > b_start THEN a_start ELSE b_start
        e == IF a_end < b_end THEN a_end ELSE b_end
    IN  e > s

\* mutant: the last, partial byte is forgotten
BitmapBytes_down(pages) == pages \div BITS

\* bitmap_bytes, and the pages that many bytes take
BitmapBytes(pages) == (pages + BITS - 1) \div BITS
BitmapPages(pages) == CeilFrame(BitmapBytes(pages))

NoRegion == [base |-> 0, pages |-> 0]

\* One attempt of pmm_compute_region_layout: behind the kernel if it is in
\* the range, whole pages only, large enough to hold its own bitmap.
Attempt(b, start, end) ==
    LET k == CeilFrame(b.kernel_end)
        s == CeilFrame(start)
        first == IF ranges_overlap(start, end, b.kernel_start, b.kernel_end)
                    /\ k > s
                 THEN k ELSE s
        pages == FloorFrame(end) - first
    IN  IF /\ FloorFrame(end) > first + 1
           /\ pages >= MIN_PAGES
           /\ BitmapPages(pages) < pages
        THEN [base |-> first, pages |-> pages]
        ELSE NoRegion

\* mutant: only the start of the bitmap is compared
BitmapHitsMb2_start(b, r) ==
    /\ b.mb2 <= r.base * PAGE_SIZE
    /\ r.base * PAGE_SIZE < b.mb2 + b.mb2_size

\* The bitmap of region r would be written over the Multiboot2 information.
BitmapHitsMb2(b, r) ==
    /\ b.mb2_size > 0
    /\ ranges_overlap(r.base * PAGE_SIZE,
                      (r.base + BitmapPages(r.pages)) * PAGE_SIZE,
                      b.mb2, b.mb2 + b.mb2_size)

\* The loop allows four attempts.  The second one starts behind the
\* Multiboot2 information; were it to hit it again, the others would only
\* repeat it.
pmm_compute_region_layout(b, start, end) ==
    LET r == Attempt(b, start, end)
        r2 == Attempt(b, CeilFrame(b.mb2 + b.mb2_size) * PAGE_SIZE,
                         FloorFrame(end) * PAGE_SIZE)
    IN  CASE r = NoRegion -> NoRegion
          [] r # NoRegion /\ ~BitmapHitsMb2(b, r) -> r
          [] OTHER -> IF r2 # NoRegion /\ BitmapHitsMb2(b, r2)
                      THEN NoRegion ELSE r2

-----------------------------------------------------------------------------
(* The regions pmm_bitmap_init builds.                                     *)

EntryStart(e) == IF e.addr < LOW THEN LOW ELSE e.addr
EntryEnd(e) == IF e.addr + e.len >= LIMIT THEN LIMIT - 1 ELSE e.addr + e.len

Usable(e) ==
    /\ e.type = 1
    /\ e.len > 0
    /\ e.addr + e.len < U64_MAX
    /\ e.addr < LIMIT
    /\ EntryEnd(e) > LOW
    /\ EntryEnd(e) > EntryStart(e)

Layout(b, i) ==
    IF Usable(b.mmap[i])
    THEN pmm_compute_region_layout(b, EntryStart(b.mmap[i]),
                                      EntryEnd(b.mmap[i]))
    ELSE NoRegion

\* The entries that make a region, the first MAX_REGIONS of them.
LaidOut(b) == {i \in DOMAIN b.mmap : Layout(b, i) # NoRegion}
RegionIds(b) ==
    IF b.has_mmap
    THEN {i \in LaidOut(b) :
            Cardinality({j \in LaidOut(b) : j < i}) < MAX_REGIONS}
    ELSE {}

Regions(b) == [i \in RegionIds(b) |-> Layout(b, i)]

Frames(r) == r.base .. r.base + r.pages - 1
BitmapFrames(r) == r.base .. r.base + BitmapPages(r.pages) - 1

Managed(rs) == UNION {Frames(rs[i]) : i \in DOMAIN rs}

\* mutant: the end is rounded down
FramesOf_down(start, end) ==
    IF end <= start THEN {} ELSE FloorFrame(start) .. FloorFrame(end) - 1

\* bitmap_mark_used_range: the pages a range of bytes touches
FramesOf(start, end) ==
    IF end <= start THEN {} ELSE FloorFrame(start) .. CeilFrame(end) - 1

\* Kernel image and Multiboot2 information.
ReservedFrames(b) ==
    FramesOf(b.kernel_start, b.kernel_end)
      \cup FramesOf(b.mb2, b.mb2 + b.mb2_size)

-----------------------------------------------------------------------------
(* The operations, on the record g and the regions rs.                     *)

\* pmm_resync_free_count: count the clear bits.
resync_free_count(rs, s) ==
    [clear |-> s.clear,
     free |-> [i \in DOMAIN rs |-> Cardinality(s.clear \cap Frames(rs[i]))],
     total_free |-> Cardinality(s.clear \cap Managed(rs)),
     rr |-> s.rr]

\* The clear bits pmm_find_free_index looks at in region r.
Scanned(r, s) ==
    s.clear \cap (r.base .. r.base + BitmapBytes(r.pages) * BITS - 1)
            \cap Frames(r)

\* The scan from rr reaches region i no later than region j.
NotAfter(rr, i, j) == IF i >= rr THEN j < rr \/ i <= j ELSE j < rr /\ i <= j

\* The regions a scan finds a page in, and the first of them from rr.
Servable(rs, s) == {i \in DOMAIN rs : s.free[i] # 0 /\ Scanned(rs[i], s) # {}}
NextRegion(rs, s) ==
    CHOOSE i \in Servable(rs, s) :
       \A j \in Servable(rs, s) : NotAfter(s.rr, i, j)

\* bitmap_set and the counters
TakeFrame(s, ri, frame) ==
    [clear |-> s.clear \ {frame},
     free |-> [s.free EXCEPT ![ri] = @ - 1],
     total_free |-> s.total_free - 1,
     rr |-> ri]

alloc_page(rs, s) ==
    LET ri == NextRegion(rs, s)
        frame == Least(Scanned(rs[ri], s))
    IN  IF s.total_free = 0
        THEN [frame |-> NULL, s |-> s]
        ELSE IF Servable(rs, s) = {}
        THEN [frame |-> NULL, s |-> resync_free_count(rs, s)]
        ELSE [frame |-> frame, s |-> TakeFrame(s, ri, frame)]

\* The argument passes the checks of pmm_bitmap_free_page: not NULL, aligned,
\* in a region, its bit set.
Accepted(rs, s, frame, aligned) ==
    /\ aligned
    /\ frame # NULL
    /\ frame \in Managed(rs)
    /\ frame \notin s.clear

\* mutant: always the first region
RegionOf_first(rs, frame) == Least(DOMAIN rs)

RegionOf(rs, frame) ==
    Least({i \in DOMAIN rs : frame \in Frames(rs[i])})

free_page(rs, s, frame) ==
    [clear |-> s.clear \cup {frame},
     free |-> [s.free EXCEPT ![RegionOf(rs, frame)] = @ + 1],
     total_free |-> s.total_free + 1,
     rr |-> s.rr]

\* pmm_selftest: whatever its verdict, the pages it got it gives back.
selftest(rs, s) ==
    LET a1 == alloc_page(rs, s)
        a2 == alloc_page(rs, a1.s)
        a3 == alloc_page(rs, a2.s)
        a4 == alloc_page(rs, a3.s)
        give(x, f) == IF f = NULL THEN x ELSE free_page(rs, x, f)
    IN  IF s.total_free < 4 THEN s
        ELSE give(give(give(give(a4.s, a1.frame), a2.frame),
                       a3.frame), a4.frame)

-----------------------------------------------------------------------------
(* The specification.                                                      *)

Answer(op, page) == [op |-> op, page |-> page]

\* pmm_reset_state
ResetState == [clear |-> {}, free |-> << >>, total_free |-> 0, rr |-> 0]

Init ==
    /\ g_pmm_ready = FALSE
    /\ boot \in BootInfos
    /\ g = ResetState
    /\ held = {}
    /\ ret = Answer("none", NULL)

\* mutant: nothing is reserved
BuildBitmaps_unreserved(b) ==
    LET rs == Regions(b)
    IN  [ResetState EXCEPT
           !.clear = UNION {Frames(rs[i]) \ BitmapFrames(rs[i]) :
                              i \in DOMAIN rs}]

\* Every bit set, then cleared behind the bitmap, then set again for what is
\* reserved; the counters are recounted at the end, before the selftest.
BuildBitmaps(b) ==
    LET rs == Regions(b)
    IN  [ResetState EXCEPT
           !.clear = (UNION {Frames(rs[i]) \ BitmapFrames(rs[i]) :
                               i \in DOMAIN rs}) \ ReservedFrames(b)]

pmm_bitmap_init ==
    /\ ~g_pmm_ready
    /\ IF RegionIds(boot) = {}
       THEN UNCHANGED <<g_pmm_ready, g>>
       ELSE /\ g_pmm_ready' = TRUE
            /\ g' = selftest(Regions(boot),
                       resync_free_count(Regions(boot), BuildBitmaps(boot)))
    /\ ret' = Answer("init", NULL)
    /\ UNCHANGED <<boot, held>>

pmm_bitmap_alloc_page ==
    LET a == IF g_pmm_ready THEN alloc_page(Regions(boot), g)
             ELSE [frame |-> NULL, s |-> g]
    IN  /\ g' = a.s
        /\ ret' = Answer("alloc", a.frame)
        /\ held' = held \cup ({a.frame} \ {NULL})
        /\ UNCHANGED <<g_pmm_ready, boot>>

pmm_bitmap_free_page(frame, aligned) ==
    /\ IF g_pmm_ready /\ Accepted(Regions(boot), g, frame, aligned)
       THEN /\ g' = free_page(Regions(boot), g, frame)
            /\ held' = held \ {frame}
       ELSE UNCHANGED <<g, held>>
    /\ ret' = Answer("free", IF aligned THEN frame ELSE NULL)
    /\ UNCHANGED <<g_pmm_ready, boot>>

\* Callers free what they hold, or pass an argument the back end rejects: a
\* page freed before, NULL, an unaligned or unmanaged address.  (Nothing
\* protects the pages init reserved from a caller that frees them.)
CallerMayFree(frame, aligned) ==
    g_pmm_ready /\ Accepted(Regions(boot), g, frame, aligned) => frame \in held

AllFrames == 0 .. FloorFrame(LIMIT - 1)

Next ==
    \/ pmm_bitmap_init
    \/ pmm_bitmap_alloc_page
    \/ \E frame \in AllFrames, aligned \in BOOLEAN :
          CallerMayFree(frame, aligned) /\ pmm_bitmap_free_page(frame, aligned)

Spec == Init /\ [][Next]_vars

-----------------------------------------------------------------------------
(* Properties.                                                             *)

\* The types of the variables: bits only of addressable frames, a counter
\* for exactly the regions laid out.
TypeOK ==
    /\ g_pmm_ready \in BOOLEAN
    /\ boot \in BootInfos
    /\ g \in [clear : SUBSET AllFrames,
              free : [IF g_pmm_ready THEN RegionIds(boot) ELSE {} -> Nat],
              total_free : Nat,
              rr : Nat]
    /\ held \subseteq AllFrames
    /\ ret \in [op : {"none", "init", "alloc", "free"}, page : AllFrames]

\* The cached counters are exact: per region, and overall.  alloc_page
\* trusts both -- it answers NULL without a scan when total_free is 0, and
\* skips a region whose counter is 0 -- so an error of one loses pages.
CountersExact ==
    g_pmm_ready =>
       /\ \A i \in RegionIds(boot) :
             g.free[i] = Cardinality(g.clear \cap Frames(Regions(boot)[i]))
       /\ g.total_free = Cardinality(g.clear)

\* What init keeps back: the bitmaps, the kernel, the Multiboot2 information.
SetAside(b) ==
    (UNION {BitmapFrames(Regions(b)[i]) : i \in RegionIds(b)})
       \cup ReservedFrames(b)

\* Every managed page is in one of three states: free (its bit clear), held
\* by a caller, or set aside by init; over any sequence of calls none is
\* lost and none is in two of them.
PagesAccountedFor ==
    g_pmm_ready =>
       /\ held \cap g.clear = {}
       /\ held \cup g.clear = Managed(Regions(boot)) \ SetAside(boot)

\* Page f holds a byte of [start, end).
PageHolds(f, start, end) ==
    start < end /\ f * PAGE_SIZE < end /\ start < (f + 1) * PAGE_SIZE

\* No page handed out holds a byte of the kernel image, of the Multiboot2
\* information or of a bitmap, or lies outside usable memory.
ReservedNeverHandedOut ==
    \A f \in held :
       /\ ~PageHolds(f, boot.kernel_start, boot.kernel_end)
       /\ ~PageHolds(f, boot.mb2, boot.mb2 + boot.mb2_size)
       /\ \A i \in RegionIds(boot) : f \notin BitmapFrames(Regions(boot)[i])
       /\ \E i \in DOMAIN boot.mmap :
             LET e == boot.mmap[i]
             IN  /\ e.type = 1
                 /\ e.addr <= f * PAGE_SIZE
                 /\ (f + 1) * PAGE_SIZE <= e.addr + e.len

\* init writes the bitmaps while it still reads the memory map: no bitmap
\* covers the kernel image or the Multiboot2 information, each fits in its
\* own region, and the regions are disjoint.
BitmapsInSafePlaces ==
    LET rs == Regions(boot)
    IN  /\ \A i \in DOMAIN rs :
              /\ BitmapFrames(rs[i]) \cap ReservedFrames(boot) = {}
              /\ BitmapFrames(rs[i]) \subseteq Frames(rs[i])
        /\ \A i, j \in DOMAIN rs :
              i # j => Frames(rs[i]) \cap Frames(rs[j]) = {}

PA == INSTANCE PageAllocator
         WITH Page <- AllFrames \ {NULL}, ready <- g_pmm_ready,
              avail <- g.clear

\* The bitmap back end implements the contract of pmm_ops_t: alloc_page hands
\* out a page nobody holds and answers NULL only when none is left; free_page
\* gives exactly the page it is passed back if it is held, and else nothing.
ImplementsPageAllocator == PA!Spec
=============================================================================
