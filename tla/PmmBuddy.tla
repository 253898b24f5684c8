------------------------------ MODULE PmmBuddy ------------------------------
(***************************************************************************)
(* The buddy back end of the physical memory manager                       *)
(* (src/kernel/mm/pmm_buddy.c): one zone of physical pages, free blocks of *)
(* 2^order pages on one list per order, split on allocation and merged     *)
(* with their buddy on release.                                            *)
(*                                                                         *)
(* g_zone is one record, as in the source, and the static helpers are      *)
(* operators from zones to zones, so that a call is the composition of the *)
(* helpers it calls.  The intrusive doubly linked lists are sequences of   *)
(* page indices: head first.  Physical addresses are numbers of bytes; the *)
(* page size, the size of a page_info_t, the 1 MiB floor and the 4 GiB     *)
(* ceiling are constants, so that small instances keep the alignment and   *)
(* boundary arithmetic of the code.                                        *)
(***************************************************************************)
EXTENDS Naturals, Sequences, FiniteSets, SequencesExt

CONSTANTS
    MAX_ORDER,      \* BUDDY_MAX_ORDER (10)
    PAGE_SIZE,      \* 4096
    INFO_SIZE,      \* sizeof(page_info_t) (12)
    LOW,            \* 0x100000: nothing below is managed
    LIMIT,          \* 0x100000000: nothing above is addressable
    MIN_REGION,     \* smallest acceptable region, in pages (32)
    MIN_MANAGED,    \* smallest acceptable zone, in pages (16)
    BootInfos       \* what the boot loader and the linker may hand to init

ASSUME ConstantsAssumption ==
    /\ MAX_ORDER \in Nat
    /\ {PAGE_SIZE, INFO_SIZE, LIMIT, MIN_REGION, MIN_MANAGED} \subseteq Nat \ {0}
    /\ LOW \in Nat
    /\ INFO_SIZE <= PAGE_SIZE /\ PAGE_SIZE <= LOW /\ LIMIT % PAGE_SIZE = 0

\* The Multiboot2 memory map, and images that the linker and the boot loader
\* put somewhere in the address space.
ASSUME BootAssumption ==
    \A b \in BootInfos :
       /\ {b.kernel_start, b.kernel_end, b.mb2, b.mb2_size} \subseteq Nat
       /\ b.has_mmap \in BOOLEAN
       /\ b.mmap \in Seq([addr : Nat, len : Nat, type : Nat])

NULL == 0   \* the null pointer: below LOW, hence no page

VARIABLES
    g_buddy_ready,
    g_zone,
    boot,       \* the boot information init was given
    held,       \* addresses handed out by alloc_page and not yet freed
    ret         \* the last call: its name, and its answer or argument

vars == <<g_buddy_ready, g_zone, boot, held, ret>>

-----------------------------------------------------------------------------
(* Addresses, indices, free lists.                                         *)

align_down(v) == v - (v % PAGE_SIZE)
\* mutant: rounds down
align_up_down(v) == align_down(v) % LIMIT

align_up(v) == align_down(v + PAGE_SIZE - 1) % LIMIT

Pages(z) == 0 .. z.total_pages - 1

index_to_phys(z, idx) == z.base_phys + idx * PAGE_SIZE
phys_to_index(z, phys) == (phys - z.base_phys) \div PAGE_SIZE

\* idx ^ (1 << order)
calc_buddy_index(idx, order) ==
    IF (idx \div 2^order) % 2 = 0 THEN idx + 2^order ELSE idx - 2^order

\* idx after clearing its low bits, as the merge loop does one bit at a time
Parent(idx, order) == idx - (idx % 2^order)

buddy_add_free(z, idx, order) ==
    [z EXCEPT !.pages[idx] = [order |-> order, is_free |-> TRUE],
              !.free_list[order] = Append(@, idx),
              !.free_count[order] = @ + 1,
              !.total_free = @ + 2^order]

\* mutant: is_free stays set
buddy_remove_free_flagged(z, idx, order) ==
    [z EXCEPT !.free_list[order] = RemoveFirst(@, idx),
              !.free_count[order] = @ - 1,
              !.total_free = @ - 2^order]

buddy_remove_free(z, idx, order) ==
    [z EXCEPT !.pages[idx].is_free = FALSE,
              !.free_list[order] = RemoveFirst(@, idx),
              !.free_count[order] = @ - 1,
              !.total_free = @ - 2^order]

-----------------------------------------------------------------------------
(* The core of the allocator.                                              *)

\* mutant: the list of the order itself is not looked at
Stocked_above(z, order) == {o \in order + 1 .. MAX_ORDER : z.free_list[o] # <<>>}

\* The orders at which buddy_alloc(order) finds a block.
Stocked(z, order) == {o \in order .. MAX_ORDER : z.free_list[o] # <<>>}

\* Give back the upper half of the block at idx, level by level, until the
\* block has the order asked for.
Split(z, idx, cur, order) ==
    LET split[o \in order .. cur] ==
            IF o = cur THEN z ELSE buddy_add_free(split[o + 1], idx + 2^o, o)
    IN  split[order]

\* Take the first block of the lowest stocked order, and split it.
buddy_alloc(z, order) ==
    LET cur == CHOOSE o \in Stocked(z, order) :
                  \A p \in Stocked(z, order) : o <= p
        idx == Head(z.free_list[cur])
        rest == Split(buddy_remove_free(z, idx, cur), idx, cur, order)
    IN  [idx |-> idx, zone |-> [rest EXCEPT !.pages[idx].order = order]]

\* mutant: the size of the buddy is not compared
Mergeable_any_order(z, idx, order) ==
    LET bi == calc_buddy_index(idx, order)
    IN  bi < z.total_pages /\ z.pages[bi].is_free

\* mutant: the largest order is never restored
Mergeable_below_max(z, idx, order) ==
    LET bi == calc_buddy_index(idx, order)
    IN  /\ bi < z.total_pages /\ order < MAX_ORDER - 1
        /\ z.pages[bi].is_free /\ z.pages[bi].order = order

\* The test of the merge loop: the buddy exists, is free and is as large.
Mergeable(z, idx, order) ==
    LET bi == calc_buddy_index(idx, order)
    IN  /\ bi < z.total_pages
        /\ z.pages[bi].is_free
        /\ z.pages[bi].order = order

\* The order at which the merge loop stops.
MergedTo(z, idx, order) ==
    CHOOSE k \in order .. MAX_ORDER :
       /\ \A o \in order .. k - 1 : Mergeable(z, Parent(idx, o), o)
       /\ k = MAX_ORDER \/ ~Mergeable(z, Parent(idx, k), k)

\* Take the buddies below order last off their lists.
Merge(z, idx, order, last) ==
    LET merge[k \in order .. last] ==
            IF k = order THEN z
            ELSE buddy_remove_free(merge[k - 1],
                     calc_buddy_index(Parent(idx, k - 1), k - 1), k - 1)
    IN  merge[last]

\* Merge upwards as long as the buddy is free, then list the result.
buddy_free(z, idx, order) ==
    LET last == MergedTo(z, idx, order)
    IN  buddy_add_free(Merge(z, idx, order, last), Parent(idx, last), last)

-----------------------------------------------------------------------------
(* The entry points of pmm_ops_t, as operators on zones: init's selftest   *)
(* calls them too.                                                         *)

\* pmm_buddy_alloc_page: the two guards, then one page.
alloc_page(z) ==
    IF z.total_free = 0 \/ Stocked(z, 0) = {}
    THEN [addr |-> NULL, zone |-> z]
    ELSE LET a == buddy_alloc(z, 0)
         IN  [addr |-> index_to_phys(z, a.idx), zone |-> a.zone]

\* The argument passes the early returns of pmm_buddy_free_page.
Accepted(z, addr) ==
    /\ addr # NULL
    /\ addr % PAGE_SIZE = 0
    /\ addr >= z.base_phys
    /\ phys_to_index(z, addr) < z.total_pages
    /\ ~z.pages[phys_to_index(z, addr)].is_free

free_page(z, addr) ==
    IF ~Accepted(z, addr) THEN z
    ELSE LET idx == phys_to_index(z, addr)
         IN  buddy_free(z, idx, z.pages[idx].order)

-----------------------------------------------------------------------------
(* Initialisation.                                                         *)

EmptyZone ==
    [base_phys |-> 0, total_pages |-> 0, pages |-> << >>,
     free_list |-> [o \in 0 .. MAX_ORDER |-> << >>],
     free_count |-> [o \in 0 .. MAX_ORDER |-> 0],
     total_free |-> 0]

\* A memory map entry clamped to [LOW, LIMIT).
EntryStart(e) == IF e.addr < LOW THEN LOW ELSE e.addr
EntryEnd(e) == IF e.addr + e.len >= LIMIT THEN LIMIT - 1 ELSE e.addr + e.len
EntrySize(e) == EntryEnd(e) - EntryStart(e)

Usable(e) ==
    /\ e.type = 1
    /\ e.addr < LIMIT
    /\ EntryEnd(e) > LOW
    /\ EntryEnd(e) > EntryStart(e)

UsableEntries(mmap) == {i \in DOMAIN mmap : Usable(mmap[i])}

\* The first of the largest usable entries.
BestEntry(mmap) ==
    mmap[CHOOSE i \in UsableEntries(mmap) :
            \A j \in UsableEntries(mmap) :
               \/ EntrySize(mmap[j]) < EntrySize(mmap[i])
               \/ EntrySize(mmap[j]) = EntrySize(mmap[i]) /\ i <= j]

\* Where the page_info array and the zone go in the best region: behind the
\* kernel image and the Multiboot2 information, if they end in it.
ZoneLayout(b) ==
    LET best == BestEntry(b.mmap)
        past(start, end) == IF end > start /\ end <= EntryEnd(best)
                            THEN end ELSE start
        safe == past(past(EntryStart(best), align_up(b.kernel_end)),
                     align_up(b.mb2 + b.mb2_size))
        region_start == align_up(safe)
        region_end == align_down(EntryEnd(best))
        region_pages == (region_end - region_start) \div PAGE_SIZE
        info_pages == align_up(region_pages * INFO_SIZE) \div PAGE_SIZE
    IN  [info_start |-> region_start,
         base_phys |-> region_start + info_pages * PAGE_SIZE,
         pages |-> IF info_pages >= region_pages THEN 0
                   ELSE region_pages - info_pages]

\* The early returns of pmm_buddy_init that leave the back end disabled.
InitFails(b) ==
    \/ ~b.has_mmap
    \/ UsableEntries(b.mmap) = {}
    \/ EntrySize(BestEntry(b.mmap)) < MIN_REGION * PAGE_SIZE
    \/ ZoneLayout(b).pages < MIN_MANAGED

\* Where the images lie in a boot that init can tell from the end of the best
\* region alone: each ends, with the page it ends in, inside that region or
\* below it, or else begins behind it.  ReservedNeverManaged depends on it.
ClearOfRegion(b, start, end) ==
    /\ end + PAGE_SIZE <= LIMIT
    /\ \/ align_up(end) <= EntryEnd(BestEntry(b.mmap))
       \/ start >= EntryEnd(BestEntry(b.mmap))

ImagesClear ==
    \A b \in BootInfos : ~InitFails(b) =>
       /\ ClearOfRegion(b, b.kernel_start, b.kernel_end)
       /\ ClearOfRegion(b, b.mb2, b.mb2 + b.mb2_size)

\* The largest aligned order that fits at idx in a zone of n pages.
CarveOrder(idx, n) ==
    CHOOSE o \in 0 .. MAX_ORDER :
       /\ o = 0 \/ (idx % 2^o = 0 /\ idx + 2^o <= n)
       /\ \A p \in o + 1 .. MAX_ORDER : idx % 2^p # 0 \/ idx + 2^p > n

\* init's loop lists the largest block that fits at idx, from 0 upwards, until
\* it reaches the end of the zone, of n pages: one turn of it, and where it
\* ends.
CarveTurn(c, n) ==
    LET order == CarveOrder(c.idx, n)
    IN  IF c.idx = n THEN c
        ELSE [zone |-> buddy_add_free(c.zone, c.idx, order),
              idx |-> c.idx + 2^order]

Carve(z) ==
    LET carve[k \in 0 .. z.total_pages] ==
            IF k = 0 THEN [zone |-> z, idx |-> 0]
            ELSE CarveTurn(carve[k - 1], z.total_pages)
    IN  carve[z.total_pages].zone

BareZone(b) ==
    LET l == ZoneLayout(b)
    IN  [EmptyZone EXCEPT !.base_phys = l.base_phys,
                          !.total_pages = l.pages,
                          !.pages = [i \in 0 .. l.pages - 1 |->
                                        [order |-> 0, is_free |-> FALSE]]]

FreshZone(b) == Carve(BareZone(b))

\* Two pages are allocated and freed again, also when the check fails.
selftest(z) ==
    LET p1 == alloc_page(z)
        p2 == alloc_page(p1.zone)
        f1 == IF p1.addr = NULL THEN p2.zone ELSE free_page(p2.zone, p1.addr)
    IN  IF p2.addr = NULL THEN f1 ELSE free_page(f1, p2.addr)

-----------------------------------------------------------------------------
(* The specification.                                                      *)

Answer(op, page) == [op |-> op, page |-> page]

Init ==
    /\ g_buddy_ready = FALSE
    /\ g_zone = EmptyZone
    /\ boot \in BootInfos
    /\ held = {}
    /\ ret = Answer("none", NULL)

\* kmain calls it once, before anything else uses the pages.
pmm_buddy_init ==
    /\ ~g_buddy_ready
    /\ IF InitFails(boot)
       THEN UNCHANGED <<g_buddy_ready, g_zone>>
       ELSE /\ g_buddy_ready' = TRUE
            /\ g_zone' = selftest(FreshZone(boot))
    /\ ret' = Answer("init", NULL)
    /\ UNCHANGED <<boot, held>>

pmm_buddy_alloc_page ==
    LET a == IF g_buddy_ready THEN alloc_page(g_zone)
             ELSE [addr |-> NULL, zone |-> g_zone]
    IN  /\ g_zone' = a.zone
        /\ ret' = Answer("alloc", a.addr)
        /\ held' = held \cup ({a.addr} \ {NULL})
        /\ UNCHANGED <<g_buddy_ready, boot>>

pmm_buddy_free_page(addr) ==
    /\ IF g_buddy_ready /\ Accepted(g_zone, addr)
       THEN /\ g_zone' = free_page(g_zone, addr)
            /\ held' = held \ {addr}
       ELSE UNCHANGED <<g_zone, held>>
    /\ ret' = Answer("free", IF addr % PAGE_SIZE = 0 THEN addr ELSE NULL)
    /\ UNCHANGED <<g_buddy_ready, boot>>

\* The pages of the free block a list entry stands for, and all of them.
Block(idx, order) == idx .. idx + 2^order - 1

FreeBlocks(z) ==
    UNION {{[idx |-> z.free_list[o][i], order |-> o] :
               i \in DOMAIN z.free_list[o]} : o \in 0 .. MAX_ORDER}

FreeIndices(z) == UNION {Block(b.idx, b.order) : b \in FreeBlocks(z)}

FreeAddrs == {index_to_phys(g_zone, i) : i \in FreeIndices(g_zone)}

\* Callers free what they hold, or pass an argument that no page they were
\* ever given has: NULL, unaligned, outside the zone.  They may also free
\* the first page of a free block again, which the code detects.
CallerMayFree(addr) == Accepted(g_zone, addr) => addr \in held

Addrs == 0 .. LIMIT - 1

\* Arguments of free_page: every page address, and an unaligned address in
\* every page to stand for the others, which are all refused alike.
FreeArgs == {addr \in Addrs : addr % PAGE_SIZE \in {0, 1}}

Next ==
    \/ pmm_buddy_init
    \/ pmm_buddy_alloc_page
    \/ \E addr \in FreeArgs : CallerMayFree(addr) /\ pmm_buddy_free_page(addr)

Spec == Init /\ [][Next]_vars

-----------------------------------------------------------------------------
(* Properties.                                                             *)

\* The types of the variables.
TypeOK ==
    /\ g_buddy_ready \in BOOLEAN
    /\ g_zone.base_phys \in Addrs /\ g_zone.total_pages \in Nat
    /\ g_zone.pages \in
          [Pages(g_zone) -> [order : 0 .. MAX_ORDER, is_free : BOOLEAN]]
    /\ g_zone.free_list \in [0 .. MAX_ORDER -> Seq(Pages(g_zone))]
    /\ g_zone.free_count \in [0 .. MAX_ORDER -> Nat]
    /\ g_zone.total_free \in Nat
    /\ boot \in BootInfos
    /\ held \subseteq Addrs
    /\ ret \in [op : {"none", "init", "alloc", "free"}, page : Addrs]

\* No page is lost and none is in two places: the free blocks are aligned,
\* lie in the zone and do not overlap, a held page is in none of them, and
\* blocks and held pages together are the whole zone.  (buddy_alloc's split
\* and buddy_free's merge, over any sequence of calls.)
BlocksAndHeldPartition ==
    /\ \A b \in FreeBlocks(g_zone) :
          /\ b.idx % 2^b.order = 0
          /\ Block(b.idx, b.order) \subseteq Pages(g_zone)
    /\ \A b, c \in FreeBlocks(g_zone) :
          b # c => Block(b.idx, b.order) \cap Block(c.idx, c.order) = {}
    /\ FreeAddrs \cap held = {}
    /\ FreeAddrs \cup held
          = {index_to_phys(g_zone, i) : i \in Pages(g_zone)}

\* What the back end caches agrees with the lists: is_free and order of a
\* page_info say on which list it is, free_count[o] is the length of list o
\* and total_free (which alone decides whether alloc_page tries) is the
\* number of pages in the free blocks.
BookkeepingAgrees ==
    /\ TypeOK
    /\ \A i \in Pages(g_zone) : \A o \in 0 .. MAX_ORDER :
          Cardinality({k \in DOMAIN g_zone.free_list[o] :
                          g_zone.free_list[o][k] = i})
             = IF g_zone.pages[i] = [order |-> o, is_free |-> TRUE] THEN 1
               ELSE 0
    /\ \A o \in 0 .. MAX_ORDER :
          g_zone.free_count[o] = Len(g_zone.free_list[o])
    /\ g_zone.total_free = Cardinality(FreeIndices(g_zone))

\* Releasing pages leaves no fragmentation behind: two free buddies of the
\* same order never stay apart (the merge loop of buddy_free stops only at
\* a buddy that is not free, split, or past the end of the zone).
BuddiesMerged ==
    \A b, c \in FreeBlocks(g_zone) :
       ~(b.order = c.order /\ b.order < MAX_ORDER
           /\ c.idx = calc_buddy_index(b.idx, b.order))

\* Once every page has come back, the free blocks are those init carved,
\* whatever was split and merged in between.
WholeAgainWhenAllFree ==
    g_buddy_ready /\ held = {}
       => FreeBlocks(g_zone) = FreeBlocks(FreshZone(boot))

\* Nothing stays fragmented.
FullyCoalesced == BuddiesMerged /\ WholeAgainWhenAllFree

\* No managed page and no byte of the page_info array overlaps the kernel
\* image or the Multiboot2 information, the array is not managed itself, and
\* all of it is usable memory (Step 2 of pmm_buddy_init; its Step 5 only
\* warns).
ReservedNeverManaged ==
    g_buddy_ready =>
       LET kernel == boot.kernel_start .. boot.kernel_end - 1
           mb2 == boot.mb2 .. boot.mb2 + boot.mb2_size - 1
           info_start == ZoneLayout(boot).info_start
           info == info_start ..
                      info_start + g_zone.total_pages * INFO_SIZE - 1
           zone == g_zone.base_phys ..
                      g_zone.base_phys + g_zone.total_pages * PAGE_SIZE - 1
       IN  /\ (info \cup zone) \cap (kernel \cup mb2) = {}
           /\ info \cap zone = {}
           /\ \A a \in info \cup zone : \E i \in DOMAIN boot.mmap :
                 /\ boot.mmap[i].type = 1
                 /\ boot.mmap[i].addr <= a
                 /\ a < boot.mmap[i].addr + boot.mmap[i].len

PA == INSTANCE PageAllocator
         WITH Page <- Addrs \ {NULL}, ready <- g_buddy_ready,
              avail <- FreeAddrs

\* The buddy back end implements the contract of pmm_ops_t: alloc_page hands
\* out a page nobody holds and answers NULL only when every page is held;
\* free_page gives exactly the page it is passed back if it is held, and
\* else nothing.
ImplementsPageAllocator == PA!Spec

=============================================================================
