-------------------------------- MODULE Vmm --------------------------------
(***************************************************************************)
(* The virtual memory manager (kernel/mm/vmm.c) with the boot sequence of  *)
(* kmain.c that drives it: vmm_init, vmm_unmap_identity, kmalloc_init,     *)
(* vma_init; then vmm_alloc_pages and vmm_free_pages, the `ring3 panic'    *)
(* command, and `vmm map' and `vmm unmap' on a few pages of the low half.  *)
(*                                                                         *)
(* Addresses are page numbers.  Page tables are frames of RAM: the         *)
(* processor walks them by frame number, the kernel reads and writes them  *)
(* through PHYS_TO_VIRT, that is through the map that is active.  The      *)
(* kernel code is sequential; beside it, the processor may copy any        *)
(* translation into the TLB at any time.  PMM and VMA are the contracts    *)
(* PageAllocator and VmaSet.                                               *)
(***************************************************************************)
EXTENDS Integers, FiniteSets

CONSTANTS
    NPages,         \* pages of the virtual address space, 2^20 in the code
    TableSize,      \* VMM_ENTRIES_PER_PT; also the 4 MiB alignment in pages
    KernelBase,     \* KERNEL_VIRT_OFFSET
    KheapStart,     \* KHEAP_START
    KheapPages,     \* KHEAP_INITIAL_PAGES
    UserCode,       \* USER_CODE_VADDR; the page after it is USER_STACK_VADDR
    NFrames,        \* frames of RAM
    KernelEnd,      \* __kernel_phys_end
    MinMap,         \* the 16 MiB every map covers
    Managed,        \* the frames pmm_alloc_page may hand out
    FreeAtBoot,     \* the sets of them that may be free after pmm_init
    ManagedBase,    \* pmm_managed_base()
    TotalPages,     \* pmm_total_pages()
    AllocChoice(_), \* which of the free frames pmm_alloc_page may pick
    MaxAreas,       \* the areas the VMA registry has room for
    Counts,         \* arguments of vmm_alloc_pages (bound)
    ShellPages,     \* low pages given to `vmm map' and `vmm unmap' (bound)
    ShellFrames,    \* frames given to `vmm map' (bound)
    Probe,          \* pages whose translation the TLB may hold (bound)
    None            \* no entry, no page

VPage == 0..(NPages - 1)
Frame == 0..(NFrames - 1)
TableIndex == 0..(TableSize - 1)
PdIndices == 0..(NPages \div TableSize - 1)

\* The kernel half, and what the 4 MiB pages of boot.asm map in each half.
MaxMap == NPages - KernelBase

\* A call asks for fewer pages than there are addresses: `count *
\* VMM_PAGE_SIZE' does not wrap to zero.
ASSUME LayoutAssumption ==
    /\ NPages \in Nat /\ TableSize \in Nat \ {0} /\ KernelBase \in Nat
    /\ NPages % TableSize = 0 /\ KernelBase % TableSize = 0
    /\ KernelBase < NPages /\ MaxMap <= KernelBase
    /\ KheapStart \in KernelBase..NPages /\ KheapPages \in Nat
    /\ KheapStart + KheapPages <= NPages
    /\ UserCode \in 0..(KernelBase - 2)
    /\ NFrames \in Nat /\ KernelEnd \in Nat /\ MinMap \in Nat
    /\ ManagedBase \in Nat /\ TotalPages \in Nat
    /\ MaxAreas \in Nat /\ Counts \subseteq 1..(NPages - 1)

\* Frame 0 is the address pmm_alloc_page answers NULL with.
ASSUME PoolAssumption ==
    /\ Managed \subseteq Frame \ {0} /\ FreeAtBoot \subseteq SUBSET Managed
    /\ \A S \in SUBSET Managed :
          /\ AllocChoice(S) \subseteq S
          /\ S # {} => AllocChoice(S) # {}

ASSUME BoundsAssumption ==
    /\ ShellPages \subseteq 0..(KernelBase - 1) \ {UserCode, UserCode + 1}
    /\ ShellFrames \subseteq Frame /\ Probe \subseteq VPage

\* An absent entry is none of the entries, an absent page none of the pages.
ASSUME NoneAssumption == None \notin Nat /\ None \notin [frame : Frame, user : BOOLEAN]

UserPages == {UserCode, UserCode + 1}

VARIABLES
    pc,             \* where the kernel is
    i,              \* the loop variable of the function that runs
    call,           \* the run of pages of the running alloc or free
    pd,             \* g_kernel_pd: frame of each page table, and U/S bit
    mem,            \* each frame of RAM read as a page table
    ready,          \* g_vmm_ready; CR3 is loaded just before it is set
    nextVaddr,      \* g_next_vaddr
    directMapEnd,   \* g_direct_map_end
    avail,          \* the frames the PMM holds free
    vma,            \* the areas of the VMA registry
    vmaReady,       \* vma_is_ready()
    heap,           \* the frames kmalloc_init put behind the heap's pages
    heapReady,      \* kmalloc_init called the back end's init
    live,           \* runs returned by vmm_alloc_pages, not given back
    dropped,        \* frames not free that nothing refers to (any more)
    tlb             \* at most one translation cached by the processor

tables == <<pd, mem>>
layout == <<ready, nextVaddr, directMapEnd>>
areas == <<vma, vmaReady>>
heaps == <<heap, heapReady>>
vars == <<pc, i, call, tables, layout, avail, areas, heaps, live, dropped, tlb>>

Vma == INSTANCE VmaSet WITH
           Addr <- 0..NPages, PAGE_SIZE <- 1,
           Tag <- {"direct-map", "kheap", "vmm-alloc", "user-code", "user-stack"},
           Capacity <- MaxAreas, NONE <- None, areas <- vma, ret <- None

Run == [base : VPage, count : Nat]
NoRun == [base |-> 0, count |-> 0]
Pages(r) == r.base..(r.base + r.count - 1)

-----------------------------------------------------------------------------
(* Page directory and page tables *)

PdIndex(v) == v \div TableSize
PtIndex(v) == v % TableSize

Entry(f, user) == [frame |-> f, user |-> user]

\* What RAM holds before anyone writes it: here the worst a frame that
\* becomes a page table can contain, entries the processor takes for valid.
Garbage == [e \in TableIndex |-> Entry(0, TRUE)]

Zeroed == [e \in TableIndex |-> None]

\* The processor's walk of g_kernel_pd, by frame number.
Pte(v) ==
    IF pd[PdIndex(v)] = None THEN None ELSE mem[pd[PdIndex(v)].frame][PtIndex(v)]

Walk(v) == IF Pte(v) = None THEN None ELSE Pte(v).frame

\* boot.asm's 4 MiB pages: the same frames from page 0 and from KernelBase.
BootWalk(v) ==
    IF v >= KernelBase THEN v - KernelBase ELSE IF v < MaxMap THEN v ELSE None

Active(v) == IF ready THEN Walk(v) ELSE BootWalk(v)

\* PHYS_TO_VIRT, in 32-bit arithmetic, and the frame an access reaches by it.
PhysToVirt(f) == (f + KernelBase) % NPages
Target(f) == Active(PhysToVirt(f))

Invlpg(v) == IF ready THEN {t \in tlb : t.page # v} ELSE tlb

\* vmm_ensure_page_table: the table that is there, or a frame of the pool.
NeedsTable(v) == pd[PdIndex(v)] = None

TableChoice(v, pool) ==
    IF NeedsTable(v) THEN AllocChoice(pool) ELSE {pd[PdIndex(v)].frame}

NoTable(v, pool) == NeedsTable(v) /\ pool = {}

\* Mutant: a new page table is not cleared.
MapPage_dirty(v, f, user, pool) ==
    \E t \in TableChoice(v, pool) :
       /\ Target(t) # None
       /\ pd' = [pd EXCEPT ![PdIndex(v)] =
                    Entry(t, user \/ (~NeedsTable(v) /\ pd[PdIndex(v)].user))]
       /\ mem' = [mem EXCEPT ![Target(t)][PtIndex(v)] = Entry(f, user)]
       /\ avail' = IF NeedsTable(v) THEN pool \ {t} ELSE pool
       /\ tlb' = Invlpg(v)

\* vmm_map_page with enough memory.  pool: the free frames when it is called.
\* An access to a table that the active map does not reach is a page fault:
\* isr_handler_c never returns, so the kernel takes no further step.
MapPage(v, f, user, pool) ==
    \E t \in TableChoice(v, pool) :
       /\ Target(t) # None
       /\ pd' = [pd EXCEPT ![PdIndex(v)] =
                    Entry(t, user \/ (~NeedsTable(v) /\ pd[PdIndex(v)].user))]
       /\ mem' = [mem EXCEPT ![Target(t)] =
                    [(IF NeedsTable(v) THEN Zeroed ELSE mem[Target(t)])
                        EXCEPT ![PtIndex(v)] = Entry(f, user)]]
       /\ avail' = IF NeedsTable(v) THEN pool \ {t} ELSE pool
       /\ tlb' = Invlpg(v)

Reachable(v) ==
    IF NeedsTable(v) THEN TRUE ELSE Target(pd[PdIndex(v)].frame) # None

\* Mutant: the translation stays in the TLB.
UnmapPage_no_invlpg(v) ==
    IF NeedsTable(v) THEN UNCHANGED <<pd, mem, tlb>>
    ELSE /\ Reachable(v)
         /\ mem' = [mem EXCEPT ![Target(pd[PdIndex(v)].frame)][PtIndex(v)] = None]
         /\ UNCHANGED <<pd, tlb>>

\* vmm_unmap_page: nothing to do without a page table.
UnmapPage(v) ==
    IF NeedsTable(v) THEN UNCHANGED <<pd, mem, tlb>>
    ELSE LET t == Target(pd[PdIndex(v)].frame) IN
         /\ t # None
         /\ mem' = [mem EXCEPT ![t][PtIndex(v)] = None]
         /\ tlb' = Invlpg(v)
         /\ UNCHANGED pd

\* vmm_get_physical, which reads the table through PHYS_TO_VIRT.
GetPhysical(v) ==
    IF NeedsTable(v) THEN None
    ELSE LET pte == mem[Target(pd[PdIndex(v)].frame)][PtIndex(v)]
         IN IF pte = None THEN None ELSE pte.frame

\* The pool after pmm_free_page: the back ends ignore a frame that is free
\* or not theirs.
FreePage(pool, f) == pool \cup ({f} \cap Managed)

-----------------------------------------------------------------------------
(* The VMA registry *)

Area(start, end, tag) == [start |-> start, end |-> end, tag |-> tag]

\* vma_add: the areas afterwards.  Nobody looks at its answer.
VmaAdd(S, a) ==
    IF /\ Vma!Valid(a) /\ \A b \in S : ~Vma!Overlap(a, b)
       /\ Cardinality(S) < MaxAreas
    THEN S \cup {a}
    ELSE S

VmaRemove(S, start) == {a \in S : a.start # start}

-----------------------------------------------------------------------------
(* Boot: vmm_init *)

Larger(a, b) == IF a < b THEN b ELSE a
Smaller(a, b) == IF a < b THEN a ELSE b
AlignUp(n) == ((n + TableSize - 1) \div TableSize) * TableSize

\* Mutant: the PMM's range is not looked at.
MapEnd_fixed == Smaller(Larger(KernelEnd, MinMap), MaxMap)

\* The frames that vmm_init maps are those below MapEnd.
MapEnd ==
    Smaller(Larger(Larger(KernelEnd, MinMap), (ManagedBase + TotalPages) % NPages),
            MaxMap)

Init ==
    /\ pc = "map_low" /\ i = 0 /\ call = NoRun
    /\ pd = [d \in PdIndices |-> None]
    /\ mem = [f \in Frame |-> Garbage]
    /\ ready = FALSE /\ nextVaddr = 0 /\ directMapEnd = 0
    /\ avail \in FreeAtBoot /\ dropped = Managed \ avail
    /\ vma = {} /\ vmaReady = FALSE
    /\ heap = [k \in 0..(KheapPages - 1) |-> None] /\ heapReady = FALSE
    /\ live = {} /\ tlb = {}

\* One turn of the loop maps frame i at i, then at KernelBase + i.
map_low ==
    /\ pc = "map_low" /\ i < MapEnd
    /\ MapPage(i, i, FALSE, avail)
    /\ pc' = "map_high"
    /\ UNCHANGED <<i, call, layout, areas, heaps, live, dropped>>

map_high ==
    /\ pc = "map_high"
    /\ MapPage(KernelBase + i, i, FALSE, avail)
    /\ pc' = "map_low" /\ i' = i + 1
    /\ UNCHANGED <<call, layout, areas, heaps, live, dropped>>

\* vmm_init gives up: kmain goes on, with the map of boot.asm.
vmm_init_fails ==
    /\ \/ pc = "map_low" /\ i < MapEnd /\ NoTable(i, avail)
       \/ pc = "map_high" /\ NoTable(KernelBase + i, avail)
    /\ pc' = "unmap_identity" /\ i' = 0
    /\ UNCHANGED <<call, tables, layout, avail, areas, heaps, live, dropped, tlb>>

load_cr3 ==
    /\ pc = "map_low" /\ i = MapEnd
    /\ pc' = "unmap_identity" /\ i' = 0
    /\ ready' = TRUE /\ tlb' = {}
    /\ directMapEnd' = (KernelBase + MapEnd) % NPages
    /\ nextVaddr' = AlignUp(KernelBase + MapEnd) % NPages
    /\ UNCHANGED <<call, tables, avail, areas, heaps, live, dropped>>

LowTables == {d \in PdIndices : d < PdIndex(KernelBase) /\ pd[d] # None}

\* vmm_unmap_identity: the tables of the low half are forgotten, not freed.
vmm_unmap_identity ==
    /\ pc = "unmap_identity"
    /\ pc' = "kmalloc_init"
    /\ IF ready
       THEN /\ pd' = [d \in PdIndices |-> IF d \in LowTables THEN None ELSE pd[d]]
            /\ dropped' = dropped \cup {pd[d].frame : d \in LowTables}
            /\ tlb' = {}
       ELSE UNCHANGED <<pd, dropped, tlb>>
    /\ UNCHANGED <<i, call, mem, layout, avail, areas, heaps, live>>

-----------------------------------------------------------------------------
(* Boot: kmalloc_init and vma_init *)

kmalloc_init_page ==
    /\ pc = "kmalloc_init" /\ i < KheapPages
    /\ \E f \in AllocChoice(avail) :
          /\ MapPage(KheapStart + i, f, FALSE, avail \ {f})
          /\ heap' = [heap EXCEPT ![i] = f]
    /\ i' = i + 1
    /\ UNCHANGED <<pc, call, layout, areas, heapReady, live, dropped>>

\* No frame, or none for the page table (then the page's own is given back).
NoPage(v) ==
    \/ avail = {}
    \/ \E f \in AllocChoice(avail) : NoTable(v, avail \ {f})

\* Mutant: the back end is told of pages that could not be mapped.
kmalloc_init_fails_unnoticed ==
    /\ pc = "kmalloc_init" /\ i < KheapPages
    /\ NoPage(KheapStart + i)
    /\ heapReady' = TRUE
    /\ pc' = "vma_init" /\ i' = 0
    /\ UNCHANGED <<call, tables, layout, avail, areas, heap, live, dropped, tlb>>

kmalloc_init_fails ==
    /\ pc = "kmalloc_init" /\ i < KheapPages
    /\ NoPage(KheapStart + i)
    /\ pc' = "vma_init" /\ i' = 0
    /\ UNCHANGED <<call, tables, layout, avail, areas, heaps, live, dropped, tlb>>

\* The back end lays out its free list in the pages just mapped.
kmalloc_init_done ==
    /\ pc = "kmalloc_init" /\ i = KheapPages
    /\ heapReady' = TRUE
    /\ pc' = "vma_init" /\ i' = 0
    /\ UNCHANGED <<call, tables, layout, avail, areas, heap, live, dropped, tlb>>

\* kmain registers the direct map and the heap.
vma_init ==
    /\ pc = "vma_init"
    /\ vmaReady' = TRUE
    /\ vma' = VmaAdd(VmaAdd({}, Area(KernelBase, directMapEnd, "direct-map")),
                     Area(KheapStart, KheapStart + KheapPages, "kheap"))
    /\ pc' = "idle"
    /\ UNCHANGED <<i, call, tables, layout, avail, heaps, live, dropped, tlb>>

-----------------------------------------------------------------------------
(* vmm_alloc_pages *)

\* The checks, and the advance of the bump pointer, which only the end of the
\* address space stops: the run may lie across the heap.  A call that fails
\* the checks answers NULL and changes nothing.
vmm_alloc_pages(count) ==
    LET total == count % NPages IN
    /\ pc = "idle" /\ ready /\ nextVaddr # 0
    /\ total < NPages - nextVaddr
    /\ call' = [base |-> nextVaddr, count |-> count]
    /\ nextVaddr' = nextVaddr + total
    /\ pc' = "alloc" /\ i' = 0
    /\ UNCHANGED <<tables, ready, directMapEnd, avail, areas, heaps, live, dropped, tlb>>

alloc_page ==
    /\ pc = "alloc" /\ i < call.count
    /\ \E f \in AllocChoice(avail) : MapPage(call.base + i, f, FALSE, avail \ {f})
    /\ i' = i + 1
    /\ UNCHANGED <<pc, call, layout, areas, heaps, live, dropped>>

alloc_page_fails ==
    /\ pc = "alloc" /\ i < call.count
    /\ NoPage(call.base + i)
    /\ pc' = "rollback" /\ i' = 0
    /\ UNCHANGED <<call, tables, layout, avail, areas, heaps, live, dropped, tlb>>

alloc_returns ==
    /\ pc = "alloc" /\ i = call.count
    /\ vma' = IF vmaReady
              THEN VmaAdd(vma, Area(call.base, call.base + call.count, "vmm-alloc"))
              ELSE vma
    /\ live' = live \cup {call}
    /\ pc' = "idle" /\ i' = 0 /\ call' = NoRun
    /\ UNCHANGED <<tables, layout, avail, vmaReady, heaps, dropped, tlb>>

\* Mutant: unmaps first, and finds no physical page afterwards.
rollback_page_unmap_first ==
    /\ pc = "rollback" /\ i < call.count
    /\ Reachable(call.base + i) /\ UnmapPage(call.base + i)
    /\ i' = i + 1
    /\ UNCHANGED <<avail, pc, call, layout, areas, heaps, live, dropped>>

\* Mutant: the rollback begins one page too low.
rollback_page_low ==
    /\ pc = "rollback" /\ i < call.count
    /\ LET v == call.base + i - 1 IN
       /\ Reachable(v)
       /\ IF GetPhysical(v) = None
          THEN UNCHANGED <<pd, mem, tlb, avail>>
          ELSE UnmapPage(v) /\ avail' = FreePage(avail, GetPhysical(v))
    /\ i' = i + 1
    /\ UNCHANGED <<pc, call, layout, areas, heaps, live, dropped>>

\* Mutant: the rollback begins one page too high, and ends one beyond the run.
rollback_page_high ==
    /\ pc = "rollback" /\ i < call.count
    /\ LET v == call.base + i + 1 IN
       /\ Reachable(v)
       /\ IF GetPhysical(v) = None
          THEN UNCHANGED <<pd, mem, tlb, avail>>
          ELSE UnmapPage(v) /\ avail' = FreePage(avail, GetPhysical(v))
    /\ i' = i + 1
    /\ UNCHANGED <<pc, call, layout, areas, heaps, live, dropped>>

\* The rollback looks at every page of the run, and undoes those mapped.
rollback_page ==
    /\ pc = "rollback" /\ i < call.count
    /\ LET v == call.base + i IN
       /\ Reachable(v)
       /\ IF GetPhysical(v) = None
          THEN UNCHANGED <<pd, mem, tlb, avail>>
          ELSE UnmapPage(v) /\ avail' = FreePage(avail, GetPhysical(v))
    /\ i' = i + 1
    /\ UNCHANGED <<pc, call, layout, areas, heaps, live, dropped>>

rollback_returns ==
    /\ pc = "rollback" /\ i = call.count
    /\ pc' = "idle" /\ i' = 0 /\ call' = NoRun
    /\ UNCHANGED <<tables, layout, avail, areas, heaps, live, dropped, tlb>>

-----------------------------------------------------------------------------
(* vmm_free_pages, of a run that vmm_alloc_pages returned *)

\* Mutant: the area stays registered.
vmm_free_pages_registered(r) ==
    /\ pc = "idle" /\ r \in live
    /\ live' = live \ {r}
    /\ call' = r
    /\ pc' = "free" /\ i' = 0
    /\ UNCHANGED <<tables, layout, avail, areas, heaps, dropped, tlb>>

vmm_free_pages(r) ==
    /\ pc = "idle" /\ r \in live
    /\ vma' = IF vmaReady THEN VmaRemove(vma, r.base) ELSE vma
    /\ live' = live \ {r}
    /\ call' = r
    /\ pc' = "free" /\ i' = 0
    /\ UNCHANGED <<tables, layout, avail, vmaReady, heaps, dropped, tlb>>

free_page ==
    /\ pc = "free" /\ i < call.count
    /\ LET v == call.base + i IN
       /\ Reachable(v)
       /\ avail' = IF GetPhysical(v) = None THEN avail
                   ELSE FreePage(avail, GetPhysical(v))
       /\ UnmapPage(v)
    /\ i' = i + 1
    /\ UNCHANGED <<pc, call, layout, areas, heaps, live, dropped>>

free_returns ==
    /\ pc = "free" /\ i = call.count
    /\ pc' = "idle" /\ i' = 0 /\ call' = NoRun
    /\ UNCHANGED <<tables, layout, avail, areas, heaps, live, dropped, tlb>>

-----------------------------------------------------------------------------
(* Shell commands that map pages of the low half *)

\* ring3_panic maps a code page, then a stack page.  What was mapped there
\* by an attempt that failed half-way is overwritten.
ring3_panic ==
    /\ pc = "idle"
    /\ pc' = "ring3" /\ i' = 0
    /\ UNCHANGED <<call, tables, layout, avail, areas, heaps, live, dropped, tlb>>

ring3_page ==
    /\ pc = "ring3" /\ i < 2
    /\ \E f \in AllocChoice(avail) :
          MapPage(UserCode + i, f, TRUE, avail \ {f})
    /\ dropped' = dropped \cup ({Walk(UserCode + i)} \ {None})
    /\ i' = i + 1
    /\ UNCHANGED <<pc, call, layout, areas, heaps, live>>

\* The command returns without giving back what it has taken.
ring3_fails ==
    /\ pc = "ring3" /\ i < 2
    /\ \/ avail = {} /\ UNCHANGED <<avail, dropped>>
       \/ \E f \in AllocChoice(avail) :
             /\ NoTable(UserCode + i, avail \ {f})
             /\ avail' = avail \ {f} /\ dropped' = dropped \cup {f}
    /\ pc' = "idle" /\ i' = 0
    /\ UNCHANGED <<call, tables, layout, areas, heaps, live, tlb>>

\* Ring 3 runs hlt, which faults: the exception handler never returns.
ring3_enter ==
    /\ pc = "ring3" /\ i = 2
    /\ vma' = IF vmaReady
              THEN VmaAdd(VmaAdd(vma, Area(UserCode, UserCode + 1, "user-code")),
                          Area(UserCode + 1, UserCode + 2, "user-stack"))
              ELSE vma
    /\ pc' = "halted"
    /\ UNCHANGED <<i, call, tables, layout, avail, vmaReady, heaps, live, dropped, tlb>>

\* `vmm map' and `vmm unmap': refused until the VMM is ready.
cmd_vmm_map(v, f) ==
    /\ pc = "idle" /\ ready
    /\ MapPage(v, f, FALSE, avail)
    /\ UNCHANGED <<pc, i, call, layout, areas, heaps, live, dropped>>

cmd_vmm_unmap(v) ==
    /\ pc = "idle" /\ ready
    /\ UnmapPage(v)
    /\ UNCHANGED <<pc, i, call, layout, avail, areas, heaps, live, dropped>>

-----------------------------------------------------------------------------
\* The processor caches a translation, in place of the one it had.
tlb_fill(v) ==
    /\ Active(v) # None
    /\ tlb' = {[page |-> v, frame |-> Active(v)]}
    /\ UNCHANGED <<pc, i, call, tables, layout, avail, areas, heaps, live, dropped>>

Boot ==
    \/ map_low \/ map_high \/ vmm_init_fails \/ load_cr3
    \/ vmm_unmap_identity
    \/ kmalloc_init_page \/ kmalloc_init_fails \/ kmalloc_init_done
    \/ vma_init

Alloc ==
    \/ \E count \in Counts : vmm_alloc_pages(count)
    \/ alloc_page \/ alloc_page_fails \/ alloc_returns
    \/ rollback_page \/ rollback_returns

Free ==
    \/ \E r \in live : vmm_free_pages(r)
    \/ free_page \/ free_returns

Shell ==
    \/ ring3_panic \/ ring3_page \/ ring3_fails \/ ring3_enter
    \/ \E v \in ShellPages :
          cmd_vmm_unmap(v) \/ \E f \in ShellFrames : cmd_vmm_map(v, f)

Next == Boot \/ Alloc \/ Free \/ Shell \/ \E v \in Probe : tlb_fill(v)

Spec == Init /\ [][Next]_vars

-----------------------------------------------------------------------------
(* Properties *)

PTE == [frame : Frame, user : BOOLEAN]

PC == {"map_low", "map_high", "unmap_identity", "kmalloc_init", "vma_init",
       "idle", "alloc", "rollback", "free", "ring3", "halted"}

\* Memory as vmm_init takes it to be: the PMM's range has no hole, RAM has the
\* frames the direct map covers, and the direct map ends below the heap.
MemoryFits ==
    /\ Managed \subseteq ManagedBase..(ManagedBase + TotalPages - 1)
    /\ \A n \in {KernelEnd, MinMap, ManagedBase + TotalPages} :
          n <= NFrames /\ KernelBase + n <= KheapStart

\* The types of the variables.
TypeOK ==
    /\ pc \in PC /\ i \in Nat /\ call \in Run
    /\ pd \in [PdIndices -> PTE \cup {None}]
    /\ mem \in [Frame -> [TableIndex -> PTE \cup {None}]]
    /\ ready \in BOOLEAN /\ nextVaddr \in VPage /\ directMapEnd \in VPage
    /\ avail \subseteq Managed
    /\ vma \subseteq [start : 0..NPages, end : 0..NPages,
                      tag : {"direct-map", "kheap", "vmm-alloc", "user-code", "user-stack"}]
    /\ vmaReady \in BOOLEAN
    /\ heap \in [0..(KheapPages - 1) -> Frame \cup {None}] /\ heapReady \in BOOLEAN
    /\ live \subseteq Run /\ dropped \subseteq Managed
    /\ tlb \subseteq [page : VPage, frame : Nat] /\ Cardinality(tlb) <= 1

\* PHYS_TO_VIRT works: once the VMM is ready, every frame the PMM manages,
\* and every other one below the end of the direct map, is seen at KernelBase
\* plus its number, whatever has been mapped and unmapped since (vmm.c:328-330,
\* vmm.h:79-88).
DirectMapCoversPool ==
    ready => \A f \in Managed \cup 0..(MapEnd - 1) : Walk(KernelBase + f) = f

\* The frames in use, by what uses them.  Pages that `vmm map' maps are not
\* owners: the command maps frames that belong to others.
Backed(S) == {v \in S : Walk(v) # None}
RunPages(R) == UNION {Pages(r) : r \in R}
Running == IF pc \in {"alloc", "rollback", "free"} THEN {call} ELSE {}
OwnedPages == Backed(RunPages(live \cup Running)
                     \cup KheapStart..(KheapStart + KheapPages - 1) \cup UserPages)
\* The kernel has switched to its own tables and dropped the identity map.
Up == ready /\ pc # "unmap_identity"

PresentTables == {d \in PdIndices : pd[d] # None}

\* No frame has two uses: page tables are the PDE's alone, no frame is
\* behind two owned pages, and none in use is free (vmm.c:578-671: what
\* alloc, rollback and free hand to and take from the PMM).
OneUsePerFrame ==
    Up =>
    /\ \A d, e \in PresentTables : d # e => pd[d].frame # pd[e].frame
    /\ \A v, w \in OwnedPages : v # w => Walk(v) # Walk(w)
    /\ \A d \in PresentTables, v \in OwnedPages : pd[d].frame # Walk(v)
    /\ \A v \in OwnedPages : Walk(v) \notin avail
    /\ \A d \in PresentTables : pd[d].frame \notin avail

\* No frame is lost: each one that the PMM gave out is a page table, backs an
\* owned page, or was dropped -- reserved at boot, or its last reference
\* overwritten by vmm_unmap_identity or by ring3_panic; a
\* failing vmm_alloc_pages keeps nothing but page tables.  Once the bump
\* pointer has entered the heap, vmm_alloc_pages overwrites the heap's entries
\* (vmm.c:592-601 does not look at them) and their frames are lost.
NoFrameLost ==
    Up /\ nextVaddr <= KheapStart =>
    Managed \ avail = {pd[d].frame : d \in PresentTables}
                      \cup {Walk(v) : v \in OwnedPages} \cup dropped

\* The two of them: pages that the PMM gives out and takes back neither leak
\* nor serve two purposes, whatever fails half-way.
FramesAccountedFor == TypeOK /\ OneUsePerFrame /\ NoFrameLost

\* The heap's pages stay on the frames that kmalloc_init put there, in front
\* of a bump pointer that may run into them: a call disturbs no page beyond the
\* run it has reserved, be it refused, rolled back or freed (kmalloc.c:44-46).
\* More does not hold: vmm.h:94-100 keeps the heap's range apart from the bump
\* allocator's, vmm.c:585-592 does not, and the pages that the pointer has
\* passed may be on other frames, or on none.
HeapUndisturbed ==
    heapReady =>
       \A k \in 0..(KheapPages - 1) :
          KheapStart + k >= nextVaddr => Active(KheapStart + k) = heap[k]

\* A run that vmm_alloc_pages returned is the caller's in full: all its pages
\* are backed, and it lies between the direct map and the bump pointer, away
\* from every other run.
RunsUsable ==
    \A r \in live :
       /\ \A v \in Pages(r) : Walk(v) # None
       /\ Pages(r) \subseteq (KernelBase + MapEnd)..(nextVaddr - 1)
       /\ \A q \in live \ {r} : Pages(q) \cap Pages(r) = {}

\* The page fault handler trusts the registry: a registered page of a run is
\* backed, and after free the registry knows nothing of the run.  (kmain
\* registers the heap's area even if kmalloc_init could not map it, and it
\* stays when runs have taken its pages and given them back.)
AreaPages(a) == a.start..(a.end - 1)
RegisteredIsMapped ==
    pc = "idle" =>
       \A a \in vma : \A v \in AreaPages(a) :
          \/ Active(v) # None
          \/ a.tag = "kheap" /\ (~heapReady \/ v < nextVaddr)

\* idt.c:223: an address in no area was never allocated.  (A run across the
\* heap overlaps the heap's area: vma_add refuses it, and nobody looks.)
ClearOfHeap(r) ==
    r.base + r.count <= KheapStart \/ KheapStart + KheapPages <= r.base
AllocatedIsRegistered ==
    pc = "idle" /\ vmaReady =>
       \A r \in live : ClearOfHeap(r) =>
          \A v \in Pages(r) : \E a \in vma : v \in AreaPages(a)

\* Runs, page tables and registry agree between calls.
RunsAreRegistered == RunsUsable /\ RegisteredIsMapped /\ AllocatedIsRegistered

\* Ring 3 reaches no page but the code and the stack of the ring3 command,
\* although page tables are shared and frames come with stale contents.
UserReach ==
    {v \in VPage : Pte(v) # None /\ Pte(v).user /\ pd[PdIndex(v)].user}
OnlyUserPagesInRing3 == ready => UserReach \subseteq UserPages

\* What the TLB holds is what the tables say: every change of an entry the
\* processor may have cached is followed by invlpg or a load of CR3.
TlbCoherent == \A t \in tlb : Active(t.page) = t.frame

\* Callers of vmm_alloc_pages see KernelPages: their pages keep their frames
\* until they give them back.
Caller == INSTANCE KernelPages WITH
              view <- [v \in RunPages(live) |-> Walk(v)]
ImplementsKernelPages == Caller!Spec
=============================================================================
