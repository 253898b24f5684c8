# A TLA+ model of the my_microkernel kernel

These modules specify the kernel under `src/src` (C and x86 assembly, one CPU,
no processes yet), model-check it with TLC on small instances, and prove its
central properties with TLAPS for every value of the constants. Paths below
are relative to `src/src/`.

Contents: 1 inventory, 2 modules and how they correspond to the code, 3 runs,
4 bounds, 5 fairness, 6 proofs, 7 what the models found, 8 what is not
modelled, 9 plan.

## 1. Inventory

### The system at boot and at work

`boot/boot.asm` maps the first 4 MiB twice (identity and at `0xC0000000`) with
4 MiB pages, sets a stack and calls `kmain`. `kmain` (`kernel/core/kmain.c`)
then runs, in this order: `gdt_init`, `idt_init`, `tss_init`; `pmm_init`;
`vmm_init` (builds the two-level page tables, loads CR3);
`vmm_unmap_identity`; `kmalloc_init` (maps the heap, hands it to the back
end); `vma_init` and two `vma_add` calls for the direct map and the heap;
`syscall_init`; `pic_init`, `keyboard_init`, `sti`; and `shell_run`, which never
returns. Failures on the way are printed and boot goes on with the next step.
From then on two activities exist: the shell, which runs every kernel
function to its end, and interrupt handlers -- of which IRQ1 (keyboard) shares
data with the shell.

Every memory subsystem is a table of operations with several back ends,
selected in `include/kernel/kconfig.h`. The defaults (all 0) are the PMM
bitmap, the first-fit heap, the sorted VMA array and `int 0x80`.

### Components

| Component | State | Operations | Talks to |
|---|---|---|---|
| PMM dispatch `mm/pmm.c` | `g_pmm_ops` | register, forward | back end |
| PMM bitmap `mm/pmm_bitmap.c` | per region: bitmap inside the region, free counter; `g_pmm_total_free`, round-robin index | init (layout, reserve, recount, self test), `alloc_page`, `free_page`, queries | Multiboot2 map; called by VMM, heap, shell |
| PMM buddy `mm/pmm_buddy.c` | `g_zone`: `page_info` array, list and counter per order, `total_free` | init (layout, carve, self test), `alloc_page` (split), `free_page` (merge), queries | as above |
| VMM `mm/vmm.c` | page directory, page tables in PMM frames, `g_next_vaddr`, `g_direct_map_end`, the CPU's TLB | init, unmap identity, map, unmap, get physical, `alloc_pages`, `free_pages` | PMM, VMA; called by kmalloc, slab, `ring3`, `vmm` |
| Heap set-up `mm/kmalloc.c` | `g_ready`, `g_heap_ops` | init, `kmalloc`, `kfree` | VMM, PMM, back end |
| First-fit heap `mm/heap_first_fit.c` | list of block headers inside the heap | init, alloc (split), free (merge), stats | |
| Slab heap `mm/heap_slab.c` | caches with a partial and a full list, slab headers with bitmaps, `slab_brk`, `slab_committed` | init, alloc (new slab, new page), free, stats | PMM, VMM |
| VMA dispatch `mm/vma.c` | `g_vma_ops` | register, forward | page-fault handler (`arch/idt.c`), VMM, shell |
| VMA sorted array `mm/vma_sorted_array.c` | sorted array, count | add, remove, find | |
| VMA red-black tree `mm/vma_rbtree.c` | tree of pool nodes, free list, count | add, remove, find, two fix-up loops | |
| VMA maple tree `mm/vma_maple.c` | B+ tree of pool nodes, two pools, count | add (split of leaves and internal nodes, new root), remove, find | |
| Keyboard and console `drivers/keyboard.c`, `core/console.c` | ring buffer, head, tail, `g_shift_down`, `g_e0_prefix` | IRQ1 handler, `try_getc`, `getc`, `console_getc` | shell |
| Shell `core/shell.c` | line buffer | read line, tokenise, dispatch | console, commands |
| `pmm`, `heap`, `vma`, `vmm` commands `cmds/` | table of tracked pages, stack of heap pieces, what a self test holds | alloc, free, free all, status, self tests, map, unmap | PMM, heap, VMA, VMM |
| `ring3` command `cmds/cmd_ring3.c`, `arch/user_test_code.asm`, `arch/tss.c` | two mapped user pages; TSS | map code and stack, `iret` to ring 3 | PMM, VMM |
| Other commands | none | print; `shutdown` writes a port | |
| System calls `core/syscall.c` | table | fill, dispatch | no back end registers yet |
| Interrupt plumbing `arch/` | IDT, GDT, PIC masks | set-up, dispatch, EOI | |
| Serial port, printk | UART | polled output and input | |
| Multiboot2 dump `mm/mmap.c` | none | print | |

### What is hard here, and what makes each part correct

*PMM.* The bitmap says everything once, but the per-region and global counters
cache it, and `alloc_page` trusts them. The buddy allocator says the same
thing four times (flag, list, list counter, total) and merges across order
boundaries at a zone end that is no power of two. Both place their own
metadata in the memory they describe, next to the kernel and the Multiboot2
information, whose addresses are arbitrary. Correct means: a page is never
held twice, never lost, never one of the reserved ones, NULL only when none is
left; buddies always merge.

*VMM.* Nothing runs concurrently with it except the processor itself: the TLB
may load an entry whenever it likes and keeps it until `invlpg` or a CR3 load.
Page tables are frames whose former content is arbitrary; the kernel reaches
them through the very map it edits. An allocation may run out of frames at any
page or page table, and has to give back exactly what it took. Correct means:
the direct map covers the pool (or `PHYS_TO_VIRT` faults), every frame has one
use and none is lost, runs callers hold stay mapped to their own frames, the
TLB never shows a translation that is gone, ring 3 sees only its pages.

*Heaps.* Headers live between the data; one missed link or size is an overlap
many calls later. Correct means: pieces are aligned, large enough, inside the
heap and disjoint; free space is merged; requests are refused only for want of
space; the statistics add up.

*VMA.* Half-open ranges, binary searches, a tree with two fix-up loops and a
sentinel whose parent pointer is written. Correct means: the three back ends
answer as a set of disjoint areas would; the trees stay balanced; the pool is
not leaked; the loops end.

*Commands.* The self tests take pages, heap pieces and areas from layers that
the rest of the kernel uses too, and each test has an error path of its own for
each request that may be refused: stop, undo, carry on with what there is, skip
to the last test. Those paths run only when memory, heap or registry is nearly
full. Correct means: what a command has taken stays known to it and goes back
once, nothing of the kernel's goes with it, and SOME FAILED is printed only with
a reason.

*Keyboard.* The only true concurrency: IRQ1 strikes between any two accesses
of a reader that takes no lock. Correct means: the ring is a bounded queue, it
receives what the user meant, and what is in it is read.

*Everything else* is sequential text processing or set-up without modelled
state; see section 8.

## 2. Modules

### Contracts

Each operations table has an abstract specification of what its callers may
rely on; the detailed modules state `Implements...` by instantiating it with a
refinement mapping.

| Contract | Promise | Implemented by |
|---|---|---|
| `PageAllocator` (`pmm.h`) | a pool; `alloc_page` takes any page nobody holds, NULL only if there is none; `free_page` returns a held page | `PmmBitmap`, `PmmBuddy`; used in `Vmm`, `CmdPmm` |
| `ByteAllocator` (`kmalloc.h`) | disjoint, aligned pieces of the heap, at least as large as asked | `HeapFirstFit`, `HeapSlab`; used in `CmdHeap` |
| `VmaSet` (`vma.h`) | a set of disjoint page-aligned areas: add, remove by start, find by address | `VmaSortedArray`, `VmaRbTree`; not kept by `VmaMaple` (section 7); used in `Vmm`, `CmdVma` |
| `BoundedFifo` (`keyboard.h`) | a bounded queue; a full queue drops | `Keyboard` |
| `KernelPages` (`vmm.h`) | runs of virtual pages, each backed by a frame of its own until given back | `Vmm` |

The answer of a call carries the call, so that every call is visible to the
contract as a step: a back end cannot skip one. Callers release what they hold
or pass an argument the back end rejects by itself (NULL, unaligned, outside,
already free where the code can tell); `CallerMayFree` and `Stray` say which.

### Detailed modules

**`PmmBitmap`** (`pmm_bitmap.c`). State: `g_pmm_ready`; `g`, a record of all
clear bits as one set of frames, the counter per region, the total, and the
round-robin index; `boot`, what the boot loader reported; `held`, what callers
hold. `pmm_bitmap_init` is one action (nothing else runs): `Layout` follows
`pmm_compute_region_layout` with its byte addresses, alignment, the four
attempts to place the bitmap around kernel and Multiboot2 information, the
limit of regions and the 4 GiB cut; then reservation, `resync_free_count` and
the self test, which allocates and frees. `alloc_page` starts at the
round-robin region, skips regions whose counter is 0, clears the counter of a
region whose scan finds nothing, and stops early on `total_free = 0`.
Frames are numbers; boundaries from outside are byte addresses.

**`PmmBuddy`** (`pmm_buddy.c`). `g_zone` is a record with the source's fields;
the intrusive lists are sequences (insertion at the tail, allocation from the
head, as in the code); each static helper is an operator from zones to zones
and a call is their composition. `pmm_buddy_init` chooses the largest usable
entry, pushes the zone past kernel, Multiboot2 information and `page_info`
array (`BareZone`), carves the zone into the largest aligned blocks (`Carve`, a
turn of the loop each) and runs the self test. The loops of `buddy_alloc` and
`buddy_free` are recursive functions of the order (`Split`, `Merge`), so that the
module can be proved about.

**`Keyboard`** (`keyboard.c`, `console.c`). The user presses and releases keys;
the controller sends bytes; `keyboard_irq1_handler` (one step: interrupt gate)
decodes one of them and may put a character. The reader is split at every
access of a volatile variable: `ReadTail`, `CompareHead`, `ReadBuf`,
`WriteTail`; then `console_getc` (polls the serial port, pauses, tries again) or `keyboard_getc`
(checks, then `hlt`). `down`, `typed` and the `.meant` of a byte belong to the
user, not to the code.

**`VmaBackEnd`** (`vma.h`). What the three VMA modules extend: areas, their overlap
test, the count, the call in progress and the last answer.

**`VmaSortedArray`** (`vma_sorted_array.c`). A call runs its checks and starts
the search; every round of `sa_lower_bound`/`sa_upper_bound` is a step; the last
step shifts the array and returns. Names that `VmaRbTree` has too begin with `sa`
or `Sa`, because `VmaProofs` extends both.

**`VmaRbTree`** (`vma_rbtree.c`). A node is named by its area's start address.
Code that is there twice, mirrored, is here once for a side `d`. Each round of
the descent, of `insert_fixup` and of `delete_fixup` is a step;
`Rotate`, `Transplant`, `Minimum`, `Unlinked` are operators. The NIL sentinel has a parent,
as in the code, and `delete_fixup` reads it. The fields of free nodes, which
`pool_alloc` overwrites, are normalised; the free list is its length.

**`VmaMaple`** (`vma_maple.c`). A node is its index in the pool; nodes leave the
free list in pool order and never return, so the list is the number of its first
node. In a leaf the pivots are the starts of the areas and are left out. Each level
of the descent (`Descend`) and of the propagation of a split (`add_to_parent`,
`add_split_parent`, `add_new_root`) is a step; `leaf_insert_at`, `Halves`,
`internal_insert_at`, `SplitParent` follow the helpers of those names.
`MAPLE_MAX_PIVOTS` is a constant: with the value of the code, the store past the
array is modelled by what it does to `nr_entries` and `is_leaf` of the node
(`Lost`, `Cleared`).

**`HeapFirstFit`** (`heap_first_fit.c`, and the two outcomes of
`kmalloc_init`). `hdr` maps the address of each header to its fields; a merged
header leaves the domain. The walks of alloc and stats are one step per block,
free is one step for the mark and one per merge. `size_t` arithmetic is modulo
`W`. `kmalloc_init_fails` leaves the back end registered with an empty heap,
as in the code. `heap_grow` has no caller.

**`HeapSlab`** (`heap_slab.c`). `slab` maps a page to its header; `partial` and
`full` are the lists as sequences (insertion at the head). Calls do not overlap,
so each path through a call is one action: from a partial slab, with a new slab
on a committed page or a page from the PMM, with no page to be had, free with or
without a move between lists. `heap_slab_stats` is an operator of the state.
Slab pages are never given back, as in the code.

**`Vmm`** (`vmm.c`, `kmalloc.c`, the boot sequence of `kmain.c`, the mappings of
`cmd_ring3.c` and of `vmm map`/`vmm unmap`). Addresses are page numbers. `mem`
reads every frame of RAM as a page table; a frame never used as one is
`Garbage`. The processor walks by frame number (`Walk`), the kernel reaches a
table through `Target`, that is through the map that is active -- boot map before
CR3 is loaded, own map after -- so that a table outside the direct map is a page
fault, which stops the kernel. `tlb_fill` may copy any translation of a page of
`Probe` at any time; `Invlpg` and the CR3 load remove them. The loops of
`vmm_init`, `kmalloc_init`, `vmm_alloc_pages`, its rollback and
`vmm_free_pages` are one page per step, and frames can run out at each. PMM
is `PageAllocator` (which free frame it picks: `AllocChoice`), VMA is `VmaSet`.

**`SelfTest`, `CmdPmm`, `CmdHeap`, `CmdVma`, composed in `Commands`**
(`cmd_pmm.c`, `cmd_heap.c`, `cmd_vma.c`, `shell_dispatch` of `shell.c`). Each
command module is a client of the contract of the layer it calls (`PA!`, `BA!`,
`VS!`), so what is shown of it holds over every back end that keeps the contract.
`SelfTest` has the local variables of the command that runs and what the three
self tests share: a test is a record of what it asks for, what it does when
refused, whether that counts as a failure, and whether it gives back every other
piece to refill the holes; `PmmTests`, `HeapTests` and `VmaTests` list the tests of
the code in those terms, `...Expects` what they compare. Every call into a layer is
one step. The stack of `heap alloc`, the table of `pmm alloc` with its loop, `pmm
free` and `pmm freeall` are actions of their own. `KernelTakes`, `KernelGives`,
`KernelAdds`, `KernelRemoves` stand for the rest of the kernel, between two
commands: the shell runs one at a time, to its end.

The `MC...` modules give the constants their values for TLC and define nothing
of the system; `...Proofs` hold theorems. Operators commented as mutants are
deliberately wrong variants of the definition that follows them: with one in
its place, TLC finds the property violated that `PROJECT.json` names for it.
They are evidence that the property depends on that code, and are used nowhere.

## 3. Runs

`tlc -config X.cfg MCmodule` in this directory; each takes less than three minutes.

| Run | Question | Properties |
|---|---|---|
| `bitmap` (`PmmBitmap.cfg`) | After every boot situation `pmm_bitmap_init` tells apart, do any allocations and releases keep counters, bits and holders consistent? | `CountersExact` (cached = counted, which `alloc_page` relies on), `PagesAccountedFor` (free, held or set aside; none lost), `ReservedNeverHandedOut` (no byte of kernel, boot information or a bitmap; only usable memory), `BitmapsInSafePlaces`, `ImplementsPageAllocator` |
| `buddy` (`PmmBuddy.cfg`) | The same for the buddy back end, on a zone of 9 pages with orders up to 3 | `BlocksAndHeldPartition` (free blocks and held pages tile the zone), `BookkeepingAgrees` (flags, lists, counters, types), `FullyCoalesced` (no two free buddies; all free = the initial carving), `ReservedNeverManaged`, `ImplementsPageAllocator` |
| `keyboard` (`Keyboard.cfg`) | Wherever IRQ1 interrupts the reader, is the ring a queue of what was typed, and does the shell get it? | `ImplementsBoundedFifo`, `DecodesAsTyped`, `ConsoleInputIsRead` |
| `keyboard_hlt` (`KeyboardHlt.cfg`) | Does `keyboard_getc` return a character that is there? No. | `InputIsRead`, violated |
| `vma_sorted_array` | Does the array with its two binary searches answer as the set of areas? | `SortedAndDisjoint`, `ArrayImplementsVmaSet` |
| `vma_rbtree` | Any add, remove, find on small trees, any removals from tall ones: search tree, balanced, no node lost, right answers, loops that end | `RedBlackTree`, `NodesAccountedFor`, `ImplementsVmaSet`, `FixupsClimb` |
| `vma_maple` | Were the pivots array as long as the leaves need, would splits on three levels, a full node pool and any removals keep one balanced tree with every area where its start address leads, areas that overlap others of the next leaf (section 7) included? | `BPlusTree` |
| `vma_maple_pivots` | Does the tree answer as the set of areas with the array as declared? No. | `ImplementsVmaSet`, violated |
| `heap_first_fit` | Do splits and merges in any order keep the list, and is alloc first fit? | `Tiling`, `Coalesced`, `StatsAddUp`, `ImplementsByteAllocator`, `FirstFit` |
| `heap_slab` | Do lists, bitmaps, pages and statistics agree with what callers hold; is a request refused only when nothing is left? | `BookkeepingAgrees` (lists, bitmaps, counters, statistics and holders), `ImplementsByteAllocator`, `RefusesOnlyWhenFull` |
| `vmm` | Boot with enough or too few frames, then runs allocated and freed up to the end of the address space, across the heap and behind it, ring 3, shell mappings, TLB fills in any order | `DirectMapCoversPool`, `FramesAccountedFor`, `HeapUndisturbed` (heap pages the bump pointer has not passed), `RunsAreRegistered`, `OnlyUserPagesInRing3`, `TlbCoherent`, `ImplementsKernelPages` |
| `commands` | Whatever the user enters, and whichever request is refused for want of pages, heap or registry: is everything taken given back once, and does a self test complain only with a reason? | `PagesAccountedFor`, `PiecesAccountedFor` (but for test 2, section 7), `RegistryRestored`, `VerdictsJustified` |

Deadlock is checked except in `keyboard*` (a halted CPU waits for a key, and the
user need not type), `vmm` (a page fault stops the kernel, and boot may end
with no memory left) and `vma_maple_pivots` (a damaged node may leave a call
nowhere to go).

## 4. Bounds, and why they are enough

Constants that scale (page size, word width, ring size, orders) are parameters
in the modules; small values keep the alignment and boundary arithmetic of the
code. What is bounded only for TLC is commented "(bound)" at its declaration.

* **PMM.** Pages of 4 bytes, memory from address 8 to 72 or 80, bitmaps of two
  pages per byte, `page_info_t` of one byte. Boundaries are byte addresses, so
  all four ways of rounding occur. The boot situations in `MCPmmBitmap` and
  `MCPmmBuddy` are one per way through `init`: no map, nothing usable, too
  small, boot information at each place where the metadata would go, kernel in
  the middle, too many regions, unaligned ends, entries beyond 4 GiB, holes.
  The largest zone has 9 pages, 8 + 1: merging up to the largest order, and a
  rest that must never merge with it. `BitmapsInSafePlaces` is a statement
  about `init` alone and is checked on the boot situations.
* **Keyboard.** Three slots wrap and fill with two characters; six scancodes
  fill the ring, overflow it, and contain a Shift or an extended key with its
  release. One letter is enough, because the code treats letters alike; one
  Shift key, because two of them share one flag (section 7).
* **VMA array.** Nine addresses in pages of two bytes: four areas fit, the array
  has three slots, so *full* and *overlapping* occur apart; unaligned and empty
  areas are among the arguments.
* **Red-black tree.** Up to five areas come and go in any order. Two
  consecutive climbs of `delete_fixup` need at least ten nodes, which adding in
  any order puts out of reach: taller trees are built of up to ten areas in
  ascending order and shrink in any order, down to small ones that grow again.
  Ten nodes are the whole pool.
* **Maple tree.** Nodes of three entries split as those of ten do (`SPLIT_MID` is
  the half, rounded down); seven areas make five leaves and three levels, and use
  up a pool of seven nodes, so that an add is refused for want of a node. Three areas
  reach over the starts of others, and over pivots. `MAPLE_MAX_PIVOTS` is
  one more than in the code in `vma_maple`, since no statement on splits can be
  made of a tree whose full leaves lose their areas, and that of the code, one less
  than the slots, in `vma_maple_pivots`.
* **First-fit heap.** 128 bytes: up to five blocks, requests on both sides of
  the splitting threshold, the whole heap, and one that is rounded up.
* **Slab heap.** Two caches, slabs of three and of one object (one capacity cut
  by the width of the bitmap), three pages of which one is committed at boot, so
  that a page from the PMM is needed, given, and refused.
* **VMM.** 56 virtual pages, tables of four entries, 14 frames of which boot
  takes eleven when it can; `FreeAtBoot` also leaves so few that each step of boot
  runs out. The direct map ends at page 48, where the bump pointer starts, the heap is
  two pages at 50, and the address space ends at 56: runs of one and two pages lie in
  front of the heap, across either end of it and behind it, within a table and across two,
  until the check for 4 GiB refuses. `MaxAreas` is larger than the
  registry can get; memory has no hole and is below 512 MiB (section 7 says what
  happens otherwise). `Probe` limits the TLB to
  pages where something changes: a user page, and the first page of the heap, which runs
  take over and give back. Requests whose byte count wraps to 0 (2^20 pages) are
  excluded by `LayoutAssumption`.
* **Commands.** Four pages, two of which can be tracked, and batches of up to
  three: memory and table each run out before the other. Eight bytes of heap in
  units of two, a stack of two pieces and requests up to six bytes; four areas in
  the registry, two of them the kernel's, against a batch of three. The contract of the
  heap may refuse any request, pages and areas are refused for want of room: every
  test is refused at every place where the code has an error path. That each test of the
  code takes more, in the same loop, adds no further path.

## 5. Fairness

Only `Keyboard` has liveness. `FairSpec` assumes weak fairness of
`keyboard_init` (boot gets there), of `keyboard_irq1_handler` (interrupts are
enabled by `sti` before the shell starts and no reader disables them, so a
pending IRQ1 is taken) and of `Read` (the main loop keeps running; a halted
reader is not enabled and fairness does not wake it). Nothing is assumed of the
user. All other components run to completion inside a call; that their loops
end is stated without fairness, by a measure (`FixupsClimb`), or holds because
each step takes the next element of a finite list.

## 6. Proofs

`tlapm X.tla` checks a module's proofs (`VmaProofs` takes a quarter of an hour from nothing). The theorems hold for every value of the
constants allowed by the ASSUME of the module they extend, which say what the
code and the machine guarantee: page sizes are positive, the usable entries of a memory map
do not overlap and none begins in the last page below 4 GiB, nor do kernel and Multiboot2
information end there (`align_up_u32` would wrap to 0; a PC has its firmware there), a `page_info` is no larger than a page, the address space is a whole
number of pages, the ring has two slots at least, a Shift key has no character and no prefix, the heap starts aligned and
ends before the address space does, a slab has room for an object of its
cache, tables and the kernel's half begin where a page table does, frame 0 is
never in the pool, the areas of the commands are areas.

| Module | Theorems | Inductive invariant |
|---|---|---|
| `PmmBitmapProofs` | `TypeCorrect`, `CountersAlwaysExact`, `PagesAlwaysAccountedFor`, `ReservedNeverLeaves`, `BitmapsAlwaysInSafePlaces`, `Refinement` (of `PageAllocator`) | exact counters for regions that are finite, disjoint and hold their bitmap, `PagesAccountedFor`, and a reset state before `init` |
| `PmmBuddyProofs` | `BlocksAlwaysPartition`, `BookkeepingAlwaysAgrees`, `AlwaysFullyCoalesced`, `ReservedMemoryLeftAlone` (if `ImagesClear`), `Refinement` (of `PageAllocator`) | `Divided(g_zone, U)` for some set `U` of pages: the blocks the `page_info` array describes are aligned, disjoint and merged, the lists and counters are theirs, and what they leave over is `U`, whose addresses are held; the zone is where `init` put it |
| `KeyboardProofs` | `TypeCorrect`, `Refinement` (of `BoundedFifo`), `InterruptsDecode` (if `OneShiftKey`) | types and `ReaderInv`: between its accesses the reader's copy of `tail` is current and the ring is not empty; `WireInv`: replayed over the bytes still in the controller, the decoder ends where the user is |
| `VmaProofs`, sorted array | `SaTypeCorrect`, `SaSortedAndDisjoint`, `SaRefinement` (of `VmaSet`) | `SaInv`: order and disjointness, the loop invariant of the binary search, and that a pending add was not refused |
| `VmaProofs`, red-black tree | `RbTreeIsRedBlack`, `RbNodesAccounted`, `RbFixupsClimb`, `RbRefinement` (of `VmaSet`) | `IInv`: types; the areas in the nodes are apart and counted (`StateInv`); for some function from nodes to their subtrees and some function to black heights, the tree has the shape of a search tree, is balanced but for the one place the fix-up is at, and the search has not passed by what it looks for (`TreeInv`) |
| `HeapFirstFitProofs` | `TypeCorrect`, `AlwaysTiling`, `AlwaysCoalesced`, `AlwaysFirstFit`, `StatsAlwaysAddUp`, `Refinement` (of `ByteAllocator`, if no request wraps: `NoWrap`) | tiling, the heap exists exactly after `init`, live pieces are exactly the used blocks, free neighbours exist only around the block being freed, blocks the walk has passed do not fit; `StatsInv` for the walk of `heap_ff_stats` |
| `HeapSlabProofs` | `BookkeepingAlwaysAgrees`, `RefusedOnlyWhenFull`, `Refinement` (of `ByteAllocator`) | `Whole`: slab headers are those of their cache and count their bitmap, each cache lists its slabs once, the pieces are the objects that are not free, and two sums over the slabs are two sums over the pieces; `PagesInv` |
| `VmmProofs`, if `MemoryFits` | `Invariance`, `DirectMap`, `Frames`, `Heap`, `RunsAndAreas`, `Registered` (if `RegistryHasRoom`), `UserPagesOnly`, `Tlb`, `Refinement` (of `KernelPages`) | `Account` (every frame of the pool has one owner), `DirectMapInv`, `KernelHalfInv`, `HeapInv`, `RunInv`, `UserInv`, `TlbInv`, `AreaInv` |
| `CommandsProofs` | `PagesAlwaysAccountedFor`, `PiecesAlwaysAccountedFor`, `RegistryAlwaysRestored`, `VerdictsAlwaysJustified` | `RestInv`: the variables of a self test are at rest outside one; `PmmInv`, `HeapInv`, `RegistryInv`, `VmaInv` below |

*Why the invariants need strengthening.*

Bitmap: exact counters are not inductive by
themselves: a release credits the region that contains the page, so the regions
must be disjoint, which rests on the layout arithmetic (`LayoutWithin`,
`RegionsAreGood`) and on the assumption that usable memory map entries do not
overlap. `ReservedNeverHandedOut` then follows from where pages can come from, and
`BitmapsInSafePlaces` from the layout arithmetic alone.

Buddy: the properties speak of lists, but the code decides by the flags, so the
invariant describes the blocks by the `page_info` array (`Laid`, `Covered`) and
ties the lists to it (`Listed`). Three things carry it. The loops of split, merge
and carve are recursive functions, and what they compute is found by going to
the least order at which the claim fails (`Reaches`), with one invariant each
(`HalfSplit`, `HalfMerged`, `HalfCarved`). Powers of two are counts of subsets
(`PowerIsCount`), from which `2^(n + 1) = 2 * 2^n` and the arithmetic of parents and
buddies follow. That no two free buddies stay apart (`Merged`) is kept by a split,
although it lists pieces of a block, because the lower half is always in use or
split; it also determines the blocks of a zone without held pages (`AllTopmost`:
each is as large as the zone allows), so that two such zones have the same
blocks (`OneShape`), which is `WholeAgainWhenAllFree`. `ReservedMemoryLeftAlone`
supposes `ImagesClear`: kernel and boot information end inside or below the
best region, or begin behind it. Step 2 of `init` compares only their ends,
rounded up, with the end of the region (section 7); `MCPmmBuddy` has TLC confirm
that its boot situations satisfy it.

Ring: `IRQ1` may move `head` and write a slot between two accesses of the
reader; that neither invalidates what the reader has seen is `ReaderInv`, and
the step that writes `tail` is the one that maps to `Take`. What the decoder makes of a
byte depends on all the bytes before it, and what the byte meant on the keys held
when it was sent: `WireInv` joins the two by a run of the decoder over the
bytes under way (`Decoding`), which a key press extends at its end (`SendKeeps`)
and an interrupt shortens at its start (`DecodeStep`). It holds with one Shift key
only (`OneShiftKey`): two share one flag (section 7).

Sorted array: the search
result is correct because everything left of `left` starts at or below the key and
everything from `right` on does not, and because the array does not change during
the search.

Red-black tree: no induction over the tree is needed, because the invariant says that a
function `s` from nodes to the sets of nodes below them and a function `h` from nodes
to black heights exist which agree with the pointers from each node to the next
(`Shape`, `Heights`); each operator on trees (`Link`, `Rotate`, `Unlinked`, and
`Minimum` on the way) has a lemma that gives the two functions of its result. In the middle of
a call the tree is balanced up to what the fix-up still has to repair: one red node with
a red parent, or a root that is red, after an insertion; one subtree that is a black
short, whose parent pointer is right even if it is NIL's, after a removal (`Gap`,
`DeletingFacts`). `Search` says that a key that is in the tree is below `cur`, and
that where an add ends is the place of its area; since the areas are apart, the
last nodes on either side of the new area have been compared with it, from which `RbRefinement`
gets the answer to the question the comments at `vma_rbtree.c:406-460` turn over. The
properties are stated with the nodes reached by following pointers (`Subtree`,
`Above`), recursive functions on sets; that these are `s[n]` and its inverse is shown with
the least closed set (`Hull`): a function that satisfies the recursion differs from it at no set,
since it would at a larger one as well (`HullUnique`). `RedBlack` counts the black
nodes on the paths to leaves, `h` sums them up from below: `BlackCount` joins the two, by
going to a highest node at which they would disagree.

First-fit heap: `Tiling` is carried through a split and
through a merge by two lemmas on lists (`SplitList`, `MergeList`), each used by
several actions; `Coalesced` needs to know which neighbours may both be free in
the middle of a release, `FirstFit` what the walk has passed. The statistics are
right at the end of a walk because at each step they are right for the blocks
below `Reached`.

Slab heap: the pieces callers hold determine bitmaps and counters only if an
address belongs to one object (`ObjFacts`, `ObjUnique`, `ObjApart`, from the
arithmetic of pages and slots), and `heap_slab_free` finds its slot again by the
same arithmetic. A slab changes lists exactly when its counter
leaves or reaches 0, so lists and bitmaps must be carried together (`TakeStep`,
`ReturnStep`, which the three paths that change a bitmap share). Sums are sizes of
disjoint unions (`Total`), so that a change of one summand is a change of a
cardinality and needs no induction over the slabs. `RefusesOnlyWhenFull` rests on an
empty partial list meaning that no slab of the cache has a free object.

VMM: the kernel changes a page table through the map that the table itself
defines, so the effect of one write is local only as long as the direct map is in
place and no table has a second owner: `MapPageEffect` and `UnmapPageEffect` say
what a call does to the whole map, under `Account` and `DirectMapInv`, and every
action cites them. `KernelHalfInv` gives the allocator pages nobody has mapped
before, `RunInv` says how far an allocation or its rollback has come, `AreaInv` that
an area to be removed is the one of its run. `TlbCoherent` needs to
know that the one entry `Probe` can have loaded is also in the tables.
`MemoryFits` says what the code takes for granted and does not check: the pool has no
hole, and the direct map ends below the heap and within RAM; section 7 lists what
happens otherwise. Nothing is supposed of the bump pointer. `KernelHalfInv`,
`HeapInv` and `RunInv` say what holds of pages on either side of it, and the account of
frames has a set of lost ones (`LostBound`) that is empty until it enters the heap;
the properties are conditioned on the pointer in the same way. `MCVmm` has TLC
confirm that the instance satisfies it. `Registered` supposes that `vma_add` never
finds the registry full, because `vmm_alloc_pages` ignores its answer; `RunsAndAreas`
needs no such thing.

Commands: the contracts of the three layers give what a call may do, and the rest is
the local bookkeeping of the tests. `PmmInv`: every page is in one of free,
the kernel's, the table of `pmm alloc`, a test's slots, and the number of free
pages that `pmm test` compares with is that of the free ones and of its own together.
`HeapInv`: a piece is on the stack, in a slot, or lost in test 2, and a test fails only
after a refusal or a loss. `RegistryInv`: for `vma
test`, removing by start address gives back the right area only if no other
begins there, and giving back the lowest slot leaves an interval, which is how
the test that follows finds its slots empty. `VmaInv`: areas are apart, so that the
look-ups of the tests find the area asked for. It assumes of the areas in the code
that they are a page or larger, that the area of the overlap test overlaps the first
one, and that the kernel has no area where the test looks for none.

*Model-checked only:* the shape of the maple tree (`BPlusTree`), and the
liveness of `Keyboard`. A theorem on the shape of the maple tree would have to suppose two things
the code does not see to (section 7): a pivots array one longer than the one declared, and a pool of
nodes that does not run out in the middle of a split. The instance TLC checks satisfies them; a
proof for all values would say little more of this code. That the tree refines `VmaSet` would
need areas that do not reach over a pivot as well; no run claims it.
Liveness under fairness is out of the provers' reach; that the fix-up loops of the red-black
tree end is proved as far as a measure says it (`FixupsClimb`).

## 7. What the models found

Two runs end in a counterexample: a statement of the sources that the code
does not keep.

1. `keyboard_getc` may sleep while a character waits (`drivers/keyboard.c:153`):
   it checks the ring with interrupts enabled and then executes `hlt`; an IRQ1
   in between is missed until the next interrupt. `keyboard.h:31` promises to
   block until a character is read. The shell uses `console_getc`, which polls, and
   is not affected (`ConsoleInputIsRead`).
2. A full leaf of the maple tree stores its last pivot past the array
   (`mm/vma_maple.c:248`): a leaf has ten entries but nine pivots (106, 119), and
   what follows in the node is `nr_entries` and `is_leaf`. The leaf forgets areas or
   is taken for an internal node. The comment at 68 says of every slot of a leaf that
   its pivot is the start of its area. `vma test` adds eight areas to the two of
   boot, which is enough to reach it once this back end is configured.

Further disagreements met on the way. There is no run for them: either the models
exclude the calls or the sizes they need, or the properties are stated so as to allow for them.

* `vmm.c:592` `vmm_alloc_pages` can reach the heap: the bump pointer only moves up
  and is checked only against 4 GiB, while `vmm.h:94` gives the heap a range of its
  own. The model does as the code: heap pages that the pointer passes are put on
  other frames, theirs are lost, `vmm_free_pages` unmaps them, and `vma_add` refuses the
  area of the run. Hence `HeapUndisturbed` speaks of the pages from the pointer on,
  `NoFrameLost` of the time before it enters the heap, and `RunsAreRegistered` of runs
  clear of the heap; without these conditions TLC finds each of them violated in
  the run `vmm`.
* `vmm.c:342` the direct map ends too early when memory has holes: its end is
  computed as base plus page count, and the bitmap back end's count over several
  regions leaves the holes out, although the comment at 328 says that it must cover
  every page. With a hole, `DirectMapCoversPool` does not hold.
* `vma_maple.c:474` an overlap is looked for in one leaf only: an area that reaches
  over a pivot is added on top of those of the next leaf. Such areas are added in the run
  `vma_maple`; `BPlusTree`, which is about start addresses, holds with them,
  `ImplementsVmaSet` does not.
* `vma_maple.c:580` when the pool runs out between the split of a leaf and that of
  its parents, the add answers 0 and the new half hangs outside the tree. With one
  node less in the pool, `BPlusTree` does not hold.
* `vma_maple.c:108` the comment derives the size of the pool from the number of
  areas, but no node ever returns to it: adding and removing uses it up.
* `cmd_heap.c:173` test 2 of `heap test` returns without freeing what it has got
  when a request is refused (`lost` in `CmdHeap`), and test 3 of every later run then
  fails.
* `heap_slab.c:66` no cache is larger than 2048 bytes, so that with the slab back
  end test 8 of `heap test`, `kmalloc(4096)`, always fails.
* `pmm_buddy.c:447` an image is taken into account only if its end, rounded up to a
  page, is inside the best region: one that ends in the last, partial page of the
  region is not, and zone and `page_info` array may cover the pages before, although the
  comment at 443 says that the region starts behind both. `ImagesClear` excludes it; Step 5
  would print a warning.
* `pmm_buddy.c:339` the double-free test reads a flag only the first page of a
  block carries, so a page merged into a larger block can be freed twice;
  `page_is_used` (588) answers *used* for such pages.
* `pmm_buddy.c:215` the comment says tail insertion keeps low addresses first;
  after a few releases it does not.
* `pmm_bitmap.c:741` `free_page` accepts reserved pages of a region, and
  `pmm free` (`cmd_pmm.c:169`) passes on whatever address the user types.
* `keyboard.c:104` the two Shift keys share a flag: releasing one while the
  other is held ends the shift.
* `heap_first_fit.c:237` `ALIGN8` wraps for the seven largest sizes, and
  `heap alloc` (`cmd_heap.c:416`) passes them on: a piece of no bytes is granted.
* `heap_slab.c:373` `used_bytes` leaves out the slab headers, which `kmalloc.h:40`
  counts.
* `kmalloc.c:57` with 512 MiB of memory or more the direct map reaches
  `KHEAP_START`; above 1 GiB `g_next_vaddr` wraps.
* `vmm.c:615` the answer of `vma_add` is ignored: with a full registry the run is
  mapped and unregistered. `kmain.c:228` registers the heap area even when
  `kmalloc_init` failed.
* `vmm.c` does not move the bump pointer back when an allocation fails, and
  `cmd_ring3.c:70` drops the frames it took when it returns early (`dropped` in
  `Vmm` counts them, so that `NoFrameLost` says nothing else is lost).

## 8. Not modelled

* GDT, IDT, TSS, PIC set-up, banner, serial output, `printk`, the Multiboot2 dump,
  and commands that print: no state another part depends on, or device
  registers written once. Of the interrupt plumbing only the effect is used:
  IRQ1 runs with interrupts disabled, a page fault stops the kernel.
* System calls: a table filled at boot; no back end enters it
  (`syscall.c:209-216`).
* The privilege switch of `ring3` and the instructions of `user_test_code.asm`;
  what is modelled is which pages ring 3 can reach. That `ring3` copies its code to
  a page mapped read-only is not modelled (nothing sets CR0.WP).
* Line editing and tokenising of the shell, number parsing and the subcommands
  that print: sequential text processing on a local buffer; the reader below it is
  `Keyboard`, the dispatch above it `Commands`.
* `pmm free` with an address of a page the kernel holds: outside the contract.
  A remove of an area whose add was refused, which test 6 of `vma test` issues,
  fails and changes nothing.
* `heap_grow`: never called. Double frees, and frees of foreign pointers inside
  the heap: excluded by the contracts. The slab back end on an
  address range that was never set up (after a failed `kmalloc_init`): planned.

## 9. Plan

Done: the contracts; both PMM back ends; keyboard and console; the three VMA
back ends; both heaps; the VMM with boot and its commands; the self tests and
tracked allocations of the shell. Order of what is left:

1. Proofs of `VmaMaple` (order of the leaves, refinement), once the code has the pivots it
   uses and looks for overlaps in the neighbouring leaf too.
2. `HeapSlab` on a heap whose set-up failed, composed with `Vmm`'s pages
   (`heap_slab.c:168`).
3. `Vmm` with memory above 512 MiB and with a full registry, once the code says
   what should happen there.
4. The line editor of the shell, with `BoundedFifo` as its input.
