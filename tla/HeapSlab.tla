------------------------------ MODULE HeapSlab ------------------------------
(***************************************************************************)
(* mm/heap_slab.c, the slab back end of kmalloc.  A slab is one page: a    *)
(* header and as many objects of its cache's size as fit, the free ones in *)
(* a bitmap.  A cache keeps a list of slabs with a free object and a list  *)
(* of full ones; slabs come from pages mapped at boot, then from the PMM.  *)
(* Calls do not overlap, so each is one action per path through it.        *)
(***************************************************************************)
EXTENDS Integers, FiniteSets, SequencesExt

CONSTANTS
    START,          \* KHEAP_START
    KHEAP_END,
    INITIAL,        \* the bytes kmalloc_init maps
    VMM_PAGE_SIZE,
    SLAB_HDR_SIZE,
    cache_sizes,    \* object sizes, increasing
    BITMAP_BITS,    \* 128
    ALIGN,          \* 8: divides the header and every object size
    W,              \* the number of addresses
    Request,        \* the sizes callers ask for
    Stray,          \* addresses callers may free without having been given
    NULL

Caches == DOMAIN cache_sizes
Addr == 0 .. W - 1

ASSUME SlabAssumption ==
    /\ VMM_PAGE_SIZE \in Nat \ {0} /\ ALIGN \in Nat \ {0} /\ W \in Nat
    /\ SLAB_HDR_SIZE \in Nat /\ BITMAP_BITS \in Nat \ {0}
    /\ VMM_PAGE_SIZE % ALIGN = 0 /\ SLAB_HDR_SIZE % ALIGN = 0
    /\ \A n \in {START, KHEAP_END, INITIAL} : n \in Nat /\ n % VMM_PAGE_SIZE = 0
    /\ 0 < START /\ START + INITIAL <= KHEAP_END /\ KHEAP_END < W
    /\ cache_sizes \in Seq(Nat \ {0})
    /\ \A i \in Caches : /\ cache_sizes[i] % ALIGN = 0
                         /\ cache_sizes[i] + SLAB_HDR_SIZE <= VMM_PAGE_SIZE
    /\ Request \subseteq Addr /\ Stray \subseteq Addr
    /\ NULL \notin Int

VARIABLES
    slab_brk,           \* the next page of the heap
    slab_committed,     \* the end of the pages that are mapped
    slab,               \* the slab headers, by page
    partial, full,      \* the lists of each cache
    held,               \* how many frames the heap took from the PMM
    live,               \* the pieces callers hold
    ret                 \* the last call and its answer

lists == <<partial, full>>
vars == <<slab_brk, slab_committed, slab, partial, full, held, live, ret>>

Slabs == DOMAIN slab

Answer(op, n, p) == [op |-> op, size |-> n, ptr |-> p]
Piece(p, n) == [ptr |-> p, size |-> n]

\* heap_slab_init, after kmalloc_init mapped the first pages.
Init ==
    /\ slab_brk = START
    /\ slab_committed = START + INITIAL
    /\ slab = [p \in {} |-> NULL]
    /\ partial = [i \in Caches |-> <<>>]
    /\ full = [i \in Caches |-> <<>>]
    /\ held = 0
    /\ live = {}
    /\ ret = Answer("none", 0, NULL)

-----------------------------------------------------------------------------
(* heap_slab_alloc *)

\* Mutant: the header is forgotten.
Capacity_whole(i) ==
    LET fit == VMM_PAGE_SIZE \div cache_sizes[i]
    IN  IF fit > BITMAP_BITS THEN BITMAP_BITS ELSE fit

Capacity(i) ==
    LET fit == (VMM_PAGE_SIZE - SLAB_HDR_SIZE) \div cache_sizes[i]
    IN  IF fit > BITMAP_BITS THEN BITMAP_BITS ELSE fit

Cached(n) == {i \in Caches : n <= cache_sizes[i]}

find_cache(n) == Min(Cached(n))

AllocRefused(n) ==
    /\ n = 0 \/ Cached(n) = {}
    /\ ret' = Answer("alloc", n, NULL)
    /\ UNCHANGED <<slab_brk, slab_committed, slab, lists, held, live>>

NewSlab(i) ==
    [cache_idx |-> i, obj_size |-> cache_sizes[i], capacity |-> Capacity(i),
     free_count |-> Capacity(i), free_bitmap |-> 0 .. Capacity(i) - 1]

\* Mutant: a slab that just became full stays on the partial list.
Take_stays_partial(i, page, s, n) ==
    LET slot == Min(s.free_bitmap)
        p == page + SLAB_HDR_SIZE + slot * s.obj_size
        rest == IF partial[i] = <<>> THEN <<>> ELSE Tail(partial[i])
    IN  /\ slab' = [q \in Slabs \cup {page} |->
                      IF q = page
                         THEN [s EXCEPT !.free_bitmap = @ \ {slot},
                                        !.free_count = @ - 1]
                         ELSE slab[q]]
        /\ partial' = [partial EXCEPT ![i] = <<page>> \o rest]
        /\ UNCHANGED full
        /\ live' = live \cup {Piece(p, n)}
        /\ ret' = Answer("alloc", n, p)

\* The first free object of the slab at page, whose header is s and which is
\* or becomes the head of cache i's partial list.
Take(i, page, s, n) ==
    LET slot == Min(s.free_bitmap)
        p == page + SLAB_HDR_SIZE + slot * s.obj_size
        rest == IF partial[i] = <<>> THEN <<>> ELSE Tail(partial[i])
    IN  /\ slab' = [q \in Slabs \cup {page} |->
                      IF q = page
                         THEN [s EXCEPT !.free_bitmap = @ \ {slot},
                                        !.free_count = @ - 1]
                         ELSE slab[q]]
        /\ IF s.free_count = 1
              THEN /\ partial' = [partial EXCEPT ![i] = rest]
                   /\ full' = [full EXCEPT ![i] = <<page>> \o @]
              ELSE /\ partial' = [partial EXCEPT ![i] = <<page>> \o rest]
                   /\ UNCHANGED full
        /\ live' = live \cup {Piece(p, n)}
        /\ ret' = Answer("alloc", n, p)

AllocFromPartial(n) ==
    /\ n # 0 /\ Cached(n) # {}
    /\ LET i == find_cache(n)
       IN  /\ partial[i] # <<>>
           /\ Take(i, Head(partial[i]), slab[Head(partial[i])], n)
    /\ UNCHANGED <<slab_brk, slab_committed, held>>

NeedsSlab(n) ==
    n # 0 /\ Cached(n) # {} /\ partial[find_cache(n)] = <<>>

\* slab_get_page: a page mapped at boot, or a frame of the PMM mapped at
\* slab_brk.
AllocNewSlab(n) ==
    /\ NeedsSlab(n)
    /\ slab_brk < KHEAP_END
    /\ IF slab_brk >= slab_committed
          THEN /\ held' = held + 1
               /\ slab_committed' = slab_committed + VMM_PAGE_SIZE
          ELSE UNCHANGED <<held, slab_committed>>
    /\ slab_brk' = slab_brk + VMM_PAGE_SIZE
    /\ Take(find_cache(n), slab_brk, NewSlab(find_cache(n)), n)

\* The heap is at its limit, the PMM has no frame, or the VMM could not map
\* it and the frame went back.
AllocNoPage(n) ==
    /\ NeedsSlab(n)
    /\ slab_brk >= KHEAP_END \/ slab_brk >= slab_committed
    /\ ret' = Answer("alloc", n, NULL)
    /\ UNCHANGED <<slab_brk, slab_committed, slab, lists, held, live>>

-----------------------------------------------------------------------------
(* heap_slab_free *)

PageOf(p) == p - (p % VMM_PAGE_SIZE)

SlotOf(p) ==
    ((p - PageOf(p) - SLAB_HDR_SIZE) % W) \div slab[PageOf(p)].obj_size

\* NULL, or a pointer into a slab's header or behind its last object.
FreeIgnored(p) ==
    /\ p # NULL => /\ PageOf(p) \in Slabs
                   /\ SlotOf(p) >= slab[PageOf(p)].capacity
    /\ ret' = Answer("free", 0, p)
    /\ UNCHANGED <<slab_brk, slab_committed, slab, lists, held, live>>

\* Mutant: a full slab stays on the full list.
Relist_never(page) == UNCHANGED lists

\* A full slab goes back to the front of the partial list.
Relist(page) ==
    LET i == slab[page].cache_idx
    IN  IF slab[page].free_count = 0
           THEN /\ full' = [full EXCEPT ![i] = RemoveFirst(@, page)]
                /\ partial' = [partial EXCEPT ![i] = <<page>> \o @]
           ELSE UNCHANGED lists

\* Callers pass what alloc returned and they have not freed yet.
Free(q) ==
    LET page == PageOf(q.ptr)
    IN  /\ SlotOf(q.ptr) < slab[page].capacity
        /\ slab' = [slab EXCEPT ![page].free_bitmap = @ \cup {SlotOf(q.ptr)},
                                ![page].free_count = @ + 1]
        /\ Relist(page)
        /\ live' = live \ {q}
        /\ ret' = Answer("free", 0, q.ptr)
        /\ UNCHANGED <<slab_brk, slab_committed, held>>

Next ==
    \/ \E n \in Request : \/ AllocRefused(n)
                          \/ AllocFromPartial(n)
                          \/ AllocNewSlab(n)
                          \/ AllocNoPage(n)
    \/ \E p \in Stray \cup {NULL} : FreeIgnored(p)
    \/ \E q \in live : Free(q)

Spec == Init /\ [][Next]_vars

-----------------------------------------------------------------------------
(* heap_slab_stats *)

Listed(l) == UNION {ToSet(l[i]) : i \in Caches}

\* The sum of the values of f, as the size of a disjoint union.
Total(f) == Cardinality(UNION {{x} \X (1 .. f[x]) : x \in DOMAIN f})

Used(p) == slab[p].capacity - slab[p].free_count
UsedBytes(p) == Used(p) * slab[p].obj_size
FreeBytes(p) == slab[p].free_count * slab[p].obj_size

heap_slab_stats ==
    LET seen == Listed(partial) \cup Listed(full)
    IN  [heap_size |-> slab_brk - START,
         used_bytes |-> Total([p \in seen |-> UsedBytes(p)]),
         free_bytes |-> Total([p \in Listed(partial) |-> FreeBytes(p)]),
         alloc_count |-> Total([p \in seen |-> Used(p)])]

-----------------------------------------------------------------------------
(* Properties *)

\* The types of the variables.
TypeOK ==
    /\ slab_brk \in START .. KHEAP_END
    /\ slab_committed \in START .. KHEAP_END
    /\ \A p \in Slabs :
          slab[p] \in [cache_idx : Caches, obj_size : ToSet(cache_sizes),
                       capacity : 1 .. BITMAP_BITS,
                       free_count : 0 .. BITMAP_BITS,
                       free_bitmap : SUBSET (0 .. BITMAP_BITS - 1)]
    /\ partial \in [Caches -> Seq(Slabs)]
    /\ full \in [Caches -> Seq(Slabs)]
    /\ held \in Nat
    /\ live \subseteq [ptr : Addr, size : Addr]
    /\ ret \in [op : {"none", "alloc", "free"}, size : Addr,
                ptr : Addr \cup {NULL}]

\* Every slab is on exactly one list, once, of its own cache: on partial as
\* long as it has a free object, on full otherwise -- whatever the order in
\* which slabs fill up and are freed from.
SlabsOnTheirList ==
    \A i \in Caches :
       /\ IsInjective(partial[i]) /\ IsInjective(full[i])
       /\ ToSet(partial[i]) = {p \in Slabs : slab[p].cache_idx = i
                                             /\ slab[p].free_count > 0}
       /\ ToSet(full[i]) = {p \in Slabs : slab[p].cache_idx = i
                                          /\ slab[p].free_count = 0}

\* Bitmap, counter and callers agree: an object is free in the bitmap or it
\* is a live piece, and free_count counts the free ones.
BitmapMatchesPieces ==
    \A p \in Slabs :
       /\ slab[p].free_count = Cardinality(slab[p].free_bitmap)
       /\ \A k \in 0 .. slab[p].capacity - 1 :
             k \notin slab[p].free_bitmap
               <=> \E q \in live :
                     q.ptr = p + SLAB_HDR_SIZE + k * slab[p].obj_size

\* The heap holds one frame for every page it committed beyond the first
\* ones, and pages below slab_brk are slabs for ever: none is given back.
PagesAccountedFor ==
    /\ slab_committed = START + INITIAL + held * VMM_PAGE_SIZE
    /\ Slabs = {p \in START .. slab_brk - 1 : p % VMM_PAGE_SIZE = 0}
    /\ slab_brk <= slab_committed

\* A request that fits a cache fails only when no slab of that cache has a
\* free object and no page mapped at boot is left.
RefusesOnlyWhenFull ==
    [][ret' # ret /\ ret'.op = "alloc" /\ ret'.ptr = NULL
         /\ ret'.size # 0 /\ Cached(ret'.size) # {} =>
         /\ slab_brk >= slab_committed
         /\ \A p \in Slabs : slab[p].cache_idx = find_cache(ret'.size)
                               => slab[p].free_bitmap = {}]_vars

\* "heap status": one allocation per live piece, and its bytes are those of
\* the objects handed out.
StatsMatchPieces ==
    /\ heap_slab_stats.alloc_count = Cardinality(live)
    /\ heap_slab_stats.used_bytes
         = Total([q \in live |-> slab[PageOf(q.ptr)].obj_size])

\* Lists, pages, bitmaps, counters and statistics all tell what callers hold.
BookkeepingAgrees ==
    /\ TypeOK /\ SlabsOnTheirList /\ BitmapMatchesPieces
    /\ PagesAccountedFor /\ StatsMatchPieces

ByteAlloc == INSTANCE ByteAllocator WITH
    Byte <- START .. KHEAP_END - 1, Size <- Request, Ptr <- Addr \cup {NULL}

\* The slab heap is a byte allocator: objects are as large as asked, aligned
\* and never shared, across caches and pages.
ImplementsByteAllocator == ByteAlloc!Spec

=============================================================================
