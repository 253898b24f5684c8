---------------------------- MODULE HeapFirstFit ----------------------------
(***************************************************************************)
(* mm/heap_first_fit.c, the default back end of kmalloc: one doubly linked *)
(* list of blocks that tile the heap, each a header followed by its data.  *)
(* alloc walks the list to the first free block that is large enough and   *)
(* splits it; free marks the block and merges it with free neighbours.     *)
(* The loops are taken one iteration at a time.  A header that a merge     *)
(* swallows becomes data and leaves the domain of hdr.                     *)
(***************************************************************************)
EXTENDS Integers, FiniteSets

CONSTANTS
    START,      \* KHEAP_START
    SIZE,       \* the bytes kmalloc_init maps and hands to init
    W,          \* the number of values of size_t and of an address
    Request,    \* the sizes callers ask for
    Stray,      \* addresses outside the heap that callers may free
    NULL

HEADER_SIZE == 16

Addr == 0 .. W - 1

ASSUME HeapAssumption ==
    /\ START \in Nat /\ SIZE \in Nat /\ W \in Nat
    /\ START > 0 /\ START % 8 = 0
    /\ SIZE > HEADER_SIZE /\ SIZE % 8 = 0
    /\ START + SIZE + HEADER_SIZE < W
    /\ Request \subseteq Addr
    /\ Stray \subseteq {p \in Addr :
                          ~ (p - HEADER_SIZE) % W \in START .. START + SIZE - 1}
    /\ NULL \notin Int

VARIABLES
    heap_start, heap_brk,   \* the committed range, both 0 before init
    free_list,              \* the first block
    hdr,                    \* the block headers, by address
    pc,                     \* where the running call is
    req,                    \* alloc's orig_size
    size,                   \* alloc's aligned size
    curr,                   \* alloc's and stats's curr, free's block
    stats,                  \* the statistics gathered, NULL when none are
    live,                   \* the pieces callers hold
    ret                     \* the last call and its answer

heap == <<heap_start, heap_brk, free_list>>
vars == <<heap_start, heap_brk, free_list, hdr, pc, req, size, curr, stats,
          live, ret>>

Block == [size : Addr, is_free : BOOLEAN,
          next : Addr \cup {NULL}, prev : Addr \cup {NULL}]

Stats == [heap_size : Nat, used_bytes : Nat, free_bytes : Nat,
          alloc_count : Nat, free_count : Nat]

Answer(op, n, p) == [op |-> op, size |-> n, ptr |-> p]
Piece(p, n) == [ptr |-> p, size |-> n]

Init ==
    /\ heap_start = 0 /\ heap_brk = 0 /\ free_list = NULL
    /\ hdr = [b \in {} |-> NULL]
    /\ pc = "boot" /\ req = 0 /\ size = 0 /\ curr = NULL /\ stats = NULL
    /\ live = {}
    /\ ret = Answer("none", 0, NULL)

-----------------------------------------------------------------------------
(***************************************************************************)
(* kmalloc_init.  When the PMM or the VMM refuses a page it returns with   *)
(* the back end registered and never initialised; kmalloc and kfree still  *)
(* reach the back end.                                                     *)
(***************************************************************************)
heap_first_fit_init ==
    /\ pc = "boot" /\ pc' = "idle"
    /\ heap_start' = START
    /\ heap_brk' = START + SIZE
    /\ free_list' = START
    /\ hdr' = [b \in {START} |-> [size |-> SIZE - HEADER_SIZE,
                                  is_free |-> TRUE,
                                  next |-> NULL, prev |-> NULL]]
    /\ UNCHANGED <<req, size, curr, stats, live, ret>>

kmalloc_init_fails ==
    /\ pc = "boot" /\ pc' = "idle"
    /\ UNCHANGED <<heap, hdr, req, size, curr, stats, live, ret>>

-----------------------------------------------------------------------------
(* heap_first_fit_alloc *)

\* ((x) + 7u) & ~7u, in size_t
ALIGN8(x) == LET y == (x + 7) % W IN y - (y % 8)

Alloc(n) ==
    /\ pc = "idle" /\ pc' = "search"
    /\ req' = n
    /\ size' = ALIGN8(n)
    /\ curr' = free_list
    /\ stats' = NULL
    /\ UNCHANGED <<heap, hdr, live, ret>>

\* Mutant: an exact fit is passed over.
Fits_larger(b) == hdr[b].is_free /\ hdr[b].size > size

Fits(b) == hdr[b].is_free /\ hdr[b].size >= size

AllocSkip ==
    /\ pc = "search" /\ curr # NULL /\ ~Fits(curr)
    /\ curr' = hdr[curr].next
    /\ UNCHANGED <<heap, hdr, pc, req, size, stats, live, ret>>

\* The remainder of curr becomes a free block when it can hold more than a
\* header and 8 bytes.
Split ==
    LET new == curr + HEADER_SIZE + size
        next == hdr[curr].next
    IN  [b \in DOMAIN hdr \cup {new} |->
           CASE b = new -> [size |-> hdr[curr].size - size - HEADER_SIZE,
                            is_free |-> TRUE, next |-> next, prev |-> curr]
             [] b = curr -> [hdr[curr] EXCEPT !.size = size, !.next = new,
                                              !.is_free = FALSE]
             [] b = next -> [hdr[b] EXCEPT !.prev = new]
             [] OTHER -> hdr[b]]

\* Mutant: a block given away whole stays marked free.
AllocTake_unmarked ==
    /\ pc = "search" /\ curr # NULL /\ Fits(curr)
    /\ hdr' = IF hdr[curr].size - size > HEADER_SIZE + 8 THEN Split ELSE hdr
    /\ pc' = "idle"
    /\ live' = live \cup {Piece(curr + HEADER_SIZE, req)}
    /\ ret' = Answer("alloc", req, curr + HEADER_SIZE)
    /\ req' = 0 /\ size' = 0 /\ curr' = NULL
    /\ UNCHANGED <<heap, stats>>

AllocTake ==
    /\ pc = "search" /\ curr # NULL /\ Fits(curr)
    /\ hdr' = IF hdr[curr].size - size > HEADER_SIZE + 8
                 THEN Split
                 ELSE [hdr EXCEPT ![curr].is_free = FALSE]
    /\ pc' = "idle"
    /\ live' = live \cup {Piece(curr + HEADER_SIZE, req)}
    /\ ret' = Answer("alloc", req, curr + HEADER_SIZE)
    /\ req' = 0 /\ size' = 0 /\ curr' = NULL
    /\ UNCHANGED <<heap, stats>>

AllocNone ==
    /\ pc = "search" /\ curr = NULL
    /\ pc' = "idle"
    /\ ret' = Answer("alloc", req, NULL)
    /\ req' = 0 /\ size' = 0
    /\ UNCHANGED <<heap, hdr, curr, stats, live>>

-----------------------------------------------------------------------------
(* heap_first_fit_free *)

HeaderOf(p) == (p - HEADER_SIZE) % W

\* NULL and addresses outside the committed range are ignored.
Frees(p) ==
    p # NULL /\ heap_start <= HeaderOf(p) /\ HeaderOf(p) < heap_brk

FreeIgnored(p) ==
    /\ pc = "idle"
    /\ ~Frees(p)
    /\ ret' = Answer("free", 0, p)
    /\ stats' = NULL
    /\ UNCHANGED <<heap, hdr, pc, req, size, curr, live>>

\* Callers pass what alloc returned and they have not freed yet.
Free(q) ==
    /\ pc = "idle" /\ pc' = "merge_next"
    /\ Frees(q.ptr)
    /\ curr' = HeaderOf(q.ptr)
    /\ hdr' = [hdr EXCEPT ![HeaderOf(q.ptr)].is_free = TRUE]
    /\ live' = live \ {q}
    /\ ret' = Answer("free", 0, q.ptr)
    /\ stats' = NULL
    /\ UNCHANGED <<heap, req, size>>

\* Mutant: the block after the victim keeps its prev.
merge_with_next_one_way(block) ==
    LET victim == hdr[block].next
    IN  [b \in DOMAIN hdr \ {victim} |->
           IF b = block
              THEN [hdr[b] EXCEPT !.size = @ + HEADER_SIZE + hdr[victim].size,
                                  !.next = hdr[victim].next]
              ELSE hdr[b]]

\* The list after block swallowed the block that follows it.
merge_with_next(block) ==
    LET victim == hdr[block].next
        after == hdr[victim].next
    IN  [b \in DOMAIN hdr \ {victim} |->
           CASE b = block -> [hdr[b] EXCEPT
                                !.size = @ + HEADER_SIZE + hdr[victim].size,
                                !.next = after]
             [] b = after -> [hdr[b] EXCEPT !.prev = block]
             [] OTHER -> hdr[b]]

MergesNext == hdr[curr].next # NULL /\ hdr[hdr[curr].next].is_free

\* Mutant: no backward merge.
MergesPrev_never == FALSE

MergesPrev == hdr[curr].prev # NULL /\ hdr[hdr[curr].prev].is_free

FreeMergeNext ==
    /\ pc = "merge_next" /\ MergesNext
    /\ hdr' = merge_with_next(curr)
    /\ UNCHANGED <<heap, pc, req, size, curr, stats, live, ret>>

FreeMergePrev ==
    /\ pc = "merge_next" /\ ~MergesNext
    /\ hdr' = IF MergesPrev THEN merge_with_next(hdr[curr].prev) ELSE hdr
    /\ pc' = "idle" /\ curr' = NULL
    /\ UNCHANGED <<heap, req, size, stats, live, ret>>

-----------------------------------------------------------------------------
(* heap_first_fit_stats *)

StatsStart ==
    /\ pc = "idle" /\ pc' = "stats"
    /\ stats' = [heap_size |-> heap_brk - heap_start, used_bytes |-> 0,
                 free_bytes |-> 0, alloc_count |-> 0, free_count |-> 0]
    /\ curr' = free_list
    /\ UNCHANGED <<heap, hdr, req, size, live, ret>>

\* Mutant: used bytes leave out the headers.
CountBlock_data_only(b) ==
    IF b.is_free
       THEN [stats EXCEPT !.free_bytes = @ + b.size, !.free_count = @ + 1]
       ELSE [stats EXCEPT !.used_bytes = @ + b.size,
                          !.alloc_count = @ + 1]

CountBlock(b) ==
    IF b.is_free
       THEN [stats EXCEPT !.free_bytes = @ + b.size, !.free_count = @ + 1]
       ELSE [stats EXCEPT !.used_bytes = @ + b.size + HEADER_SIZE,
                          !.alloc_count = @ + 1]

StatsStep ==
    /\ pc = "stats" /\ curr # NULL
    /\ stats' = CountBlock(hdr[curr])
    /\ curr' = hdr[curr].next
    /\ UNCHANGED <<heap, hdr, pc, req, size, live, ret>>

StatsReturn ==
    /\ pc = "stats" /\ curr = NULL
    /\ pc' = "idle"
    /\ UNCHANGED <<heap, hdr, req, size, curr, stats, live, ret>>

-----------------------------------------------------------------------------
Next ==
    \/ heap_first_fit_init
    \/ kmalloc_init_fails
    \/ \E n \in Request : Alloc(n)
    \/ AllocSkip
    \/ AllocTake
    \/ AllocNone
    \/ \E p \in Stray \cup {NULL} : FreeIgnored(p)
    \/ \E q \in live : Free(q)
    \/ FreeMergeNext
    \/ FreeMergePrev
    \/ StatsStart
    \/ StatsStep
    \/ StatsReturn

Spec == Init /\ [][Next]_vars

-----------------------------------------------------------------------------
(* Properties *)

Blocks == DOMAIN hdr

End(b) == b + HEADER_SIZE + hdr[b].size

\* Every variable has its type, and sizes and addresses of blocks are
\* multiples of 8, as ALIGN8 and HEADER_SIZE make them.
TypeOK ==
    /\ heap_start \in Addr /\ heap_brk \in Addr
    /\ free_list \in Addr \cup {NULL}
    /\ hdr = [b \in Blocks |-> hdr[b]]
    /\ Blocks \subseteq Addr
    /\ \A b \in Blocks : /\ hdr[b] \in Block
                         /\ b % 8 = 0 /\ hdr[b].size % 8 = 0
    /\ pc \in {"boot", "idle", "search", "merge_next", "stats"}
    /\ req \in Addr /\ size \in Addr /\ size % 8 = 0
    /\ curr \in Blocks \cup {NULL}
    /\ stats \in Stats \cup {NULL}
    /\ \A q \in live : q \in [ptr : Addr, size : Addr]
    /\ ret \in [op : {"none", "alloc", "free"}, size : Addr,
                ptr : Addr \cup {NULL}]

\* The blocks tile the committed range from end to end: each starts where
\* its prev ends, next and prev are inverse, the first is free_list, the
\* last ends at heap_brk, and no two overlap -- after every split and every
\* merge, forward or backward.
Tiling ==
    /\ Blocks # {} => free_list \in Blocks /\ free_list = heap_start
    /\ Blocks = {} => free_list = NULL /\ heap_brk = heap_start
    /\ \A b \in Blocks :
          /\ heap_start <= b /\ End(b) <= heap_brk
          /\ hdr[b].next = NULL => End(b) = heap_brk
          /\ hdr[b].next # NULL => /\ hdr[b].next \in Blocks
                                   /\ hdr[b].next = End(b)
                                   /\ hdr[hdr[b].next].prev = b
          /\ hdr[b].prev = NULL => b = free_list
          /\ hdr[b].prev # NULL => /\ hdr[b].prev \in Blocks
                                   /\ hdr[hdr[b].prev].next = b
    /\ \A a, b \in Blocks : a < b => End(a) <= b

\* Between calls no free block follows a free block, so a heap nothing is
\* allocated from is one block again: free's merges in two directions leave
\* no fragmentation behind, whatever the order of the frees.
Coalesced ==
    pc = "idle" =>
       /\ \A b \in Blocks : hdr[b].is_free /\ hdr[b].next # NULL
                              => ~hdr[hdr[b].next].is_free
       /\ live = {} => Cardinality(Blocks) <= 1

\* alloc takes the first free block at least as large as the aligned size,
\* and answers NULL only when no free block is: walking the list meets every
\* block, in the order of addresses.
FirstFit ==
    [][pc = "search" /\ pc' = "idle" =>
         LET Large == {b \in Blocks : hdr[b].is_free /\ hdr[b].size >= size}
         IN  IF ret'.ptr = NULL
                THEN Large = {}
                ELSE /\ ret'.ptr - HEADER_SIZE \in Large
                     /\ \A b \in Large : ret'.ptr - HEADER_SIZE <= b]_vars

\* What "heap status" shows: one allocation per piece callers hold, and used
\* bytes, free bytes and the headers of free blocks make up the heap.
StatsAddUp ==
    pc = "idle" /\ stats # NULL =>
       /\ stats.alloc_count = Cardinality(live)
       /\ stats.used_bytes + stats.free_bytes
            + HEADER_SIZE * stats.free_count = stats.heap_size

ByteAlloc == INSTANCE ByteAllocator WITH
    Byte <- START .. START + SIZE - 1, ALIGN <- 8, Size <- Request, Ptr <- Addr \cup {NULL}

\* The list of blocks is a byte allocator: pieces are as large as asked,
\* aligned, inside the heap and never share a byte with a live piece.
ImplementsByteAllocator == ByteAlloc!Spec

\* "找第一个 is_free && size >= 请求 的块" (heap_first_fit.c:27): the block
\* behind a piece is at least as large as what the caller asked for, so that
\* writing the piece touches no header.
BlockHoldsRequest ==
    \A q \in live : hdr[q.ptr - HEADER_SIZE].size >= q.size

=============================================================================
