------------------------- MODULE HeapFirstFitProofs -------------------------
(***************************************************************************)
(* The list of blocks tiles the heap, leaves no free neighbours behind, is *)
(* searched first fit, is counted right and implements a byte allocator,   *)
(* for every heap size, word width, set of requests and sequence of calls. *)
(***************************************************************************)
EXTENDS HeapFirstFit, FiniteSetTheorems, TLAPS

\* No request wraps when alloc rounds it up.
NoWrap == \A n \in Request : n + 7 < W

\* The part of TypeOK that is about the list.
ListTyped ==
    /\ hdr = [b \in Blocks |-> hdr[b]]
    /\ Blocks \subseteq Addr
    /\ \A b \in Blocks : /\ hdr[b] \in Block
                         /\ b % 8 = 0 /\ hdr[b].size % 8 = 0

\* The rest of TypeOK.
RestTyped ==
    /\ heap_start \in Addr /\ heap_brk \in Addr
    /\ free_list \in Addr \cup {NULL}
    /\ pc \in {"boot", "idle", "search", "merge_next", "stats"}
    /\ req \in Addr /\ size \in Addr /\ size % 8 = 0
    /\ curr \in Blocks \cup {NULL}
    /\ stats \in Stats \cup {NULL}
    /\ \A q \in live : q \in [ptr : Addr, size : Addr]
    /\ ret \in [op : {"none", "alloc", "free"}, size : Addr,
                ptr : Addr \cup {NULL}]

\* The list exists exactly when init ran.
HeapInv ==
    /\ Blocks = {} => heap_start = 0 /\ heap_brk = 0
    /\ Blocks # {} => heap_start = START /\ heap_brk = START + SIZE
    /\ pc = "boot" => Blocks = {}

\* The pieces callers hold are the used blocks, one piece per block.
LiveInv ==
    /\ \A q \in live : /\ q.ptr - HEADER_SIZE \in Blocks
                       /\ ~hdr[q.ptr - HEADER_SIZE].is_free
    /\ \A q, r \in live : q.ptr = r.ptr => q = r
    /\ \A b \in Blocks : ~hdr[b].is_free
                           => \E q \in live : q.ptr = b + HEADER_SIZE
    /\ NoWrap => BlockHoldsRequest

\* Free neighbours exist only around the block being freed.
NeighbourInv ==
    /\ pc # "merge_next" =>
          \A b \in Blocks : hdr[b].is_free /\ hdr[b].next # NULL
                              => ~hdr[hdr[b].next].is_free
    /\ pc = "merge_next" =>
          /\ curr \in Blocks /\ hdr[curr].is_free
          /\ \A b \in Blocks :
                b # curr /\ hdr[b].is_free /\ hdr[b].next # NULL /\ hdr[b].next # curr
                  => ~hdr[hdr[b].next].is_free

\* What alloc's walk has passed does not fit.
WalkInv ==
    /\ pc = "search" =>
          /\ req \in Request /\ size = ALIGN8(req)
          /\ curr = NULL => \A b \in Blocks : ~Fits(b)
          /\ curr # NULL => \A b \in Blocks : b < curr => ~Fits(b)
    /\ pc = "stats" => stats \in Stats

IInv ==
    /\ TypeOK
    /\ Tiling
    /\ HeapInv
    /\ LiveInv
    /\ NeighbourInv
    /\ WalkInv

-----------------------------------------------------------------------------
(* Arithmetic *)

LEMMA ModSmall ==
    ASSUME NEW x \in Nat, NEW w \in Nat, x < w
    PROVE  x % w = x
  OBVIOUS

LEMMA ModRange ==
    ASSUME NEW x \in Int, NEW w \in Nat, w > 0
    PROVE  x % w \in 0 .. w - 1
  OBVIOUS

LEMMA RoundDown ==
    ASSUME NEW y \in Nat
    PROVE  /\ y - (y % 8) \in 0 .. y
           /\ (y - (y % 8)) % 8 = 0
           /\ y - 7 <= y - (y % 8)
  OBVIOUS

LEMMA Mod8 ==
    ASSUME NEW a \in Int, NEW b \in Int, a % 8 = 0, b % 8 = 0
    PROVE  /\ (a + 16 + b) % 8 = 0 /\ (a - b - 16) % 8 = 0
           /\ (a - 16) % 8 = 0 /\ (a + 16) % 8 = 0
  OBVIOUS

LEMMA ConstFacts ==
    /\ START \in Nat /\ SIZE \in Nat /\ W \in Nat /\ W > 0
    /\ HEADER_SIZE = 16
    /\ START > 0 /\ START % 8 = 0 /\ SIZE > 16 /\ SIZE % 8 = 0
    /\ START + SIZE + 16 < W
    /\ NULL \notin Int /\ NULL \notin Addr
    /\ \A x : x \in Addr <=> x \in Int /\ 0 <= x /\ x < W
    /\ \A n \in Request : n \in Addr
  BY HeapAssumption DEF Addr, HEADER_SIZE

LEMMA AlignFacts ==
    ASSUME NEW n \in Addr
    PROVE  /\ ALIGN8(n) \in Addr
           /\ ALIGN8(n) % 8 = 0
           /\ n + 7 < W => n <= ALIGN8(n)
<1> DEFINE y == (n + 7) % W
<1>1. n \in Nat /\ W \in Nat /\ W > 0
  BY ConstFacts
<1>2. y \in 0 .. W - 1
  BY <1>1, ModRange
<1>3. n + 7 < W => y = n + 7
  BY <1>1, ModSmall
<1> HIDE DEF y
<1>4. /\ y - (y % 8) \in 0 .. y /\ (y - (y % 8)) % 8 = 0
      /\ y - 7 <= y - (y % 8)
  BY <1>1, <1>2, RoundDown
<1>5. ALIGN8(n) = y - (y % 8)
  BY DEF ALIGN8, y
<1> QED BY <1>1, <1>2, <1>3, <1>4, <1>5, ConstFacts

-----------------------------------------------------------------------------
(* The list *)

LEMMA MakeBlock ==
    ASSUME NEW n \in Addr, NEW f \in BOOLEAN, NEW nx \in Addr \cup {NULL},
           NEW pv \in Addr \cup {NULL}
    PROVE  [size |-> n, is_free |-> f, next |-> nx, prev |-> pv] \in Block
  BY DEF Block

LEMMA BlockFacts ==
    ASSUME ListTyped, NEW b \in Blocks
    PROVE  /\ b \in Addr /\ b \in Int /\ b # NULL /\ 0 <= b
           /\ hdr[b] \in Block
           /\ hdr[b].size \in Nat /\ hdr[b].size \in Addr
           /\ hdr[b].is_free \in BOOLEAN
           /\ hdr[b].next \in Addr \cup {NULL}
           /\ hdr[b].prev \in Addr \cup {NULL}
           /\ hdr[b] = [size |-> hdr[b].size, is_free |-> hdr[b].is_free,
                        next |-> hdr[b].next, prev |-> hdr[b].prev]
           /\ End(b) = b + 16 + hdr[b].size
           /\ End(b) \in Int /\ b < End(b)
<1>1. b \in Addr /\ hdr[b] \in Block
  BY DEF ListTyped
<1>2. /\ hdr[b].size \in Addr /\ hdr[b].is_free \in BOOLEAN
      /\ hdr[b].next \in Addr \cup {NULL} /\ hdr[b].prev \in Addr \cup {NULL}
      /\ hdr[b] = [size |-> hdr[b].size, is_free |-> hdr[b].is_free,
                   next |-> hdr[b].next, prev |-> hdr[b].prev]
  BY <1>1 DEF Block
<1>3. End(b) = b + 16 + hdr[b].size
  BY ConstFacts DEF End
<1> QED BY <1>1, <1>2, <1>3, ConstFacts

\* The facts about next and prev that every list operation needs.
LEMMA LinkFacts ==
    ASSUME ListTyped, Tiling, NEW b \in Blocks
    PROVE  /\ heap_start <= b /\ End(b) <= heap_brk
           /\ hdr[b].next = NULL => End(b) = heap_brk
           /\ hdr[b].next # NULL => /\ hdr[b].next \in Blocks
                                    /\ hdr[b].next = End(b)
                                    /\ hdr[hdr[b].next].prev = b
           /\ hdr[b].prev = NULL => b = free_list
           /\ hdr[b].prev # NULL => /\ hdr[b].prev \in Blocks
                                    /\ hdr[hdr[b].prev].next = b
           /\ free_list \in Blocks /\ free_list = heap_start
           /\ \A c \in Blocks : b < c => End(b) <= c
  BY DEF Tiling

\* A list in which only is_free of one block changed.
LEMMA MarkList ==
    ASSUME ListTyped, Tiling, UNCHANGED heap, NEW c \in Blocks,
           NEW v \in BOOLEAN, hdr' = [hdr EXCEPT ![c].is_free = v]
    PROVE  /\ ListTyped' /\ Tiling' /\ Blocks' = Blocks
           /\ hdr'[c].is_free = v
           /\ \A b \in Blocks : /\ hdr'[b].size = hdr[b].size
                                /\ hdr'[b].next = hdr[b].next
                                /\ hdr'[b].prev = hdr[b].prev
                                /\ b # c => hdr'[b].is_free = hdr[b].is_free
<1>1. Blocks' = Blocks /\ hdr' = [b \in Blocks |-> hdr'[b]]
  BY DEF Blocks, ListTyped
<1>2. \A b \in Blocks : b # c => hdr'[b] = hdr[b]
  BY DEF Blocks
<1>3. hdr'[c] = [size |-> hdr[c].size, is_free |-> v,
                 next |-> hdr[c].next, prev |-> hdr[c].prev]
  BY BlockFacts DEF Blocks
<1>4. \A b \in Blocks : /\ hdr'[b].size = hdr[b].size
                        /\ hdr'[b].next = hdr[b].next
                        /\ hdr'[b].prev = hdr[b].prev
                        /\ b # c => hdr'[b].is_free = hdr[b].is_free
  BY <1>2, <1>3
<1>5. \A b \in Blocks : hdr'[b] \in Block
  <2>1. hdr'[c] \in Block
    <3>1. /\ hdr[c].size \in Addr /\ hdr[c].next \in Addr \cup {NULL}
          /\ hdr[c].prev \in Addr \cup {NULL}
      BY BlockFacts
    <3>2. [size |-> hdr[c].size, is_free |-> v, next |-> hdr[c].next,
           prev |-> hdr[c].prev] \in Block
      BY <3>1, MakeBlock
    <3> QED BY <1>3, <3>2
  <2> QED BY <1>2, <2>1 DEF ListTyped
<1>6. ListTyped'
  BY <1>1, <1>4, <1>5 DEF ListTyped
<1>7. \A b \in Blocks : End(b)' = End(b)
  BY <1>4 DEF End
<1>8. Tiling'
  BY <1>1, <1>4, <1>7 DEF Tiling, heap
<1> QED BY <1>1, <1>3, <1>4, <1>6, <1>8

\* The list after merge_with_next.
LEMMA MergeList ==
    ASSUME ListTyped, Tiling, UNCHANGED heap, NEW block \in Blocks,
           hdr[block].next # NULL, hdr' = merge_with_next(block), HeapInv
    PROVE  /\ ListTyped' /\ Tiling'
           /\ Blocks' = Blocks \ {hdr[block].next}
           /\ hdr[block].next # block
           /\ hdr'[block].next = hdr[hdr[block].next].next
           /\ \A b \in Blocks' : /\ hdr'[b].is_free = hdr[b].is_free
                                 /\ hdr'[b].size >= hdr[b].size
                                 /\ b # block => hdr'[b].next = hdr[b].next
<1> DEFINE v == hdr[block].next
           a == hdr[v].next
<1>1. /\ v \in Blocks /\ v = End(block) /\ hdr[v].prev = block
      /\ v \in Int /\ block \in Int /\ block < v /\ v # block
  <2>1. v \in Blocks /\ v = End(block) /\ hdr[v].prev = block
    BY LinkFacts
  <2>2. block \in Int /\ End(block) \in Int /\ block < End(block)
    BY BlockFacts
  <2> QED BY <2>1, <2>2
<1>2. a # NULL => /\ a \in Blocks /\ a = End(v) /\ hdr[a].prev = v
                  /\ a \in Int /\ v < a
  BY <1>1, LinkFacts, BlockFacts
<1>3. a # block /\ a # v
  <2>1. block # NULL /\ v # NULL
    BY <1>1, BlockFacts
  <2> QED BY <1>1, <1>2, <2>1
<1>4. /\ Blocks' = Blocks \ {v}
      /\ hdr' = [b \in Blocks' |-> hdr'[b]]
      /\ \A b \in Blocks \ {v} : hdr'[b] =
            IF b = block
               THEN [hdr[b] EXCEPT !.size = @ + HEADER_SIZE + hdr[v].size,
                                   !.next = a]
               ELSE IF b = a THEN [hdr[b] EXCEPT !.prev = block] ELSE hdr[b]
  <2> DEFINE new(b) ==
            CASE b = block -> [hdr[b] EXCEPT
                                !.size = @ + HEADER_SIZE + hdr[v].size,
                                !.next = a]
              [] b = a -> [hdr[b] EXCEPT !.prev = block]
              [] OTHER -> hdr[b]
  <2>1. hdr' = [b \in Blocks \ {v} |-> new(b)]
    BY DEF merge_with_next, Blocks
  <2>2. \A b : new(b) =
            IF b = block
               THEN [hdr[b] EXCEPT !.size = @ + HEADER_SIZE + hdr[v].size,
                                   !.next = a]
               ELSE IF b = a THEN [hdr[b] EXCEPT !.prev = block] ELSE hdr[b]
    BY <1>3
  <2> HIDE DEF new, v, a
  <2>3. DOMAIN hdr' = Blocks \ {v} /\ Blocks' = DOMAIN hdr'
    BY <2>1 DEF Blocks
  <2> QED BY <2>1, <2>2, <2>3
<1>5. hdr'[block] = [size |-> hdr[block].size + 16 + hdr[v].size,
                     is_free |-> hdr[block].is_free,
                     next |-> a, prev |-> hdr[block].prev]
  <2>1. hdr'[block] = [hdr[block] EXCEPT !.size = @ + HEADER_SIZE + hdr[v].size,
                                         !.next = a]
    BY <1>1, <1>4
  <2> QED BY <2>1, BlockFacts, ConstFacts
<1>6. \A b \in Blocks' : b # block /\ b # a => hdr'[b] = hdr[b]
  BY <1>4
<1>7. a # NULL => hdr'[a] = [size |-> hdr[a].size, is_free |-> hdr[a].is_free,
                             next |-> hdr[a].next, prev |-> block]
  <2> SUFFICES ASSUME a # NULL PROVE hdr'[a] = [size |-> hdr[a].size,
                is_free |-> hdr[a].is_free, next |-> hdr[a].next, prev |-> block]
    OBVIOUS
  <2>1. hdr'[a] = [hdr[a] EXCEPT !.prev = block]
    BY <1>2, <1>3, <1>4
  <2> QED BY <2>1, <1>2, BlockFacts
<1> HIDE DEF v, a
<1>8. \A b \in Blocks : b \in Int /\ hdr[b].size \in Nat /\ b # NULL
  BY BlockFacts
<1>9. \A b \in Blocks' : /\ hdr'[b].is_free = hdr[b].is_free
                         /\ b # block => hdr'[b].next = hdr[b].next
                         /\ b # block => hdr'[b].size = hdr[b].size
                         /\ b # a => hdr'[b].prev = hdr[b].prev
                         /\ hdr'[b].size >= hdr[b].size
  <2> SUFFICES ASSUME NEW b \in Blocks'
               PROVE  /\ hdr'[b].is_free = hdr[b].is_free
                      /\ b # block => hdr'[b].next = hdr[b].next
                      /\ b # block => hdr'[b].size = hdr[b].size
                      /\ b # a => hdr'[b].prev = hdr[b].prev
                      /\ hdr'[b].size >= hdr[b].size
    OBVIOUS
  <2>1. b \in Blocks /\ b # NULL /\ hdr[b].size \in Nat /\ hdr[v].size \in Nat
    BY <1>1, <1>4, <1>8
  <2>2. CASE b = block
    BY <1>3, <1>5, <2>1, <2>2
  <2>3. CASE b = a
    BY <1>3, <1>7, <2>1, <2>3
  <2>4. CASE b # block /\ b # a
    BY <1>6, <2>1, <2>4
  <2> QED BY <2>2, <2>3, <2>4
<1>10. \A b \in Blocks' : End(b)' = IF b = block THEN End(v) ELSE End(b)
  <2>1. End(block)' = End(v)
    BY <1>1, <1>5, <1>8, BlockFacts, ConstFacts DEF End
  <2>2. \A b \in Blocks' : b # block => End(b)' = End(b)
    BY <1>9 DEF End
  <2> QED BY <2>1, <2>2
<1>11. /\ heap_start \in Int /\ heap_brk \in Int /\ heap_brk < W
       /\ UNCHANGED <<heap_start, heap_brk, free_list>>
  BY <1>1, ConstFacts DEF HeapInv, heap
<1>12. hdr'[block] \in Block /\ hdr'[block].size % 8 = 0
  <2>1. End(v) <= heap_brk /\ End(v) = v + 16 + hdr[v].size
        /\ v = block + 16 + hdr[block].size /\ 0 <= block
    BY <1>1, LinkFacts, BlockFacts
  <2>2. hdr[block].size + 16 + hdr[v].size \in Addr
    BY <1>1, <1>8, <1>11, <2>1, ConstFacts
  <2>3. hdr[block].size % 8 = 0 /\ hdr[v].size % 8 = 0
    BY <1>1 DEF ListTyped
  <2>4. (hdr[block].size + 16 + hdr[v].size) % 8 = 0
    <3>1. hdr[block].size \in Int /\ hdr[v].size \in Int
      BY <1>1, <1>8
    <3> QED BY <2>3, <3>1, Mod8
  <2>5. a \in Addr \cup {NULL}
    BY <1>1, BlockFacts DEF a
  <2>6. hdr'[block] \in Block
    <3>1. /\ hdr[block].is_free \in BOOLEAN
          /\ hdr[block].prev \in Addr \cup {NULL}
      BY BlockFacts
    <3>2. [size |-> hdr[block].size + 16 + hdr[v].size,
           is_free |-> hdr[block].is_free,
           next |-> a, prev |-> hdr[block].prev] \in Block
      BY <2>2, <2>5, <3>1, MakeBlock
    <3> QED BY <1>5, <3>2
  <2> QED BY <1>5, <2>4, <2>6
<1>13. ListTyped'
  <2>1. \A b \in Blocks' : hdr'[b] \in Block /\ hdr'[b].size % 8 = 0
    <3> SUFFICES ASSUME NEW b \in Blocks'
                 PROVE hdr'[b] \in Block /\ hdr'[b].size % 8 = 0
      OBVIOUS
    <3>1. CASE b = block
      BY <1>12, <3>1
    <3>2. CASE b = a
      <4>1. a # NULL /\ a \in Blocks /\ hdr[a].size % 8 = 0
        BY <1>4, <3>2, BlockFacts DEF ListTyped
      <4>2. block \in Addr
        BY BlockFacts
      <4>3. hdr'[a] \in Block
        <5>1. /\ hdr[a].size \in Addr /\ hdr[a].is_free \in BOOLEAN
              /\ hdr[a].next \in Addr \cup {NULL}
          BY <4>1, BlockFacts
        <5>2. [size |-> hdr[a].size, is_free |-> hdr[a].is_free,
               next |-> hdr[a].next, prev |-> block] \in Block
          BY <4>2, <5>1, MakeBlock
        <5> QED BY <1>7, <4>1, <5>2
      <4> QED BY <1>7, <3>2, <4>1, <4>3
    <3>3. CASE b # block /\ b # a
      BY <1>4, <1>6, <3>3 DEF ListTyped
    <3> QED BY <3>1, <3>2, <3>3
  <2> QED BY <1>4, <2>1 DEF ListTyped
<1>14. ASSUME NEW b \in Blocks' PROVE
          /\ heap_start <= b /\ End(b)' <= heap_brk
          /\ hdr'[b].next = NULL => End(b)' = heap_brk
          /\ hdr'[b].next # NULL => /\ hdr'[b].next \in Blocks'
                                    /\ hdr'[b].next = End(b)'
                                    /\ hdr'[hdr'[b].next].prev = b
  <2>1. b \in Blocks /\ b # v
    BY <1>4
  <2>2. CASE b = block
    <3>1. End(b)' = End(v) /\ hdr'[b].next = a
      BY <1>5, <1>10, <2>2
    <3>2. End(v) <= heap_brk /\ heap_start <= b
          /\ (a = NULL => End(v) = heap_brk)
      BY <1>1, <2>1, LinkFacts DEF a
    <3>3. a # NULL => a \in Blocks' /\ a = End(v) /\ hdr'[a].prev = b
      BY <1>2, <1>3, <1>4, <1>7, <2>2
    <3> QED BY <3>1, <3>2, <3>3
  <2>3. CASE b # block
    <3> DEFINE n == hdr[b].next
    <3>1. /\ End(b)' = End(b) /\ hdr'[b].next = n
          /\ heap_start <= b /\ End(b) <= heap_brk
          /\ n = NULL => End(b) = heap_brk
          /\ n # NULL => n \in Blocks /\ n = End(b) /\ hdr[n].prev = b
      BY <1>9, <1>10, <2>1, <2>3, LinkFacts
    <3>2. ASSUME n # NULL PROVE n \in Blocks' /\ hdr'[n].prev = b
      <4>1. n # v /\ n # a
        BY <1>1, <1>2, <2>1, <2>3, <3>1, <3>2
      <4> QED BY <1>4, <1>9, <3>1, <3>2, <4>1
    <3> QED BY <3>1, <3>2
  <2> QED BY <2>2, <2>3
<1>15. ASSUME NEW b \in Blocks' PROVE
          /\ hdr'[b].prev = NULL => b = free_list
          /\ hdr'[b].prev # NULL => /\ hdr'[b].prev \in Blocks'
                                    /\ hdr'[hdr'[b].prev].next = b
  <2>1. b \in Blocks /\ b # v
    BY <1>4
  <2>2. CASE b = a
    <3>1. hdr'[b].prev = block /\ block # NULL
      BY <1>7, <1>8, <2>1, <2>2
    <3> QED BY <1>1, <1>4, <1>5, <2>2, <3>1
  <2>3. CASE b # a
    <3> DEFINE p == hdr[b].prev
    <3>1. /\ hdr'[b].prev = p
          /\ p = NULL => b = free_list
          /\ p # NULL => p \in Blocks /\ hdr[p].next = b
      BY <1>9, <2>1, <2>3, LinkFacts
    <3>2. ASSUME p # NULL PROVE p \in Blocks' /\ hdr'[p].next = b
      <4>1. p # v /\ p # block
        BY <2>1, <2>3, <3>1, <3>2 DEF v, a
      <4> QED BY <1>4, <1>9, <3>1, <3>2, <4>1
    <3> QED BY <3>1, <3>2
  <2> QED BY <2>2, <2>3
<1>16. ASSUME NEW x \in Blocks', NEW y \in Blocks', x < y PROVE End(x)' <= y
  <2>1. x \in Blocks /\ y \in Blocks /\ y # v
    BY <1>4
  <2>2. CASE x = block
    <3>1. v <= y
      BY <1>1, <1>16, <2>1, <2>2, LinkFacts
    <3>2. v < y
      <4>1. v \in Int /\ y \in Int /\ y # v
        BY <1>1, <1>8, <2>1
      <4> QED BY <3>1, <4>1
    <3> QED BY <1>1, <1>10, <2>1, <2>2, <3>2, LinkFacts
  <2>3. CASE x # block
    BY <1>10, <1>16, <2>1, <2>3, LinkFacts
  <2> QED BY <2>2, <2>3
<1>17. free_list \in Blocks' /\ free_list = heap_start
  <2>1. free_list \in Blocks /\ free_list = heap_start /\ heap_start <= block
    BY LinkFacts
  <2>2. free_list # v
    BY <1>1, <1>11, <2>1
  <2> QED BY <1>4, <2>1, <2>2
<1>18. Tiling'
  BY <1>11, <1>14, <1>15, <1>16, <1>17 DEF Tiling
<1> QED BY <1>1, <1>4, <1>5, <1>9, <1>13, <1>18 DEF v, a

\* The list after alloc split the block it takes.
LEMMA SplitList ==
    ASSUME ListTyped, Tiling, HeapInv, UNCHANGED heap, curr \in Blocks,
           size \in Addr, size % 8 = 0,
           hdr[curr].size - size > HEADER_SIZE + 8, hdr' = Split,
           NEW c, c = curr, NEW new, new = curr + HEADER_SIZE + size
    PROVE  /\ ListTyped' /\ Tiling'
           /\ new \notin Blocks /\ new # NULL /\ Blocks' = Blocks \cup {new}
           /\ hdr'[new].is_free /\ hdr'[new].next = hdr[curr].next
           /\ ~hdr'[c].is_free /\ hdr'[c].size = size
           /\ hdr'[c].next = new
           /\ \A b \in Blocks : b # c =>    /\ hdr'[b].is_free = hdr[b].is_free
                                           /\ hdr'[b].size = hdr[b].size
                                           /\ hdr'[b].next = hdr[b].next
<1> DEFINE nx == hdr[c].next
<1>1. /\ c \in Blocks /\ c \in Int /\ c # NULL /\ 0 <= c /\ size \in Nat
      /\ hdr[c].size \in Nat /\ hdr[c].size - size > 24
      /\ new = c + 16 + size /\ new \in Int /\ new # NULL
      /\ End(c) = c + 16 + hdr[c].size /\ End(c) \in Int
      /\ c < new /\ new < End(c)
  <2>1. /\ c \in Blocks /\ c \in Int /\ c # NULL /\ 0 <= c
        /\ hdr[c].size \in Nat /\ End(c) = c + 16 + hdr[c].size
    BY BlockFacts
  <2>2. size \in Nat /\ hdr[c].size - size > 24 /\ new = c + 16 + size
    BY ConstFacts
  <2>3. new \in Int /\ new # NULL
    BY <2>1, <2>2, ConstFacts
  <2> QED BY <2>1, <2>2, <2>3
<1>2. new \notin Blocks
  <2>1. new \in Blocks => End(c) <= new
    BY <1>1, LinkFacts
  <2> QED BY <1>1, <2>1
<1>3. nx # NULL => /\ nx \in Blocks /\ nx = End(c) /\ hdr[nx].prev = c
                   /\ nx \in Int /\ nx # c /\ nx # new
  BY <1>1, LinkFacts
<1>4. nx # c /\ nx # new
  BY <1>1, <1>3
<1>5. /\ Blocks' = Blocks \cup {new}
      /\ hdr' = [b \in Blocks' |-> hdr'[b]]
      /\ \A b \in Blocks \cup {new} : hdr'[b] =
            IF b = new THEN [size |-> hdr[c].size - size - HEADER_SIZE,
                             is_free |-> TRUE, next |-> nx, prev |-> c]
            ELSE IF b = c THEN [hdr[c] EXCEPT !.size = size, !.next = new,
                                              !.is_free = FALSE]
            ELSE IF b = nx THEN [hdr[b] EXCEPT !.prev = new] ELSE hdr[b]
  <2> DEFINE upd(b) ==
            CASE b = new -> [size |-> hdr[c].size - size - HEADER_SIZE,
                             is_free |-> TRUE, next |-> nx, prev |-> c]
              [] b = c -> [hdr[c] EXCEPT !.size = size, !.next = new,
                                         !.is_free = FALSE]
              [] b = nx -> [hdr[b] EXCEPT !.prev = new]
              [] OTHER -> hdr[b]
  <2>1. hdr' = [b \in Blocks \cup {new} |-> upd(b)]
    BY DEF Split, Blocks
  <2>2. c # new
    BY <1>1
  <2>3. \A b : upd(b) =
            IF b = new THEN [size |-> hdr[c].size - size - HEADER_SIZE,
                             is_free |-> TRUE, next |-> nx, prev |-> c]
            ELSE IF b = c THEN [hdr[c] EXCEPT !.size = size, !.next = new,
                                              !.is_free = FALSE]
            ELSE IF b = nx THEN [hdr[b] EXCEPT !.prev = new] ELSE hdr[b]
    BY <1>4, <2>2
  <2> HIDE DEF upd, nx
  <2>4. DOMAIN hdr' = Blocks \cup {new} /\ Blocks' = DOMAIN hdr'
    BY <2>1 DEF Blocks
  <2> QED BY <2>1, <2>3, <2>4
<1>6. hdr'[new] = [size |-> hdr[c].size - size - 16,
                   is_free |-> TRUE, next |-> nx, prev |-> c]
  BY <1>5, ConstFacts
<1>7. hdr'[c] = [size |-> size, is_free |-> FALSE,
                 next |-> new, prev |-> hdr[c].prev]
  <2>1. hdr'[c] = [hdr[c] EXCEPT !.size = size, !.next = new,
                                 !.is_free = FALSE]
    <3>1. c # new /\ c \in Blocks
      BY <1>1
    <3> QED BY <1>5, <3>1
  <2>2. hdr[c] = [size |-> hdr[c].size, is_free |-> hdr[c].is_free,
                  next |-> hdr[c].next, prev |-> hdr[c].prev]
    BY <1>1, BlockFacts
  <2> QED BY <2>1, <2>2
<1>8. nx # NULL => hdr'[nx] = [size |-> hdr[nx].size,
                               is_free |-> hdr[nx].is_free,
                               next |-> hdr[nx].next, prev |-> new]
  <2> SUFFICES ASSUME nx # NULL
               PROVE  hdr'[nx] = [size |-> hdr[nx].size,
                                  is_free |-> hdr[nx].is_free,
                                  next |-> hdr[nx].next, prev |-> new]
    OBVIOUS
  <2>1. hdr'[nx] = [hdr[nx] EXCEPT !.prev = new]
    BY <1>3, <1>5
  <2>2. hdr[nx] = [size |-> hdr[nx].size, is_free |-> hdr[nx].is_free,
                   next |-> hdr[nx].next, prev |-> hdr[nx].prev]
    BY <1>3, BlockFacts
  <2> QED BY <2>1, <2>2
<1>9. \A b \in Blocks : b # c /\ b # nx => hdr'[b] = hdr[b]
  BY <1>2, <1>5
<1> HIDE DEF nx
<1>10. \A b \in Blocks : b \in Int /\ hdr[b].size \in Nat /\ b # NULL
  BY BlockFacts
<1>11. \A b \in Blocks : /\ b # c => /\ hdr'[b].is_free = hdr[b].is_free
                                      /\ hdr'[b].next = hdr[b].next
                                      /\ hdr'[b].size = hdr[b].size
                         /\ b # nx => hdr'[b].prev = hdr[b].prev
  <2> SUFFICES ASSUME NEW b \in Blocks
               PROVE  /\ b # c => /\ hdr'[b].is_free = hdr[b].is_free
                                  /\ hdr'[b].next = hdr[b].next
                                  /\ hdr'[b].size = hdr[b].size
                      /\ b # nx => hdr'[b].prev = hdr[b].prev
    OBVIOUS
  <2>1. b # NULL
    BY <1>10
  <2>2. CASE b = c
    BY <1>7, <2>2
  <2>3. CASE b = nx
    BY <1>4, <1>8, <2>1, <2>3
  <2>4. CASE b # c /\ b # nx
    BY <1>9, <2>4
  <2> QED BY <2>2, <2>3, <2>4
<1>12. /\ End(new)' = End(c) /\ End(c)' = new
       /\ \A b \in Blocks : b # c => End(b)' = End(b)
  <2>1. End(new)' = new + 16 + hdr'[new].size
    BY ConstFacts DEF End
  <2>2. End(c)' = c + 16 + hdr'[c].size
    BY ConstFacts DEF End
  <2>3. End(new)' = End(c)
    BY <1>1, <1>6, <2>1
  <2>4. End(c)' = new
    BY <1>1, <1>7, <2>2
  <2> QED BY <1>11, <2>3, <2>4 DEF End
<1>13. /\ heap_start \in Int /\ heap_brk \in Int /\ heap_brk < W
       /\ heap_start <= c /\ End(c) <= heap_brk
       /\ UNCHANGED <<heap_start, heap_brk, free_list>>
  BY <1>1, ConstFacts, LinkFacts DEF HeapInv, heap
<1>14. ListTyped'
  <2>1. new \in Addr /\ new % 8 = 0 /\ c \in Addr
    <3>1. c % 8 = 0
      BY <1>1 DEF ListTyped
    <3>2. new % 8 = 0
      <4>1. c \in Int /\ size \in Int /\ size % 8 = 0 /\ new = c + 16 + size
        BY <1>1
      <4>2. (c + 16 + size) % 8 = 0
        BY <3>1, <4>1, Mod8
      <4> QED BY <4>1, <4>2
    <3> QED BY <1>1, <1>13, <3>2, ConstFacts
  <2>2. nx \in Addr \cup {NULL} /\ hdr[c].prev \in Addr \cup {NULL}
        /\ hdr[c].size \in Addr /\ hdr[c].size % 8 = 0
    BY <1>1, BlockFacts DEF nx, ListTyped
  <2>3. hdr'[new] \in Block /\ hdr'[new].size % 8 = 0
    <3>1. hdr[c].size - size - 16 \in Addr
      BY <1>1, <2>2, ConstFacts
    <3>2. (hdr[c].size - size - 16) % 8 = 0
      <4>1. hdr[c].size \in Int /\ size \in Int /\ size % 8 = 0
        BY <1>1
      <4> QED BY <2>2, <4>1, Mod8
    <3>3. [size |-> hdr[c].size - size - 16, is_free |-> TRUE,
           next |-> nx, prev |-> c] \in Block
      BY <2>1, <2>2, <3>1, MakeBlock
    <3> QED BY <1>6, <3>2, <3>3
  <2>4. hdr'[c] \in Block /\ hdr'[c].size % 8 = 0
    <3>1. [size |-> size, is_free |-> FALSE,
           next |-> new, prev |-> hdr[c].prev] \in Block
      BY <2>1, <2>2, MakeBlock
    <3> QED BY <1>7, <3>1
  <2>5. nx # NULL => hdr'[nx] \in Block /\ hdr'[nx].size % 8 = 0
    <3> SUFFICES ASSUME nx # NULL
                 PROVE  hdr'[nx] \in Block /\ hdr'[nx].size % 8 = 0
      OBVIOUS
    <3>1. /\ hdr[nx].size \in Addr /\ hdr[nx].is_free \in BOOLEAN
          /\ hdr[nx].next \in Addr \cup {NULL} /\ hdr[nx].size % 8 = 0
      BY <1>3, BlockFacts DEF ListTyped
    <3>2. [size |-> hdr[nx].size, is_free |-> hdr[nx].is_free,
           next |-> hdr[nx].next, prev |-> new] \in Block
      BY <2>1, <3>1, MakeBlock
    <3> QED BY <1>8, <3>1, <3>2
  <2>6. \A b \in Blocks' : hdr'[b] \in Block /\ hdr'[b].size % 8 = 0
    <3> SUFFICES ASSUME NEW b \in Blocks'
                 PROVE  hdr'[b] \in Block /\ hdr'[b].size % 8 = 0
      OBVIOUS
    <3>1. CASE b = new
      BY <2>3, <3>1
    <3>2. CASE b = c
      BY <2>4, <3>2
    <3>3. CASE b # new /\ b = nx
      BY <1>5, <1>10, <2>5, <3>3
    <3>4. CASE b # new /\ b # c /\ b # nx
      BY <1>5, <1>9, <3>4 DEF ListTyped
    <3> QED BY <3>1, <3>2, <3>3, <3>4
  <2> QED BY <1>5, <2>1, <2>6 DEF ListTyped
<1>15. ASSUME NEW b \in Blocks' PROVE
          /\ heap_start <= b /\ End(b)' <= heap_brk
          /\ hdr'[b].next = NULL => End(b)' = heap_brk
          /\ hdr'[b].next # NULL => /\ hdr'[b].next \in Blocks'
                                    /\ hdr'[b].next = End(b)'
                                    /\ hdr'[hdr'[b].next].prev = b
  <2>1. CASE b = new
    <3>1. hdr'[b].next = nx /\ End(b)' = End(c) /\ heap_start <= b
      BY <1>1, <1>6, <1>12, <1>13, <2>1
    <3>2. nx = NULL => End(c) = heap_brk
      BY <1>1, LinkFacts DEF nx
    <3>3. nx # NULL => nx \in Blocks' /\ nx = End(c) /\ hdr'[nx].prev = b
      BY <1>3, <1>5, <1>8, <2>1
    <3> QED BY <1>13, <3>1, <3>2, <3>3
  <2>2. CASE b = c
    <3>1. hdr'[b].next = new /\ End(b)' = new /\ hdr'[new].prev = b
      BY <1>6, <1>7, <1>12, <2>2
    <3> QED BY <1>1, <1>5, <1>13, <2>2, <3>1
  <2>3. CASE b # new /\ b # c
    <3> DEFINE n == hdr[b].next
    <3>0. b \in Blocks
      BY <1>5, <2>3
    <3>1. /\ End(b)' = End(b) /\ hdr'[b].next = n
          /\ heap_start <= b /\ End(b) <= heap_brk
          /\ n = NULL => End(b) = heap_brk
          /\ n # NULL => n \in Blocks /\ n = End(b) /\ hdr[n].prev = b
      BY <1>11, <1>12, <2>3, <3>0, LinkFacts
    <3>2. ASSUME n # NULL PROVE n \in Blocks' /\ hdr'[n].prev = b
      <4>1. n # nx
        BY <1>3, <2>3, <3>1, <3>2
      <4> QED BY <1>5, <1>11, <3>1, <3>2, <4>1
    <3> QED BY <3>1, <3>2
  <2> QED BY <2>1, <2>2, <2>3
<1>16. ASSUME NEW b \in Blocks' PROVE
          /\ hdr'[b].prev = NULL => b = free_list
          /\ hdr'[b].prev # NULL => /\ hdr'[b].prev \in Blocks'
                                    /\ hdr'[hdr'[b].prev].next = b
  <2>1. CASE b = new
    BY <1>1, <1>5, <1>6, <1>7, <2>1
  <2>2. CASE b # new /\ b = nx
    <3>1. hdr'[b].prev = new /\ hdr'[new].next = b
      BY <1>5, <1>6, <1>8, <1>10, <2>2
    <3> QED BY <1>1, <1>5, <3>1
  <2>3. CASE b # new /\ b # nx
    <3> DEFINE p == hdr[b].prev
    <3>0. b \in Blocks
      BY <1>5, <2>3
    <3>1. /\ hdr'[b].prev = p
          /\ p = NULL => b = free_list
          /\ p # NULL => p \in Blocks /\ hdr[p].next = b
      BY <1>11, <2>3, <3>0, LinkFacts
    <3>2. ASSUME p # NULL PROVE p \in Blocks' /\ hdr'[p].next = b
      <4>1. p # c
        BY <2>3, <3>1, <3>2 DEF nx
      <4> QED BY <1>5, <1>11, <3>1, <3>2, <4>1
    <3> QED BY <3>1, <3>2
  <2> QED BY <2>1, <2>2, <2>3
<1>17. ASSUME NEW x \in Blocks', NEW y \in Blocks', x < y PROVE End(x)' <= y
  <2>0. x \in Int /\ y \in Int
    BY <1>1, <1>5, <1>10
  <2>1. CASE x = new
    <3>1. y \in Blocks /\ c < y
      BY <1>1, <1>5, <1>17, <2>0, <2>1
    <3>2. End(c) <= y
      BY <1>1, <3>1, LinkFacts
    <3> QED BY <1>12, <2>1, <3>2
  <2>2. CASE x = c
    <3>1. CASE y = new
      BY <1>1, <1>12, <2>2, <3>1
    <3>2. CASE y # new
      <4>1. End(c) <= y
        BY <1>5, <1>17, <2>2, <3>2, LinkFacts
      <4> QED BY <1>1, <1>12, <2>0, <2>2, <4>1
    <3> QED BY <3>1, <3>2
  <2>3. CASE x # new /\ x # c
    <3>0. x \in Blocks /\ End(x)' = End(x) /\ End(x) \in Int
      BY <1>5, <1>12, <2>3, BlockFacts
    <3>1. CASE y = new
      <4>1. x < c
        <5>1. c < x => End(c) <= x
          BY <1>1, <3>0, LinkFacts
        <5> QED BY <1>1, <1>17, <2>0, <2>3, <3>1, <5>1
      <4>2. End(x) <= c
        BY <1>1, <3>0, <4>1, LinkFacts
      <4> QED BY <1>1, <3>0, <3>1, <4>2
    <3>2. CASE y # new
      BY <1>5, <1>17, <3>0, <3>2, LinkFacts
    <3> QED BY <3>1, <3>2
  <2> QED BY <2>1, <2>2, <2>3
<1>18. free_list \in Blocks' /\ free_list = heap_start
  BY <1>1, <1>5, LinkFacts
<1>19. Tiling'
  BY <1>13, <1>15, <1>16, <1>17, <1>18 DEF Tiling
<1> QED BY <1>1, <1>2, <1>5, <1>6, <1>7, <1>11, <1>14, <1>19 DEF nx

-----------------------------------------------------------------------------
(* The inductive invariant *)

LEMMA TypeSplit == TypeOK <=> ListTyped /\ RestTyped
  BY DEF TypeOK, ListTyped, RestTyped

LEMMA TypeSplitNext == TypeOK' <=> ListTyped' /\ RestTyped'
  BY DEF TypeOK, ListTyped, RestTyped

LEMMA IInvInit == Init => IInv
<1> SUFFICES ASSUME Init PROVE IInv
  OBVIOUS
<1>1. hdr = [b \in {} |-> NULL] /\ Blocks = {}
  BY DEF Init, Blocks
<1>2. ListTyped
  BY <1>1 DEF ListTyped
<1>3. 0 \in Addr
  BY ConstFacts
<1>4. RestTyped
  BY <1>1, <1>3 DEF Init, RestTyped, Answer
<1>5. Tiling /\ HeapInv /\ LiveInv /\ NeighbourInv /\ WalkInv
  BY <1>1 DEF Init, Tiling, HeapInv, LiveInv, NeighbourInv, WalkInv,
              BlockHoldsRequest
<1> QED BY <1>2, <1>4, <1>5, TypeSplit DEF IInv

\* Steps that leave the list and the pieces alone keep what is said of them.
LEMMA SameList ==
    ASSUME IInv, UNCHANGED <<heap, hdr, live>>
    PROVE  /\ ListTyped' /\ Tiling' /\ LiveInv' /\ Blocks' = Blocks
           /\ heap_start' \in Addr /\ heap_brk' \in Addr
           /\ free_list' \in Addr \cup {NULL}
           /\ \A q \in live' : q \in [ptr : Addr, size : Addr]
           /\ pc' # "boot" => HeapInv'
<1>1. UNCHANGED <<heap_start, heap_brk, free_list, hdr, live>>
  BY DEF heap
<1>2. Blocks' = Blocks
  BY <1>1 DEF Blocks
<1>3. \A b : End(b)' = End(b)
  BY <1>1 DEF End
<1>4. ListTyped' /\ Tiling'
  BY <1>1, <1>2, <1>3, TypeSplit DEF IInv, ListTyped, Tiling
<1>5. LiveInv'
  BY <1>1, <1>2 DEF IInv, LiveInv, BlockHoldsRequest
<1>6. pc' # "boot" => HeapInv'
  BY <1>1, <1>2 DEF IInv, HeapInv
<1> QED BY <1>1, <1>2, <1>4, <1>5, <1>6, TypeSplit DEF IInv, RestTyped

\* The same for a step after which no call is merging or walking.
LEMMA QuietStep ==
    ASSUME IInv, UNCHANGED <<heap, hdr, live>>, pc # "merge_next",
           RestTyped', pc' \in {"idle", "search", "stats"}, WalkInv'
    PROVE  IInv'
<1>1. ListTyped' /\ Tiling' /\ LiveInv' /\ HeapInv' /\ Blocks' = Blocks
  BY SameList
<1>2. NeighbourInv'
  BY <1>1 DEF IInv, NeighbourInv
<1> QED BY <1>1, <1>2, TypeSplitNext DEF IInv

LEMMA InitStepKeeps == IInv /\ heap_first_fit_init => IInv'
<1> SUFFICES ASSUME IInv, heap_first_fit_init PROVE IInv'
  OBVIOUS
<1>1. pc' = "idle" /\ heap_start' = START /\ heap_brk' = START + SIZE
      /\ free_list' = START /\ UNCHANGED <<req, size, curr, stats, live, ret>>
      /\ pc = "boot" /\ Blocks = {}
  BY DEF heap_first_fit_init, IInv, HeapInv
<1>2. /\ hdr' = [b \in {START} |-> hdr'[b]] /\ Blocks' = {START}
      /\ hdr'[START] = [size |-> SIZE - 16, is_free |-> TRUE,
                        next |-> NULL, prev |-> NULL]
  BY ConstFacts DEF heap_first_fit_init, Blocks
<1>3. /\ START \in Addr /\ START + SIZE \in Addr /\ SIZE - 16 \in Addr
      /\ (SIZE - 16) % 8 = 0 /\ START % 8 = 0
  BY ConstFacts, Mod8
<1>4. ListTyped'
  <2>1. [size |-> SIZE - 16, is_free |-> TRUE,
         next |-> NULL, prev |-> NULL] \in Block
    BY <1>3, MakeBlock
  <2>2. hdr'[START] \in Block /\ hdr'[START].size % 8 = 0
    BY <1>2, <1>3, <2>1
  <2>3. \A b \in Blocks' : b = START
    BY <1>2
  <2>4. \A b \in Blocks' : /\ hdr'[b] \in Block
                           /\ b % 8 = 0 /\ hdr'[b].size % 8 = 0
    BY <1>3, <2>2, <2>3
  <2>5. hdr' = [b \in Blocks' |-> hdr'[b]] /\ Blocks' \subseteq Addr
    BY <1>2, <1>3
  <2> QED BY <2>4, <2>5 DEF ListTyped
<1>5. curr = NULL
  BY <1>1, TypeSplit DEF IInv, RestTyped
<1>6. RestTyped'
  BY <1>1, <1>3, <1>5, TypeSplit DEF IInv, RestTyped
<1>7. End(START)' = START + SIZE
  BY <1>2, ConstFacts DEF End
<1>8. Tiling'
  BY <1>1, <1>2, <1>7, ConstFacts DEF Tiling
<1>9. live = {}
  BY <1>1 DEF IInv, LiveInv
<1>10. HeapInv' /\ LiveInv' /\ NeighbourInv' /\ WalkInv'
  BY <1>1, <1>2, <1>9 DEF HeapInv, LiveInv, NeighbourInv, WalkInv,
                          BlockHoldsRequest
<1> QED BY <1>4, <1>6, <1>8, <1>10, TypeSplitNext DEF IInv

LEMMA FailStepKeeps == IInv /\ kmalloc_init_fails => IInv'
<1> SUFFICES ASSUME IInv, kmalloc_init_fails PROVE IInv'
  OBVIOUS
<1>1. /\ pc = "boot" /\ pc' = "idle"
      /\ UNCHANGED <<heap, hdr, live, req, size, curr, stats, ret>>
  BY DEF kmalloc_init_fails
<1>2. RestTyped'
  BY <1>1, SameList, TypeSplit DEF IInv, RestTyped
<1>3. WalkInv'
  BY <1>1 DEF WalkInv
<1> QED BY <1>1, <1>2, <1>3, QuietStep

LEMMA AllocKeeps == IInv /\ (\E n \in Request : Alloc(n)) => IInv'
<1> SUFFICES ASSUME IInv, NEW n \in Request, Alloc(n) PROVE IInv'
  OBVIOUS
<1>1. /\ pc = "idle" /\ pc' = "search" /\ req' = n /\ size' = ALIGN8(n)
      /\ curr' = free_list /\ stats' = NULL
      /\ UNCHANGED <<heap, hdr, live, ret>>
  BY DEF Alloc
<1>2. n \in Addr /\ ALIGN8(n) \in Addr /\ ALIGN8(n) % 8 = 0
  BY ConstFacts, AlignFacts
<1>3. free_list \in Blocks \cup {NULL} /\ Blocks' = Blocks
  BY <1>1, SameList DEF IInv, Tiling
<1>4. RestTyped'
  BY <1>1, <1>2, <1>3, SameList, TypeSplit DEF IInv, RestTyped
<1>5. curr' = NULL => Blocks = {}
  <2>1. Blocks # {} => free_list \in Blocks
    BY DEF IInv, Tiling
  <2>2. free_list \in Blocks => free_list # NULL
    BY BlockFacts, TypeSplit DEF IInv
  <2> QED BY <1>1, <2>1, <2>2
<1>6. \A b \in Blocks : ~(b < curr')
  <2> SUFFICES ASSUME NEW b \in Blocks PROVE ~(b < curr')
    OBVIOUS
  <2>1. free_list = heap_start /\ heap_start <= b /\ b \in Int
        /\ free_list \in Blocks
    BY LinkFacts, BlockFacts, TypeSplit DEF IInv
  <2>2. free_list \in Int
    BY <2>1, BlockFacts, TypeSplit DEF IInv
  <2> QED BY <1>1, <2>1, <2>2
<1>7. WalkInv'
  BY <1>1, <1>3, <1>5, <1>6 DEF WalkInv, ALIGN8
<1> QED BY <1>1, <1>4, <1>7, QuietStep

\* Walking on from curr passes no block but curr.
LEMMA WalkOn ==
    ASSUME IInv, curr \in Blocks, NEW b \in Blocks,
           hdr[curr].next = NULL \/ b < hdr[curr].next
    PROVE  b < curr \/ b = curr
<1>1. b \in Int /\ End(b) \in Int /\ b < End(b)
      /\ curr \in Int /\ End(curr) \in Int
  BY BlockFacts, TypeSplit DEF IInv
<1>2. curr < b => End(curr) <= b
  BY LinkFacts, TypeSplit DEF IInv
<1>3. CASE hdr[curr].next = NULL
  <2>1. End(curr) = heap_brk /\ End(b) <= heap_brk
    BY <1>3, LinkFacts, TypeSplit DEF IInv
  <2> QED BY <1>1, <1>2, <2>1
<1>4. CASE hdr[curr].next # NULL
  <2>1. hdr[curr].next = End(curr)
    BY <1>4, LinkFacts, TypeSplit DEF IInv
  <2> QED BY <1>1, <1>2, <1>4, <2>1
<1> QED BY <1>3, <1>4

LEMMA AllocSkipKeeps == IInv /\ AllocSkip => IInv'
<1> SUFFICES ASSUME IInv, AllocSkip PROVE IInv'
  OBVIOUS
<1>1. /\ pc = "search" /\ pc' = "search" /\ curr # NULL /\ ~Fits(curr)
      /\ curr' = hdr[curr].next
      /\ UNCHANGED <<heap, hdr, live, req, size, stats, ret>>
  BY DEF AllocSkip
<1>2. curr \in Blocks /\ Blocks' = Blocks
  BY <1>1, SameList, TypeSplit DEF IInv, RestTyped
<1>3. curr' \in Blocks \cup {NULL}
  BY <1>1, <1>2, LinkFacts, TypeSplit DEF IInv
<1>4. RestTyped'
  BY <1>1, <1>2, <1>3, SameList, TypeSplit DEF IInv, RestTyped
<1>5. \A b \in Blocks : curr' = NULL \/ b < curr' => ~Fits(b)
  BY <1>1, <1>2, WalkOn DEF IInv, WalkInv
<1>6. \A b : Fits(b)' <=> Fits(b)
  BY <1>1 DEF Fits
<1>7. WalkInv'
  BY <1>1, <1>2, <1>5, <1>6 DEF IInv, WalkInv, ALIGN8
<1> QED BY <1>1, <1>4, <1>7, QuietStep

LEMMA AllocNoneKeeps == IInv /\ AllocNone => IInv'
<1> SUFFICES ASSUME IInv, AllocNone PROVE IInv'
  OBVIOUS
<1>1. /\ pc = "search" /\ pc' = "idle" /\ req' = 0 /\ size' = 0
      /\ ret' = Answer("alloc", req, NULL)
      /\ UNCHANGED <<heap, hdr, live, curr, stats>>
  BY DEF AllocNone
<1>2. RestTyped'
  BY <1>1, SameList, TypeSplit, ConstFacts DEF IInv, RestTyped, Answer
<1>3. WalkInv'
  BY <1>1 DEF WalkInv
<1> QED BY <1>1, <1>2, <1>3, QuietStep

LEMMA FreeIgnoredKeeps ==
    IInv /\ (\E p \in Stray \cup {NULL} : FreeIgnored(p)) => IInv'
<1> SUFFICES ASSUME IInv, NEW p \in Stray \cup {NULL}, FreeIgnored(p)
             PROVE  IInv'
  OBVIOUS
<1>1. /\ pc = "idle" /\ pc' = "idle" /\ ret' = Answer("free", 0, p)
      /\ stats' = NULL
      /\ UNCHANGED <<heap, hdr, live, req, size, curr>>
  BY DEF FreeIgnored
<1>2. p \in Addr \cup {NULL} /\ 0 \in Addr
  BY HeapAssumption, ConstFacts
<1>3. RestTyped'
  BY <1>1, <1>2, SameList, TypeSplit DEF IInv, RestTyped, Answer
<1>4. WalkInv'
  BY <1>1 DEF WalkInv
<1> QED BY <1>1, <1>3, <1>4, QuietStep

\* The two ways to take a block: what becomes of the list.
LEMMA TakenList ==
    ASSUME IInv, AllocTake, NEW c, c = curr
    PROVE  /\ c \in Blocks /\ hdr[c].is_free /\ hdr[c].size >= size
           /\ ListTyped' /\ Tiling' /\ Blocks \subseteq Blocks'
           /\ ~hdr'[c].is_free /\ hdr'[c].size >= size
           /\ \A b \in Blocks : b # c => /\ hdr'[b].is_free = hdr[b].is_free
                                        /\ hdr'[b].size = hdr[b].size
                                        /\ hdr'[b].next = hdr[b].next
           /\ \/ Blocks' = Blocks /\ hdr'[c].next = hdr[c].next
              \/ \E new : /\ new \notin Blocks /\ new # NULL
                          /\ Blocks' = Blocks \cup {new}
                          /\ hdr'[new].is_free
                          /\ hdr'[new].next = hdr[c].next
                          /\ hdr'[c].next = new
<1>1. /\ c \in Blocks /\ hdr[c].is_free /\ hdr[c].size >= size
      /\ UNCHANGED heap /\ size \in Addr /\ size % 8 = 0 /\ size \in Int
  BY TypeSplit, ConstFacts DEF AllocTake, Fits, IInv, RestTyped
<1>2. ListTyped /\ Tiling /\ HeapInv
  BY TypeSplit DEF IInv
<1>3. CASE hdr[curr].size - size > HEADER_SIZE + 8
  <2>1. hdr' = Split
    BY <1>3 DEF AllocTake
  <2> DEFINE n == c + HEADER_SIZE + size
  <2>2. PICK new : new = n
    OBVIOUS
  <2>3. new = curr + HEADER_SIZE + size
    BY <2>2
  <2> HIDE DEF n
  <2>4. /\ ListTyped' /\ Tiling'
        /\ new \notin Blocks /\ new # NULL /\ Blocks' = Blocks \cup {new}
        /\ hdr'[new].is_free /\ hdr'[new].next = hdr[curr].next
        /\ ~hdr'[c].is_free /\ hdr'[c].size = size
        /\ hdr'[c].next = new
        /\ \A b \in Blocks : b # c => /\ hdr'[b].is_free = hdr[b].is_free
                                     /\ hdr'[b].size = hdr[b].size
                                     /\ hdr'[b].next = hdr[b].next
    BY <1>1, <1>2, <1>3, <2>1, <2>3, SplitList
  <2> QED BY <1>1, <2>4
<1>4. CASE ~(hdr[curr].size - size > HEADER_SIZE + 8)
  <2>1. hdr' = [hdr EXCEPT ![c].is_free = FALSE]
    BY <1>4 DEF AllocTake
  <2>2. /\ ListTyped' /\ Tiling' /\ Blocks' = Blocks
        /\ hdr'[c].is_free = FALSE
        /\ \A b \in Blocks : /\ hdr'[b].size = hdr[b].size
                             /\ hdr'[b].next = hdr[b].next
                             /\ hdr'[b].prev = hdr[b].prev
                             /\ b # c => hdr'[b].is_free = hdr[b].is_free
    BY <1>1, <1>2, <2>1, MarkList
  <2> QED BY <1>1, <2>2
<1> QED BY <1>3, <1>4

LEMMA AllocTakeKeeps == IInv /\ AllocTake => IInv'
<1> SUFFICES ASSUME IInv, AllocTake PROVE IInv'
  OBVIOUS
<1>1. PICK c : c = curr
  OBVIOUS
<1>2. /\ c \in Blocks /\ hdr[c].is_free /\ hdr[c].size >= size
      /\ ListTyped' /\ Tiling' /\ Blocks \subseteq Blocks'
      /\ ~hdr'[c].is_free /\ hdr'[c].size >= size
      /\ \A b \in Blocks : b # c => /\ hdr'[b].is_free = hdr[b].is_free
                                   /\ hdr'[b].size = hdr[b].size
                                   /\ hdr'[b].next = hdr[b].next
      /\ \/ Blocks' = Blocks /\ hdr'[c].next = hdr[c].next
         \/ \E new : /\ new \notin Blocks /\ new # NULL
                     /\ Blocks' = Blocks \cup {new}
                     /\ hdr'[new].is_free
                     /\ hdr'[new].next = hdr[c].next
                     /\ hdr'[c].next = new
  BY <1>1, TakenList
<1>3. /\ pc = "search" /\ pc' = "idle" /\ curr' = NULL
      /\ live' = live \cup {Piece(c + 16, req)}
      /\ ret' = Answer("alloc", req, c + 16)
      /\ req' = 0 /\ size' = 0
      /\ UNCHANGED <<heap_start, heap_brk, free_list, stats>>
  BY <1>1, ConstFacts DEF AllocTake, heap
<1>4. c \in Addr /\ c \in Int /\ c + 16 \in Addr
  <2>1. /\ c \in Addr /\ c \in Int /\ End(c) <= heap_brk
        /\ End(c) = c + 16 + hdr[c].size /\ hdr[c].size \in Nat /\ 0 <= c
    BY <1>2, BlockFacts, LinkFacts, TypeSplit DEF IInv
  <2>2. heap_brk < W /\ heap_brk \in Int
    BY <1>2, ConstFacts DEF IInv, HeapInv
  <2> QED BY <2>1, <2>2, ConstFacts
<1>5. RestTyped'
  <2>1. req \in Addr /\ 0 \in Addr
    BY TypeSplit, ConstFacts DEF IInv, RestTyped
  <2>2. Piece(c + 16, req) \in [ptr : Addr, size : Addr]
    BY <1>4, <2>1 DEF Piece
  <2> QED BY <1>3, <1>4, <2>1, <2>2, TypeSplit DEF IInv, RestTyped, Answer
<1>6. HeapInv'
  BY <1>2, <1>3 DEF IInv, HeapInv
<1>7. \A q \in live : /\ q.ptr - HEADER_SIZE \in Blocks
                      /\ q.ptr - HEADER_SIZE # c
                      /\ ~hdr[q.ptr - HEADER_SIZE].is_free
  BY <1>2 DEF IInv, LiveInv
<1>8. Piece(c + 16, req).ptr = c + 16 /\ Piece(c + 16, req).size = req
  BY DEF Piece
<1>9. LiveInv'
  <2>1. \A q \in live' : /\ q.ptr - HEADER_SIZE \in Blocks'
                         /\ ~hdr'[q.ptr - HEADER_SIZE].is_free
    <3> SUFFICES ASSUME NEW q \in live'
                 PROVE  /\ q.ptr - HEADER_SIZE \in Blocks'
                        /\ ~hdr'[q.ptr - HEADER_SIZE].is_free
      OBVIOUS
    <3>1. CASE q \in live
      BY <1>2, <1>7, <3>1
    <3>2. CASE q = Piece(c + 16, req)
      <4>1. q.ptr - HEADER_SIZE = c
        BY <1>4, <1>8, <3>2, ConstFacts
      <4> QED BY <1>2, <4>1
    <3> QED BY <1>3, <3>1, <3>2
  <2>2. \A q, r \in live' : q.ptr = r.ptr => q = r
    <3>1. \A q \in live : q.ptr # c + 16
      BY <1>4, <1>7, ConstFacts
    <3>2. \A q, r \in live : q.ptr = r.ptr => q = r
      BY DEF IInv, LiveInv
    <3> QED BY <1>3, <1>8, <3>1, <3>2
  <2>3. \A b \in Blocks' : ~hdr'[b].is_free
                             => \E q \in live' : q.ptr = b + HEADER_SIZE
    <3>1. Piece(c + 16, req) \in live' /\ c + 16 = c + HEADER_SIZE
      BY <1>3, ConstFacts
    <3>2. \A b \in Blocks : ~hdr[b].is_free
                              => \E q \in live : q.ptr = b + HEADER_SIZE
      BY DEF IInv, LiveInv
    <3>3. \A b \in Blocks' : ~hdr'[b].is_free => b \in Blocks
      BY <1>2
    <3> QED BY <1>2, <1>3, <1>8, <3>1, <3>2, <3>3
  <2>4. NoWrap => BlockHoldsRequest'
    <3> SUFFICES ASSUME NoWrap, NEW q \in live'
                 PROVE  hdr'[q.ptr - HEADER_SIZE].size >= q.size
      BY DEF BlockHoldsRequest
    <3>1. CASE q \in live
      BY <1>2, <1>7, <3>1 DEF IInv, LiveInv, BlockHoldsRequest
    <3>2. CASE q = Piece(c + 16, req)
      <4>1. req \in Request /\ size = ALIGN8(req) /\ req \in Addr
        BY <1>3, ConstFacts DEF IInv, WalkInv
      <4>2. req <= size
        BY <4>1, AlignFacts DEF NoWrap
      <4>3. hdr'[c].size \in Int /\ req \in Int /\ size \in Int
        BY <1>2, <4>1, AlignFacts, ConstFacts DEF ListTyped, Block
      <4>4. q.ptr - HEADER_SIZE = c /\ q.size = req
        BY <1>4, <1>8, <3>2, ConstFacts
      <4>5. hdr'[c].size >= req
        BY <1>2, <4>2, <4>3
      <4> QED BY <4>4, <4>5
    <3> QED BY <1>3, <3>1, <3>2
  <2> QED BY <2>1, <2>2, <2>3, <2>4 DEF LiveInv, NoWrap
<1>10. NeighbourInv'
  <2>1. \A b \in Blocks : hdr[b].is_free /\ hdr[b].next # NULL
                            => ~hdr[hdr[b].next].is_free
    BY <1>3 DEF IInv, NeighbourInv
  <2>2. \A b \in Blocks : hdr[b].next # NULL => hdr[b].next \in Blocks
    BY LinkFacts, TypeSplit DEF IInv
  <2>3. c # NULL
    BY <1>2, BlockFacts, TypeSplit DEF IInv
  <2>4. CASE Blocks' = Blocks /\ hdr'[c].next = hdr[c].next
    <3>1. ASSUME NEW b \in Blocks, hdr'[b].is_free, hdr'[b].next # NULL
          PROVE  ~hdr'[hdr'[b].next].is_free
      <4>1. b # c /\ hdr[b].is_free /\ hdr'[b].next = hdr[b].next
        BY <1>2, <3>1
      <4> QED BY <1>2, <2>1, <2>2, <3>1, <4>1
    <3> QED BY <1>3, <2>4, <3>1 DEF NeighbourInv
  <2>5. ASSUME NEW new, new \notin Blocks, new # NULL,
               Blocks' = Blocks \cup {new}, hdr'[new].is_free,
               hdr'[new].next = hdr[c].next, hdr'[c].next = new
        PROVE  NeighbourInv'
    <3>1. ASSUME NEW b \in Blocks', hdr'[b].is_free, hdr'[b].next # NULL
          PROVE  ~hdr'[hdr'[b].next].is_free
      <4>1. CASE b = new
        BY <1>2, <2>1, <2>2, <2>5, <3>1, <4>1
      <4>2. CASE b # new
        <5>1. b \in Blocks /\ b # c /\ hdr[b].is_free
              /\ hdr'[b].next = hdr[b].next
          BY <1>2, <2>5, <3>1, <4>2
        <5> QED BY <1>2, <2>1, <2>2, <3>1, <5>1
      <4> QED BY <4>1, <4>2
    <3> QED BY <1>3, <3>1 DEF NeighbourInv
  <2> QED BY <1>2, <2>4, <2>5
<1>11. WalkInv'
  BY <1>3 DEF WalkInv
<1> QED BY <1>2, <1>5, <1>6, <1>9, <1>10, <1>11, TypeSplitNext DEF IInv

LEMMA FreeKeeps == IInv /\ (\E q \in live : Free(q)) => IInv'
<1> SUFFICES ASSUME IInv, NEW q \in live, Free(q) PROVE IInv'
  OBVIOUS
<1>1. PICK c : c = q.ptr - HEADER_SIZE
  OBVIOUS
<1>2. /\ c \in Blocks /\ ~hdr[c].is_free /\ c \in Int /\ c \in Addr
      /\ c = q.ptr - 16 /\ q.ptr \in Addr /\ q.ptr \in Int /\ 0 <= c
      /\ q.ptr = c + 16 /\ q \in [ptr : Addr, size : Addr]
  <2>1. c \in Blocks /\ ~hdr[c].is_free /\ q \in [ptr : Addr, size : Addr]
    BY <1>1, TypeSplit DEF IInv, LiveInv, RestTyped
  <2>2. q.ptr \in Addr /\ q.ptr \in Int /\ c = q.ptr - 16
    BY <1>1, <2>1, ConstFacts
  <2>3. c \in Int /\ c \in Addr /\ 0 <= c
    BY <2>1, BlockFacts, TypeSplit DEF IInv
  <2> QED BY <2>1, <2>2, <2>3
<1>3. HeaderOf(q.ptr) = c
  <2>1. c \in Nat /\ W \in Nat /\ c < W
    BY <1>2, ConstFacts
  <2>2. c % W = c
    BY <2>1, ModSmall
  <2> QED BY <1>2, <2>2, ConstFacts DEF HeaderOf
<1>4. /\ pc = "idle" /\ pc' = "merge_next" /\ curr' = c
      /\ hdr' = [hdr EXCEPT ![c].is_free = TRUE]
      /\ live' = live \ {q} /\ ret' = Answer("free", 0, q.ptr)
      /\ stats' = NULL /\ UNCHANGED <<heap, req, size>>
  BY <1>3 DEF Free
<1>5. /\ ListTyped' /\ Tiling' /\ Blocks' = Blocks
      /\ hdr'[c].is_free = TRUE
      /\ \A b \in Blocks : /\ hdr'[b].size = hdr[b].size
                           /\ hdr'[b].next = hdr[b].next
                           /\ hdr'[b].prev = hdr[b].prev
                           /\ b # c => hdr'[b].is_free = hdr[b].is_free
  BY <1>2, <1>4, MarkList, TypeSplit DEF IInv
<1>6. UNCHANGED <<heap_start, heap_brk, free_list>>
  BY <1>4 DEF heap
<1>7. RestTyped'
  BY <1>2, <1>4, <1>5, <1>6, TypeSplit, ConstFacts DEF IInv, RestTyped, Answer
<1>8. HeapInv'
  BY <1>4, <1>5, <1>6 DEF IInv, HeapInv
<1>9. \A r \in live' : r \in live /\ r.ptr # q.ptr /\ r.ptr - HEADER_SIZE # c
  <2>1. \A r \in live' : r \in live /\ r.ptr # q.ptr
    BY <1>4 DEF IInv, LiveInv
  <2>2. \A r \in live : r.ptr \in Int
    BY TypeSplit, ConstFacts DEF IInv, RestTyped
  <2> QED BY <1>2, <2>1, <2>2, ConstFacts
<1>10. LiveInv'
  <2>1. \A r \in live' : /\ r.ptr - HEADER_SIZE \in Blocks'
                         /\ ~hdr'[r.ptr - HEADER_SIZE].is_free
    BY <1>5, <1>9 DEF IInv, LiveInv
  <2>2. \A q1, r \in live' : q1.ptr = r.ptr => q1 = r
    BY <1>9 DEF IInv, LiveInv
  <2>3. \A b \in Blocks' : ~hdr'[b].is_free
                             => \E r \in live' : r.ptr = b + HEADER_SIZE
    <3> SUFFICES ASSUME NEW b \in Blocks, ~hdr'[b].is_free
                 PROVE  \E r \in live' : r.ptr = b + HEADER_SIZE
      BY <1>5
    <3>1. b # c /\ ~hdr[b].is_free /\ b \in Int
      BY <1>5, BlockFacts, TypeSplit DEF IInv
    <3>2. PICK r \in live : r.ptr = b + HEADER_SIZE
      BY <3>1 DEF IInv, LiveInv
    <3>3. r # q
      BY <1>2, <3>1, <3>2, ConstFacts
    <3> QED BY <1>4, <3>2, <3>3
  <2>4. NoWrap => BlockHoldsRequest'
    BY <1>5, <1>9 DEF IInv, LiveInv, BlockHoldsRequest
  <2> QED BY <2>1, <2>2, <2>3, <2>4 DEF LiveInv, NoWrap
<1>11. NeighbourInv'
  <2>1. \A b \in Blocks : hdr[b].is_free /\ hdr[b].next # NULL
                            => ~hdr[hdr[b].next].is_free
    BY <1>4 DEF IInv, NeighbourInv
  <2>2. \A b \in Blocks : hdr[b].next # NULL => hdr[b].next \in Blocks
    BY LinkFacts, TypeSplit DEF IInv
  <2>3. \A b \in Blocks :
           b # c /\ hdr'[b].is_free /\ hdr'[b].next # NULL /\ hdr'[b].next # c
             => ~hdr'[hdr'[b].next].is_free
    <3> SUFFICES ASSUME NEW b \in Blocks, b # c, hdr'[b].is_free,
                        hdr'[b].next # NULL, hdr'[b].next # c
                 PROVE  ~hdr'[hdr'[b].next].is_free
      OBVIOUS
    <3>1. hdr[b].is_free /\ hdr'[b].next = hdr[b].next
      BY <1>5
    <3> QED BY <1>5, <2>1, <2>2, <3>1
  <2>4. pc' = "merge_next" /\ curr' \in Blocks' /\ hdr'[curr'].is_free
    BY <1>2, <1>4, <1>5
  <2>5. \A b \in Blocks' :
           b # curr' /\ hdr'[b].is_free /\ hdr'[b].next # NULL /\ hdr'[b].next # curr'
             => ~hdr'[hdr'[b].next].is_free
    BY <1>4, <1>5, <2>3
  <2> QED BY <2>4, <2>5 DEF NeighbourInv
<1>12. WalkInv'
  BY <1>4 DEF WalkInv
<1> QED BY <1>5, <1>7, <1>8, <1>10, <1>11, <1>12, TypeSplitNext DEF IInv

\* A merge swallows a free block, so no piece.
LEMMA MergeKeepsPieces ==
    ASSUME IInv, UNCHANGED <<heap, live>>, NEW block \in Blocks,
           hdr[block].next # NULL, hdr[block].is_free,
           hdr[hdr[block].next].is_free,
           hdr' = merge_with_next(block), pc' # "boot"
    PROVE  /\ ListTyped' /\ Tiling' /\ HeapInv' /\ LiveInv'
           /\ UNCHANGED <<heap_start, heap_brk, free_list>>
           /\ Blocks' = Blocks \ {hdr[block].next}
           /\ hdr[block].next # block /\ block \in Blocks'
           /\ hdr'[block].next = hdr[hdr[block].next].next
           /\ \A b \in Blocks' : /\ hdr'[b].is_free = hdr[b].is_free
                                 /\ b # block => hdr'[b].next = hdr[b].next
<1>1. /\ ListTyped' /\ Tiling'
      /\ Blocks' = Blocks \ {hdr[block].next}
      /\ hdr[block].next # block
      /\ hdr'[block].next = hdr[hdr[block].next].next
      /\ \A b \in Blocks' : /\ hdr'[b].is_free = hdr[b].is_free
                            /\ hdr'[b].size >= hdr[b].size
                            /\ b # block => hdr'[b].next = hdr[b].next
  BY MergeList, TypeSplit DEF IInv
<1>2. UNCHANGED <<heap_start, heap_brk, free_list, live>>
  BY DEF heap
<1>3. HeapInv'
  BY <1>1, <1>2 DEF IInv, HeapInv
<1>4. \A q \in live : /\ q.ptr - HEADER_SIZE \in Blocks'
                      /\ ~hdr'[q.ptr - HEADER_SIZE].is_free
  BY <1>1 DEF IInv, LiveInv
<1>5. NoWrap => BlockHoldsRequest'
  <2> SUFFICES ASSUME NoWrap, NEW q \in live
               PROVE  hdr'[q.ptr - HEADER_SIZE].size >= q.size
    BY <1>2 DEF BlockHoldsRequest
  <2> DEFINE b == q.ptr - HEADER_SIZE
  <2>1. b \in Blocks' /\ b \in Blocks
    BY <1>1, <1>4
  <2>2. hdr'[b].size >= hdr[b].size /\ hdr[b].size >= q.size
    BY <1>1, <2>1 DEF IInv, LiveInv, BlockHoldsRequest
  <2>3. hdr'[b].size \in Int /\ hdr[b].size \in Int
    <3>1. hdr'[b] \in Block /\ hdr[b] \in Block
      BY <1>1, <2>1, TypeSplit DEF IInv, ListTyped
    <3> QED BY <3>1, ConstFacts DEF Block
  <2>4. q.size \in Int
    BY TypeSplit, ConstFacts DEF IInv, RestTyped
  <2> HIDE DEF b
  <2>5. hdr'[b].size >= q.size
    BY <2>2, <2>3, <2>4
  <2> QED BY <2>5 DEF b
<1>6. LiveInv'
  BY <1>1, <1>2, <1>4, <1>5 DEF IInv, LiveInv, NoWrap
<1> QED BY <1>1, <1>2, <1>3, <1>6

LEMMA FreeMergeNextKeeps == IInv /\ FreeMergeNext => IInv'
<1> SUFFICES ASSUME IInv, FreeMergeNext PROVE IInv'
  OBVIOUS
<1>1. PICK c : c = curr
  OBVIOUS
<1>2. /\ pc = "merge_next" /\ pc' = "merge_next" /\ curr' = c
      /\ hdr' = merge_with_next(c)
      /\ hdr[c].next # NULL /\ hdr[hdr[c].next].is_free
      /\ UNCHANGED <<heap, live, req, size, stats, ret>>
  BY <1>1 DEF FreeMergeNext, MergesNext
<1>3. c \in Blocks /\ hdr[c].is_free
  BY <1>1, <1>2 DEF IInv, NeighbourInv
<1>4. /\ ListTyped' /\ Tiling' /\ HeapInv' /\ LiveInv'
      /\ UNCHANGED <<heap_start, heap_brk, free_list>>
      /\ Blocks' = Blocks \ {hdr[c].next}
      /\ hdr[c].next # c /\ c \in Blocks'
      /\ hdr'[c].next = hdr[hdr[c].next].next
      /\ \A b \in Blocks' : /\ hdr'[b].is_free = hdr[b].is_free
                            /\ b # c => hdr'[b].next = hdr[b].next
  BY <1>2, <1>3, MergeKeepsPieces
<1>5. RestTyped'
  BY <1>2, <1>4, TypeSplit DEF IInv, RestTyped
<1>6. NeighbourInv'
  <2>1. \A b \in Blocks' :
           b # c /\ hdr'[b].is_free /\ hdr'[b].next # NULL /\ hdr'[b].next # c
             => ~hdr'[hdr'[b].next].is_free
    <3> SUFFICES ASSUME NEW b \in Blocks', b # c, hdr'[b].is_free,
                        hdr'[b].next # NULL, hdr'[b].next # c
                 PROVE  ~hdr'[hdr'[b].next].is_free
      OBVIOUS
    <3>1. b \in Blocks /\ hdr[b].is_free /\ hdr'[b].next = hdr[b].next
      BY <1>4
    <3>2. ~hdr[hdr[b].next].is_free
      BY <1>1, <1>2, <3>1 DEF IInv, NeighbourInv
    <3>3. hdr'[b].next \in Blocks'
      BY <1>4 DEF Tiling
    <3> QED BY <1>4, <3>1, <3>2, <3>3
  <2>2. pc' = "merge_next" /\ curr' \in Blocks' /\ hdr'[curr'].is_free
    BY <1>2, <1>3, <1>4
  <2>3. \A b \in Blocks' :
           b # curr' /\ hdr'[b].is_free /\ hdr'[b].next # NULL /\ hdr'[b].next # curr'
             => ~hdr'[hdr'[b].next].is_free
    BY <1>2, <2>1
  <2> QED BY <2>2, <2>3 DEF NeighbourInv
<1>7. WalkInv'
  BY <1>2 DEF WalkInv
<1> QED BY <1>4, <1>5, <1>6, <1>7, TypeSplitNext DEF IInv

LEMMA FreeMergePrevKeeps == IInv /\ FreeMergePrev => IInv'
<1> SUFFICES ASSUME IInv, FreeMergePrev PROVE IInv'
  OBVIOUS
<1>1. PICK c : c = curr
  OBVIOUS
<1>2. PICK p : p = hdr[c].prev
  OBVIOUS
<1>3. /\ pc = "merge_next" /\ pc' = "idle" /\ curr' = NULL
      /\ ~(hdr[c].next # NULL /\ hdr[hdr[c].next].is_free)
      /\ UNCHANGED <<heap, live, req, size, stats, ret>>
  BY <1>1 DEF FreeMergePrev, MergesNext
<1>4. /\ c \in Blocks /\ hdr[c].is_free
      /\ \A b \in Blocks : b # c /\ hdr[b].is_free /\ hdr[b].next # NULL
                             /\ hdr[b].next # c => ~hdr[hdr[b].next].is_free
  BY <1>1, <1>3 DEF IInv, NeighbourInv
<1>5. \A b \in Blocks : /\ hdr[b].next # NULL => /\ hdr[b].next \in Blocks
                                                /\ hdr[hdr[b].next].prev = b
                        /\ b # NULL
  BY LinkFacts, BlockFacts, TypeSplit DEF IInv
<1>6. CASE p # NULL /\ hdr[p].is_free
  <2>1. p \in Blocks /\ hdr[p].next = c /\ hdr[p].next # NULL
    BY <1>2, <1>4, <1>5, <1>6, LinkFacts, TypeSplit DEF IInv
  <2>2. hdr' = merge_with_next(p)
    BY <1>1, <1>2, <1>6 DEF FreeMergePrev, MergesPrev
  <2>3. UNCHANGED <<heap, live>> /\ pc' # "boot" /\ hdr[hdr[p].next].is_free
    BY <1>3, <1>4, <2>1
  <2>4. /\ ListTyped' /\ Tiling' /\ HeapInv' /\ LiveInv'
        /\ UNCHANGED <<heap_start, heap_brk, free_list>>
        /\ Blocks' = Blocks \ {c} /\ c # p
        /\ hdr'[p].next = hdr[c].next
        /\ \A b \in Blocks' : /\ hdr'[b].is_free = hdr[b].is_free
                              /\ b # p => hdr'[b].next = hdr[b].next
    BY <1>6, <2>1, <2>2, <2>3, MergeKeepsPieces
  <2>5. RestTyped'
    BY <1>3, <2>4, TypeSplit DEF IInv, RestTyped
  <2>6. ASSUME NEW b \in Blocks', hdr'[b].is_free, hdr'[b].next # NULL
        PROVE  ~hdr'[hdr'[b].next].is_free
    <3>1. hdr'[b].next \in Blocks'
      BY <2>4, <2>6 DEF Tiling
    <3>2. CASE b = p
      BY <1>3, <2>4, <2>6, <3>1, <3>2
    <3>3. CASE b # p
      <4>1. b \in Blocks /\ b # c /\ hdr[b].is_free /\ hdr'[b].next = hdr[b].next
        BY <2>4, <2>6, <3>3
      <4>2. hdr[b].next # c
        BY <1>2, <1>5, <2>6, <3>3, <4>1
      <4> QED BY <1>4, <2>4, <2>6, <3>1, <4>1, <4>2
    <3> QED BY <3>2, <3>3
  <2>7. NeighbourInv'
    BY <1>3, <2>6 DEF NeighbourInv
  <2>8. WalkInv'
    BY <1>3 DEF WalkInv
  <2> QED BY <2>4, <2>5, <2>7, <2>8, TypeSplitNext DEF IInv
<1>7. CASE ~(p # NULL /\ hdr[p].is_free)
  <2>1. hdr' = hdr
    BY <1>1, <1>2, <1>7 DEF FreeMergePrev, MergesPrev
  <2>2. /\ ListTyped' /\ Tiling' /\ LiveInv' /\ Blocks' = Blocks
        /\ heap_start' \in Addr /\ heap_brk' \in Addr
        /\ free_list' \in Addr \cup {NULL}
        /\ \A q \in live' : q \in [ptr : Addr, size : Addr]
        /\ HeapInv'
    BY <1>3, <2>1, SameList
  <2>3. RestTyped'
    BY <1>3, <2>2, TypeSplit DEF IInv, RestTyped
  <2>4. ASSUME NEW b \in Blocks, hdr[b].is_free, hdr[b].next # NULL
        PROVE  ~hdr[hdr[b].next].is_free
    <3>1. CASE b = c
      BY <1>3, <2>4, <3>1
    <3>2. CASE b # c
      <4>1. hdr[b].next # c
        BY <1>2, <1>5, <1>7, <2>4
      <4> QED BY <1>4, <2>4, <3>2, <4>1
    <3> QED BY <3>1, <3>2
  <2>5. NeighbourInv'
    BY <1>3, <2>1, <2>2, <2>4 DEF NeighbourInv
  <2>6. WalkInv'
    BY <1>3 DEF WalkInv
  <2> QED BY <2>2, <2>3, <2>5, <2>6, TypeSplitNext DEF IInv
<1> QED BY <1>6, <1>7

LEMMA StatsKeeps == IInv /\ (StatsStart \/ StatsStep \/ StatsReturn) => IInv'
<1> SUFFICES ASSUME IInv, StatsStart \/ StatsStep \/ StatsReturn PROVE IInv'
  OBVIOUS
<1>1. CASE StatsStart
  <2>1. /\ pc = "idle" /\ pc' = "stats" /\ curr' = free_list
        /\ stats' = [heap_size |-> heap_brk - heap_start, used_bytes |-> 0,
                     free_bytes |-> 0, alloc_count |-> 0, free_count |-> 0]
        /\ UNCHANGED <<heap, hdr, live, req, size, ret>>
    BY <1>1 DEF StatsStart
  <2>2. heap_brk - heap_start \in Nat
    BY ConstFacts DEF IInv, HeapInv
  <2>3. stats' \in Stats
    BY <2>1, <2>2 DEF Stats
  <2>4. free_list \in Blocks \cup {NULL} /\ Blocks' = Blocks
    BY <2>1, SameList DEF IInv, Tiling
  <2>5. RestTyped'
    BY <2>1, <2>3, <2>4, SameList, TypeSplit DEF IInv, RestTyped
  <2>6. WalkInv'
    BY <2>1, <2>3 DEF WalkInv
  <2> QED BY <2>1, <2>5, <2>6, QuietStep
<1>2. CASE StatsStep
  <2>1. /\ pc = "stats" /\ pc' = "stats" /\ curr # NULL
        /\ curr' = hdr[curr].next /\ stats' = CountBlock(hdr[curr])
        /\ UNCHANGED <<heap, hdr, live, req, size, ret>>
    BY <1>2 DEF StatsStep
  <2>2. curr \in Blocks /\ Blocks' = Blocks /\ stats \in Stats
    BY <2>1, SameList, TypeSplit DEF IInv, RestTyped, WalkInv
  <2>3. curr' \in Blocks \cup {NULL}
    BY <2>1, <2>2, LinkFacts, TypeSplit DEF IInv
  <2>4. stats' \in Stats
    <3>1. hdr[curr].size \in Nat /\ HEADER_SIZE = 16
      BY <2>2, BlockFacts, TypeSplit, ConstFacts DEF IInv
    <3>2. /\ stats.heap_size \in Nat /\ stats.used_bytes \in Nat
          /\ stats.free_bytes \in Nat /\ stats.alloc_count \in Nat
          /\ stats.free_count \in Nat
      BY <2>2 DEF Stats
    <3>3. CASE hdr[curr].is_free
      <4>1. stats' = [stats EXCEPT !.free_bytes = @ + hdr[curr].size,
                                   !.free_count = @ + 1]
        BY <2>1, <3>3 DEF CountBlock
      <4>2. /\ stats.free_bytes + hdr[curr].size \in Nat
            /\ stats.free_count + 1 \in Nat
        BY <3>1, <3>2
      <4> QED BY <2>2, <4>1, <4>2 DEF Stats
    <3>4. CASE ~hdr[curr].is_free
      <4>1. stats' = [stats EXCEPT !.used_bytes = @ + hdr[curr].size + 16,
                                   !.alloc_count = @ + 1]
        BY <2>1, <3>1, <3>4 DEF CountBlock
      <4>2. /\ stats.used_bytes + hdr[curr].size + 16 \in Nat
            /\ stats.alloc_count + 1 \in Nat
        BY <3>1, <3>2
      <4> QED BY <2>2, <4>1, <4>2 DEF Stats
    <3> QED BY <3>3, <3>4
  <2>5. RestTyped'
    BY <2>1, <2>2, <2>3, <2>4, SameList, TypeSplit DEF IInv, RestTyped
  <2>6. WalkInv'
    BY <2>1, <2>4 DEF WalkInv
  <2> QED BY <2>1, <2>5, <2>6, QuietStep
<1>3. CASE StatsReturn
  <2>1. /\ pc = "stats" /\ pc' = "idle"
        /\ UNCHANGED <<heap, hdr, live, req, size, curr, stats, ret>>
    BY <1>3 DEF StatsReturn
  <2>2. RestTyped'
    BY <2>1, SameList, TypeSplit DEF IInv, RestTyped
  <2>3. WalkInv'
    BY <2>1 DEF WalkInv
  <2> QED BY <2>1, <2>2, <2>3, QuietStep
<1> QED BY <1>1, <1>2, <1>3

LEMMA IInvNext == IInv /\ [Next]_vars => IInv'
<1> SUFFICES ASSUME IInv, [Next]_vars PROVE IInv'
  OBVIOUS
<1>1. CASE UNCHANGED vars
  <2>1. UNCHANGED <<heap_start, heap_brk, free_list, hdr, pc, req, size, curr,
                    stats, live, ret>>
    BY <1>1 DEF vars
  <2> QED BY <2>1 DEF IInv, TypeOK, Tiling, HeapInv, LiveInv, NeighbourInv,
             WalkInv, Blocks, End, Fits, ALIGN8, BlockHoldsRequest, NoWrap
<1>2. CASE Next
  BY <1>2, InitStepKeeps, FailStepKeeps, AllocKeeps, AllocSkipKeeps,
     AllocTakeKeeps, AllocNoneKeeps, FreeIgnoredKeeps, FreeKeeps,
     FreeMergeNextKeeps, FreeMergePrevKeeps, StatsKeeps DEF Next
<1> QED BY <1>1, <1>2

LEMMA Invariance == Spec => []IInv
  BY IInvInit, IInvNext, PTL DEF Spec

-----------------------------------------------------------------------------
(* The statistics *)

\* The address up to which heap_first_fit_stats has counted, and the pieces
\* whose blocks it has passed.
Reached == IF curr = NULL THEN heap_brk ELSE curr
Passed(at) == {q \in live : q.ptr - HEADER_SIZE < at}

\* The statistics are those of the blocks passed so far; they are cleared
\* before the list changes.
StatsInv ==
    /\ pc = "idle" => curr = NULL
    /\ pc \notin {"idle", "stats"} => stats = NULL
    /\ pc = "stats" \/ stats # NULL =>
          /\ stats.heap_size = heap_brk - heap_start
          /\ stats.used_bytes + stats.free_bytes + HEADER_SIZE * stats.free_count
                = Reached - heap_start
          /\ stats.alloc_count = Cardinality(Passed(Reached))

\* There are finitely many pieces, at most one for each block.
LEMMA LiveFinite ==
    ASSUME IInv
    PROVE  /\ IsFiniteSet(live)
           /\ \A S : S \subseteq live => IsFiniteSet(S) /\ Cardinality(S) \in Nat
<1> DEFINE m == [q \in live |-> q.ptr]
<1>1. IsFiniteSet(Addr)
  BY FS_Interval, ConstFacts DEF Addr
<1>2. m \in Injection(live, Addr)
  <2>1. \A q \in live : q.ptr \in Addr
    BY DEF IInv, TypeOK
  <2>2. \A q, r \in live : q.ptr = r.ptr => q = r
    BY DEF IInv, LiveInv
  <2>3. m \in [live -> Addr]
    BY <2>1
  <2> QED BY <2>2, <2>3 DEF Injection, IsInjective
<1>3. IsFiniteSet(live)
  BY <1>1, <1>2, FS_Injection
<1> QED BY <1>3, FS_Subset, FS_CardinalityType

\* A piece is that of its block, and begins behind the start of the heap.
LEMMA PieceFacts ==
    ASSUME IInv, NEW q \in live
    PROVE  /\ q.ptr \in Int /\ q.ptr - 16 \in Blocks /\ ~hdr[q.ptr - 16].is_free
           /\ heap_start <= q.ptr - 16 /\ q.ptr - 16 < heap_brk
           /\ heap_start \in Int /\ heap_brk \in Int
<1> DEFINE b == q.ptr - 16
<1>1. q.ptr \in Addr /\ heap_start \in Addr /\ heap_brk \in Addr
  BY DEF IInv, TypeOK
<1>2. b \in Blocks /\ ~hdr[b].is_free
  BY ConstFacts DEF IInv, LiveInv
<1> HIDE DEF b
<1>3. heap_start <= b /\ End(b) <= heap_brk /\ b < End(b) /\ End(b) \in Int /\ b \in Int
  BY <1>2, LinkFacts, BlockFacts, TypeSplit DEF IInv
<1>4. b < heap_brk
  BY <1>1, <1>3, ConstFacts
<1> QED BY <1>1, <1>2, <1>3, <1>4, ConstFacts DEF b

\* Nothing is counted yet, or the call is not one of stats.
LEMMA StatsCleared ==
    ASSUME stats' = NULL, pc' # "stats", pc' = "idle" => curr' = NULL
    PROVE  StatsInv'
  BY DEF StatsInv

\* The bytes of one more block, free or in use, of n bytes at c.
BytesAdd(u, f, k, c, n, lo, at) ==
    u + f + 16 * k = c - lo /\ at = c + 16 + n =>
       /\ u + (f + n) + 16 * (k + 1) = at - lo
       /\ (u + n + 16) + f + 16 * k = at - lo

LEMMA BytesAddUp ==
    \A u, f, k, n \in Nat : \A c, lo, at \in Int : BytesAdd(u, f, k, c, n, lo, at)
  BY DEF BytesAdd

\* What there is to show of the statistics while the walk is on.
LEMMA StatsAt ==
    ASSUME NEW at, pc' = "stats", Reached' = at,
           stats'.heap_size = heap_brk' - heap_start',
           stats'.used_bytes + stats'.free_bytes + 16 * stats'.free_count = at - heap_start',
           stats'.alloc_count = Cardinality(Passed(at)')
    PROVE  StatsInv'
<1>1. Passed(Reached)' = Passed(at)'
  BY DEF Passed
<1> QED BY <1>1, ConstFacts DEF StatsInv

\* The walk begins at the first block.
LEMMA StatsStartKeeps ==
    ASSUME IInv, StatsStart
    PROVE  StatsInv'
<1>1. /\ pc' = "stats" /\ curr' = free_list
      /\ stats' = [heap_size |-> heap_brk - heap_start, used_bytes |-> 0,
                   free_bytes |-> 0, alloc_count |-> 0, free_count |-> 0]
      /\ UNCHANGED <<heap, hdr, live>>
  BY DEF StatsStart
<1>2. UNCHANGED <<heap_start, heap_brk>>
  BY <1>1 DEF heap
<1>3. heap_start \in Int /\ Reached' = heap_start
  <2>1. heap_start \in Int
    BY ConstFacts DEF IInv, HeapInv
  <2>2. CASE Blocks = {}
    <3>1. free_list = NULL /\ heap_brk = heap_start
      BY <2>2 DEF IInv, Tiling
    <3> QED BY <1>1, <1>2, <2>1, <3>1 DEF Reached
  <2>3. CASE Blocks # {}
    <3>1. free_list \in Blocks /\ free_list = heap_start
      BY <2>3 DEF IInv, Tiling
    <3>2. free_list # NULL
      BY <2>1, <3>1, ConstFacts
    <3> QED BY <1>1, <2>1, <3>1, <3>2 DEF Reached
  <2> QED BY <2>1, <2>2, <2>3
<1>4. Passed(Reached)' = {}
  <2>1. \A q \in live : ~(q.ptr - 16 < heap_start)
    BY <1>3, PieceFacts
  <2> QED BY <1>1, <1>3, <2>1, ConstFacts DEF Passed
<1>5. Cardinality(Passed(Reached)') = 0
  BY <1>4, FS_EmptySet
<1>6. Cardinality(Passed(Reached))' = 0
  BY <1>5
<1>7. /\ stats'.heap_size = heap_brk' - heap_start'
      /\ stats'.used_bytes = 0 /\ stats'.free_bytes = 0 /\ stats'.free_count = 0
      /\ stats'.alloc_count = 0
  BY <1>1, <1>2
<1>8. stats'.used_bytes + stats'.free_bytes + HEADER_SIZE * stats'.free_count
         = Reached' - heap_start'
  BY <1>2, <1>3, <1>7, ConstFacts
<1> QED BY <1>1, <1>6, <1>7, <1>8 DEF StatsInv

\* The walk passes one block, and the piece in it if it is in use.
LEMMA StatsStepKeeps ==
    ASSUME IInv, StatsInv, StatsStep
    PROVE  StatsInv'
<1> SUFFICES ASSUME NEW c, c = curr, NEW at, at = End(curr), NEW n, n = hdr[curr].size
             PROVE  StatsInv'
  OBVIOUS
<1>1. /\ pc = "stats" /\ pc' = "stats" /\ c # NULL
      /\ curr' = hdr[c].next /\ stats' = CountBlock(hdr[c])
      /\ UNCHANGED <<heap, hdr, live>>
  BY DEF StatsStep
<1>2. UNCHANGED <<heap_start, heap_brk>>
  BY <1>1 DEF heap
<1>3. c \in Blocks /\ stats \in Stats /\ heap_start \in Int
  BY <1>1, ConstFacts DEF IInv, TypeOK, WalkInv, HeapInv
<1>4. /\ c \in Int /\ n \in Nat /\ at = c + 16 + n /\ at \in Int /\ c < at
      /\ hdr[c].is_free \in BOOLEAN
  BY <1>3, BlockFacts, TypeSplit DEF IInv
<1>5. Reached = c /\ Reached' = at
  <2>1. Reached = c
    BY <1>1 DEF Reached
  <2>2. hdr[c].next = NULL => at = heap_brk
    BY <1>3, LinkFacts, TypeSplit DEF IInv
  <2>3. hdr[c].next # NULL => hdr[c].next = at
    BY <1>3, LinkFacts, TypeSplit DEF IInv
  <2> QED BY <1>1, <1>2, <2>1, <2>2, <2>3 DEF Reached
<1>6. /\ stats.heap_size = heap_brk - heap_start
      /\ stats.used_bytes + stats.free_bytes + 16 * stats.free_count = c - heap_start
      /\ stats.alloc_count = Cardinality(Passed(c))
  BY <1>1, <1>5, ConstFacts DEF StatsInv
<1>7. /\ stats.used_bytes \in Nat /\ stats.free_bytes \in Nat
      /\ stats.alloc_count \in Nat /\ stats.free_count \in Nat
  BY <1>3 DEF Stats
<1>8. \A q \in live : q.ptr - 16 < at <=> (q.ptr - 16 < c \/ q.ptr - 16 = c)
  <2> SUFFICES ASSUME NEW q \in live
               PROVE  q.ptr - 16 < at <=> (q.ptr - 16 < c \/ q.ptr - 16 = c)
    OBVIOUS
  <2> DEFINE b == q.ptr - 16
  <2>1. b \in Blocks
    BY PieceFacts
  <2> HIDE DEF b
  <2>2. b \in Int
    BY <2>1, BlockFacts, TypeSplit DEF IInv
  <2>3. c < b => at <= b
    BY <1>3, <2>1, LinkFacts, TypeSplit DEF IInv
  <2>4. b < at <=> (b < c \/ b = c)
    BY <1>4, <2>2, <2>3
  <2> QED BY <2>4 DEF b
<1>9. Passed(at) = Passed(c) \cup {q \in live : q.ptr - 16 = c}
  BY <1>8, ConstFacts DEF Passed
<1>10. Passed(at)' = Passed(at)
  BY <1>1 DEF Passed
<1>11. /\ Passed(c) \subseteq live /\ IsFiniteSet(Passed(c))
       /\ \A q \in Passed(c) : q.ptr - 16 # c
  <2>1. Passed(c) \subseteq live
    BY DEF Passed
  <2>2. \A q \in Passed(c) : q.ptr - 16 # c
    <3> SUFFICES ASSUME NEW q \in Passed(c) PROVE q.ptr - 16 # c
      OBVIOUS
    <3>1. q.ptr - 16 < c /\ q.ptr \in Int
      BY <2>1, PieceFacts, ConstFacts DEF Passed
    <3> QED BY <1>4, <3>1
  <2> QED BY <2>1, <2>2, LiveFinite
<1>12. /\ stats.used_bytes + (stats.free_bytes + n) + 16 * (stats.free_count + 1)
             = at - heap_start
       /\ (stats.used_bytes + n + 16) + stats.free_bytes + 16 * stats.free_count
             = at - heap_start
  <2>1. BytesAdd(stats.used_bytes, stats.free_bytes, stats.free_count, c, n, heap_start, at)
    BY <1>3, <1>4, <1>7, BytesAddUp
  <2>2. stats.used_bytes + stats.free_bytes + 16 * stats.free_count = c - heap_start
    BY <1>6
  <2>3. at = c + 16 + n
    BY <1>4
  <2> QED BY <2>1, <2>2, <2>3, Zenon DEF BytesAdd
<1>13. CASE hdr[c].is_free
  <2>1. {q \in live : q.ptr - 16 = c} = {}
    BY <1>13, PieceFacts
  <2>2. Passed(at) = Passed(c)
    BY <1>9, <2>1
  <2>3. stats' = [stats EXCEPT !.free_bytes = @ + n, !.free_count = @ + 1]
    BY <1>1, <1>13 DEF CountBlock
  <2>4. /\ stats'.heap_size = stats.heap_size /\ stats'.used_bytes = stats.used_bytes
        /\ stats'.free_bytes = stats.free_bytes + n
        /\ stats'.free_count = stats.free_count + 1
        /\ stats'.alloc_count = stats.alloc_count
    BY <1>3, <2>3 DEF Stats
  <2>5. stats'.used_bytes + stats'.free_bytes + 16 * stats'.free_count = at - heap_start
    BY <1>12, <2>4
  <2>6. stats'.alloc_count = Cardinality(Passed(at))
    BY <1>6, <2>2, <2>4
  <2>7. /\ stats'.heap_size = heap_brk' - heap_start'
        /\ stats'.used_bytes + stats'.free_bytes + 16 * stats'.free_count = at - heap_start'
        /\ stats'.alloc_count = Cardinality(Passed(at)')
    BY <1>2, <1>6, <1>10, <2>4, <2>5, <2>6
  <2> QED BY <1>1, <1>5, <2>7, StatsAt
<1>14. CASE ~hdr[c].is_free
  <2>1. PICK q \in live : q.ptr = c + 16
    BY <1>3, <1>14, ConstFacts DEF IInv, LiveInv
  <2>2. {r \in live : r.ptr - 16 = c} = {q}
    <3>1. q.ptr - 16 = c
      BY <1>4, <2>1
    <3>2. ASSUME NEW r \in live, r.ptr - 16 = c PROVE r = q
      <4>1. r.ptr \in Int
        BY PieceFacts
      <4>2. r.ptr = q.ptr
        BY <1>4, <2>1, <3>2, <4>1
      <4> QED BY <4>2 DEF IInv, LiveInv
    <3> QED BY <3>1, <3>2
  <2>3. Cardinality(Passed(at)) = Cardinality(Passed(c)) + 1
    <3>1. Passed(at) = Passed(c) \cup {q} /\ q \notin Passed(c)
      BY <1>4, <1>9, <1>11, <2>1, <2>2
    <3> QED BY <1>11, <3>1, FS_AddElement
  <2>4. stats' = [stats EXCEPT !.used_bytes = @ + n + 16, !.alloc_count = @ + 1]
    BY <1>1, <1>14, ConstFacts DEF CountBlock
  <2>5. /\ stats'.heap_size = stats.heap_size /\ stats'.free_bytes = stats.free_bytes
        /\ stats'.used_bytes = stats.used_bytes + n + 16
        /\ stats'.free_count = stats.free_count
        /\ stats'.alloc_count = stats.alloc_count + 1
    BY <1>3, <2>4 DEF Stats
  <2>6. stats'.used_bytes + stats'.free_bytes + 16 * stats'.free_count = at - heap_start
    BY <1>12, <2>5
  <2>7. stats'.alloc_count = Cardinality(Passed(at))
    BY <1>6, <2>3, <2>5
  <2>8. /\ stats'.heap_size = heap_brk' - heap_start'
        /\ stats'.used_bytes + stats'.free_bytes + 16 * stats'.free_count = at - heap_start'
        /\ stats'.alloc_count = Cardinality(Passed(at)')
    BY <1>2, <1>6, <1>10, <2>5, <2>6, <2>7
  <2> QED BY <1>1, <1>5, <2>8, StatsAt
<1> QED BY <1>4, <1>13, <1>14

\* The walk is over, and the counts stay what they are.
LEMMA StatsReturnKeeps ==
    ASSUME StatsInv, StatsReturn
    PROVE  StatsInv'
<1>1. /\ pc = "stats" /\ pc' = "idle" /\ curr = NULL
      /\ UNCHANGED <<heap, hdr, live, curr, stats>>
  BY DEF StatsReturn
<1>2. UNCHANGED <<heap_start, heap_brk>>
  BY <1>1 DEF heap
<1> QED BY <1>1, <1>2 DEF StatsInv, Reached, Passed

\* Every step keeps the statistics right, or clears them.
LEMMA StatsInvNext == IInv /\ StatsInv /\ [Next]_vars => StatsInv'
<1> SUFFICES ASSUME IInv, StatsInv, [Next]_vars PROVE StatsInv'
  OBVIOUS
<1>1. CASE heap_first_fit_init \/ kmalloc_init_fails
  <2>1. pc = "boot" /\ pc' = "idle" /\ UNCHANGED <<curr, stats>>
    BY <1>1 DEF heap_first_fit_init, kmalloc_init_fails
  <2>2. curr = NULL
    BY <2>1 DEF IInv, HeapInv, TypeOK
  <2> QED BY <2>1, <2>2, StatsCleared DEF StatsInv
<1>2. CASE \E n \in Request : Alloc(n)
  BY <1>2, StatsCleared DEF Alloc
<1>3. CASE AllocSkip \/ AllocTake \/ AllocNone
  <2>1. pc = "search" /\ pc' \in {"search", "idle"} /\ stats' = stats /\ (pc' = "idle" => curr' = NULL)
    BY <1>3 DEF AllocSkip, AllocTake, AllocNone
  <2> QED BY <2>1, StatsCleared DEF StatsInv
<1>4. CASE \E p \in Stray \cup {NULL} : FreeIgnored(p)
  <2>1. pc = "idle" /\ pc' = "idle" /\ stats' = NULL /\ curr' = curr
    BY <1>4 DEF FreeIgnored
  <2> QED BY <2>1, StatsCleared DEF StatsInv
<1>5. CASE \E q \in live : Free(q)
  BY <1>5, StatsCleared DEF Free
<1>6. CASE FreeMergeNext \/ FreeMergePrev
  <2>1. pc = "merge_next" /\ pc' \in {"merge_next", "idle"} /\ stats' = stats /\ (pc' = "idle" => curr' = NULL)
    BY <1>6 DEF FreeMergeNext, FreeMergePrev
  <2> QED BY <2>1, StatsCleared DEF StatsInv
<1>7. CASE UNCHANGED vars
  <2>1. UNCHANGED <<heap_start, heap_brk, pc, curr, stats, live>>
    BY <1>7 DEF vars, heap
  <2> QED BY <2>1 DEF StatsInv, Reached, Passed
<1> QED BY <1>1, <1>2, <1>3, <1>4, <1>5, <1>6, <1>7, StatsStartKeeps, StatsStepKeeps,
           StatsReturnKeeps DEF Next

-----------------------------------------------------------------------------

\* Headers, cursors and sizes keep their types and their alignment, for
\* every heap (block_header_t, ALIGN8).
THEOREM TypeCorrect == Spec => []TypeOK
<1>1. IInv => TypeOK
  BY DEF IInv
<1> QED BY <1>1, Invariance, PTL

\* The blocks tile the heap at every moment, in the middle of a free's
\* merges as well (heap_first_fit_alloc's split, merge_with_next).
THEOREM AlwaysTiling == Spec => []Tiling
<1>1. IInv => Tiling
  BY DEF IInv
<1> QED BY <1>1, Invariance, PTL

\* No free neighbours between calls, and an unused heap is one block
\* (heap_first_fit_free's two merges).
THEOREM AlwaysCoalesced == Spec => []Coalesced
<1>1. IInv => Coalesced
  <2> SUFFICES ASSUME IInv, pc = "idle"
               PROVE  /\ \A b \in Blocks : hdr[b].is_free /\ hdr[b].next # NULL
                                            => ~hdr[hdr[b].next].is_free
                      /\ live = {} => Cardinality(Blocks) <= 1
    BY DEF Coalesced
  <2>1. \A b \in Blocks : hdr[b].is_free /\ hdr[b].next # NULL
                            => ~hdr[hdr[b].next].is_free
    BY DEF IInv, NeighbourInv
  <2>2. ASSUME live = {} PROVE Cardinality(Blocks) <= 1
    <3>1. \A b \in Blocks : hdr[b].is_free
      BY <2>2 DEF IInv, LiveInv
    <3>2. \A b \in Blocks : hdr[b].next = NULL
      BY <2>1, <3>1, LinkFacts, TypeSplit DEF IInv
    <3>3. ASSUME NEW a \in Blocks, NEW b \in Blocks PROVE a = b
      <4>1. End(a) = heap_brk /\ End(b) = heap_brk
        BY <3>2, LinkFacts, TypeSplit DEF IInv
      <4>2. /\ a \in Int /\ b \in Int /\ End(a) \in Int /\ End(b) \in Int
            /\ a < End(a) /\ b < End(b)
        BY BlockFacts, TypeSplit DEF IInv
      <4>3. ~(a < b) /\ ~(b < a)
        BY <4>1, <4>2, LinkFacts, TypeSplit DEF IInv
      <4> QED BY <4>2, <4>3
    <3>4. CASE Blocks = {}
      BY <3>4, FS_EmptySet
    <3>5. CASE Blocks # {}
      <4>1. PICK a \in Blocks : TRUE
        BY <3>5
      <4>2. Blocks = {a}
        BY <3>3, <4>1
      <4>3. Cardinality({a}) = 1
        BY FS_Singleton
      <4> QED BY <4>2, <4>3
    <3> QED BY <3>4, <3>5
  <2> QED BY <2>1, <2>2
<1> QED BY <1>1, Invariance, PTL

\* alloc takes the first block that is large enough and fails only when there
\* is none (heap_first_fit_alloc's loop).
THEOREM AlwaysFirstFit == Spec => FirstFit
<1> DEFINE Large == {b \in Blocks : hdr[b].is_free /\ hdr[b].size >= size}
<1>1. IInv /\ [Next]_vars =>
        [pc = "search" /\ pc' = "idle" =>
           IF ret'.ptr = NULL
              THEN Large = {}
              ELSE /\ ret'.ptr - HEADER_SIZE \in Large
                   /\ \A b \in Large : ret'.ptr - HEADER_SIZE <= b]_vars
  <2> SUFFICES ASSUME IInv, Next, pc = "search", pc' = "idle"
               PROVE  IF ret'.ptr = NULL
                         THEN Large = {}
                         ELSE /\ ret'.ptr - HEADER_SIZE \in Large
                              /\ \A b \in Large : ret'.ptr - HEADER_SIZE <= b
    OBVIOUS
  <2>1. AllocTake \/ AllocNone
    BY DEF Next, heap_first_fit_init, kmalloc_init_fails, Alloc, AllocSkip,
           FreeIgnored, Free, FreeMergeNext, FreeMergePrev, StatsStart,
           StatsStep, StatsReturn
  <2>2. CASE AllocNone
    <3>1. curr = NULL /\ ret'.ptr = NULL
      BY <2>2 DEF AllocNone, Answer
    <3>2. \A b \in Blocks : ~Fits(b)
      BY <2>2, <3>1 DEF IInv, WalkInv
    <3> QED BY <3>1, <3>2 DEF Fits
  <2>3. CASE AllocTake
    <3>1. curr # NULL /\ Fits(curr) /\ ret'.ptr = curr + 16
      BY <2>3, ConstFacts DEF AllocTake, Answer
    <3>2. curr \in Blocks
      BY <3>1, TypeSplit DEF IInv, RestTyped
    <3>3. curr \in Int /\ \A b \in Blocks : b \in Int
      BY <3>2, BlockFacts, TypeSplit DEF IInv
    <3>4. ret'.ptr - HEADER_SIZE = curr /\ ret'.ptr # NULL
      BY <3>1, <3>3, ConstFacts
    <3>5. curr \in Large
      BY <3>1, <3>2 DEF Fits
    <3>6. \A b \in Large : curr <= b
      BY <2>3, <3>1, <3>3 DEF IInv, WalkInv, Fits
    <3> QED BY <3>4, <3>5, <3>6
  <2> QED BY <2>1, <2>2, <2>3
<1> QED BY <1>1, Invariance, PTL DEF Spec, FirstFit

-----------------------------------------------------------------------------
(* The contract *)

\* What "heap status" shows is right at the end of every walk: one allocation
\* per piece, and bytes that add up to the heap (heap_first_fit_stats).
THEOREM StatsAlwaysAddUp == Spec => []StatsAddUp
<1>1. Init => StatsInv
  BY DEF Init, StatsInv
<1>2. ASSUME IInv, StatsInv PROVE StatsAddUp
  <2> SUFFICES ASSUME pc = "idle", stats # NULL
               PROVE  /\ stats.alloc_count = Cardinality(live)
                      /\ stats.used_bytes + stats.free_bytes
                           + HEADER_SIZE * stats.free_count = stats.heap_size
    BY DEF StatsAddUp
  <2>1. curr = NULL /\ Reached = heap_brk
    BY <1>2 DEF StatsInv, Reached
  <2>2. Passed(heap_brk) = live
    BY <1>2, PieceFacts, ConstFacts DEF Passed
  <2> QED BY <1>2, <2>1, <2>2 DEF StatsInv
<1> QED BY <1>1, <1>2, Invariance, StatsInvNext, PTL DEF Spec

LEMMA RefineStep ==
    ASSUME NoWrap, IInv, [Next]_vars
    PROVE  [ByteAlloc!Next]_(ByteAlloc!vars)
<1>1. CASE UNCHANGED <<live, ret>>
  BY <1>1 DEF ByteAlloc!vars
<1>2. ASSUME NEW p \in Stray \cup {NULL}, FreeIgnored(p)
      PROVE  ByteAlloc!Next
  <2>1. p \in Addr \cup {NULL}
    BY HeapAssumption
  <2>2. \A q \in live : q.ptr # p
    <3> SUFFICES ASSUME NEW q \in live, q.ptr = p PROVE FALSE
      OBVIOUS
    <3>1. PICK c : c = q.ptr - HEADER_SIZE
      OBVIOUS
    <3>2. c \in Blocks /\ q.ptr \in Addr
      BY <3>1, TypeSplit DEF IInv, LiveInv, RestTyped
    <3>3. /\ c \in Addr /\ c \in Int /\ heap_start <= c /\ c < End(c)
          /\ End(c) \in Int /\ End(c) <= heap_brk /\ heap_brk \in Int
      BY <3>2, BlockFacts, LinkFacts, TypeSplit, ConstFacts DEF IInv, RestTyped
    <3>4. HeaderOf(p) = c
      BY <3>1, <3>3, ConstFacts, ModSmall DEF HeaderOf
    <3>5. p # NULL
      BY <3>2, ConstFacts
    <3> QED BY <1>2, <3>3, <3>4, <3>5 DEF FreeIgnored, Frees
  <2>3. ByteAlloc!FreeIgnored(p)
    BY <1>2, <2>2 DEF FreeIgnored, ByteAlloc!FreeIgnored, ByteAlloc!Answer,
                      Answer
  <2> QED BY <2>1, <2>3 DEF ByteAlloc!Next
<1>3. ASSUME NEW q \in live, Free(q) PROVE ByteAlloc!Next
  <2>1. live' = live \ {q} /\ ret' = Answer("free", 0, q.ptr)
    BY <1>3 DEF Free
  <2>2. PICK p : p = q.ptr
    OBVIOUS
  <2>3. p \in Addr
    BY <2>2, TypeSplit DEF IInv, RestTyped
  <2>4. ByteAlloc!Free(p)
    BY <2>1, <2>2 DEF ByteAlloc!Free, ByteAlloc!Answer, Answer
  <2> QED BY <2>3, <2>4 DEF ByteAlloc!Next
<1>4. CASE AllocNone
  <2>1. /\ req \in Request /\ ret' = Answer("alloc", req, NULL)
        /\ UNCHANGED live
    BY <1>4 DEF AllocNone, IInv, WalkInv
  <2>2. PICK n \in Request : n = req
    BY <2>1
  <2>3. ByteAlloc!AllocFails(n)
    BY <2>1, <2>2 DEF ByteAlloc!AllocFails, ByteAlloc!Answer, Answer
  <2> QED BY <2>3 DEF ByteAlloc!Next
<1>5. CASE AllocTake
  <2>1. PICK c : c = curr
    OBVIOUS
  <2>2. PICK n \in Request : n = req
    BY <1>5 DEF AllocTake, IInv, WalkInv
  <2>3. /\ live' = live \cup {Piece(c + 16, n)}
        /\ ret' = Answer("alloc", n, c + 16)
        /\ size = ALIGN8(n)
    BY <1>5, <2>1, <2>2, ConstFacts DEF AllocTake, IInv, WalkInv
  <2>4. c \in Blocks /\ hdr[c].size >= size /\ hdr[c].is_free
    BY <1>5, <2>1, TakenList
  <2>5. /\ c \in Int /\ hdr[c].size \in Nat /\ End(c) = c + 16 + hdr[c].size
        /\ heap_start <= c /\ End(c) <= heap_brk /\ c % 8 = 0
        /\ heap_start = START /\ heap_brk = START + SIZE
    BY <2>4, BlockFacts, LinkFacts, TypeSplit DEF IInv, HeapInv, ListTyped
  <2>6. n \in Nat /\ n <= hdr[c].size
    <3>1. n \in Addr /\ n <= size /\ size \in Int
      BY <2>3, AlignFacts, ConstFacts DEF NoWrap
    <3> QED BY <2>4, <2>5, <3>1, ConstFacts
  <2>7. c + 16 \in Addr /\ c + 16 # NULL /\ (c + 16) % 8 = 0
    <3>1. c + 16 \in Addr /\ c + 16 # NULL
      BY <2>5, ConstFacts
    <3>2. (c + 16) % 8 = 0
      BY <2>5, Mod8
    <3> QED BY <3>1, <3>2
  <2>8. ByteAlloc!Bytes(ByteAlloc!Piece(c + 16, n)) = c + 16 .. c + 16 + n - 1
    BY DEF ByteAlloc!Bytes, ByteAlloc!Piece
  <2>9. c + 16 .. c + 16 + n - 1 \subseteq START .. START + SIZE - 1
    BY <2>5, <2>6, ConstFacts
  <2>10. ASSUME NEW q \in live
         PROVE  /\ q.ptr # c + 16
                /\ ByteAlloc!Bytes(q) \cap (c + 16 .. c + 16 + n - 1) = {}
    <3>1. PICK d : d = q.ptr - HEADER_SIZE
      OBVIOUS
    <3>2. /\ d \in Blocks /\ d # c /\ q.ptr \in Int /\ q.size \in Int
          /\ hdr[d].size >= q.size
      BY <2>4, <3>1, TypeSplit, ConstFacts
         DEF IInv, LiveInv, RestTyped, BlockHoldsRequest
    <3>3. /\ d \in Int /\ hdr[d].size \in Nat /\ End(d) = d + 16 + hdr[d].size
      BY <3>2, BlockFacts, TypeSplit DEF IInv
    <3>4. d < c => End(d) <= c
      BY <2>4, <3>2, LinkFacts, TypeSplit DEF IInv
    <3>5. c < d => End(c) <= d
      BY <2>4, <3>2, LinkFacts, TypeSplit DEF IInv
    <3>6. q.ptr = d + 16
      BY <3>1, <3>2, ConstFacts
    <3>7. ByteAlloc!Bytes(q) = d + 16 .. d + 16 + q.size - 1
      BY <3>6 DEF ByteAlloc!Bytes
    <3>8. q.ptr # c + 16
      BY <2>5, <3>2, <3>3, <3>6
    <3>9. CASE d < c
      <4>1. \A x \in d + 16 .. d + 16 + q.size - 1 : x < c
        BY <3>2, <3>3, <3>4, <3>9, <2>5
      <4> QED BY <2>5, <2>6, <3>7, <3>8, <4>1
    <3>10. CASE c < d
      <4>1. \A x \in c + 16 .. c + 16 + n - 1 : x < d
        BY <2>5, <2>6, <3>3, <3>5, <3>10
      <4> QED BY <3>2, <3>3, <3>7, <3>8, <4>1
    <3> QED BY <2>5, <3>2, <3>3, <3>9, <3>10
  <2>11. PICK p : p = c + 16
    OBVIOUS
  <2>12. ByteAlloc!Alloc(n)
    <3>1. /\ p \in (Addr \cup {NULL}) \ {NULL}
          /\ ret' = ByteAlloc!Answer("alloc", n, p)
          /\ p % 8 = 0
          /\ ByteAlloc!Bytes(ByteAlloc!Piece(p, n)) \subseteq START .. START + SIZE - 1
          /\ \A q \in live : /\ q.ptr # p
                              /\ ByteAlloc!Bytes(q)
                                   \cap ByteAlloc!Bytes(ByteAlloc!Piece(p, n)) = {}
          /\ live' = live \cup {ByteAlloc!Piece(p, n)}
      BY <2>3, <2>7, <2>8, <2>9, <2>10, <2>11
         DEF ByteAlloc!Answer, Answer, ByteAlloc!Piece, Piece
    <3> QED BY <3>1 DEF ByteAlloc!Alloc
  <2> QED BY <2>12 DEF ByteAlloc!Next
<1>6. CASE Next
  BY <1>1, <1>2, <1>3, <1>4, <1>5, <1>6
     DEF Next, heap_first_fit_init, kmalloc_init_fails, Alloc, AllocSkip,
         FreeMergeNext, FreeMergePrev, StatsStart, StatsStep, StatsReturn
<1> QED BY <1>1, <1>6 DEF vars

\* Unless a request wraps when it is rounded up, the back end is a byte
\* allocator (heap_ops_t, kmalloc.h).
THEOREM Refinement == ASSUME NoWrap PROVE Spec => ImplementsByteAllocator
<1>1. Init => ByteAlloc!Init
  BY DEF Init, ByteAlloc!Init, Answer, ByteAlloc!Answer
<1>2. IInv /\ [Next]_vars => [ByteAlloc!Next]_(ByteAlloc!vars)
  BY RefineStep
<1> QED BY <1>1, <1>2, Invariance, PTL
        DEF Spec, ImplementsByteAllocator, ByteAlloc!Spec
=============================================================================
