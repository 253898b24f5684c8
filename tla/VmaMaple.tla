------------------------------ MODULE VmaMaple ------------------------------
(***************************************************************************)
(* The "maple tree" back end of the VMA layer (kernel/mm/vma_maple.c), a   *)
(* B+ tree whose leaves hold the areas in order of their start addresses.  *)
(*                                                                         *)
(* A level of the descent, and a level of the propagation of a split, is a *)
(* step.  In a leaf, pivots[i] is the start of slots[i] and is left out;   *)
(* nr_entries is the length of entries.  Nodes leave their free list in    *)
(* the order of the pool and never come back (node_free has no caller),    *)
(* so the list is the number of its first node.                            *)
(*                                                                         *)
(* struct maple_node has MAPLE_MAX_PIVOTS pivots and, behind them,         *)
(* nr_entries and is_leaf.  In the code MAPLE_MAX_PIVOTS is                *)
(* MAPLE_NODE_SLOTS - 1, which is one too few for a full leaf: its last    *)
(* pivot is the word that holds nr_entries and is_leaf.  What becomes of   *)
(* them is modelled by leaf_insert_at and Cleared; with MAPLE_MAX_PIVOTS = *)
(* MAPLE_NODE_SLOTS neither happens and the algorithm can be judged.       *)
(***************************************************************************)
EXTENDS VmaBackEnd, FiniteSetsExt, SequencesExt

CONSTANTS
    MAPLE_NODE_SLOTS,   \* entries of a node (10)
    MAPLE_MAX_PIVOTS,   \* pivots of a node (9)
    MAPLE_MAX_NODES,    \* nodes of the pool (64)
    MAPLE_MAX_VMAS,     \* areas of the pool (256)
    AreaArgs,           \* the areas given to add (bound)
    AddrArgs            \* the addresses given to remove and find (bound)

ASSUME MapleAssumption ==
    /\ MAPLE_NODE_SLOTS \in Nat /\ MAPLE_NODE_SLOTS > 2
    /\ MAPLE_MAX_PIVOTS \in {MAPLE_NODE_SLOTS - 1, MAPLE_NODE_SLOTS}
    /\ MAPLE_MAX_NODES \in Nat \ {0} /\ MAPLE_MAX_VMAS \in Nat
    /\ AreaArgs \subseteq Area /\ AddrArgs \subseteq Addr

SPLIT_MID == MAPLE_NODE_SLOTS \div 2
NULL == -1

VARIABLES
    nodes,          \* g_node_pool
    g_maple_root,
    g_node_free,    \* the first free node; MAPLE_MAX_NODES when there is none
    used,           \* the areas taken from g_vma_pool
    at,             \* the node the descent has reached
    up              \* a split on its way up: child, new_child and split_key

tree == <<nodes, g_maple_root, g_node_free, used, g_count>>
vars == <<tree, call, at, up, ret>>

NoSplit == [child |-> NULL, new_child |-> NULL, split_key |-> 0]

-----------------------------------------------------------------------------
(* The pools *)

\* A node as node_alloc hands it out.
Blank == [leaf |-> FALSE, pivots |-> << >>, entries |-> << >>, parent |-> NULL]

node_pool_init == [n \in 0 .. MAPLE_MAX_NODES - 1 |-> Blank]

NodeLeft == g_node_free < MAPLE_MAX_NODES
node_alloc == g_node_free' = g_node_free + 1

\* As g_count is checked first, this pool is never empty.
vma_alloc(a) == used' = used \cup {a}
vma_free_entry(a) == used' = used \ {a}

-----------------------------------------------------------------------------
(* Nodes *)

First(n, Test(_)) == Min({i \in 1 .. n : Test(i)} \cup {n + 1})

\* Also the position of a new pivot in a parent, which maple_add computes
\* by the same comparison.
internal_find_child(node, addr) ==
    First(Len(node.pivots), LAMBDA i : addr < node.pivots[i])

leaf_find_slot(leaf, start) ==
    First(Len(leaf.entries), LAMBDA i : leaf.entries[i].start >= start)

\* is_leaf and nr_entries are both zero.  The areas, if any, would be
\* followed as nodes; the model lets such a call go no further.
Lost(leaf) == [leaf EXCEPT !.leaf = FALSE, !.entries = << >>]

\* The pivot of a full leaf's last entry, a page-aligned address, is stored
\* over nr_entries (its low byte, 0) and is_leaf (its second byte); then
\* nr_entries is incremented in memory, or from the register loaded before.
leaf_insert_at(leaf, a) ==
    LET e == InsertAt(leaf.entries, leaf_find_slot(leaf, a.start), a)
        is_leaf == (Last(e).start \div PAGE_SIZE) % 16
    IN  IF Len(e) <= MAPLE_MAX_PIVOTS THEN {[leaf EXCEPT !.entries = e]}
        ELSE IF is_leaf = 0 THEN {Lost(leaf)}
        ELSE {[leaf EXCEPT !.entries = e], [leaf EXCEPT !.entries = <<Head(e)>>]}

\* Zeroing the last pivot of a full leaf zeroes is_leaf as well.
Cleared(full, leaf) ==
    IF Len(full.entries) <= MAPLE_MAX_PIVOTS THEN leaf ELSE Lost(leaf)

\* split_leaf, and the insertion into one of the halves.
Halves(leaf, a) ==
    LET left == Cleared(leaf, [leaf EXCEPT !.entries = SubSeq(@, 1, SPLIT_MID)])
        right == [Blank EXCEPT !.leaf = TRUE,
                    !.entries = SubSeq(leaf.entries, SPLIT_MID + 1, Len(leaf.entries))]
    IN  IF a.start < Head(right.entries).start
        THEN leaf_insert_at(left, a) \X {right}
        ELSE {left} \X leaf_insert_at(right, a)

\* Mutant: the new child goes in front of the one it was split from.
internal_insert_at_before(node, key, child) ==
    LET pos == internal_find_child(node, key)
    IN  [node EXCEPT !.pivots = InsertAt(@, pos, key),
                     !.entries = InsertAt(@, pos, child)]

internal_insert_at(node, key, child) ==
    LET pos == internal_find_child(node, key)
    IN  [node EXCEPT !.pivots = InsertAt(@, pos, key),
                     !.entries = InsertAt(@, pos + 1, child)]

Adopt(pool, p, kids) ==
    [n \in DOMAIN pool |->
        IF n \in kids THEN [pool[n] EXCEPT !.parent = p] ELSE pool[n]]

-----------------------------------------------------------------------------
(* Calls *)

Return(code, area) ==
    /\ ret' = [call |-> call, code |-> code, area |-> area]
    /\ call' = Idle /\ at' = NULL /\ up' = NoSplit

Begin(c) ==
    /\ call = Idle
    /\ call' = c /\ at' = g_maple_root
    /\ ret' = [call |-> Idle, code |-> 0, area |-> NONE]
    /\ UNCHANGED <<tree, up>>

Rejected(a) ==
    \/ g_count >= MAPLE_MAX_VMAS
    \/ a.start >= a.end
    \/ a.start % PAGE_SIZE # 0 \/ a.end % PAGE_SIZE # 0

maple_add(a) ==
    IF Rejected(a)
    THEN /\ call = Idle
         /\ ret' = [call |-> [op |-> "add", area |-> a], code |-> -1, area |-> NONE]
         /\ UNCHANGED <<tree, call, at, up>>
    ELSE Begin([op |-> "add", area |-> a])

maple_remove(start) == Begin([op |-> "remove", addr |-> start])

maple_find(addr) == Begin([op |-> "find", addr |-> addr])

Key == IF call.op = "add" THEN call.area.start ELSE call.addr

Descend ==
    /\ call # Idle /\ up = NoSplit
    /\ ~nodes[at].leaf /\ nodes[at].entries # << >>
    /\ at' = nodes[at].entries[internal_find_child(nodes[at], Key)]
    /\ UNCHANGED <<tree, call, up, ret>>

AtLeaf(op) == call.op = op /\ up = NoSplit /\ nodes[at].leaf

Room(node) == Len(node.entries) < MAPLE_NODE_SLOTS

\* Only this leaf is searched for an area that overlaps.
Clear == \A i \in DOMAIN nodes[at].entries :
            ~Overlaps(call.area, nodes[at].entries[i])

add_refused ==
    /\ AtLeaf("add")
    /\ Clear => ~Room(nodes[at]) /\ ~NodeLeft
    /\ Return(-1, NONE)
    /\ UNCHANGED tree

add_to_leaf ==
    /\ AtLeaf("add") /\ Clear /\ Room(nodes[at])
    /\ \E leaf \in leaf_insert_at(nodes[at], call.area) :
          nodes' = [nodes EXCEPT ![at] = leaf]
    /\ vma_alloc(call.area) /\ g_count' = g_count + 1
    /\ Return(0, NONE)
    /\ UNCHANGED <<g_maple_root, g_node_free>>

add_split_leaf ==
    /\ AtLeaf("add") /\ Clear /\ ~Room(nodes[at]) /\ NodeLeft
    /\ \E half \in Halves(nodes[at], call.area) :
          nodes' = [nodes EXCEPT ![at] = half[1], ![g_node_free] = half[2]]
    /\ up' = [child |-> at, new_child |-> g_node_free,
              split_key |-> nodes[at].entries[SPLIT_MID + 1].start]
    /\ vma_alloc(call.area)
    /\ node_alloc
    /\ UNCHANGED <<g_maple_root, g_count, call, at, ret>>

Parent == nodes[up.child].parent

AddDone == g_count' = g_count + 1 /\ Return(0, NONE) /\ UNCHANGED used

\* Without a node for the root the new half stays outside the tree.
add_new_root ==
    /\ up # NoSplit /\ Parent = NULL
    /\ IF NodeLeft
       THEN LET kids == <<up.child, up.new_child>>
                root == [Blank EXCEPT !.pivots = <<up.split_key>>, !.entries = kids]
            IN  /\ nodes' = Adopt([nodes EXCEPT ![g_node_free] = root],
                                  g_node_free, ToSet(kids))
                /\ g_maple_root' = g_node_free
                /\ node_alloc
       ELSE UNCHANGED <<nodes, g_maple_root, g_node_free>>
    /\ AddDone

add_to_parent ==
    /\ up # NoSplit /\ Parent # NULL /\ Room(nodes[Parent])
    /\ LET p == internal_insert_at(nodes[Parent], up.split_key, up.new_child)
       IN  nodes' = Adopt([nodes EXCEPT ![Parent] = p], Parent, {up.new_child})
    /\ AddDone
    /\ UNCHANGED <<g_maple_root, g_node_free>>

\* split_internal, the insertion into one of the halves, and the next round.
SplitParent(p, new) ==
    LET left == [nodes[p] EXCEPT !.pivots = SubSeq(@, 1, SPLIT_MID - 1),
                                 !.entries = SubSeq(@, 1, SPLIT_MID)]
        right == [Blank EXCEPT
                    !.pivots = SubSeq(nodes[p].pivots, SPLIT_MID + 1, Len(nodes[p].pivots)),
                    !.entries = SubSeq(nodes[p].entries, SPLIT_MID + 1, Len(nodes[p].entries))]
        key == nodes[p].pivots[SPLIT_MID]
        moved == Adopt([nodes EXCEPT ![p] = left, ![new] = right], new, ToSet(right.entries))
        half == IF up.split_key < key THEN p ELSE new
        grown == internal_insert_at(moved[half], up.split_key, up.new_child)
    IN  /\ nodes' = Adopt([moved EXCEPT ![half] = grown], half, {up.new_child})
        /\ up' = [child |-> p, new_child |-> new, split_key |-> key]

add_split_parent ==
    /\ up # NoSplit /\ Parent # NULL /\ ~Room(nodes[Parent])
    /\ IF NodeLeft
       THEN /\ SplitParent(Parent, g_node_free)
            /\ node_alloc
            /\ UNCHANGED <<used, g_count, call, at, ret>>
       ELSE AddDone /\ UNCHANGED <<nodes, g_node_free>>
    /\ UNCHANGED g_maple_root

\* The position of the first entry of the leaf that is asked for.
Hit(Test(_)) == First(Len(nodes[at].entries), LAMBDA i : Test(nodes[at].entries[i]))

remove_from_leaf ==
    /\ AtLeaf("remove")
    /\ LET leaf == nodes[at]
           i == Hit(LAMBDA a : a.start = call.addr)
       IN  IF i > Len(leaf.entries)
           THEN Return(-1, NONE) /\ UNCHANGED tree
           ELSE /\ nodes' = [nodes EXCEPT ![at] =
                               Cleared(leaf, [leaf EXCEPT !.entries = RemoveAt(@, i)])]
                /\ vma_free_entry(leaf.entries[i])
                /\ g_count' = g_count - 1
                /\ Return(0, NONE)
                /\ UNCHANGED <<g_maple_root, g_node_free>>

find_answer ==
    /\ AtLeaf("find")
    /\ LET e == nodes[at].entries
           i == Hit(LAMBDA a : a.start <= call.addr /\ call.addr < a.end)
       IN  Return(0, IF i > Len(e) THEN NONE ELSE e[i])
    /\ UNCHANGED tree

InTree == 0 .. g_node_free - 1

\* The areas in the order maple_dump prints them.
dump_recursive ==
    LET listing[n \in InTree] ==
            IF nodes[n].leaf THEN nodes[n].entries
            ELSE FlattenSeq([i \in DOMAIN nodes[n].entries |->
                                listing[nodes[n].entries[i]]])
    IN  listing[g_maple_root]

-----------------------------------------------------------------------------

\* maple_init: the root is the first node of the pool, an empty leaf.
Init ==
    /\ nodes = [node_pool_init EXCEPT ![0].leaf = TRUE]
    /\ g_maple_root = 0 /\ g_node_free = 1
    /\ used = {} /\ g_count = 0
    /\ call = Idle /\ at = NULL /\ up = NoSplit
    /\ ret = [call |-> Idle, code |-> 0, area |-> NONE]

Next ==
    \/ \E a \in AreaArgs : maple_add(a)
    \/ \E addr \in AddrArgs : maple_remove(addr) \/ maple_find(addr)
    \/ Descend
    \/ add_refused \/ add_to_leaf \/ add_split_leaf
    \/ add_new_root \/ add_to_parent \/ add_split_parent
    \/ remove_from_leaf \/ find_answer

Spec == Init /\ [][Next]_vars

-----------------------------------------------------------------------------
(* Properties *)

Inner == {n \in InTree : ~nodes[n].leaf}
LeafNodes == InTree \ Inner
Kids(n) == ToSet(nodes[n].entries)

\* The leaf the descent for an address ends in.
LeafFor(addr) ==
    LET below[n \in InTree] ==
            IF nodes[n].leaf THEN n
            ELSE below[nodes[n].entries[internal_find_child(nodes[n], addr)]]
    IN  below[g_maple_root]

\* The number of nodes above n, by the parent pointers.
Height(n) ==
    LET height[m \in InTree] ==
            IF nodes[m].parent = NULL THEN 0 ELSE 1 + height[nodes[m].parent]
    IN  height[n]

\* Between calls the pool holds one B+ tree.  All its nodes hang below the
\* root, each from the parent its pointer names -- which the next split
\* climbs by -- and all leaves at one depth.  Every area is in the leaf its
\* start address leads to, where remove and find look for it; the dump lists
\* the areas in ascending order, each once, and g_count counts them.
BPlusTree ==
    call = Idle =>
    /\ \A n \in InTree : Len(nodes[n].entries) <= MAPLE_NODE_SLOTS
    /\ \A n \in Inner : Len(nodes[n].pivots) = Len(nodes[n].entries) - 1
    /\ \A n \in InTree \ {g_maple_root} :
          {p \in Inner : n \in Kids(p)} = {nodes[n].parent}
    /\ nodes[g_maple_root].parent = NULL
    /\ \A m, n \in LeafNodes : Height(m) = Height(n)
    /\ \A n \in LeafNodes : \A a \in Kids(n) : LeafFor(a.start) = n
    /\ LET listing == dump_recursive
       IN  /\ ToSet(listing) = used
           /\ g_count = Len(listing)
           /\ \A i, j \in DOMAIN listing :
                 i < j => listing[i].start < listing[j].start

VS == INSTANCE VmaSet WITH
          areas <- IF up = NoSplit THEN used ELSE used \ {call.area},
          Capacity <- MAPLE_NODE_SLOTS

\* The contract of vma_ops_t, which this back end is written to implement: no
\* area lost or hidden, overlaps refused, and no other reason to refuse an add
\* but a bad range or -- as nodes never merge -- a full leaf when no node is left.
\* The code does not keep it: the last pivot of a full leaf overruns its array
\* (vma_maple.c:248), and an add is compared with the areas of one leaf (474).
ImplementsVmaSet == VS!Spec
=============================================================================
