----------------------------- MODULE VmaRbTree -----------------------------
(***************************************************************************)
(* The red-black tree back end of the VMA layer (kernel/mm/vma_rbtree.c).  *)
(*                                                                         *)
(* A node is named by the start address of the area it holds, which no     *)
(* two nodes of the tree share; fields of free nodes, which pool_alloc     *)
(* overwrites, are left out, and the free list is its length.  The code    *)
(* that is there twice, mirrored, is here once, for a side d.              *)
(*                                                                         *)
(* Every round of a loop is a step: of the search down the tree, of        *)
(* insert_fixup and of delete_fixup.                                       *)
(***************************************************************************)
EXTENDS VmaBackEnd

CONSTANTS
    RB_MAX_NODES,   \* nodes of the pool (256)
    AreaArgs,       \* the areas given to add (bound)
    AddrArgs,       \* the addresses given to remove and find (bound)
    NIL             \* the sentinel g_nil_node

ASSUME RbAssumption ==
    /\ RB_MAX_NODES \in Nat
    /\ AreaArgs \subseteq Area /\ AddrArgs \subseteq Addr /\ NIL \notin Addr

Side == {"left", "right"}
Other(d) == IF d = "left" THEN "right" ELSE "left"

VARIABLES
    tree,       \* g_root, and the child, parent and color fields
    area,       \* the area in each node
    pool,       \* length of the list g_free_head
    pc,         \* the loop it is in
    cur,        \* the node the loop is at: cur, z or x in the code
    up          \* rb_add's parent

nodes == <<tree, area, g_count, pool>>
vars == <<nodes, call, pc, cur, up, ret>>

\* ret until a call has been answered.
NoAnswer == [call |-> Idle, code |-> 0, area |-> NONE]

-----------------------------------------------------------------------------
(* Operations on the tree t *)

SideOf(t, n) == IF t.kid[t.parent[n]].left = n THEN "left" ELSE "right"

\* v takes the place of u below u's parent.
Hang(t, u, v) ==
    IF t.parent[u] = NIL
    THEN [t EXCEPT !.root = v]
    ELSE [t EXCEPT !.kid[t.parent[u]][SideOf(t, u)] = v]

\* transplant also sets the parent of NIL, which delete_fixup reads.
Transplant(t, u, v) == [Hang(t, u, v) EXCEPT !.parent[v] = t.parent[u]]

Adopt(t, n, d, kid) == [t EXCEPT !.kid[n][d] = kid, !.parent[kid] = n]

\* Unlike transplant, the rotations leave the parent of NIL alone.
HandOver(t, n, d, kid) ==
    IF kid = NIL THEN [t EXCEPT !.kid[n][d] = NIL] ELSE Adopt(t, n, d, kid)

\* rotate_left (d = "left") and rotate_right
Rotate(t, x, d) ==
    LET y == t.kid[x][Other(d)]
        moved == HandOver(t, x, Other(d), t.kid[y][d])
    IN Adopt(Transplant(moved, x, y), y, d, x)

\* tree_minimum
Minimum(t, n) ==
    LET leftmost[m \in Addr] ==
            IF t.kid[m].left = NIL THEN m ELSE leftmost[t.kid[m].left]
    IN leftmost[n]

\* The dead fields of a free node, in one form.
NoKids == [left |-> NIL, right |-> NIL]
Freed(t, z) ==
    [t EXCEPT !.kid[z] = NoKids, !.parent[z] = NIL, !.color[z] = "black"]

\* The new node z below n, or as the root.
Link(t, z, n) ==
    LET d == IF z < n THEN "left" ELSE "right"
        fresh == [t EXCEPT !.kid[z] = NoKids, !.color[z] = "red", !.parent[z] = n]
    IN IF n = NIL THEN [fresh EXCEPT !.root = z] ELSE [fresh EXCEPT !.kid[n][d] = z]

\* rb_remove of z: the tree without it, the child x that has moved up, and
\* the color that is gone.
Unlinked(t, z) ==
    LET l == t.kid[z].left
        r == t.kid[z].right
        y == Minimum(t, r)
        x == t.kid[y].right
        opened == IF t.parent[y] = z
                  THEN [t EXCEPT !.parent[x] = y]
                  ELSE Adopt(Transplant(t, y, x), y, "right", r)
    IN IF l = NIL THEN [tree |-> Transplant(t, z, r), x |-> r, color |-> t.color[z]]
       ELSE IF r = NIL
       THEN [tree |-> Transplant(t, z, l), x |-> l, color |-> t.color[z]]
       ELSE [tree |-> [Adopt(Transplant(opened, z, y), y, "left", l)
                          EXCEPT !.color[y] = t.color[z]],
             x |-> x, color |-> t.color[y]]

-----------------------------------------------------------------------------
(* Calls and their search *)

Return(code, a) ==
    /\ ret' = [call |-> call, code |-> code, area |-> a]
    /\ call' = Idle /\ pc' = "idle" /\ cur' = NIL /\ up' = NIL

Descend(c) ==
    /\ call' = c /\ pc' = "descend" /\ cur' = tree.root /\ up' = NIL
    /\ ret' = NoAnswer

\* The checks of rb_add.
Rejected(a) ==
    \/ g_count >= RB_MAX_NODES
    \/ a.start >= a.end
    \/ a.start % PAGE_SIZE # 0 \/ a.end % PAGE_SIZE # 0

rb_add(a) ==
    /\ pc = "idle"
    /\ IF Rejected(a)
       THEN /\ ret' = [call |-> [op |-> "add", area |-> a], code |-> -1, area |-> NONE]
            /\ UNCHANGED <<call, pc, cur, up>>
       ELSE Descend([op |-> "add", area |-> a])
    /\ UNCHANGED nodes

\* Mutant: an area that the new one begins before is not seen.
add_descend_start ==
    /\ pc = "descend" /\ call.op = "add" /\ cur # NIL
    /\ IF call.area.start >= cur /\ call.area.start < area[cur].end
       THEN Return(-1, NONE)
       ELSE /\ up' = cur
            /\ cur' = tree.kid[cur][IF call.area.start < cur THEN "left" ELSE "right"]
            /\ UNCHANGED <<call, pc, ret>>
    /\ UNCHANGED nodes

\* Only the areas on the way down are compared with the new one.
add_descend ==
    /\ pc = "descend" /\ call.op = "add" /\ cur # NIL
    /\ IF Overlaps(call.area, area[cur])
       THEN Return(-1, NONE)
       ELSE /\ up' = cur
            /\ cur' = tree.kid[cur][IF call.area.start < cur THEN "left" ELSE "right"]
            /\ UNCHANGED <<call, pc, ret>>
    /\ UNCHANGED nodes

add_link ==
    /\ pc = "descend" /\ call.op = "add" /\ cur = NIL
    /\ IF pool = 0
       THEN Return(-1, NONE) /\ UNCHANGED <<tree, area, pool>>
       ELSE LET z == call.area.start IN
            /\ tree' = Link(tree, z, up)
            /\ area' = [area EXCEPT ![z] = call.area]
            /\ pool' = pool - 1
            /\ pc' = "insert_fixup" /\ cur' = z
            /\ UNCHANGED <<call, up, ret>>
    /\ UNCHANGED g_count

rb_remove(start) ==
    pc = "idle" /\ Descend([op |-> "remove", addr |-> start]) /\ UNCHANGED nodes

remove_descend ==
    /\ pc = "descend" /\ call.op = "remove" /\ cur \notin {NIL, call.addr}
    /\ cur' = tree.kid[cur][IF call.addr < cur THEN "left" ELSE "right"]
    /\ UNCHANGED <<nodes, call, pc, up, ret>>

remove_misses ==
    /\ pc = "descend" /\ call.op = "remove" /\ cur = NIL
    /\ Return(-1, NONE)
    /\ UNCHANGED nodes

remove_unlink ==
    /\ pc = "descend" /\ call.op = "remove" /\ cur = call.addr
    /\ LET u == Unlinked(tree, cur) IN
       /\ tree' = u.tree
       /\ cur' = u.x
       /\ pc' = IF u.color = "black" THEN "delete_fixup" ELSE "release"
    /\ UNCHANGED <<area, g_count, pool, call, up, ret>>

\* Mutant: the node does not go back to the pool.
remove_release_leaked ==
    /\ pc = "release"
    /\ tree' = Freed(tree, call.addr)
    /\ area' = [area EXCEPT ![call.addr] = NONE]
    /\ g_count' = g_count - 1
    /\ Return(0, NONE)
    /\ UNCHANGED pool

\* pool_free
remove_release ==
    /\ pc = "release"
    /\ tree' = Freed(tree, call.addr)
    /\ area' = [area EXCEPT ![call.addr] = NONE]
    /\ pool' = pool + 1 /\ g_count' = g_count - 1
    /\ Return(0, NONE)

rb_find(addr) ==
    pc = "idle" /\ Descend([op |-> "find", addr |-> addr]) /\ UNCHANGED nodes

find_descend ==
    /\ pc = "descend" /\ call.op = "find" /\ cur # NIL
    /\ IF call.addr < cur THEN cur' = tree.kid[cur].left
       ELSE call.addr >= area[cur].end /\ cur' = tree.kid[cur].right
    /\ UNCHANGED <<nodes, call, pc, up, ret>>

find_answer ==
    /\ pc = "descend" /\ call.op = "find"
    /\ IF cur = NIL THEN Return(0, NONE)
       ELSE /\ cur <= call.addr /\ call.addr < area[cur].end
            /\ Return(0, area[cur])
    /\ UNCHANGED nodes

-----------------------------------------------------------------------------
(* insert_fixup: cur is z *)

Parent(n) == tree.parent[n]
Grand(n) == Parent(Parent(n))
Uncle(n) == tree.kid[Grand(n)][Other(SideOf(tree, Parent(n)))]

RedRed == pc = "insert_fixup" /\ tree.color[Parent(cur)] = "red"

\* Case 1: the uncle is red.
insert_recolor ==
    /\ RedRed /\ tree.color[Uncle(cur)] = "red"
    /\ tree' = [tree EXCEPT !.color[Parent(cur)] = "black",
                            !.color[Uncle(cur)] = "black",
                            !.color[Grand(cur)] = "red"]
    /\ cur' = Grand(cur)
    /\ UNCHANGED <<area, g_count, pool, call, pc, up, ret>>

\* Mutant: an inner grandchild is not turned outwards first.
insert_rotate_inner ==
    /\ RedRed /\ tree.color[Uncle(cur)] = "black"
    /\ LET d == SideOf(tree, Parent(cur)) IN
       tree' = Rotate([tree EXCEPT !.color[Parent(cur)] = "black",
                                   !.color[Grand(cur)] = "red"], Grand(cur), Other(d))
    /\ UNCHANGED <<cur, area, g_count, pool, call, pc, up, ret>>

\* Cases 2 and 3: an inner grandchild turns outwards, then the grandparent
\* comes down on the other side.
insert_rotate ==
    /\ RedRed /\ tree.color[Uncle(cur)] = "black"
    /\ LET d == SideOf(tree, Parent(cur))
           inner == cur = tree.kid[Parent(cur)][Other(d)]
           z == IF inner THEN Parent(cur) ELSE cur
           t == IF inner THEN Rotate(tree, z, d) ELSE tree
           g == t.parent[t.parent[z]]
       IN /\ tree' = Rotate([t EXCEPT !.color[t.parent[z]] = "black",
                                      !.color[g] = "red"], g, Other(d))
          /\ cur' = z
    /\ UNCHANGED <<area, g_count, pool, call, pc, up, ret>>

add_done ==
    /\ pc = "insert_fixup" /\ tree.color[Parent(cur)] = "black"
    /\ tree' = [tree EXCEPT !.color[tree.root] = "black"]
    /\ g_count' = g_count + 1
    /\ Return(0, NONE)
    /\ UNCHANGED <<area, pool>>

-----------------------------------------------------------------------------
(* delete_fixup: cur is x, which may be NIL *)

DoublyBlack ==
    pc = "delete_fixup" /\ cur # tree.root /\ tree.color[cur] = "black"

Sibling(t) == t.kid[t.parent[cur]][Other(SideOf(t, cur))]

\* The tree after case 1: a red sibling has been rotated away.
BlackSibling ==
    LET p == tree.parent[cur]
        w == Sibling(tree)
    IN IF tree.color[w] = "red"
       THEN Rotate([tree EXCEPT !.color[w] = "black", !.color[p] = "red"],
                   p, SideOf(tree, cur))
       ELSE tree

BlackNephews(t) == \A d \in Side : t.color[t.kid[Sibling(t)][d]] = "black"

\* Mutant: the repair ends one level up.
delete_move_up_once ==
    /\ DoublyBlack
    /\ LET b == BlackSibling IN
       /\ BlackNephews(b)
       /\ tree' = [b EXCEPT !.color[Sibling(b)] = "red"]
    /\ cur' = tree'.root
    /\ UNCHANGED <<area, g_count, pool, call, pc, up, ret>>

\* Case 2: the missing black is the parent's problem now.
delete_move_up ==
    /\ DoublyBlack
    /\ LET b == BlackSibling IN
       /\ BlackNephews(b)
       /\ tree' = [b EXCEPT !.color[Sibling(b)] = "red"]
       /\ cur' = b.parent[cur]
    /\ UNCHANGED <<area, g_count, pool, call, pc, up, ret>>

\* Cases 3 and 4: a red nephew is brought to the far side, and the parent
\* comes down on this side.
delete_rotate ==
    /\ DoublyBlack
    /\ LET b == BlackSibling
           d == SideOf(b, cur)
           p == b.parent[cur]
           s == Sibling(b)
           t == IF b.color[b.kid[s][Other(d)]] = "black"
                THEN Rotate([b EXCEPT !.color[b.kid[s][d]] = "black",
                                      !.color[s] = "red"], s, Other(d))
                ELSE b
           w == Sibling(t)
       IN /\ ~BlackNephews(b)
          /\ tree' = Rotate([t EXCEPT !.color[w] = t.color[p],
                                      !.color[p] = "black",
                                      !.color[t.kid[w][Other(d)]] = "black"], p, d)
    /\ cur' = tree'.root
    /\ UNCHANGED <<area, g_count, pool, call, pc, up, ret>>

delete_done ==
    /\ pc = "delete_fixup" /\ ~DoublyBlack
    /\ tree' = [tree EXCEPT !.color[cur] = "black"]
    /\ pc' = "release"
    /\ UNCHANGED <<cur, area, g_count, pool, call, up, ret>>

-----------------------------------------------------------------------------
\* rb_init
Init ==
    /\ tree = [root |-> NIL,
               kid |-> [n \in Addr \cup {NIL} |-> NoKids],
               parent |-> [n \in Addr \cup {NIL} |-> NIL],
               color |-> [n \in Addr \cup {NIL} |-> "black"]]
    /\ area = [n \in Addr |-> NONE]
    /\ g_count = 0 /\ pool = RB_MAX_NODES
    /\ call = Idle /\ pc = "idle" /\ cur = NIL /\ up = NIL
    /\ ret = NoAnswer

Begin ==
    \/ \E a \in AreaArgs : rb_add(a)
    \/ \E addr \in AddrArgs : rb_remove(addr) \/ rb_find(addr)

Continue ==
    \/ add_descend \/ add_link \/ insert_recolor \/ insert_rotate \/ add_done
    \/ remove_descend \/ remove_misses \/ remove_unlink
    \/ delete_move_up \/ delete_rotate \/ delete_done \/ remove_release
    \/ find_descend \/ find_answer

Next == Begin \/ Continue

Spec == Init /\ [][Next]_vars

-----------------------------------------------------------------------------
(* Properties *)

Ref == Addr \cup {NIL}

\* The types of the variables; the count never leaves 0..RB_MAX_NODES.
TypeOK ==
    /\ tree \in [root : Ref, kid : [Ref -> [Side -> Ref]],
                parent : [Ref -> Ref], color : [Ref -> {"red", "black"}]]
    /\ area \in [Addr -> Area \cup {NONE}]
    /\ g_count \in 0..RB_MAX_NODES /\ pool \in 0..RB_MAX_NODES
    /\ call \in Calls /\ cur \in Ref /\ up \in Ref
    /\ pc \in {"idle", "descend", "insert_fixup", "delete_fixup", "release"}
    /\ ret \in [call : Calls, code : {0, -1}, area : Area \cup {NONE}]

\* The nodes reached from n, whatever the pointers.
Subtree(n) ==
    LET closed[S \in SUBSET Addr] ==
            LET T == S \cup ({tree.kid[m][d] : m \in S, d \in Side} \ {NIL})
            IN IF T = S THEN S ELSE closed[T]
    IN closed[{n} \ {NIL}]

TreeNodes == Subtree(tree.root)

\* Between calls the tree is a search tree for disjoint areas: every node
\* separates its subtrees, parent and child pointers agree -- rb_dump climbs
\* by the one what rb_find descends by the other -- and NIL is a black leaf.
SearchTree ==
    pc = "idle" =>
    /\ \A n \in TreeNodes :
          /\ area[n].start = n /\ n < area[n].end
          /\ \A m \in Subtree(tree.kid[n].left) : area[m].end <= n
          /\ \A m \in Subtree(tree.kid[n].right) : area[n].end <= m
          /\ \A d \in Side : tree.kid[n][d] # NIL => tree.parent[tree.kid[n][d]] = n
    /\ tree.root # NIL => tree.parent[tree.root] = NIL
    /\ tree.color[NIL] = "black" /\ tree.kid[NIL] = NoKids

Leaves == {n \in TreeNodes : \E d \in Side : tree.kid[n][d] = NIL}

\* Between calls the five red-black properties hold (vma_rbtree.c:28-38),
\* on which the logarithmic height rests: the root is black, no red node has
\* a red child, and every path down to NIL has as many black nodes.
RedBlack ==
    pc = "idle" =>
    /\ tree.color[tree.root] = "black"
    /\ \A n \in TreeNodes : tree.color[n] = "red" =>
          \A d \in Side : tree.color[tree.kid[n][d]] = "black"
    /\ LET below == [n \in TreeNodes |-> Subtree(n)]
           blackAbove(n) == {m \in TreeNodes : tree.color[m] = "black" /\ n \in below[m]}
       IN \A m, n \in Leaves : Cardinality(blackAbove(m)) = Cardinality(blackAbove(n))

\* The tree is what its name says.
RedBlackTree == TypeOK /\ SearchTree /\ RedBlack

\* Between calls every node of the pool is in the tree or in the free list,
\* and g_count is the size of the tree: no sequence of adds and removes,
\* refused ones included, uses up the pool.
NodesAccountedFor ==
    pc = "idle" => /\ g_count = Cardinality(TreeNodes)
                   /\ pool + g_count = RB_MAX_NODES

\* An area counts as registered when rb_add returns, until rb_remove does.
Registered ==
    {n \in Addr : area[n] # NONE /\ ~(pc = "insert_fixup" /\ n = call.area.start)}

VS == INSTANCE VmaSet WITH
          areas <- {area[n] : n \in Registered}, Capacity <- RB_MAX_NODES

\* The tree implements the contract of vma_ops_t.  In particular the areas
\* rb_add meets on its way down are enough to find every overlap, which the
\* comment at vma_rbtree.c:406-460 argues back and forth.
ImplementsVmaSet == VS!Spec

\* The nodes above n, by the parent pointers.
Above(n) ==
    LET closed[S \in SUBSET Addr] ==
            LET T == S \cup ({tree.parent[m] : m \in S} \ {NIL})
            IN IF T = S THEN S ELSE closed[T]
    IN closed[{tree.parent[n]} \ {NIL}]

LastRound == IF pc = "insert_fixup" THEN ~RedRed ELSE ~DoublyBlack

\* The fix-up loops end, after no more rounds than the tree is high: each
\* round is the last one or leaves z, or x, closer to the root (the bounds
\* of vma_rbtree.c:201 and 259; a loop that did not end would hang rb_add or
\* rb_remove).
FixupsClimb ==
    [][pc' = pc /\ pc \in {"insert_fixup", "delete_fixup"} =>
          LastRound' \/ Cardinality(Above(cur)') < Cardinality(Above(cur))]_vars
=============================================================================
