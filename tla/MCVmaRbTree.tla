---------------------------- MODULE MCVmaRbTree ----------------------------
(* Areas of one page and of several; one begins inside another.             *)
EXTENDS VmaRbTree

CONSTANT Few    \* the nodes of a tree that grows in any order (bound)

A(s, e) == [start |-> s, end |-> e, tag |-> "rw"]

Tags == {"rw"}
Pages == {A(s, s + 1) : s \in 0..(LIMIT - 2)}
MCAreas == Pages \cup {A(0, 2), A(2, 5), A(4, 4)}
MCAddrs == 0..(LIMIT - 2)

Held == {n \in Addr : area[n] # NONE}

\* A small tree may grow in any order and is searched as well; delete_fixup
\* climbs two levels in ten nodes or more, so a taller one is built of single
\* pages from 0 up, without a gap.  Both shrink in any order.
Small(n) == n <= Few /\ \A s \in Held : s <= Few
Ascending(a) ==
    /\ a \in Pages /\ Held = 0..(a.start - 1)
    /\ \A s \in Held : area[s] \in Pages
Bound ==
    LET n == Cardinality(Held)
    IN  call' # call =>
           CASE call'.op = "add" ->
                   \/ Ascending(call'.area)
                   \/ Small(n + 1) /\ call'.area.start <= Few
             [] call'.op = "find" -> Small(n) /\ call'.addr <= Few + 1
             [] call'.op = "remove" -> Small(n) \/ call'.addr \in Held
             [] OTHER -> TRUE
=============================================================================
