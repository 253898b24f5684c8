----------------------------- MODULE MCVmaMaple -----------------------------
(* Areas of one page of two addresses, the last one also of two pages, and   *)
(* two bad ranges; with ReachingAreas also areas that reach over the starts  *)
(* of the next one or two, which add compares with those of one leaf only.   *)
EXTENDS VmaMaple

CONSTANT PAGES  \* pages that areas begin at

A(s, e) == [start |-> s, end |-> e, tag |-> "rw"]

Tags == {"rw"}
MCAreas == {A(2 * p, 2 * p + 2) : p \in 0 .. PAGES - 1}
           \cup {A(2 * PAGES - 2, 2 * PAGES + 2), A(1, 3), A(2, 2)}
ReachingAreas == MCAreas \cup {A(2, 6), A(4, 10), A(8, 12)}
MCAddrs == {2 * p : p \in 0 .. PAGES - 1} \cup {3}
=============================================================================
