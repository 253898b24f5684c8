----------------------------- MODULE MCHeapSlab -----------------------------
(* Two caches on pages of 32 bytes: slabs of 3 objects (6 cut to 3 by the *)
(* bitmap's width) and of 1; one page mapped at boot, three at most.      *)
EXTENDS HeapSlab

MCSizes == <<4, 16>>
\* An address in a slab's header, and one behind the last object of a slab.
MCStray == {34, 52}
MCRequest == {0, 3, 13, 17}
=============================================================================
