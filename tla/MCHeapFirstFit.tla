--------------------------- MODULE MCHeapFirstFit ---------------------------
(* A heap of 128 bytes: up to 5 blocks, with requests on both sides of the *)
(* splitting threshold (a remainder of 24 bytes is given away, 32 is not). *)
EXTENDS HeapFirstFit

MCRequest == {1, 24, 33, 112}
MCStray == {5, 64, 208}
=============================================================================
