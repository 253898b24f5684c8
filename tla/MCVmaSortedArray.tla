-------------------------- MODULE MCVmaSortedArray --------------------------
(* Addresses 0 .. 8 in pages of two bytes: four areas would fit, three slots *)
(* are there.                                                                *)
EXTENDS VmaSortedArray

Tags == {"rw"}
=============================================================================
