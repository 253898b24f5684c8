----------------------------- MODULE MCCommands -----------------------------
(***************************************************************************)
(* TLC instance of Commands: a few pages, a heap of a few bytes and a      *)
(* registry of a few areas, each too small for some of the requests.       *)
(***************************************************************************)
EXTENDS Commands

CONSTANTS p1, p2, p3, p4

MCPage == {p1, p2, p3, p4}
MCCounts == {1, 3}
PageSymmetry == Permutations(MCPage)

MCByte == 0 .. 7
MCPtr == {0, 2, 4, 6}
MCSizes == {1, 3}
MCMixed == <<1, 2>>
MCOdd == <<1, 1>>
MCIncreasing == <<1, 2, 4>>

Between(from, to, t) == [start |-> from, end |-> to, tag |-> t]
MCAddr == 0 .. 18
MCTestArea == Between(4, 8, "test")
MCOverlapArea == Between(6, 10, "overlap")
MCAreaA == Between(10, 12, "a")
MCAreaB == Between(12, 14, "b")
MCBatch == <<Between(10, 12, "batch"), Between(12, 14, "batch"), Between(14, 16, "batch")>>
MCKernelAreas == {Between(0, 4, "kernel"), Between(8, 10, "kernel")}
=============================================================================
