------------------------------- MODULE MCVmm -------------------------------
(* Page tables of four entries; the kernel half is pages 32 to 55, with    *)
(* the direct map from 32, the bump allocator from 48, and the heap in its *)
(* way at 50 and 51.                                                       *)
EXTENDS Vmm, FiniteSetsExt

\* The bitmap back end takes the lowest free frame, the buddy back end often
\* the one freed last: either end of the pool stands for both.
\* (At boot, the lowest only.)
MCAllocChoice(S) ==
    IF S = {} THEN {}
    ELSE IF Cardinality(S) > 3 THEN {Min(S)} ELSE {Min(S), Max(S)}

MCManaged == 2..15
\* All frames, or so few that boot runs out of them somewhere.
MCFreeAtBoot == {2..last : last \in {4, 8, 10, 11, 13, 15}}
MCCounts == {1, 2}
MCShellPages == {11}
MCShellFrames == {4}
MCProbe == {9, 50}

\* What the theorems of VmmProofs suppose holds of this instance.
ASSUME InstanceFits == MemoryFits
=============================================================================
