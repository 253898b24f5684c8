------------------------------ MODULE Commands ------------------------------
(***************************************************************************)
(* The shell with its commands `pmm', `heap' and `vma', one of which runs  *)
(* at a time, on the contracts of the layers they test.  The user enters   *)
(* them in any order, over and over; the kernel takes and returns pages    *)
(* and areas between them.                                                 *)
(***************************************************************************)
EXTENDS CmdPmm, CmdHeap, CmdVma

vars == <<testVars, ret, pmmVars, heapVars, vmaVars>>

Init ==
    /\ Idle /\ PmmInit /\ HeapInit /\ VmaInit
    /\ ret = PA!Answer("none", NULL)

shell_run_command ==
    \/ PmmNext /\ UNCHANGED <<heapVars, vmaVars>>
    \/ HeapNext /\ UNCHANGED <<pmmVars, vmaVars>>
    \/ VmaNext /\ UNCHANGED <<pmmVars, heapVars>>

Next ==
    \/ shell_run_command
    \/ Verdict /\ UNCHANGED <<ret, pmmVars, heapVars, vmaVars>>

Spec == Init /\ [][Next]_vars

-----------------------------------------------------------------------------

\* No self test prints SOME FAILED about a layer that keeps its contract,
\* unless a request was refused.  `pmm test' passes even then, with as few
\* pages as its first three tests need (cmd_pmm.c:376, "ok if memory is
\* tight"); `heap test' also fails after a run that left pieces behind.
VerdictsJustified ==
    loop = "verdict" =>
       \/ pass
       \/ cmd = "heap test" /\ (denied \/ lost # {})
       \/ cmd = "vma test" /\ denied
=============================================================================
