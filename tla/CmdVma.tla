------------------------------- MODULE CmdVma -------------------------------
(***************************************************************************)
(* `vma test' of the shell (kernel/cmds/cmd_vma.c), a client of the VMA    *)
(* layer's contract: it registers areas of its own among those of the      *)
(* kernel, looks addresses up and removes the areas again.  `vma list',    *)
(* `find' and `count' only read.                                           *)
(*                                                                         *)
(* A remove whose add was refused, which test 6 issues, fails and changes *)
(* nothing; it is left out.                                                *)
(***************************************************************************)
EXTENDS SelfTest

CONSTANTS
    Addr, PAGE_SIZE, Tag, Capacity, NONE,   \* of the registry
    TestArea, OverlapArea,      \* [test_start, test_end), and moved by a page
    AreaA, AreaB,               \* of test 6, side by side
    Batch,                      \* the areas of test 7
    Nowhere,                    \* 0xF1FF0000, the start of no area
    KernelAreas                 \* areas of the kernel, outside the test's (bound)

VARIABLES
    areas,      \* of the registry
    registered  \* the areas the rest of the kernel has registered

vmaVars == <<areas, registered>>

VS == INSTANCE VmaSet

\* The test areas are fixed in the code; the kernel registers whole ranges.
ASSUME CmdVmaAssumption ==
    /\ Addr \subseteq Int
    /\ {TestArea, AreaA, AreaB} \cup KernelAreas \subseteq VS!Area
    /\ Batch \in Seq(VS!Area)
    \* What the tests look up: areas of a page or more, an overlap of the
    \* first one, and an address at which no area of the kernel begins.
    /\ PAGE_SIZE \in Nat \ {0, 1}
    /\ \A a \in {TestArea, AreaA, AreaB} \cup Range(Batch) : a.start + PAGE_SIZE <= a.end
    /\ VS!Overlap(OverlapArea, TestArea)
    /\ \A a \in KernelAreas : a.start # Nowhere

VmaInit == areas = {} /\ registered = {}

KernelAdds(a) ==
    /\ cmd = "idle" /\ VS!Add(a)
    /\ registered' = registered \cup {a}
    /\ UNCHANGED testVars

KernelRemoves(a) ==
    /\ cmd = "idle" /\ a \in registered /\ VS!Remove(a.start)
    /\ registered' = registered \ {a}
    /\ UNCHANGED testVars

\* The area vma_find answers with, as a set.
Found(addr) == {a \in areas : VS!Contains(a, addr)}

\* mutant: a batch that does not fit is left where it is
VmaTests_leaky ==
    << Test(<<TestArea>>, "return", TRUE, FALSE),
       Test(<<TestArea>>, "keep", TRUE, FALSE),
       Test(<<AreaA, AreaB>>, "keep", TRUE, FALSE),
       Test(Batch, "return", TRUE, FALSE),
       Test(<< >>, "keep", TRUE, FALSE),
       Test(<<TestArea>>, "keep", TRUE, FALSE) >>

\* Tests 1 to 4 of the code are one entry, 5 to 9 one each.
VmaTests ==
    << Test(<<TestArea>>, "return", TRUE, FALSE),
       Test(<<TestArea>>, "keep", TRUE, FALSE),
       Test(<<AreaA, AreaB>>, "keep", TRUE, FALSE),
       Test(Batch, "keep", TRUE, FALSE),
       Test(<< >>, "keep", TRUE, FALSE),
       Test(<<TestArea>>, "keep", TRUE, FALSE) >>

cmd_vma_test == Begin("vma test", "take", 0) /\ UNCHANGED <<vmaVars, ret>>

vma_test_take ==
    /\ Taking("vma test")
    /\ LET a == Wanted(VmaTests[test])
       IN  \/ VS!Add(a) /\ Took(VmaTests[test], a)
           \/ VS!AddFails(a) /\ Refused(VmaTests)
    /\ UNCHANGED registered

AllTaken == DOMAIN mine = DOMAIN VmaTests[test].wants

\* What the tests look up between adding and removing.
VmaExpects ==
    AllTaken =>
    /\ test = 1 => /\ Found(TestArea.start + 1) = {TestArea}
                   /\ TestArea \notin Found(TestArea.start - PAGE_SIZE)
                   /\ \E a \in areas : VS!Overlap(OverlapArea, a)
    /\ test = 2 => /\ Found(TestArea.start) = {TestArea}
                   /\ Found(TestArea.end - 1) = {TestArea}
                   /\ TestArea \notin Found(TestArea.end)
    /\ test \in {3, 4} => \A i \in DOMAIN mine : Found(mine[i].start + 1) = {mine[i]}
    /\ test = 5 => \A a \in areas : a.start # Nowhere
    /\ test = 6 => Cardinality(areas) = start + 1

vma_test_check ==
    Checks("vma test", VmaTests[test], VmaExpects) /\ UNCHANGED <<vmaVars, ret>>

vma_test_give ==
    /\ Giving("vma test")
    /\ VS!Remove(mine[GiveSlot].start) \/ VS!RemoveFails(mine[GiveSlot].start)
    /\ Gave
    /\ UNCHANGED registered

\* After test 4 the area is not found, after test 9 the count is what it was.
vma_test_over ==
    /\ Over("vma test", VmaTests,
            /\ test = 1 => TestArea \notin Found(TestArea.start + 1)
            /\ test = 6 => Cardinality(areas) = start,
            Cardinality(areas))
    /\ UNCHANGED <<vmaVars, ret>>

VmaNext ==
    \/ \E a \in KernelAreas : KernelAdds(a) \/ KernelRemoves(a)
    \/ cmd_vma_test \/ vma_test_take \/ vma_test_check
    \/ vma_test_give \/ vma_test_over

-----------------------------------------------------------------------------

\* The registry holds the areas of the kernel and those the running test has
\* added and not yet removed, whichever of its adds is refused for want of
\* room: it leaves the registry as it was.
RegistryRestored ==
    areas = registered \cup (IF cmd = "vma test" THEN Range(mine) ELSE {})
=============================================================================
