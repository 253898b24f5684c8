------------------------------ MODULE CmdHeap ------------------------------
(***************************************************************************)
(* The shell command `heap' (kernel/cmds/cmd_heap.c), the only caller of   *)
(* kmalloc and kfree, as a client of the contract of the heap: a stack of  *)
(* pieces for `heap alloc' and `heap free', and a self test.               *)
(***************************************************************************)
EXTENDS SelfTest

CONSTANTS
    Byte, ALIGN, Ptr,   \* the heap
    MAX_SLOTS,          \* 8
    SMALL,              \* the size tests 1, 4 and 6 ask for (64)
    Mixed,              \* the sizes of test 2 (32, 128, 256, 1024)
    Odd,                \* the sizes of test 5 (1 to 512, no powers of two)
    FRAG_N,             \* the pieces of test 6 (8)
    Increasing,         \* the sizes of test 7 (1 to 2048)
    BIG,                \* the size of test 8 (4096)
    Sizes               \* the sizes given to `heap alloc' (bound)

VARIABLES
    live,       \* the pieces granted by the heap
    s_slots,    \* the pieces of `heap alloc'; its length is s_slot_count
    lost        \* history: the pieces a self test returned without freeing

heapVars == <<live, s_slots, lost>>

BA == INSTANCE ByteAllocator WITH Size <- Sizes

\* The requests of the self test are fixed in the code.
ASSUME CmdHeapAssumption ==
    /\ FRAG_N \in Nat \ {0} /\ {SMALL, BIG} \cup Sizes \subseteq Nat
    /\ {Mixed, Odd, Increasing} \subseteq Seq(Nat)

HeapInit == live = {} /\ s_slots = << >> /\ lost = {}

\* The bytes written are read back before the piece is put on the stack.
do_alloc(bytes) ==
    /\ cmd = "idle" /\ Len(s_slots) < MAX_SLOTS
    /\ \/ BA!Alloc(bytes) /\ s_slots' = Append(s_slots, BA!Piece(ret'.ptr, bytes))
       \/ BA!AllocFails(bytes) /\ UNCHANGED s_slots
    /\ UNCHANGED <<testVars, lost>>

FreeLast ==
    /\ s_slots # << >>
    /\ BA!Free(s_slots[Len(s_slots)].ptr) \/ BA!FreeIgnored(s_slots[Len(s_slots)].ptr)
    /\ s_slots' = SubSeq(s_slots, 1, Len(s_slots) - 1)
    /\ UNCHANGED lost

do_free == cmd = "idle" /\ FreeLast /\ UNCHANGED testVars

-----------------------------------------------------------------------------
(* `heap test' *)

\* Test 6 refills the holes it has made; each size of test 7 is a test.
FragmentationTest == Test([i \in 1 .. FRAG_N |-> SMALL], "undo", TRUE, TRUE)
IncreasingTests == [i \in DOMAIN Increasing |-> Test(<<Increasing[i]>>, "skip", TRUE, FALSE)]
LargeTest == Test(<<BIG>>, "keep", TRUE, FALSE)

\* mutant: test 5 returns without undoing what it did
HeapTests_leaky ==
    << Test(<<SMALL>>, "return", TRUE, FALSE), Test(Mixed, "return", TRUE, FALSE),
       Test(<<SMALL>>, "return", TRUE, FALSE), Test(Odd, "return", TRUE, FALSE),
       LargeTest >>

\* Tests 2 and 3 are one entry.
HeapTests ==
    << Test(<<SMALL>>, "return", TRUE, FALSE), Test(Mixed, "return", TRUE, FALSE),
       Test(<<SMALL>>, "return", TRUE, FALSE), Test(Odd, "undo", TRUE, FALSE),
       FragmentationTest >>
    \o IncreasingTests \o <<LargeTest>>

do_test == Begin("heap test", "clean", 0) /\ UNCHANGED <<heapVars, ret>>

\* The stack is emptied first.
heap_test_clean ==
    /\ cmd = "heap test" /\ loop = "clean"
    /\ \/ FreeLast /\ UNCHANGED testVars
       \/ /\ s_slots = << >> /\ loop' = "take"
          /\ UNCHANGED <<cmd, test, mine, start, pass, denied, heapVars, ret>>

\* Test 2 returns without freeing the pieces it has got.
heap_test_take ==
    /\ Taking("heap test")
    /\ LET n == Wanted(HeapTests[test])
       IN  \/ BA!Alloc(n) /\ Took(HeapTests[test], BA!Piece(ret'.ptr, n)) /\ UNCHANGED lost
           \/ /\ BA!AllocFails(n) /\ Refused(HeapTests)
              /\ lost' = IF test = 2 THEN lost \cup Range(mine) ELSE lost
    /\ UNCHANGED s_slots

\* What was written to each piece is still there, and each is aligned.
heap_test_check ==
    /\ Checks("heap test", HeapTests[test],
              \A i, j \in DOMAIN mine :
                 /\ i # j => BA!Bytes(mine[i]) \cap BA!Bytes(mine[j]) = {}
                 /\ mine[i].ptr % ALIGN = 0)
    /\ UNCHANGED <<heapVars, ret>>

heap_test_give ==
    /\ Giving("heap test")
    /\ BA!Free(mine[GiveSlot].ptr) \/ BA!FreeIgnored(mine[GiveSlot].ptr)
    /\ Gave
    /\ UNCHANGED <<s_slots, lost>>

\* Test 3: alloc_count has to be 0.
heap_test_over ==
    /\ Over("heap test", HeapTests, test = 2 => live = {}, 0)
    /\ UNCHANGED <<heapVars, ret>>

HeapNext ==
    \/ \E n \in Sizes : do_alloc(n)
    \/ do_free \/ do_test
    \/ heap_test_clean \/ heap_test_take \/ heap_test_check
    \/ heap_test_give \/ heap_test_over

-----------------------------------------------------------------------------

\* Every piece granted is on the stack, in the running test's array, or was
\* left behind by test 2 (cmd_heap.c:173), and no pointer is kept twice: the
\* error paths and the refilled holes of the other tests free each piece
\* exactly once.
PiecesAccountedFor ==
    LET tested == IF cmd = "heap test" THEN mine ELSE Nothing
    IN  /\ live = Range(s_slots) \cup Range(tested) \cup lost
        /\ Cardinality(live) =
              Len(s_slots) + Cardinality(DOMAIN tested) + Cardinality(lost)
=============================================================================
