------------------------------- MODULE CmdPmm -------------------------------
(***************************************************************************)
(* The shell command `pmm' (kernel/cmds/cmd_pmm.c), a client of the page   *)
(* allocator's contract: pages taken by `pmm alloc' are tracked so that    *)
(* `pmm freeall' can return them; `pmm test' takes and returns pages of    *)
(* its own.  The rest of the kernel holds pages as well.                   *)
(*                                                                         *)
(* `pmm free' takes any address the user types.  The model leaves out the  *)
(* addresses of pages the kernel holds, which the command would release.   *)
(***************************************************************************)
EXTENDS SelfTest

CONSTANTS
    Page,
    PMM_CMD_TRACK_MAX,  \* 1024
    ALLOC_CAP,          \* pages one `pmm alloc' may take (256)
    ALIGN_N, UNIQUE_N, BATCH_N,     \* pages the self test takes (8, 16, 32)
    Counts              \* counts given to `pmm alloc' (bound)

VARIABLES
    ready, avail, held, \* of the page allocator
    kernel,             \* the pages the rest of the kernel holds
    g_pmm_cmd_allocs,   \* the tracked pages; its length is the count
    left                \* rounds of the loop of alloc or freeall to go

pmmVars == <<ready, avail, held, kernel, g_pmm_cmd_allocs, left>>

PA == INSTANCE PageAllocator

\* Memory is finite, and the self test takes given numbers of pages.
ASSUME CmdPmmAssumption ==
    IsFiniteSet(Page) /\ {ALIGN_N, UNIQUE_N, BATCH_N} \subseteq Nat

PmmInit ==
    /\ ready = TRUE /\ avail = Page /\ held = {} /\ kernel = {}
    /\ g_pmm_cmd_allocs = << >> /\ left = 0

\* Other parts of the kernel take and return pages, between commands.
KernelTakes ==
    /\ cmd = "idle" /\ PA!Alloc
    /\ kernel' = kernel \cup {ret'.page}
    /\ UNCHANGED <<testVars, g_pmm_cmd_allocs, left>>

KernelGives(p) ==
    /\ cmd = "idle" /\ p \in kernel /\ PA!Free(p)
    /\ kernel' = kernel \ {p}
    /\ UNCHANGED <<testVars, g_pmm_cmd_allocs, left>>

\* mutant: the last entry is dropped, not moved into the gap
pmm_cmd_track_remove_last(s, addr) ==
    IF addr \in Range(s) THEN SubSeq(s, 1, Len(s) - 1) ELSE s

pmm_cmd_track_remove(s, addr) ==
    LET hits == {i \in DOMAIN s : s[i] = addr}
    IN  IF hits = {} THEN s
        ELSE SubSeq([s EXCEPT ![Min(hits)] = s[Len(s)]], 1, Len(s) - 1)

Loop(name, rounds) ==
    /\ cmd = "idle" /\ cmd' = name /\ left' = rounds
    /\ UNCHANGED <<test, loop, mine, start, pass, denied>>

cmd_pmm_alloc(count) ==
    /\ Loop("pmm alloc", IF count > ALLOC_CAP THEN ALLOC_CAP ELSE count)
    /\ UNCHANGED <<ready, avail, held, kernel, ret, g_pmm_cmd_allocs>>

pmm_alloc_round ==
    /\ cmd = "pmm alloc"
    /\ IF left = 0 \/ Len(g_pmm_cmd_allocs) >= PMM_CMD_TRACK_MAX
       THEN Return /\ left' = 0 /\ UNCHANGED <<ready, avail, held, kernel, ret, g_pmm_cmd_allocs>>
       ELSE \/ /\ PA!Alloc
               /\ g_pmm_cmd_allocs' = Append(g_pmm_cmd_allocs, ret'.page)
               /\ left' = left - 1
               /\ UNCHANGED <<testVars, kernel>>
            \/ PA!AllocFails /\ Return /\ left' = 0 /\ UNCHANGED <<kernel, g_pmm_cmd_allocs>>

cmd_pmm_free(addr) ==
    /\ cmd = "idle" /\ addr \notin kernel
    /\ g_pmm_cmd_allocs' = pmm_cmd_track_remove(g_pmm_cmd_allocs, addr)
    /\ PA!Free(addr) \/ PA!FreeIgnored(addr)
    /\ UNCHANGED <<testVars, kernel, left>>

cmd_pmm_freeall ==
    /\ g_pmm_cmd_allocs # << >>
    /\ Loop("pmm freeall", Len(g_pmm_cmd_allocs))
    /\ UNCHANGED <<ready, avail, held, kernel, ret, g_pmm_cmd_allocs>>

\* The entries freeall has not come to.
ToFree == {g_pmm_cmd_allocs[i] : i \in Len(g_pmm_cmd_allocs) - left + 1 .. Len(g_pmm_cmd_allocs)}

pmm_freeall_round ==
    /\ cmd = "pmm freeall"
    /\ IF left = 0
       THEN g_pmm_cmd_allocs' = << >> /\ Return /\ UNCHANGED <<ready, avail, held, kernel, left, ret>>
       ELSE /\ LET p == g_pmm_cmd_allocs[Len(g_pmm_cmd_allocs) - left + 1]
               IN  PA!Free(p) \/ PA!FreeIgnored(p)
            /\ left' = left - 1
            /\ UNCHANGED <<testVars, kernel, g_pmm_cmd_allocs>>

-----------------------------------------------------------------------------
(* `pmm test' *)

Pages(n) == [i \in 1 .. n |-> "page"]

\* Only test 1 returns, and test 5 skips, with nothing taken; test 4 goes on
\* with the pages it got.
PmmTests ==
    << Test(Pages(1), "return", TRUE, FALSE),
       Test(Pages(ALIGN_N), "undo", TRUE, FALSE),
       Test(Pages(UNIQUE_N), "undo", TRUE, FALSE),
       Test(Pages(BATCH_N), "keep", FALSE, FALSE),
       Test(Pages(1), "keep", FALSE, FALSE) >>

cmd_pmm_test ==
    /\ Begin("pmm test", "take", Cardinality(avail))
    /\ UNCHANGED <<pmmVars, ret>>

pmm_test_take ==
    /\ Taking("pmm test")
    /\ \/ PA!Alloc /\ Took(PmmTests[test], ret'.page)
       \/ PA!AllocFails /\ Refused(PmmTests)
    /\ UNCHANGED <<kernel, g_pmm_cmd_allocs, left>>

\* mutant: the whole batch is expected, however many pages there were
PmmExpects_batch ==
    test \in {1, 4} => Cardinality(avail) = start - Len(PmmTests[test].wants)

\* Tests 1 and 4 compare pmm_free_pages with what it was; test 3 compares
\* the pages with one another.
PmmExpects ==
    /\ test \in {1, 4} => Cardinality(avail) = start - Cardinality(DOMAIN mine)
    /\ test = 3 => IsInjective(mine)

pmm_test_check ==
    Checks("pmm test", PmmTests[test], PmmExpects) /\ UNCHANGED <<pmmVars, ret>>

pmm_test_give ==
    /\ Giving("pmm test")
    /\ PA!Free(mine[GiveSlot]) \/ PA!FreeIgnored(mine[GiveSlot])
    /\ Gave
    /\ UNCHANGED <<kernel, g_pmm_cmd_allocs, left>>

pmm_test_over ==
    /\ Over("pmm test", PmmTests, test \in {1, 4} => Cardinality(avail) = start,
            Cardinality(avail))
    /\ UNCHANGED <<pmmVars, ret>>

\* Test 5 needs the VMM, which may have failed to start.
pmm_test_skip ==
    /\ cmd = "pmm test" /\ test = 5 /\ loop = "take"
    /\ loop' = "verdict"
    /\ UNCHANGED <<cmd, test, mine, start, pass, denied, pmmVars, ret>>

PmmNext ==
    \/ KernelTakes \/ \E p \in Page : KernelGives(p)
    \/ \E n \in Counts : cmd_pmm_alloc(n)
    \/ \E p \in Page : cmd_pmm_free(p)
    \/ cmd_pmm_freeall \/ cmd_pmm_test
    \/ pmm_alloc_round \/ pmm_freeall_round
    \/ pmm_test_take \/ pmm_test_check \/ pmm_test_give
    \/ pmm_test_over \/ pmm_test_skip

-----------------------------------------------------------------------------

\* Every page anyone holds is held by the kernel, tracked, or in the running
\* test's array, and by one of them only: freeall and the self test release
\* no page of the kernel (cmd_pmm.c:14-16) and none twice, and no page the
\* commands took is forgotten, however the calls are ordered, wherever the
\* memory or the tracking array runs out.
PagesAccountedFor ==
    LET tracked == IF cmd = "pmm freeall" THEN ToFree ELSE Range(g_pmm_cmd_allocs)
        entries == IF cmd = "pmm freeall" THEN left ELSE Len(g_pmm_cmd_allocs)
        tested == IF cmd = "pmm test" THEN mine ELSE Nothing
    IN  /\ held = kernel \cup tracked \cup Range(tested)
        /\ Cardinality(held) =
              Cardinality(kernel) + entries + Cardinality(DOMAIN tested)
=============================================================================
