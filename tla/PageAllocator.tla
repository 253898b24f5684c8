--------------------------- MODULE PageAllocator ---------------------------
(***************************************************************************)
(* What every back end of pmm_ops_t (include/kernel/pmm.h) promises its    *)
(* callers (vmm.c, kmalloc.c, the shell): a pool of physical pages, filled *)
(* once by init, from which alloc_page takes any page nobody holds -- and  *)
(* answers NULL only when there is none -- and to which free_page returns  *)
(* a page somebody holds.  How the free pages are represented, and which   *)
(* of them is chosen, is left to the back ends (PmmBitmap, PmmBuddy).      *)
(***************************************************************************)
CONSTANTS
    Page,   \* the addresses a page may have
    NULL    \* what alloc_page answers when it has no page; not in Page

VARIABLES
    ready,  \* init has succeeded
    avail,  \* the pages nobody holds
    held,   \* the pages callers hold
    ret     \* the last call: its name, and its answer or argument

vars == <<ready, avail, held, ret>>

\* Calls are told apart by name and argument, so that the same answer to two
\* different questions is not the same step.
Answer(op, page) == [op |-> op, page |-> page]

Init ==
    /\ ready = FALSE
    /\ avail = {}
    /\ held = {}
    /\ ret = Answer("none", NULL)

\* init: the pool becomes some set of pages, none of them held.
Start ==
    /\ ~ready
    /\ ready' = TRUE
    /\ avail' \in SUBSET Page
    /\ ret' = Answer("init", NULL)
    /\ UNCHANGED held

\* init finds no memory: the pool stays empty.
StartFails ==
    /\ ~ready
    /\ ret' = Answer("init", NULL)
    /\ UNCHANGED <<ready, avail, held>>

\* alloc_page with a free page: one of them changes hands.
Alloc ==
    /\ \E p \in avail :
          /\ avail' = avail \ {p}
          /\ held' = held \cup {p}
          /\ ret' = Answer("alloc", p)
    /\ UNCHANGED ready

\* alloc_page answers NULL: there is no free page.
AllocFails ==
    /\ avail = {}
    /\ ret' = Answer("alloc", NULL)
    /\ UNCHANGED <<ready, avail, held>>

\* free_page of a held page.
Free(p) ==
    /\ p \in held
    /\ avail' = avail \cup {p}
    /\ held' = held \ {p}
    /\ ret' = Answer("free", p)
    /\ UNCHANGED ready

\* free_page of anything else is ignored.
FreeIgnored(p) ==
    /\ p \notin held
    /\ ret' = Answer("free", p)
    /\ UNCHANGED <<ready, avail, held>>

Next ==
    \/ Start \/ StartFails
    \/ Alloc \/ AllocFails
    \/ \E p \in Page \cup {NULL} : Free(p) \/ FreeIgnored(p)

Spec == Init /\ [][Next]_vars
=============================================================================
