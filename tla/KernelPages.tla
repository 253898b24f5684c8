---------------------------- MODULE KernelPages ----------------------------
(***************************************************************************)
(* What vmm_alloc_pages and vmm_free_pages (include/kernel/vmm.h) promise  *)
(* a caller in the kernel: runs of consecutive virtual pages, each backed  *)
(* by a physical page of its own from the moment the run is returned until *)
(* it is given back, whatever else the kernel maps in between.             *)
(***************************************************************************)
EXTENDS Integers

CONSTANTS
    VPage,      \* the virtual pages
    Frame       \* the physical pages

VARIABLE view   \* the physical page behind each virtual page callers hold

OwnFrames(g) ==
    \A v, w \in DOMAIN g :
       /\ g[v] \in Frame
       /\ v # w => g[v] # g[w]

Init == view = [v \in {} |-> 0]

IsRun(S) == \E first, last \in S : S = first..last

\* A run of pages that nobody holds becomes the caller's.
Alloc ==
    /\ DOMAIN view \subseteq DOMAIN view'
    /\ IsRun(DOMAIN view' \ DOMAIN view)
    /\ view' = [v \in DOMAIN view' |->
                   IF v \in DOMAIN view THEN view[v] ELSE view'[v]]
    /\ DOMAIN view' \subseteq VPage /\ OwnFrames(view')

\* A run of pages is given back.
Free ==
    /\ DOMAIN view' \subseteq DOMAIN view
    /\ IsRun(DOMAIN view \ DOMAIN view')
    /\ view' = [v \in DOMAIN view' |-> view[v]]

Next == Alloc \/ Free

Spec == Init /\ [][Next]_view
=============================================================================
