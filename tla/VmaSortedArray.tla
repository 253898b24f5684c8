--------------------------- MODULE VmaSortedArray ---------------------------
(***************************************************************************)
(* The default back end of the VMA layer (src/kernel/mm/                   *)
(* vma_sorted_array.c): the areas in an array sorted by start address,     *)
(* searched by halving.                                                    *)
(*                                                                         *)
(* A call starts with its checks; the search of sa_lower_bound or          *)
(* sa_upper_bound then takes one step per round, and the last step shifts  *)
(* the array and returns.  Array slots at and beyond g_count, which the    *)
(* code never reads, are left out.                                         *)
(***************************************************************************)
EXTENDS VmaBackEnd

CONSTANT VMA_MAX_AREAS  \* slots of the array (256)

ASSUME SaAssumption == VMA_MAX_AREAS \in Nat

VARIABLES
    g_areas,
    left, right     \* the local variables of the search

sa_vars == <<g_count, g_areas, call, left, right, ret>>

-----------------------------------------------------------------------------

\* Call c returns.
SaReturn(c, code, area) ==
    /\ ret' = [call |-> c, code |-> code, area |-> area]
    /\ call' = Idle
    /\ UNCHANGED <<left, right>>

StartSearch(c) ==
    /\ call' = c
    /\ left' = 0 /\ right' = g_count
    /\ UNCHANGED ret

\* The checks of sa_add.
SaRejected(a) ==
    \/ g_count >= VMA_MAX_AREAS
    \/ a.start >= a.end
    \/ a.start % PAGE_SIZE # 0 \/ a.end % PAGE_SIZE # 0
    \/ \E i \in 0 .. g_count - 1 : Overlaps(a, g_areas[i])

sa_add(a) ==
    /\ call = Idle
    /\ LET c == [op |-> "add", area |-> a]
       IN  IF SaRejected(a) THEN SaReturn(c, -1, NONE) ELSE StartSearch(c)
    /\ UNCHANGED <<g_count, g_areas>>

sa_remove(start) ==
    /\ call = Idle
    /\ StartSearch([op |-> "remove", addr |-> start])
    /\ UNCHANGED <<g_count, g_areas>>

sa_find(addr) ==
    /\ call = Idle
    /\ LET c == [op |-> "find", addr |-> addr]
       IN  IF g_count = 0 THEN SaReturn(c, 0, NONE) ELSE StartSearch(c)
    /\ UNCHANGED <<g_count, g_areas>>

\* mutant: find stops before an area that starts at the address
GoesRight_strict(s) ==
    IF call.op = "add" THEN s < call.area.start ELSE s < call.addr

\* The comparison of the search: sa_lower_bound for add and remove,
\* sa_upper_bound for find.
GoesRight(s) ==
    CASE call.op = "add" -> s < call.area.start
      [] call.op = "remove" -> s < call.addr
      [] call.op = "find" -> s <= call.addr

SearchStep ==
    /\ call # Idle /\ left < right
    /\ LET mid == left + (right - left) \div 2
       IN  IF GoesRight(g_areas[mid].start)
           THEN left' = mid + 1 /\ UNCHANGED right
           ELSE right' = mid /\ UNCHANGED left
    /\ UNCHANGED <<g_count, g_areas, call, ret>>

\* The end of sa_add: the areas from pos on move up by one slot.
sa_add_insert ==
    /\ call.op = "add" /\ left >= right
    /\ g_areas' = [i \in 0 .. g_count |->
                      IF i < left THEN g_areas[i]
                      ELSE IF i = left THEN call.area ELSE g_areas[i - 1]]
    /\ g_count' = g_count + 1
    /\ SaReturn(call, 0, NONE)

\* The end of sa_remove: the areas behind pos move down by one slot.
sa_remove_delete ==
    /\ call.op = "remove" /\ left >= right
    /\ IF left = g_count \/ g_areas[left].start # call.addr
       THEN SaReturn(call, -1, NONE) /\ UNCHANGED <<g_count, g_areas>>
       ELSE /\ g_areas' = [i \in 0 .. g_count - 2 |->
                             IF i < left THEN g_areas[i] ELSE g_areas[i + 1]]
            /\ g_count' = g_count - 1
            /\ SaReturn(call, 0, NONE)

\* The end of sa_find: the last area that starts at or below the address.
sa_find_answer ==
    /\ call.op = "find" /\ left >= right
    /\ SaReturn(call, 0, IF left = 0 \/ call.addr >= g_areas[left - 1].end
                       THEN NONE ELSE g_areas[left - 1])
    /\ UNCHANGED <<g_count, g_areas>>

-----------------------------------------------------------------------------

sa_init ==
    /\ g_count = 0 /\ g_areas = << >>
    /\ call = Idle /\ left = 0 /\ right = 0
    /\ ret = [call |-> Idle, code |-> 0, area |-> NONE]

SaNext ==
    \/ \E a \in Area : sa_add(a)
    \/ \E addr \in Addr : sa_remove(addr) \/ sa_find(addr)
    \/ SearchStep
    \/ sa_add_insert \/ sa_remove_delete \/ sa_find_answer

SaSpec == sa_init /\ [][SaNext]_sa_vars

-----------------------------------------------------------------------------
(* Properties.                                                             *)

SaTypeOK ==
    /\ g_count \in 0 .. VMA_MAX_AREAS
    /\ g_areas \in [0 .. g_count - 1 -> Area]
    /\ call \in Calls
    /\ left \in 0 .. VMA_MAX_AREAS /\ right \in 0 .. VMA_MAX_AREAS
    /\ ret \in [call : Calls, code : {0, -1}, area : Area \cup {NONE}]

\* Each area ends before the later ones start: sorted and disjoint at once,
\* what the searches and the single-candidate test of sa_find rely on.
SortedAndDisjoint ==
    \A i \in 0 .. g_count - 1 :
       /\ g_areas[i].start < g_areas[i].end
       /\ \A j \in i + 1 .. g_count - 1 : g_areas[i].end <= g_areas[j].start

SaVS == INSTANCE VmaSet
         WITH areas <- {g_areas[i] : i \in 0 .. g_count - 1},
              Capacity <- VMA_MAX_AREAS

\* The sorted array implements the contract of vma_ops_t: the searches find
\* exactly the area asked for, no add or remove loses or duplicates another
\* area, and an add fails only for a reason the contract allows.
ArrayImplementsVmaSet == SaVS!Spec
=============================================================================
