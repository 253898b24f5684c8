------------------------------- MODULE VmaSet -------------------------------
(***************************************************************************)
(* What every back end of vma_ops_t (include/kernel/vma.h) promises the    *)
(* page fault handler, the VMM and the shell: a set of page-aligned        *)
(* address ranges that do not overlap.  add refuses a range that would     *)
(* break this, or one more than the back end has room for; remove deletes  *)
(* by start address; find answers the area that contains an address.       *)
(***************************************************************************)
EXTENDS Integers, FiniteSets

CONSTANTS
    Addr,       \* the addresses
    PAGE_SIZE,
    Tag,        \* flags and name of an area
    Capacity,   \* the number of areas every back end has room for
    NONE        \* the null pointer find answers with

VARIABLES
    areas,      \* the registered areas
    ret         \* the last call: name and argument, status and area it gave

vars == <<areas, ret>>

Area == [start : Addr, end : Addr, tag : Tag]

Overlap(a, b) == a.start < b.end /\ b.start < a.end

Valid(a) ==
    /\ a.start < a.end
    /\ a.start % PAGE_SIZE = 0 /\ a.end % PAGE_SIZE = 0

Contains(a, addr) == a.start <= addr /\ addr < a.end

\* Calls, and what they return.  The call is part of the answer, so that the
\* same answer to two different questions is not the same step.
AddCall(a) == [op |-> "add", area |-> a]
RemoveCall(start) == [op |-> "remove", addr |-> start]
FindCall(addr) == [op |-> "find", addr |-> addr]
Answer(call, code, area) == [call |-> call, code |-> code, area |-> area]

Init == areas = {} /\ ret = Answer([op |-> "idle"], 0, NONE)

Add(a) ==
    /\ Valid(a) /\ \A b \in areas : ~Overlap(a, b)
    /\ areas' = areas \cup {a}
    /\ ret' = Answer(AddCall(a), 0, NONE)

AddFails(a) ==
    /\ \/ ~Valid(a)
       \/ \E b \in areas : Overlap(a, b)
       \/ Cardinality(areas) >= Capacity
    /\ ret' = Answer(AddCall(a), -1, NONE)
    /\ UNCHANGED areas

Remove(start) ==
    \E a \in areas :
       /\ a.start = start
       /\ areas' = areas \ {a}
       /\ ret' = Answer(RemoveCall(start), 0, NONE)

RemoveFails(start) ==
    /\ \A a \in areas : a.start # start
    /\ ret' = Answer(RemoveCall(start), -1, NONE)
    /\ UNCHANGED areas

Find(addr) ==
    /\ \/ \E a \in areas :
             Contains(a, addr) /\ ret' = Answer(FindCall(addr), 0, a)
       \/ /\ \A a \in areas : ~Contains(a, addr)
          /\ ret' = Answer(FindCall(addr), 0, NONE)
    /\ UNCHANGED areas

\* A back end may drop its last answer when the next call begins.
NextCall ==
    /\ ret' = Answer([op |-> "idle"], 0, NONE)
    /\ UNCHANGED areas

Next ==
    \/ NextCall
    \/ \E a \in Area : Add(a) \/ AddFails(a)
    \/ \E addr \in Addr : Remove(addr) \/ RemoveFails(addr) \/ Find(addr)

Spec == Init /\ [][Next]_vars
=============================================================================
