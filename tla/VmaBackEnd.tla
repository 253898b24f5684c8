----------------------------- MODULE VmaBackEnd -----------------------------
(***************************************************************************)
(* What the three back ends of the VMA layer have in common: areas, their  *)
(* overlap test, the count of the registered ones, and calls with their    *)
(* answers.                                                                *)
(***************************************************************************)
EXTENDS Integers, FiniteSets

CONSTANTS
    LIMIT,          \* addresses are below it (2^32)
    PAGE_SIZE,      \* 4096
    Tag             \* flags and name of an area

ASSUME VmaAssumption == LIMIT \in Nat /\ PAGE_SIZE \in Nat \ {0}

Addr == 0..(LIMIT - 1)
Area == [start : Addr, end : Addr, tag : Tag]
NONE == [start |-> 0, end |-> 0, tag |-> "none"]

VARIABLES
    g_count,        \* the areas registered
    call,           \* the call in progress: its name and argument
    ret             \* the last call and its answer: status and area

Idle == [op |-> "idle"]
Calls == {Idle} \cup [op : {"add"}, area : Area]
                \cup [op : {"remove", "find"}, addr : Addr]

\* mutant: touching ranges are let through, and so are some overlaps
Overlaps_inside(a, b) == a.start > b.start /\ a.start < b.end

Overlaps(a, b) == a.start < b.end /\ b.start < a.end
=============================================================================
