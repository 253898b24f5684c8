---------------------------- MODULE BoundedFifo ----------------------------
(***************************************************************************)
(* What the keyboard driver promises its reader (include/drivers/          *)
(* keyboard.h): a queue of characters.  The producer appends, or drops the *)
(* character when the queue is full; the reader takes the oldest character *)
(* or learns that there is none.                                           *)
(***************************************************************************)
EXTENDS Naturals, Sequences

CONSTANTS
    Char,       \* the characters
    NoChar,     \* "no character available"
    Capacity    \* how many characters the queue holds

VARIABLES
    q,          \* the characters put and not yet taken, oldest first
    got         \* answer of the last attempt to take one; turn changes with
                \* every attempt, so that each of them is a step

vars == <<q, got>>

Answer(c) == [char |-> c, turn |-> 1 - got.turn]

Init == q = << >> /\ got = [char |-> NoChar, turn |-> 0]

Put(c) ==
    /\ Len(q) < Capacity
    /\ q' = Append(q, c)
    /\ UNCHANGED got

Take ==
    /\ q # << >>
    /\ got' = Answer(Head(q))
    /\ q' = Tail(q)

TakeFails ==
    /\ q = << >>
    /\ got' = Answer(NoChar)
    /\ UNCHANGED q

Next == (\E c \in Char : Put(c)) \/ Take \/ TakeFails

Spec == Init /\ [][Next]_vars
=============================================================================
