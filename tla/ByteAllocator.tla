--------------------------- MODULE ByteAllocator ---------------------------
(***************************************************************************)
(* What every back end of heap_ops_t (include/kernel/kmalloc.h) promises   *)
(* the callers of kmalloc and kfree: a granted piece has at least the      *)
(* size asked for, starts at a multiple of the alignment, lies in the heap *)
(* and shares no byte -- and no address -- with another piece; it stays    *)
(* granted until it is freed.  A request may fail.                         *)
(***************************************************************************)
EXTENDS Integers

CONSTANTS
    Byte,       \* the addresses of the bytes of the heap
    ALIGN,      \* the alignment promised
    Size,       \* the sizes that may be asked for
    Ptr,        \* the addresses
    NULL

VARIABLES
    live,       \* the pieces granted and not yet freed
    ret         \* the last call, and its answer or argument

vars == <<live, ret>>

Answer(op, size, ptr) == [op |-> op, size |-> size, ptr |-> ptr]

Piece(p, n) == [ptr |-> p, size |-> n]

Bytes(piece) == piece.ptr .. piece.ptr + piece.size - 1

Init == live = {} /\ ret = Answer("none", 0, NULL)

Alloc(n) ==
    \E p \in Ptr \ {NULL} :
       /\ ret' = Answer("alloc", n, p)
       /\ p % ALIGN = 0
       /\ Bytes(Piece(p, n)) \subseteq Byte
       /\ \A q \in live : q.ptr # p /\ Bytes(q) \cap Bytes(Piece(p, n)) = {}
       /\ live' = live \cup {Piece(p, n)}

AllocFails(n) == ret' = Answer("alloc", n, NULL) /\ UNCHANGED live

Free(p) ==
    /\ \E q \in live : q.ptr = p /\ live' = live \ {q}
    /\ ret' = Answer("free", 0, p)

FreeIgnored(p) ==
    /\ \A q \in live : q.ptr # p
    /\ ret' = Answer("free", 0, p)
    /\ UNCHANGED live

Next ==
    \/ \E n \in Size : Alloc(n) \/ AllocFails(n)
    \/ \E p \in Ptr : Free(p) \/ FreeIgnored(p)

Spec == Init /\ [][Next]_vars
=============================================================================
