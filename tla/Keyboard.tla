------------------------------ MODULE Keyboard ------------------------------
(***************************************************************************)
(* The PS/2 keyboard driver (src/kernel/drivers/keyboard.c): the IRQ1      *)
(* handler decodes scancodes and puts characters into a ring buffer, the   *)
(* main loop takes them out.                                               *)
(*                                                                         *)
(* The handler runs behind an interrupt gate, so with interrupts disabled: *)
(* it is one step.  The reader runs with interrupts enabled and can be     *)
(* interrupted between any two accesses to the volatile variables: each of *)
(* them is a step.  There is no lock.                                      *)
(***************************************************************************)
EXTENDS Integers, Sequences

CONSTANTS
    KBD_BUF_SIZE,   \* slots of the ring (128)
    Letter,         \* keys with an entry in scancode_map
    Dead,           \* keys without one
    Extended,       \* keys whose codes follow an 0xE0 prefix
    ShiftKey,       \* codes 0x2A and 0x36
    Caller,         \* who reads: "console_getc" or "keyboard_getc"
    MaxCodes        \* bound on the scancodes sent (in the model only)

ASSUME KeyboardAssumption ==
    /\ KBD_BUF_SIZE \in Nat /\ KBD_BUF_SIZE >= 2
    /\ Caller \subseteq {"console_getc", "keyboard_getc"}

Key == Letter \cup Dead \cup ShiftKey

\* The codes of a Shift key stand for nothing else; "E0" and "none" are not
\* the names of keys.
ASSUME KeysAssumption ==
    /\ ShiftKey \cap (Letter \cup Extended) = {}
    /\ {"E0", "none"} \cap (Key \cup Extended) = {}

\* A character is the entry of scancode_map or scancode_map_shift for a key.
Char == [key : Letter, shift : BOOLEAN]
NoChar == [key |-> "none", shift |-> FALSE]

\* A byte the controller sends: the prefix, or a make or break code.
E0 == [key |-> "E0", released |-> FALSE]
Scancode == [key : Key \cup Extended, released : BOOLEAN] \cup {E0}

VARIABLES
    wire,           \* bytes in the keyboard controller; each with .meant, the
                    \* character its key stands for (not known to the code)
    typed,          \* number of bytes sent so far
    down,           \* the keys held down (not known to the code)
    g_irq1,         \* handler installed, IRQ1 unmasked, interrupts enabled
    g_kbd_buf, g_kbd_head, g_kbd_tail,
    g_shift_down, g_e0_prefix,
    caller,         \* the function that reads
    pc,             \* where the reader is
    tail, c,        \* its local variables in kbd_buf_get
    got             \* what the last keyboard_try_getc answered, and its parity

ring == <<g_kbd_buf, g_kbd_head, g_kbd_tail>>
user == <<wire, typed, down>>
vars == <<user, g_irq1, ring, g_shift_down, g_e0_prefix,
          caller, pc, tail, c, got>>

-----------------------------------------------------------------------------
(* The keyboard (external).                                                *)

\* The character a press of key stands for, given the keys held.
Meaning(key, released, held) ==
    IF key \in Letter /\ ~released
    THEN [key |-> key, shift |-> held \cap ShiftKey # {}]
    ELSE NoChar

Codes(key, released, held) ==
    LET code == [key |-> key, released |-> released]
        meant == Meaning(key, released, held)
    IN  IF key \in Extended
        THEN <<[code |-> E0, meant |-> NoChar],
               [code |-> code, meant |-> NoChar]>>
        ELSE <<[code |-> code, meant |-> meant]>>

Send(key, released) ==
    LET codes == Codes(key, released, down)
    IN  /\ typed + Len(codes) <= MaxCodes
        /\ wire' = wire \o codes
        /\ typed' = typed + Len(codes)
        /\ UNCHANGED <<g_irq1, ring, g_shift_down, g_e0_prefix,
                       caller, pc, tail, c, got>>

\* A key already down repeats.
Press(key) ==
    /\ Send(key, FALSE)
    /\ down' = down \cup {key}

Release(key) ==
    /\ key \in down
    /\ Send(key, TRUE)
    /\ down' = down \ {key}

-----------------------------------------------------------------------------
(* The interrupt side.                                                     *)

NextIndex(i) == (i + 1) % KBD_BUF_SIZE

\* mutant: the slot that tells full from empty is used too
kbd_buf_put_all(ch) ==
    /\ g_kbd_buf' = [g_kbd_buf EXCEPT ![g_kbd_head] = ch]
    /\ g_kbd_head' = NextIndex(g_kbd_head)

\* The character is dropped when the buffer is full.
kbd_buf_put(ch) ==
    IF NextIndex(g_kbd_head) = g_kbd_tail
    THEN UNCHANGED <<g_kbd_buf, g_kbd_head>>
    ELSE /\ g_kbd_buf' = [g_kbd_buf EXCEPT ![g_kbd_head] = ch]
         /\ g_kbd_head' = NextIndex(g_kbd_head)

\* mutant: a prefix is forgotten at once
keyboard_handle_scancode_no_prefix(sc) ==
    \/ /\ sc = E0
       /\ UNCHANGED <<g_e0_prefix, g_shift_down, g_kbd_buf, g_kbd_head>>
    \/ /\ sc # E0 /\ sc.key \in ShiftKey
       /\ g_shift_down' = ~sc.released
       /\ UNCHANGED <<g_e0_prefix, g_kbd_buf, g_kbd_head>>
    \/ /\ sc # E0 /\ sc.key \notin ShiftKey
       /\ IF sc.released \/ sc.key \in Dead
          THEN UNCHANGED <<g_kbd_buf, g_kbd_head>>
          ELSE kbd_buf_put([key |-> sc.key, shift |-> g_shift_down])
       /\ UNCHANGED <<g_e0_prefix, g_shift_down>>

keyboard_handle_scancode(sc) ==
    \/ /\ sc = E0
       /\ g_e0_prefix' = TRUE
       /\ UNCHANGED <<g_shift_down, g_kbd_buf, g_kbd_head>>
    \/ /\ sc # E0 /\ g_e0_prefix
       /\ g_e0_prefix' = FALSE
       /\ UNCHANGED <<g_shift_down, g_kbd_buf, g_kbd_head>>
    \/ /\ sc # E0 /\ ~g_e0_prefix /\ sc.key \in ShiftKey
       /\ g_shift_down' = ~sc.released
       /\ UNCHANGED <<g_e0_prefix, g_kbd_buf, g_kbd_head>>
    \/ /\ sc # E0 /\ ~g_e0_prefix /\ sc.key \notin ShiftKey
       /\ IF sc.released \/ sc.key \notin Letter
          THEN UNCHANGED <<g_kbd_buf, g_kbd_head>>
          ELSE kbd_buf_put([key |-> sc.key, shift |-> g_shift_down])
       /\ UNCHANGED <<g_e0_prefix, g_shift_down>>

\* IRQ1: the stub, irq_handler_c and the handler.  A halted CPU continues
\* behind the hlt.
keyboard_irq1_handler ==
    /\ g_irq1
    /\ wire # << >>
    /\ wire' = Tail(wire)
    /\ keyboard_handle_scancode(Head(wire).code)
    /\ pc' = IF pc = "hlt" THEN "call" ELSE pc
    /\ UNCHANGED <<typed, down, g_irq1, g_kbd_tail, caller, tail, c, got>>

\* keyboard_init, then sti, in kmain: from here on IRQ1 is taken.
keyboard_init ==
    /\ ~g_irq1
    /\ g_irq1' = TRUE
    /\ UNCHANGED <<user, ring, g_shift_down, g_e0_prefix,
                   caller, pc, tail, c, got>>

-----------------------------------------------------------------------------
(* The reader: kbd_buf_get, one step per access, and its callers.          *)

Rest == <<user, g_irq1, g_kbd_buf, g_kbd_head, g_shift_down, g_e0_prefix,
          caller>>

Answer(ch) == [char |-> ch, turn |-> 1 - got.turn]

ReadTail ==
    /\ g_irq1 /\ pc = "call"
    /\ tail' = g_kbd_tail
    /\ pc' = "compare"
    /\ UNCHANGED <<c, got, g_kbd_tail, Rest>>

CompareHead ==
    /\ pc = "compare"
    /\ IF tail = g_kbd_head
       THEN pc' = "empty" /\ got' = Answer(NoChar)
       ELSE pc' = "take" /\ UNCHANGED got
    /\ UNCHANGED <<tail, c, g_kbd_tail, Rest>>

ReadBuf ==
    /\ pc = "take"
    /\ c' = g_kbd_buf[tail]
    /\ pc' = "advance"
    /\ UNCHANGED <<tail, got, g_kbd_tail, Rest>>

WriteTail ==
    /\ pc = "advance"
    /\ g_kbd_tail' = NextIndex(tail)
    /\ got' = Answer(c)
    /\ pc' = "call"
    /\ UNCHANGED <<tail, c, Rest>>

\* mutant: console_getc halts, too
console_getc_hlt ==
    /\ pc = "empty" /\ caller = "console_getc"
    /\ pc' = "hlt"
    /\ UNCHANGED <<tail, c, got, g_kbd_tail, Rest>>

\* Nothing to read: console_getc polls the serial port and tries again.
console_getc_pause ==
    /\ pc = "empty" /\ caller = "console_getc"
    /\ pc' = "call"
    /\ UNCHANGED <<tail, c, got, g_kbd_tail, Rest>>

\* Nothing to read: keyboard_getc halts the CPU until an interrupt.
keyboard_getc_hlt ==
    /\ pc = "empty" /\ caller = "keyboard_getc"
    /\ pc' = "hlt"
    /\ UNCHANGED <<tail, c, got, g_kbd_tail, Rest>>

Read ==
    \/ ReadTail \/ CompareHead \/ ReadBuf \/ WriteTail
    \/ console_getc_pause \/ keyboard_getc_hlt

-----------------------------------------------------------------------------
(* The specification.                                                      *)

Init ==
    /\ wire = << >> /\ typed = 0 /\ down = {}
    /\ g_irq1 = FALSE
    /\ g_kbd_buf = [i \in 0 .. KBD_BUF_SIZE - 1 |-> NoChar]
    /\ g_kbd_head = 0 /\ g_kbd_tail = 0
    /\ g_shift_down = FALSE /\ g_e0_prefix = FALSE
    /\ caller \in Caller
    /\ pc = "call" /\ tail = 0 /\ c = NoChar
    /\ got = [char |-> NoChar, turn |-> 0]

Next ==
    \/ \E key \in Key \cup Extended : Press(key) \/ Release(key)
    \/ keyboard_init
    \/ keyboard_irq1_handler
    \/ Read

Spec == Init /\ [][Next]_vars

\* Interrupts are taken (the reader never disables them) and the main loop
\* keeps running; the user need not type.
FairSpec ==
    /\ Spec
    /\ WF_vars(keyboard_init)
    /\ WF_vars(keyboard_irq1_handler)
    /\ WF_vars(Read)

-----------------------------------------------------------------------------
(* Properties.                                                             *)

Index == 0 .. KBD_BUF_SIZE - 1

TypeOK ==
    /\ wire \in Seq([code : Scancode, meant : Char \cup {NoChar}])
    /\ typed \in Nat /\ down \subseteq Key \cup Extended
    /\ g_irq1 \in BOOLEAN
    /\ g_kbd_buf \in [Index -> Char \cup {NoChar}]
    /\ g_kbd_head \in Index /\ g_kbd_tail \in Index
    /\ g_shift_down \in BOOLEAN /\ g_e0_prefix \in BOOLEAN
    /\ caller \in Caller
    /\ pc \in {"call", "compare", "take", "advance", "empty", "hlt"}
    /\ tail \in Index
    /\ c \in Char \cup {NoChar}
    /\ got \in [char : Char \cup {NoChar}, turn : {0, 1}]

\* The characters in the ring, oldest first.
Count == IF g_kbd_head >= g_kbd_tail
         THEN g_kbd_head - g_kbd_tail
         ELSE g_kbd_head + KBD_BUF_SIZE - g_kbd_tail
Slot(k) == IF g_kbd_tail + k >= KBD_BUF_SIZE
           THEN g_kbd_tail + k - KBD_BUF_SIZE
           ELSE g_kbd_tail + k
Unread == [k \in 1 .. Count |-> g_kbd_buf[Slot(k - 1)]]

Fifo == INSTANCE BoundedFifo
           WITH Capacity <- KBD_BUF_SIZE - 1, q <- Unread

\* Without a lock, and wherever the interrupt strikes, ring buffer and reader
\* are a bounded queue: every character put is read once and in order, and
\* the reader is told that there is none only when there is none.
ImplementsBoundedFifo == Fifo!Spec

\* Each interrupt adds to the queue the character the key meant when it was
\* pressed -- shifted if Shift was held -- and nothing for releases, extended
\* keys and keys without a character; a full queue drops it.
DecodesAsTyped ==
    [][Len(wire') < Len(wire) =>
          LET meant == Head(wire).meant
          IN  Unread' = IF meant = NoChar \/ Len(Unread) = KBD_BUF_SIZE - 1
                        THEN Unread ELSE Append(Unread, meant)]_vars

\* A reader that asks for a character gets one whenever there is one: neither
\* a byte in the controller nor a character in the ring waits forever.
InputIsRead == [](g_irq1 => <>(wire = << >> /\ Unread = << >>))

\* The shell's reader, console_getc, polls: with it no input waits forever.
ConsoleInputIsRead == caller = "console_getc" => InputIsRead
=============================================================================
