--------------------------- MODULE KeyboardProofs ---------------------------
(***************************************************************************)
(* The ring buffer of the keyboard driver is a bounded queue, for every    *)
(* size of the ring, any number of scancodes and every point at which the  *)
(* interrupt may strike the reader; and with one Shift key each interrupt  *)
(* makes of its byte what the key meant.                                   *)
(***************************************************************************)
EXTENDS Keyboard, TLAPS

\* The index wraps around.
LEMMA NextIndexProp ==
    ASSUME NEW i \in Index
    PROVE  /\ NextIndex(i) = IF i = KBD_BUF_SIZE - 1 THEN 0 ELSE i + 1
           /\ NextIndex(i) \in Index
<1>1. KBD_BUF_SIZE \in Nat /\ KBD_BUF_SIZE >= 2
  BY KeyboardAssumption
<1>2. CASE i = KBD_BUF_SIZE - 1
  BY <1>1, <1>2 DEF NextIndex, Index
<1>3. CASE i # KBD_BUF_SIZE - 1
  BY <1>1, <1>3 DEF NextIndex, Index
<1> QED BY <1>2, <1>3

\* What a reader between two accesses may rely on.
ReaderInv ==
    /\ pc \in {"compare", "take", "advance"} => tail = g_kbd_tail
    /\ pc \in {"take", "advance"} => g_kbd_head # g_kbd_tail
    /\ pc = "advance" => c = g_kbd_buf[g_kbd_tail]

IInv == TypeOK /\ ReaderInv

LEMMA CodesType ==
    ASSUME NEW key \in Key \cup Extended, NEW released \in BOOLEAN, NEW held
    PROVE  Codes(key, released, held)
              \in Seq([code : Scancode, meant : Char \cup {NoChar}])
<1> DEFINE T == [code : Scancode, meant : Char \cup {NoChar}]
           e == [code |-> [key |-> key, released |-> released],
                 meant |-> Meaning(key, released, held)]
           p1 == [code |-> E0, meant |-> NoChar]
           p2 == [code |-> [key |-> key, released |-> released],
                  meant |-> NoChar]
<1>1. [key |-> key, released |-> released] \in Scancode /\ E0 \in Scancode
  BY DEF Scancode
<1>2. Meaning(key, released, held) \in Char \cup {NoChar}
  BY DEF Meaning, Char
<1>3. e \in T /\ p1 \in T /\ p2 \in T
  BY <1>1, <1>2
<1>4. Codes(key, released, held)
         = IF key \in Extended THEN <<p1, p2>> ELSE <<e>>
  BY Zenon DEF Codes
<1> HIDE DEF T, e, p1, p2
<1>5. <<e>> \in Seq(T) /\ <<p1, p2>> \in Seq(T)
  BY <1>3
<1> QED BY <1>4, <1>5 DEF T

LEMMA IInvInit == Init => IInv
<1> SUFFICES ASSUME Init PROVE IInv
  OBVIOUS
<1>1. 0 \in Index
  BY KeyboardAssumption DEF Index
<1>2. g_kbd_buf \in [Index -> Char \cup {NoChar}]
  BY DEF Init, Index
<1>3. wire \in Seq([code : Scancode, meant : Char \cup {NoChar}])
  <2> DEFINE T == [code : Scancode, meant : Char \cup {NoChar}]
  <2> HIDE DEF T
  <2>1. wire \in Seq(T)
    BY DEF Init
  <2> QED BY <2>1 DEF T
<1>4. TypeOK
  BY <1>1, <1>2, <1>3 DEF Init, TypeOK
<1> QED BY <1>4 DEF Init, IInv, ReaderInv

\* kbd_buf_put writes the free slot at the head and never the one the reader
\* is about to read, and it never makes the ring look empty.
LEMMA PutProp ==
    ASSUME IInv, NEW ch \in Char, kbd_buf_put(ch)
    PROVE  /\ g_kbd_buf' \in [Index -> Char \cup {NoChar}]
           /\ g_kbd_head' \in Index
           /\ g_kbd_head # g_kbd_tail =>
                 /\ g_kbd_head' # g_kbd_tail
                 /\ g_kbd_buf'[g_kbd_tail] = g_kbd_buf[g_kbd_tail]
<1>1. g_kbd_head \in Index /\ g_kbd_tail \in Index
      /\ g_kbd_buf \in [Index -> Char \cup {NoChar}]
  BY DEF IInv, TypeOK
<1>2. NextIndex(g_kbd_head) \in Index
  BY <1>1, NextIndexProp
<1> QED BY <1>1, <1>2 DEF kbd_buf_put

\* What an interrupt may do to the ring and the decoder.
LEMMA DecodeProp ==
    ASSUME IInv, NEW sc \in Scancode, keyboard_handle_scancode(sc)
    PROVE  /\ g_shift_down' \in BOOLEAN /\ g_e0_prefix' \in BOOLEAN
           /\ \/ UNCHANGED <<g_kbd_buf, g_kbd_head>>
              \/ \E ch \in Char : kbd_buf_put(ch)
<1>1. g_shift_down \in BOOLEAN /\ g_e0_prefix \in BOOLEAN
  BY DEF IInv, TypeOK
<1>2. CASE sc = E0
  BY <1>1, <1>2 DEF keyboard_handle_scancode
<1>3. CASE sc # E0
  <2>1. sc.released \in BOOLEAN
    BY <1>3 DEF Scancode
  <2>2. CASE g_e0_prefix \/ sc.key \in ShiftKey
    BY <1>1, <1>3, <2>1, <2>2 DEF keyboard_handle_scancode
  <2>3. CASE ~g_e0_prefix /\ sc.key \notin ShiftKey
    <3>1. /\ UNCHANGED <<g_e0_prefix, g_shift_down>>
          /\ IF sc.released \/ sc.key \notin Letter
             THEN UNCHANGED <<g_kbd_buf, g_kbd_head>>
             ELSE kbd_buf_put([key |-> sc.key, shift |-> g_shift_down])
      BY <1>3, <2>3 DEF keyboard_handle_scancode
    <3>2. sc.key \in Letter =>
             [key |-> sc.key, shift |-> g_shift_down] \in Char
      BY <1>1 DEF Char
    <3> HIDE DEF kbd_buf_put
    <3> QED BY <1>1, <3>1, <3>2
  <2> QED BY <2>2, <2>3
<1> QED BY <1>2, <1>3

LEMMA IInvNext == IInv /\ [Next]_vars => IInv'
<1> SUFFICES ASSUME IInv, [Next]_vars PROVE IInv'
  OBVIOUS
<1> USE DEF IInv
<1>1. ASSUME NEW key \in Key \cup Extended, Press(key) \/ Release(key)
      PROVE  IInv'
  <2>1. PICK released \in BOOLEAN : Send(key, released)
    BY <1>1 DEF Press, Release
  <2> DEFINE T == [code : Scancode, meant : Char \cup {NoChar}]
             codes == Codes(key, released, down)
  <2>2. codes \in Seq(T)
    BY CodesType
  <2> HIDE DEF codes, T
  <2>3. wire' = wire \o codes /\ typed' = typed + Len(codes)
    BY <2>1 DEF Send, codes
  <2>4. wire \in Seq(T) /\ typed \in Nat
    BY DEF TypeOK, T
  <2>5. wire' \in Seq(T) /\ typed' \in Nat
    BY <2>2, <2>3, <2>4
  <2>6. down' \subseteq Key \cup Extended
    BY <1>1 DEF Press, Release, TypeOK
  <2>7. UNCHANGED <<g_irq1, ring, g_shift_down, g_e0_prefix,
                    caller, pc, tail, c, got>>
    BY <2>1 DEF Send
  <2> QED BY <2>5, <2>6, <2>7 DEF TypeOK, ReaderInv, ring, T
<1>2. CASE keyboard_init
  BY <1>2 DEF keyboard_init, TypeOK, ReaderInv, ring, user
<1>3. CASE keyboard_irq1_handler
  <2> DEFINE T == [code : Scancode, meant : Char \cup {NoChar}]
  <2>1. wire \in Seq(T) /\ wire # << >> /\ wire' = Tail(wire)
    BY <1>3 DEF TypeOK, keyboard_irq1_handler
  <2>2. wire' \in Seq(T) /\ Head(wire) \in T
    <3> HIDE DEF T
    <3> QED BY <2>1
  <2>3. Head(wire).code \in Scancode
    BY <2>2
  <2>4. /\ g_shift_down' \in BOOLEAN /\ g_e0_prefix' \in BOOLEAN
        /\ \/ UNCHANGED <<g_kbd_buf, g_kbd_head>>
           \/ \E ch \in Char : kbd_buf_put(ch)
    BY <1>3, <2>3, DecodeProp DEF keyboard_irq1_handler
  <2>5. /\ g_kbd_buf' \in [Index -> Char \cup {NoChar}]
        /\ g_kbd_head' \in Index
        /\ g_kbd_head # g_kbd_tail =>
              /\ g_kbd_head' # g_kbd_tail
              /\ g_kbd_buf'[g_kbd_tail] = g_kbd_buf[g_kbd_tail]
    <3>1. CASE UNCHANGED <<g_kbd_buf, g_kbd_head>>
      BY <3>1 DEF TypeOK
    <3>2. CASE \E ch \in Char : kbd_buf_put(ch)
      BY <3>2, PutProp
    <3> QED BY <2>4, <3>1, <3>2
  <2>6. /\ pc' = IF pc = "hlt" THEN "call" ELSE pc
        /\ UNCHANGED <<typed, down, g_irq1, g_kbd_tail, caller, tail, c, got>>
    BY <1>3 DEF keyboard_irq1_handler
  <2>7. TypeOK'
    BY <2>2, <2>4, <2>5, <2>6 DEF TypeOK
  <2>8. ReaderInv'
    BY <2>5, <2>6 DEF ReaderInv
  <2> QED BY <2>7, <2>8
<1>4. CASE ReadTail
  BY <1>4 DEF ReadTail, Rest, user, TypeOK, ReaderInv
<1>5. CASE CompareHead
  BY <1>5 DEF CompareHead, Answer, Rest, user, TypeOK, ReaderInv
<1>6. CASE ReadBuf
  BY <1>6 DEF ReadBuf, Rest, user, TypeOK, ReaderInv
<1>7. CASE WriteTail
  <2>1. g_kbd_tail' \in Index
    BY <1>7, NextIndexProp DEF WriteTail, TypeOK
  <2> QED BY <1>7, <2>1 DEF WriteTail, Answer, Rest, user, TypeOK, ReaderInv
<1>8. CASE console_getc_pause
  BY <1>8 DEF console_getc_pause, Rest, user, TypeOK, ReaderInv
<1>9. CASE keyboard_getc_hlt
  BY <1>9 DEF keyboard_getc_hlt, Rest, user, TypeOK, ReaderInv
<1>10. CASE UNCHANGED vars
  BY <1>10 DEF vars, ring, user, TypeOK, ReaderInv
<1> QED
  BY <1>1, <1>2, <1>3, <1>4, <1>5, <1>6, <1>7, <1>8, <1>9, <1>10
  DEF Next, Read

LEMMA Invariance == Spec => []IInv
<1> QED BY IInvInit, IInvNext, PTL DEF Spec

\* The variables of the driver keep their types; in particular both indices
\* stay inside the ring.
THEOREM TypeCorrect == Spec => []TypeOK
<1>1. IInv => TypeOK
  BY DEF IInv
<1> QED BY <1>1, Invariance, PTL

-----------------------------------------------------------------------------
(* The refinement.                                                         *)

\* How many characters wait, and where: arithmetic of the ring.
LEMMA RingProp ==
    ASSUME IInv
    PROVE  /\ Count \in 0 .. KBD_BUF_SIZE - 1
           /\ Count = 0 <=> g_kbd_head = g_kbd_tail
           /\ \A k \in 0 .. KBD_BUF_SIZE - 1 : Slot(k) \in Index
           /\ Slot(0) = g_kbd_tail
           /\ Slot(Count) = g_kbd_head
           /\ \A k \in 0 .. Count - 1 : Slot(k) # g_kbd_head
           /\ NextIndex(g_kbd_head) = g_kbd_tail <=> Count = KBD_BUF_SIZE - 1
<1>1. KBD_BUF_SIZE \in Nat /\ KBD_BUF_SIZE >= 2
  BY KeyboardAssumption
<1>2. /\ g_kbd_head \in 0 .. KBD_BUF_SIZE - 1
      /\ g_kbd_tail \in 0 .. KBD_BUF_SIZE - 1
  BY DEF IInv, TypeOK, Index
<1>3. NextIndex(g_kbd_head)
         = IF g_kbd_head = KBD_BUF_SIZE - 1 THEN 0 ELSE g_kbd_head + 1
  BY <1>2, NextIndexProp DEF Index
<1>4. /\ Count \in 0 .. KBD_BUF_SIZE - 1
      /\ Count = 0 <=> g_kbd_head = g_kbd_tail
  BY <1>1, <1>2 DEF Count
<1>5. /\ \A k \in 0 .. KBD_BUF_SIZE - 1 : Slot(k) \in Index
      /\ Slot(0) = g_kbd_tail
  BY <1>1, <1>2 DEF Slot, Index
<1>6. /\ Slot(Count) = g_kbd_head
      /\ \A k \in 0 .. Count - 1 : Slot(k) # g_kbd_head
  BY <1>1, <1>2 DEF Slot, Count
<1>7. NextIndex(g_kbd_head) = g_kbd_tail <=> Count = KBD_BUF_SIZE - 1
  BY <1>1, <1>2, <1>3 DEF Count
<1> QED BY <1>4, <1>5, <1>6, <1>7

LEMMA SeqIsFunction ==
    ASSUME NEW T, NEW s \in Seq(T)
    PROVE  s = [k \in 1 .. Len(s) |-> s[k]]
<1>1. s \in [1 .. Len(s) -> T]
  OBVIOUS
<1> QED BY <1>1

LEMMA TailIsFunction ==
    ASSUME NEW T, NEW s \in Seq(T), s # << >>
    PROVE  Tail(s) = [k \in 1 .. Len(s) - 1 |-> s[k + 1]]
<1>1. Tail(s) \in Seq(T) /\ Len(Tail(s)) = Len(s) - 1
  OBVIOUS
<1>2. \A k \in 1 .. Len(s) - 1 : Tail(s)[k] = s[k + 1]
  OBVIOUS
<1>3. Tail(s) = [k \in 1 .. Len(s) - 1 |-> Tail(s)[k]]
  BY <1>1, SeqIsFunction
<1> QED BY <1>2, <1>3

LEMMA UnreadProp ==
    ASSUME IInv
    PROVE  /\ Unread \in Seq(Char \cup {NoChar})
           /\ Len(Unread) = Count
           /\ \A k \in 1 .. Count : Unread[k] = g_kbd_buf[Slot(k - 1)]
<1> DEFINE V == Char \cup {NoChar}
<1>1. Count \in Nat /\ Count <= KBD_BUF_SIZE - 1
      /\ \A k \in 0 .. KBD_BUF_SIZE - 1 : Slot(k) \in Index
  BY RingProp, KeyboardAssumption
<1>2. g_kbd_buf \in [Index -> V]
  BY DEF IInv, TypeOK
<1> HIDE DEF V
<1>3. ASSUME NEW k \in 1 .. Count PROVE g_kbd_buf[Slot(k - 1)] \in V
  BY <1>1, <1>2, KeyboardAssumption
<1>4. Unread \in [1 .. Count -> V]
  BY <1>3 DEF Unread
<1>5. Unread \in Seq(V) /\ Len(Unread) = Count
  BY <1>1, <1>4
<1>6. \A k \in 1 .. Count : Unread[k] = g_kbd_buf[Slot(k - 1)]
  BY DEF Unread
<1> QED BY <1>5, <1>6 DEF V

\* A put appends to the waiting characters, unless the ring is full.
LEMMA PutRefines ==
    ASSUME IInv, IInv', NEW ch \in Char, kbd_buf_put(ch), UNCHANGED g_kbd_tail
    PROVE  \/ Len(Unread) = KBD_BUF_SIZE - 1 /\ Unread' = Unread
           \/ Len(Unread) < KBD_BUF_SIZE - 1 /\ Unread' = Append(Unread, ch)
<1> DEFINE V == Char \cup {NoChar}
           N == KBD_BUF_SIZE
<1>1. N \in Nat /\ N >= 2
  BY KeyboardAssumption
<1>2. CASE NextIndex(g_kbd_head) = g_kbd_tail
  <2>1. UNCHANGED <<g_kbd_buf, g_kbd_head, g_kbd_tail>>
    BY <1>2 DEF kbd_buf_put
  <2>2. Unread' = Unread
    BY <2>1 DEF Unread, Count, Slot
  <2>3. Len(Unread) = KBD_BUF_SIZE - 1
    BY <1>2, RingProp, UnreadProp
  <2> QED BY <2>2, <2>3
<1>3. CASE NextIndex(g_kbd_head) # g_kbd_tail
  <2>1. /\ g_kbd_buf' = [g_kbd_buf EXCEPT ![g_kbd_head] = ch]
        /\ g_kbd_head' = NextIndex(g_kbd_head)
    BY <1>3 DEF kbd_buf_put
  <2>2. /\ Count \in Nat /\ Count < N - 1
        /\ Slot(Count) = g_kbd_head
        /\ \A k \in 0 .. Count - 1 : Slot(k) # g_kbd_head
        /\ \A k \in 0 .. N - 1 : Slot(k) \in Index
    BY <1>1, <1>3, RingProp
  <2>3. g_kbd_head \in 0 .. N - 1 /\ g_kbd_tail \in 0 .. N - 1
    BY DEF IInv, TypeOK, Index
  <2>4. g_kbd_head' = IF g_kbd_head = N - 1 THEN 0 ELSE g_kbd_head + 1
    BY <2>1, <2>3, NextIndexProp DEF Index
  <2>5. Count' = Count + 1
    BY <1>1, <1>3, <2>1, <2>3, <2>4 DEF Count
  <2>6. \A k \in 0 .. N - 1 : Slot(k)' = Slot(k)
    BY DEF Slot
  <2>7. /\ Unread \in Seq(V) /\ Len(Unread) = Count
        /\ \A k \in 1 .. Count : Unread[k] = g_kbd_buf[Slot(k - 1)]
    BY UnreadProp
  <2>8. g_kbd_buf \in [Index -> V]
    BY DEF IInv, TypeOK
  <2>9. ch \in V
    OBVIOUS
  <2> HIDE DEF V
  <2>10. Append(Unread, ch) \in Seq(V) /\ Len(Append(Unread, ch)) = Count + 1
    BY <2>7, <2>9
  <2>11. Unread' = [k \in 1 .. Count + 1 |-> g_kbd_buf'[Slot(k - 1)']]
    BY <2>5 DEF Unread
  <2>12. ASSUME NEW k \in 1 .. Count + 1
         PROVE  g_kbd_buf'[Slot(k - 1)'] = Append(Unread, ch)[k]
    <3>1. k - 1 \in 0 .. N - 1 /\ Slot(k - 1)' = Slot(k - 1)
      BY <1>1, <2>2, <2>6
    <3>2. Slot(k - 1) \in Index
      BY <2>2, <3>1
    <3>3. CASE k = Count + 1
      <4>1. Slot(k - 1) = g_kbd_head
        BY <2>2, <3>3
      <4> QED BY <2>1, <2>3, <2>7, <2>8, <2>9, <3>1, <3>2, <3>3, <4>1
    <3>4. CASE k # Count + 1
      <4>1. k \in 1 .. Count /\ k - 1 \in 0 .. Count - 1
        BY <2>2, <3>4
      <4>2. Slot(k - 1) # g_kbd_head
        BY <2>2, <4>1
      <4>3. g_kbd_buf'[Slot(k - 1)] = g_kbd_buf[Slot(k - 1)]
        BY <2>1, <2>8, <3>2, <4>2
      <4>4. Append(Unread, ch)[k] = Unread[k]
        BY <2>7, <2>9, <4>1
      <4> QED BY <2>7, <3>1, <4>1, <4>3, <4>4
    <3> QED BY <3>3, <3>4
  <2>13. Append(Unread, ch)
            = [k \in 1 .. Count + 1 |-> Append(Unread, ch)[k]]
    BY <2>10, SeqIsFunction
  <2>14. Unread' = Append(Unread, ch)
    BY <2>11, <2>12, <2>13
  <2> QED BY <2>2, <2>7, <2>14
<1> QED BY <1>2, <1>3

\* Advancing the tail takes the oldest character, which the reader holds.
LEMMA TakeRefines ==
    ASSUME IInv, IInv', WriteTail
    PROVE  /\ Unread # << >>
           /\ got' = Answer(Head(Unread))
           /\ Unread' = Tail(Unread)
<1> DEFINE V == Char \cup {NoChar}
           N == KBD_BUF_SIZE
<1>1. N \in Nat /\ N >= 2
  BY KeyboardAssumption
<1>2. /\ tail = g_kbd_tail /\ g_kbd_head # g_kbd_tail
      /\ c = g_kbd_buf[g_kbd_tail]
      /\ got' = Answer(c) /\ g_kbd_tail' = NextIndex(g_kbd_tail)
      /\ UNCHANGED <<g_kbd_buf, g_kbd_head>>
  BY DEF IInv, ReaderInv, WriteTail, Rest
<1>3. g_kbd_head \in 0 .. N - 1 /\ g_kbd_tail \in 0 .. N - 1
  BY DEF IInv, TypeOK, Index
<1>4. g_kbd_tail' = IF g_kbd_tail = N - 1 THEN 0 ELSE g_kbd_tail + 1
  BY <1>2, <1>3, NextIndexProp DEF Index
<1>5. Count \in Nat /\ Count # 0 /\ Count <= N - 1 /\ Slot(0) = g_kbd_tail
  BY <1>1, <1>2, RingProp
<1>6. Count' = Count - 1
  BY <1>1, <1>2, <1>3, <1>4 DEF Count
<1>7. \A k \in 0 .. N - 2 : Slot(k)' = Slot(k + 1)
  BY <1>1, <1>3, <1>4 DEF Slot
<1>8. /\ Unread \in Seq(V) /\ Len(Unread) = Count
      /\ \A k \in 1 .. Count : Unread[k] = g_kbd_buf[Slot(k - 1)]
  BY UnreadProp
<1> HIDE DEF V
<1>9. Unread # << >> /\ Head(Unread) = Unread[1]
  BY <1>5, <1>8
<1>10. Unread[1] = g_kbd_buf[g_kbd_tail]
  BY <1>5, <1>8
<1>11. Unread' = [k \in 1 .. Count - 1 |-> g_kbd_buf[Slot(k - 1)']]
  BY <1>2, <1>6 DEF Unread
<1>12. ASSUME NEW k \in 1 .. Count - 1
       PROVE  g_kbd_buf[Slot(k - 1)'] = Unread[k + 1]
  <2>1. k - 1 \in 0 .. N - 2 /\ k + 1 \in 1 .. Count
    BY <1>1, <1>5
  <2>2. Slot(k - 1)' = Slot(k)
    BY <1>7, <2>1
  <2> QED BY <1>8, <2>1, <2>2
<1>13. Tail(Unread) = [k \in 1 .. Count - 1 |-> Unread[k + 1]]
  BY <1>8, <1>9, TailIsFunction
<1>14. Unread' = Tail(Unread)
  BY <1>11, <1>12, <1>13
<1> QED BY <1>2, <1>9, <1>10, <1>14

LEMMA StepRefines == IInv /\ IInv' /\ [Next]_vars => [Fifo!Next]_(Fifo!vars)
<1> SUFFICES ASSUME IInv, IInv', [Next]_vars
             PROVE  [Fifo!Next]_(Fifo!vars)
  OBVIOUS
<1>1. ASSUME UNCHANGED <<ring, got>>
      PROVE  UNCHANGED Fifo!vars
  BY <1>1 DEF ring, Fifo!vars, Unread, Count, Slot
<1>2. ASSUME NEW key \in Key \cup Extended, Press(key) \/ Release(key)
      PROVE  UNCHANGED Fifo!vars
  BY <1>1, <1>2 DEF Press, Release, Send
<1>3. CASE keyboard_init
  BY <1>1, <1>3 DEF keyboard_init
<1>4. CASE keyboard_irq1_handler
  <2>1. Head(wire).code \in Scancode
    <3> DEFINE T == [code : Scancode, meant : Char \cup {NoChar}]
    <3>1. wire \in Seq(T) /\ wire # << >>
      BY <1>4 DEF IInv, TypeOK, keyboard_irq1_handler
    <3> HIDE DEF T
    <3>2. Head(wire) \in T
      BY <3>1
    <3> QED BY <3>2 DEF T
  <2>2. \/ UNCHANGED <<g_kbd_buf, g_kbd_head>>
        \/ \E ch \in Char : kbd_buf_put(ch)
    BY <1>4, <2>1, DecodeProp DEF keyboard_irq1_handler
  <2>3. UNCHANGED <<g_kbd_tail, got>>
    BY <1>4 DEF keyboard_irq1_handler
  <2>4. CASE UNCHANGED <<g_kbd_buf, g_kbd_head>>
    BY <1>1, <2>3, <2>4 DEF ring
  <2>5. ASSUME NEW ch \in Char, kbd_buf_put(ch)
        PROVE  [Fifo!Next]_(Fifo!vars)
    <3>1. \/ Unread' = Unread
          \/ Len(Unread) < KBD_BUF_SIZE - 1 /\ Unread' = Append(Unread, ch)
      BY <2>3, <2>5, PutRefines
    <3> QED BY <2>3, <3>1 DEF Fifo!Next, Fifo!Put, Fifo!vars
  <2> QED BY <2>2, <2>4, <2>5
<1>5. CASE ReadTail \/ ReadBuf \/ console_getc_pause \/ keyboard_getc_hlt
  BY <1>1, <1>5 DEF ReadTail, ReadBuf, console_getc_pause,
                    keyboard_getc_hlt, Rest, ring
<1>6. CASE CompareHead
  <2>1. UNCHANGED ring
    BY <1>6 DEF CompareHead, Rest, ring
  <2>2. CASE tail # g_kbd_head
    BY <1>1, <1>6, <2>1, <2>2 DEF CompareHead
  <2>3. CASE tail = g_kbd_head
    <3>1. Count = 0 /\ got' = Answer(NoChar)
      BY <1>6, <2>3, RingProp DEF CompareHead, IInv, ReaderInv
    <3>2. Unread = << >> /\ UNCHANGED Unread
      BY <2>1, <3>1, UnreadProp DEF ring, Unread, Count, Slot
    <3> QED BY <3>1, <3>2 DEF Fifo!Next, Fifo!TakeFails, Fifo!Answer, Answer
  <2> QED BY <2>2, <2>3
<1>7. CASE WriteTail
  BY <1>7, TakeRefines DEF Fifo!Next, Fifo!Take, Fifo!Answer, Answer
<1>8. CASE UNCHANGED vars
  BY <1>1, <1>8 DEF vars
<1> QED BY <1>2, <1>3, <1>4, <1>5, <1>6, <1>7, <1>8 DEF Next, Read

\* The lock-free ring implements a bounded queue: whatever the interleaving of
\* interrupts and reads, every character that fits is delivered once, in
\* order and uncorrupted, and a read finds none only when none waits.
THEOREM Refinement == Spec => ImplementsBoundedFifo
<1>1. Init => Fifo!Init
  <2> SUFFICES ASSUME Init PROVE Fifo!Init
    OBVIOUS
  <2>1. IInv /\ Count = 0
    BY IInvInit DEF Init, Count
  <2>2. Unread = << >>
    BY <2>1, UnreadProp
  <2> QED BY <2>2 DEF Init, Fifo!Init
<1> QED BY <1>1, StepRefines, Invariance, PTL
        DEF Spec, ImplementsBoundedFifo, Fifo!Spec

-----------------------------------------------------------------------------
(* The decoder.                                                            *)

Byte == [code : Scancode, meant : Char \cup {NoChar}]

\* What the decoder knows: whether Shift is held and whether a prefix came.
State == [shift : BOOLEAN, prefix : BOOLEAN]

\* keyboard_handle_scancode goes from u to v on a byte, and what it makes of
\* the byte is what the key meant.
Decoded(b, u, v) ==
    /\ b \in Byte /\ u \in State /\ v \in State
    /\ \/ /\ b.code = E0 /\ ~u.prefix
          /\ v = [shift |-> u.shift, prefix |-> TRUE]
          /\ b.meant = NoChar
       \/ /\ b.code # E0 /\ u.prefix
          /\ v = [shift |-> u.shift, prefix |-> FALSE]
          /\ b.meant = NoChar
       \/ /\ b.code # E0 /\ ~u.prefix /\ b.code.key \in ShiftKey
          /\ v = [shift |-> ~b.code.released, prefix |-> FALSE]
          /\ b.meant = NoChar
       \/ /\ b.code # E0 /\ ~u.prefix /\ b.code.key \notin ShiftKey
          /\ v = u
          /\ b.meant = IF b.code.released \/ b.code.key \notin Letter THEN NoChar
                       ELSE [key |-> b.code.key, shift |-> u.shift]

\* The decoder goes from u to v on the bytes of w, and is right about each.
Decoding(w, u, v) ==
    \E st \in [1 .. Len(w) + 1 -> State] :
       /\ st[1] = u /\ st[Len(w) + 1] = v
       /\ \A k \in 1 .. Len(w) : Decoded(w[k], st[k], st[k + 1])

Decoder == [shift |-> g_shift_down, prefix |-> g_e0_prefix]
User == [shift |-> down \cap ShiftKey # {}, prefix |-> FALSE]

\* Behind the bytes that are still in the controller, the decoder will know
\* what the user does.
WireInv == Decoding(wire, Decoder, User)

LEMMA DecodingNothing ==
    ASSUME NEW u \in State
    PROVE  Decoding(<< >>, u, u)
<1> DEFINE st == [k \in 1 .. 1 |-> u]
<1>1. Len(<< >>) = 0
  OBVIOUS
<1>2. st \in [1 .. 0 + 1 -> State] /\ st[1] = u /\ st[0 + 1] = u
  OBVIOUS
<1>3. \A k \in 1 .. 0 : FALSE
  OBVIOUS
<1> HIDE DEF st
<1> QED BY <1>1, <1>2, <1>3 DEF Decoding

LEMMA DecodingMore ==
    ASSUME NEW w \in Seq(Byte), NEW u, NEW x, NEW y, NEW b,
           Decoding(w, u, x), Decoded(b, x, y)
    PROVE  w \o <<b>> \in Seq(Byte) /\ Decoding(w \o <<b>>, u, y)
<1> DEFINE n == Len(w)
           m == w \o <<b>>
<1>1. PICK st \in [1 .. n + 1 -> State] :
         /\ st[1] = u /\ st[n + 1] = x
         /\ \A k \in 1 .. n : Decoded(w[k], st[k], st[k + 1])
  BY DEF Decoding
<1>2. b \in Byte /\ x \in State /\ y \in State
  BY DEF Decoded
<1> HIDE DEF Byte, State
<1>3. /\ n \in Nat /\ m \in Seq(Byte) /\ Len(m) = n + 1
      /\ \A k \in 1 .. n : m[k] = w[k]
      /\ m[n + 1] = b
  BY <1>2
<1> DEFINE tr == [k \in 1 .. n + 2 |-> IF k = n + 2 THEN y ELSE st[k]]
<1>4. /\ tr \in [1 .. n + 2 -> State] /\ tr[1] = u /\ tr[n + 2] = y
      /\ \A k \in 1 .. n + 1 : tr[k] = st[k]
  BY <1>1, <1>2, <1>3
<1> HIDE DEF m, n, tr
<1>5. ASSUME NEW k \in 1 .. n + 1
      PROVE  Decoded(m[k], tr[k], tr[k + 1])
  <2>1. CASE k = n + 1
    BY <2>1, <1>1, <1>3, <1>4
  <2>2. CASE k \in 1 .. n
    <3>1. k + 1 \in 1 .. n + 1 /\ k \in 1 .. n + 1
      BY <2>2, <1>3
    <3> QED BY <2>2, <3>1, <1>1, <1>3, <1>4
  <2> QED BY <2>1, <2>2, <1>3
<1>6. Len(m) + 1 = n + 2
  BY <1>3
<1>7. Decoding(m, u, y)
  BY <1>3, <1>4, <1>5, <1>6 DEF Decoding
<1> QED BY <1>3, <1>7 DEF m

LEMMA DecodingLess ==
    ASSUME NEW w \in Seq(Byte), w # << >>, NEW u, NEW y, Decoding(w, u, y)
    PROVE  \E x : Decoded(Head(w), u, x) /\ Decoding(Tail(w), x, y)
<1> DEFINE n == Len(w)
           m == Tail(w)
<1>1. PICK st \in [1 .. n + 1 -> State] :
         /\ st[1] = u /\ st[n + 1] = y
         /\ \A k \in 1 .. n : Decoded(w[k], st[k], st[k + 1])
  BY DEF Decoding
<1> HIDE DEF Byte
<1>2. /\ n \in Nat \ {0} /\ Head(w) = w[1] /\ Len(m) = n - 1
      /\ m = [k \in 1 .. n - 1 |-> w[k + 1]]
  BY TailIsFunction
<1> DEFINE tr == [k \in 1 .. n |-> st[k + 1]]
<1> HIDE DEF m, n
<1>3. /\ tr \in [1 .. n -> State] /\ tr[1] = st[2] /\ tr[n] = y
      /\ \A k \in 1 .. n : tr[k] = st[k + 1]
  BY <1>1, <1>2
<1> HIDE DEF tr
<1>4. ASSUME NEW k \in 1 .. n - 1
      PROVE  Decoded(m[k], tr[k], tr[k + 1])
  <2>1. k + 1 \in 1 .. n /\ k \in 1 .. n /\ m[k] = w[k + 1]
    BY <1>2
  <2> QED BY <2>1, <1>1, <1>3
<1>5. Decoded(Head(w), u, st[2])
  BY <1>1, <1>2
<1>6. Len(m) + 1 = n
  BY <1>2
<1>7. Decoding(m, st[2], y)
  BY <1>2, <1>3, <1>4, <1>6 DEF Decoding
<1> QED BY <1>5, <1>7 DEF m

LEMMA TwoMore ==
    ASSUME NEW T, NEW w \in Seq(T), NEW a \in T, NEW b \in T
    PROVE  (w \o <<a>>) \o <<b>> = w \o <<a, b>>
<1> DEFINE l == (w \o <<a>>) \o <<b>>
           r == w \o <<a, b>>
           n == Len(w)
<1>1. n \in Nat /\ w \o <<a>> \in Seq(T) /\ Len(w \o <<a>>) = n + 1
      /\ (w \o <<a>>)[n + 1] = a /\ \A k \in 1 .. n : (w \o <<a>>)[k] = w[k]
  OBVIOUS
<1>2. l \in Seq(T) /\ Len(l) = n + 2 /\ l[n + 2] = b
      /\ \A k \in 1 .. n + 1 : l[k] = (w \o <<a>>)[k]
  BY <1>1
<1>3. <<a, b>> \in Seq(T) /\ Len(<<a, b>>) = 2
  OBVIOUS
<1>4. r \in Seq(T) /\ Len(r) = n + 2 /\ r[n + 1] = a /\ r[n + 2] = b
      /\ \A k \in 1 .. n : r[k] = w[k]
  BY <1>1, <1>3
<1> HIDE DEF l, r, n
<1>5. \A k \in 1 .. n + 2 : l[k] = r[k]
  BY <1>1, <1>2, <1>4
<1>6. l = r
  BY <1>1, <1>2, <1>4, <1>5
<1> QED BY <1>6 DEF l, r

\* One Shift key: its release ends the shift.
OneShiftKey == \A k, l \in ShiftKey : k = l

\* What a press or a release sends brings the decoder to what the user holds.
LEMMA SendKeeps ==
    ASSUME OneShiftKey, NEW w \in Seq(Byte), NEW u,
           NEW key \in Key \cup Extended, NEW released \in BOOLEAN,
           NEW held, NEW held1,
           held1 = IF released THEN held \ {key} ELSE held \cup {key},
           Decoding(w, u, [shift |-> held \cap ShiftKey # {}, prefix |-> FALSE])
    PROVE  Decoding(w \o Codes(key, released, held), u,
                    [shift |-> held1 \cap ShiftKey # {}, prefix |-> FALSE])
<1> DEFINE code == [key |-> key, released |-> released]
           s == held \cap ShiftKey # {}
           t == held1 \cap ShiftKey # {}
           x == [shift |-> s, prefix |-> FALSE]
           y == [shift |-> t, prefix |-> FALSE]
<1>1. /\ key # "E0" /\ key # "none" /\ code # E0
      /\ code \in Scancode /\ E0 \in Scancode
      /\ key \in ShiftKey => key \notin Letter \cup Extended
  BY KeysAssumption DEF Key, Scancode, E0
<1>2. s \in BOOLEAN /\ t \in BOOLEAN
  OBVIOUS
<1>3. key \notin ShiftKey => y = x
  OBVIOUS
<1>4. CASE key \in Extended
  <2> DEFINE p1 == [code |-> E0, meant |-> NoChar]
             p2 == [code |-> code, meant |-> NoChar]
             z == [shift |-> s, prefix |-> TRUE]
  <2>1. Codes(key, released, held) = <<p1, p2>>
    BY <1>4, Zenon DEF Codes
  <2>2. p1 \in Byte /\ p2 \in Byte /\ p1.code = E0 /\ p2.code = code
        /\ p1.meant = NoChar /\ p2.meant = NoChar
    BY <1>1 DEF Byte
  <2>3. x \in State /\ z \in State /\ x.shift = s /\ z.shift = s
        /\ ~x.prefix /\ z.prefix
    BY <1>2 DEF State
  <2>4. y = x
    BY <1>1, <1>3, <1>4
  <2> HIDE DEF p1, p2, code
  <2>5. Decoded(p1, x, z)
    <3>1. z = [shift |-> x.shift, prefix |-> TRUE]
      BY <2>3
    <3> QED BY <2>2, <2>3, <3>1 DEF Decoded
  <2>6. Decoded(p2, z, x)
    <3>1. x = [shift |-> z.shift, prefix |-> FALSE]
      BY <2>3
    <3> QED BY <1>1, <2>2, <2>3, <3>1 DEF Decoded
  <2> HIDE DEF x, y, z
  <2>7. w \o <<p1>> \in Seq(Byte) /\ Decoding(w \o <<p1>>, u, z)
    BY <2>5, DecodingMore DEF x
  <2>8. Decoding((w \o <<p1>>) \o <<p2>>, u, x)
    BY <2>6, <2>7, DecodingMore
  <2>9. (w \o <<p1>>) \o <<p2>> = w \o <<p1, p2>>
    BY <2>2, TwoMore
  <2> QED BY <2>1, <2>4, <2>8, <2>9 DEF y
<1>5. CASE key \notin Extended
  <2> DEFINE b == [code |-> code, meant |-> Meaning(key, released, held)]
  <2>1. Codes(key, released, held) = <<b>>
    BY <1>5, Zenon DEF Codes
  <2>2. b \in Byte /\ b.code = code /\ b.meant = Meaning(key, released, held)
        /\ code.key = key /\ code.released = released
    BY <1>1 DEF Byte, Meaning, Char
  <2>3. x \in State /\ y \in State /\ ~x.prefix /\ x.shift = s
    BY <1>2 DEF State
  <2>4. CASE key \in ShiftKey
    <3>1. t = ~released
      BY <2>4 DEF OneShiftKey
    <3>2. y = [shift |-> ~b.code.released, prefix |-> FALSE]
      BY <2>2, <3>1
    <3>3. b.meant = NoChar
      BY <1>1, <2>2, <2>4 DEF Meaning
    <3> HIDE DEF b, x, y, code
    <3>4. Decoded(b, x, y)
      BY <1>1, <2>2, <2>3, <2>4, <3>2, <3>3 DEF Decoded
    <3>5. Decoding(w \o <<b>>, u, y)
      BY <3>4, DecodingMore DEF x
    <3> QED BY <2>1, <3>5 DEF y
  <2>5. CASE key \notin ShiftKey
    <3>1. b.meant = IF released \/ key \notin Letter THEN NoChar
                    ELSE [key |-> key, shift |-> s]
      BY <2>2 DEF Meaning
    <3>2. y = x
      BY <1>3, <2>5
    <3> HIDE DEF b, x, y, code, s
    <3>4. Decoded(b, x, x)
      BY <1>1, <2>2, <2>3, <2>5, <3>1 DEF Decoded
    <3>5. Decoding(w \o <<b>>, u, x)
      BY <3>4, DecodingMore DEF x, s
    <3> QED BY <2>1, <3>2, <3>5 DEF y
  <2> QED BY <2>4, <2>5
<1> QED BY <1>4, <1>5

\* What an interrupt adds to the queue.
Adds(meant) ==
    Unread' = IF meant = NoChar \/ Len(Unread) = KBD_BUF_SIZE - 1
              THEN Unread ELSE Append(Unread, meant)

LEMMA DecodeStep ==
    ASSUME IInv, IInv', keyboard_irq1_handler,
           NEW v, Decoded(Head(wire), Decoder, v)
    PROVE  Decoder' = v /\ Adds(Head(wire).meant)
<1> DEFINE b == Head(wire)
           sc == b.code
<1>1. /\ keyboard_handle_scancode(sc) /\ g_kbd_tail' = g_kbd_tail
      /\ g_shift_down \in BOOLEAN /\ g_e0_prefix \in BOOLEAN
      /\ g_shift_down' \in BOOLEAN /\ g_e0_prefix' \in BOOLEAN
  BY DEF keyboard_irq1_handler, IInv, TypeOK
<1>2. Decoder.shift = g_shift_down /\ Decoder.prefix = g_e0_prefix
  BY DEF Decoder
<1>3. ASSUME UNCHANGED <<g_kbd_buf, g_kbd_head>> PROVE Unread' = Unread
  BY <1>1, <1>3 DEF Unread, Count, Slot
<1>4. CASE sc = E0
  BY <1>1, <1>2, <1>3, <1>4 DEF keyboard_handle_scancode, Decoded, Decoder, Adds
<1>5. CASE sc # E0 /\ g_e0_prefix
  BY <1>1, <1>2, <1>3, <1>5 DEF keyboard_handle_scancode, Decoded, Decoder, Adds
<1>6. CASE sc # E0 /\ ~g_e0_prefix /\ sc.key \in ShiftKey
  BY <1>1, <1>2, <1>3, <1>6 DEF keyboard_handle_scancode, Decoded, Decoder, Adds
<1>7. CASE sc # E0 /\ ~g_e0_prefix /\ sc.key \notin ShiftKey
  <2>1. /\ UNCHANGED <<g_e0_prefix, g_shift_down>> /\ v = Decoder
        /\ b.meant = IF sc.released \/ sc.key \notin Letter THEN NoChar
                     ELSE [key |-> sc.key, shift |-> g_shift_down]
    BY <1>1, <1>2, <1>7 DEF keyboard_handle_scancode, Decoded
  <2>2. CASE sc.released \/ sc.key \notin Letter
    BY <1>1, <1>3, <1>7, <2>1, <2>2 DEF keyboard_handle_scancode, Decoder, Adds
  <2>3. CASE ~(sc.released \/ sc.key \notin Letter)
    <3> DEFINE ch == [key |-> sc.key, shift |-> g_shift_down]
    <3>1. kbd_buf_put(ch)
      BY <1>1, <1>7, <2>3 DEF keyboard_handle_scancode
    <3>2. ch \in Char /\ ch # NoChar
      BY <1>1, <2>3, KeysAssumption DEF Char, NoChar, Key
    <3> HIDE DEF ch
    <3>3. \/ Len(Unread) = KBD_BUF_SIZE - 1 /\ Unread' = Unread
          \/ Len(Unread) < KBD_BUF_SIZE - 1 /\ Unread' = Append(Unread, ch)
      BY <1>1, <3>1, <3>2, PutRefines
    <3>4. KBD_BUF_SIZE \in Nat /\ Len(Unread) \in Nat
      BY KeyboardAssumption, UnreadProp, RingProp
    <3>5. b.meant = ch
      BY <2>1, <2>3 DEF ch
    <3> QED BY <2>1, <3>2, <3>3, <3>4, <3>5 DEF Adds, Decoder
  <2> QED BY <2>2, <2>3
<1> QED BY <1>4, <1>5, <1>6, <1>7

LEMMA WireInvInit == Init => WireInv
<1> SUFFICES ASSUME Init PROVE WireInv
  OBVIOUS
<1>1. Decoder = [shift |-> FALSE, prefix |-> FALSE] /\ Decoder \in State
  BY DEF Init, Decoder, State
<1>2. User = Decoder
  BY <1>1 DEF Init, User
<1>3. wire = << >>
  BY DEF Init
<1> QED BY <1>1, <1>2, <1>3, DecodingNothing DEF WireInv

LEMMA WireSeq == IInv => wire \in Seq(Byte)
BY DEF IInv, TypeOK, Byte

\* An interrupt consumes the first byte and lands where the decoder is then.
LEMMA InterruptStep ==
    IInv /\ IInv' /\ WireInv /\ keyboard_irq1_handler
        => WireInv' /\ Adds(Head(wire).meant)
<1> SUFFICES ASSUME IInv, IInv', WireInv, keyboard_irq1_handler
             PROVE  WireInv' /\ Adds(Head(wire).meant)
  OBVIOUS
<1>1. wire \in Seq(Byte) /\ wire # << >> /\ wire' = Tail(wire)
  BY WireSeq DEF keyboard_irq1_handler
<1>2. Decoding(wire, Decoder, User)
  BY DEF WireInv
<1>3. PICK x : Decoded(Head(wire), Decoder, x) /\ Decoding(Tail(wire), x, User)
  BY <1>1, <1>2, DecodingLess
<1>4. Decoder' = x /\ Adds(Head(wire).meant)
  BY <1>3, DecodeStep
<1>5. User' = User
  BY DEF keyboard_irq1_handler, User
<1>6. Decoding(wire', Decoder', User')
  BY <1>1, <1>3, <1>4, <1>5
<1> QED BY <1>4, <1>6 DEF WireInv

LEMMA SendStep ==
    ASSUME OneShiftKey, IInv, WireInv,
           NEW key \in Key \cup Extended, Press(key) \/ Release(key)
    PROVE  WireInv'
<1>1. wire \in Seq(Byte) /\ Decoding(wire, Decoder, User) /\ Decoder' = Decoder
  BY WireSeq DEF WireInv, Press, Release, Send, Decoder
<1>2. ASSUME NEW released \in BOOLEAN, NEW held,
             held = IF released THEN down \ {key} ELSE down \cup {key},
             wire' = wire \o Codes(key, released, down), down' = held
      PROVE  WireInv'
  <2>1. Decoding(wire \o Codes(key, released, down), Decoder,
                 [shift |-> held \cap ShiftKey # {}, prefix |-> FALSE])
    BY <1>1, <1>2, SendKeeps DEF User
  <2> QED BY <1>1, <1>2, <2>1 DEF WireInv, User
<1>3. CASE Press(key)
  BY <1>2, <1>3 DEF Press, Send
<1>4. CASE Release(key)
  BY <1>2, <1>4 DEF Release, Send
<1> QED BY <1>3, <1>4

LEMMA OtherStep ==
    UNCHANGED <<wire, down, g_shift_down, g_e0_prefix>> /\ WireInv => WireInv'
BY DEF WireInv, Decoder, User

LEMMA WireInvStep ==
    ASSUME OneShiftKey, IInv, IInv', WireInv, [Next]_vars
    PROVE  WireInv'
<1>1. ASSUME NEW key \in Key \cup Extended, Press(key) \/ Release(key)
      PROVE  WireInv'
  BY <1>1, SendStep
<1>2. CASE keyboard_irq1_handler
  BY <1>2, InterruptStep
<1>3. CASE keyboard_init
  BY <1>3, OtherStep DEF keyboard_init, user
<1>4. CASE Read
  BY <1>4, OtherStep DEF Read, ReadTail, CompareHead, ReadBuf, WriteTail,
                         console_getc_pause, keyboard_getc_hlt, Rest, user
<1>5. CASE UNCHANGED vars
  BY <1>5, OtherStep DEF vars, user
<1> QED BY <1>1, <1>2, <1>3, <1>4, <1>5 DEF Next

\* Only an interrupt takes a byte out of the controller.
LEMMA OnlyInterruptsShorten ==
    ASSUME IInv, [Next]_vars, Len(wire') < Len(wire)
    PROVE  keyboard_irq1_handler
<1>1. wire \in Seq(Byte)
  BY WireSeq
<1>2. ASSUME wire' = wire PROVE FALSE
  <2>1. Len(wire) \in Nat /\ Len(wire') = Len(wire)
    BY <1>1, <1>2
  <2> QED BY <2>1
<1>3. ASSUME NEW key \in Key \cup Extended, Press(key) \/ Release(key)
      PROVE  FALSE
  <2>1. PICK released \in BOOLEAN : wire' = wire \o Codes(key, released, down)
    BY <1>3 DEF Press, Release, Send
  <2>2. Codes(key, released, down) \in Seq(Byte)
    BY CodesType DEF Byte
  <2> HIDE DEF Byte
  <2>3. Len(wire) \in Nat /\ Len(wire') >= Len(wire)
    BY <1>1, <2>1, <2>2
  <2> QED BY <2>3
<1>4. ASSUME keyboard_init \/ Read \/ UNCHANGED vars PROVE FALSE
  BY <1>2, <1>4 DEF keyboard_init, Read, ReadTail, CompareHead, ReadBuf,
                    WriteTail, console_getc_pause, keyboard_getc_hlt, Rest,
                    user, vars
<1> QED BY <1>3, <1>4 DEF Next

\* Whatever the order of keys and interrupts, and however far the bytes lag
\* behind the fingers, each interrupt makes of its byte what the key meant
\* when it was pressed.  With two Shift keys it need not: one flag stands for
\* both.
THEOREM InterruptsDecode ==
    ASSUME OneShiftKey
    PROVE  Spec => DecodesAsTyped
<1> DEFINE P == Len(wire') < Len(wire) =>
                   LET meant == Head(wire).meant
                   IN  Unread' = IF meant = NoChar \/ Len(Unread) = KBD_BUF_SIZE - 1
                                 THEN Unread ELSE Append(Unread, meant)
<1>1. Init => WireInv
  BY WireInvInit
<1>2. IInv /\ IInv' /\ WireInv /\ [Next]_vars => WireInv'
  BY WireInvStep
<1>3. IInv /\ IInv' /\ WireInv /\ [Next]_vars => [P]_vars
  BY OnlyInterruptsShorten, InterruptStep DEF Adds
<1> HIDE DEF P
<1>4. Spec => [][P]_vars
  BY <1>1, <1>2, <1>3, Invariance, PTL DEF Spec
<1> QED BY <1>4 DEF DecodesAsTyped, P
=============================================================================
