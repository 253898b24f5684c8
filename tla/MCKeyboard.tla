----------------------------- MODULE MCKeyboard -----------------------------
(***************************************************************************)
(* A ring of three slots, so that it wraps around and fills up.            *)
(***************************************************************************)
EXTENDS Keyboard

Letters == {"a"}
NoKeys == {}
DeadKeys == {"F1"}
ExtendedKeys == {"up"}
OneShift == {"lshift"}
Both == {"console_getc", "keyboard_getc"}
Getc == {"keyboard_getc"}
=============================================================================
