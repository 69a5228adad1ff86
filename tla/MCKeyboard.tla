----------------------------- MODULE MCKeyboard -----------------------------
(***************************************************************************)
(* Keyboard with a ring of 4 slots and 5 accepted codes (both cursors wrap *)
(* around), two mapped keys (A = 4, B = 5), an unmapped one (200) and two  *)
(* scancodes that narrow to others (256 to 0, 260 to 4).                   *)
(***************************************************************************)
EXTENDS Keyboard

MCKeymap == [k \in 0..255 |-> CASE k = 4 -> 28 [] k = 5 -> 50 [] OTHER -> 0]

MCScancodes == {4, 5, 200, 256, 260}
=============================================================================
