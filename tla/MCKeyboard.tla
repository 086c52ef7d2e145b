----------------------------- MODULE MCKeyboard ------------------------------
(* A ring of three slots, so two characters fill it, lines of two           *)
(* characters and four scancodes: the ring overflows while the reader is    *)
(* anywhere in keyboard_getchar, and lines end by enter and by length.      *)
EXTENDS Keyboard
==============================================================================
