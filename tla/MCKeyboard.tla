----------------------------- MODULE MCKeyboard -----------------------------
(***************************************************************************)
(* Keys for Keyboard: with modifiers, and for editing a line.              *)
(***************************************************************************)
EXTENDS Keyboard

\* Both shift keys, a letter, an arrow key (which has no character),
\* backspace and return.
MCKeys == {42, 54, 16, 72, 14, 28}
\* The keys caps lock, a, and 3 (a quotation mark without shift).
MCCapsKeys == {58, 16, 4}
MCSizes == {1, 2, 3}
============================================================================
