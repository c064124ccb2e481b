------------------------------ MODULE Keyboard ------------------------------
(***************************************************************************)
(* Reading a line from the keyboard: get_key and scan_string               *)
(* (Kernel/src/Drivers/keyboard.c).  A key sends its scan code when it is  *)
(* pressed, again and again while it is the last one pressed and is held,  *)
(* and the code with bit 7 set when it is released.  The codes wait in the *)
(* keyboard until get_key polls them: one iteration of its loop, together  *)
(* with what scan_string does with the character it returns, is one        *)
(* action, for nothing else touches this state.  How the mouse shares the  *)
(* port is the subject of Ps2.  Characters are ASCII codes; a character    *)
(* cell of the screen holds the character print_char has drawn there last. *)
(*                                                                         *)
(* A definition that stands directly before the one it is a variation of,  *)
(* and is used nowhere, is a mutant: the bug a property has to notice.     *)
(***************************************************************************)
EXTENDS Integers, Sequences

CONSTANTS
  Keys,       \* scan codes of the keys that are pressed in this instance
  MaxCodes,   \* codes the keyboard sends (a bound)
  Sizes,      \* max_size of the calls of scan_string
  END_BTN     \* end_btn of the calls

ASSUME KeysAssumption == Keys \subseteq 1 .. 88
ASSUME SizesAssumption == Sizes \subseteq Nat \ {0}
ASSUME CodesAssumption == MaxCodes \in Nat

BS == 8
NUL == 0
SPACE == 32
SHIFTS == {42, 54}      \* 0x2A, 0x36
SHIFT_BREAKS_LEFT == {170}
SHIFT_BREAKS == {170, 182}    \* 0xAA, 0xB6
CAPS == 58              \* 0x3A
Undef == -1             \* a byte or a cell nobody has written

VARIABLES
  down,         \* keys that are held
  held,         \* the last key pressed, if it is still held (0: none)
  codes, sent,  \* codes waiting in the keyboard; how many were sent
  shift_active, caps_lock,   \* the static variables of keyboard.c
  pc,           \* of scan_string: "idle", "reading" or "done"
  max_size, i, buffer,       \* its parameter, its variable, its result
  screen        \* the character cells from (x, y) on

keyboard == <<down, held, codes, sent>>
line == <<pc, max_size, i, buffer, screen>>
vars == <<keyboard, line, shift_active, caps_lock>>

NormalTable ==
  <<0, 27, 38, 101, 34, 39, 40, 45, 101, 95, 99, 97, 41, 61, 8,
    9, 97, 122, 101, 114, 116, 121, 117, 105, 111, 112, 94, 36, 10,
    0, 113, 115, 100, 102, 103, 104, 106, 107, 108, 109, 117, 42, 0,
    92, 119, 120, 99, 118, 98, 110, 44, 59, 58, 33, 0, 42, 0, 32>>
ShiftTable ==
  <<0, 27, 49, 50, 51, 52, 53, 54, 55, 56, 57, 48, 42, 43, 8,
    9, 65, 90, 69, 82, 84, 89, 85, 73, 79, 80, 94, 96, 10,
    0, 81, 83, 68, 70, 71, 72, 74, 75, 76, 77, 37, 42, 0,
    124, 87, 88, 67, 86, 66, 78, 63, 46, 47, 38, 0, 42, 0, 32>>

\* The tables have 128 entries; those the initialiser does not name are 0.
At(table, code) == IF code < Len(table) THEN table[code + 1] ELSE 0
scancode_normal(code) == At(NormalTable, code)
scancode_shift(code) == At(ShiftTable, code)
Decoded(code) ==
  IF shift_active \/ caps_lock THEN scancode_shift(code) ELSE scancode_normal(code)
----------------------------------------------------------------------------
Init ==
  /\ down = {} /\ held = 0 /\ codes = <<>> /\ sent = 0
  /\ shift_active = FALSE /\ caps_lock = FALSE
  /\ pc = "idle" /\ max_size = 1 /\ i = 0
  /\ buffer = [n \in {} |-> 0] /\ screen = [n \in {} |-> 0]

\* The keys (external): codes of one byte, as many waiting as are sent.
Send(code) == sent < MaxCodes /\ codes' = Append(codes, code) /\ sent' = sent + 1
Press(k) ==
  /\ k \in Keys \ down /\ Send(k) /\ down' = down \union {k} /\ held' = k
  /\ UNCHANGED <<line, shift_active, caps_lock>>
Release(k) ==
  /\ k \in down /\ Send(k + 128) /\ down' = down \ {k}
  /\ held' = IF held = k THEN 0 ELSE held
  /\ UNCHANGED <<line, shift_active, caps_lock>>
Repeat ==
  /\ held # 0 /\ Send(held)
  /\ UNCHANGED <<down, held, line, shift_active, caps_lock>>

\* scan_string is called.
ScanString(size) ==
  /\ pc # "reading" /\ pc' = "reading" /\ max_size' = size /\ i' = 0
  /\ buffer' = [n \in 0 .. size |-> Undef]
  /\ screen' = [n \in 0 .. size |-> Undef]
  /\ UNCHANGED <<keyboard, shift_active, caps_lock>>

\* get_key goes on polling after a code that is no character.
ShiftKey(code) ==
  /\ code \in SHIFTS \union SHIFT_BREAKS
  /\ shift_active' = (code < 128)
  /\ UNCHANGED <<caps_lock, line>>
CapsKey(code) ==
  /\ code = CAPS /\ caps_lock' = ~caps_lock
  /\ UNCHANGED <<shift_active, line>>
Ignored(code) ==
  /\ code \notin SHIFTS \union SHIFT_BREAKS \union {CAPS}
  /\ code >= 128 \/ Decoded(code) = 0
  /\ UNCHANGED <<shift_active, caps_lock, line>>

\* get_key returns a character; one iteration of scan_string's loop.
IsCharacter(code) == code < 128 /\ code \notin SHIFTS \union {CAPS} /\ Decoded(code) > 0
EndsUnlessFull(c) == c = END_BTN /\ i < max_size - 1
Ends(c) == c = END_BTN
Finish(c) ==
  /\ Ends(c) /\ pc' = "done"
  /\ buffer' = [buffer EXCEPT ![i] = NUL] /\ screen' = [screen EXCEPT ![i] = 10]
  /\ UNCHANGED <<max_size, i>>
CanEraseAlways == TRUE
CanErase == i > 0
Erase(c) ==
  /\ ~Ends(c) /\ c = BS
  /\ IF CanErase THEN i' = i - 1 /\ screen' = [screen EXCEPT ![i - 1] = BS]
     ELSE UNCHANGED <<i, screen>>
  /\ UNCHANGED <<pc, max_size, buffer>>
FitsOneMore(c) == c >= SPACE /\ i < max_size
Fits(c) == c >= SPACE /\ i < max_size - 1
StoreShownLate(c) ==
  /\ ~Ends(c) /\ c # BS /\ Fits(c)
  /\ buffer' = [buffer EXCEPT ![i] = c] /\ screen' = [screen EXCEPT ![i + 1] = c]
  /\ i' = i + 1 /\ UNCHANGED <<pc, max_size>>
Store(c) ==
  /\ ~Ends(c) /\ c # BS /\ Fits(c)
  /\ buffer' = [buffer EXCEPT ![i] = c] /\ screen' = [screen EXCEPT ![i] = c]
  /\ i' = i + 1 /\ UNCHANGED <<pc, max_size>>
Skip(c) == ~Ends(c) /\ c # BS /\ ~Fits(c) /\ UNCHANGED line
Character(code) ==
  /\ IsCharacter(code)
  /\ LET c == Decoded(code) IN Finish(c) \/ Erase(c) \/ Store(c) \/ Skip(c)
  /\ UNCHANGED <<shift_active, caps_lock>>

GetKey ==
  /\ pc = "reading" /\ codes # <<>> /\ codes' = Tail(codes)
  /\ LET code == Head(codes)
     IN  ShiftKey(code) \/ CapsKey(code) \/ Ignored(code) \/ Character(code)
  /\ UNCHANGED <<down, held, sent>>

Next ==
  \/ GetKey \/ Repeat \/ \E s \in Sizes : ScanString(s)
  \/ \E k \in Keys : Press(k) \/ Release(k)

\* scan_string polls for as long as it has not returned.
Spec == Init /\ [][Next]_vars /\ WF_vars(GetKey)
----------------------------------------------------------------------------
(***************************************************************************)
(* Properties.                                                             *)
(***************************************************************************)
\* Types of the variables of keyboard.c.
TypeOK ==
  /\ down \subseteq Keys /\ held \in {0} \union down
  /\ codes \in Seq(0 .. 255) /\ sent \in 0 .. MaxCodes
  /\ shift_active \in BOOLEAN /\ caps_lock \in BOOLEAN
  /\ pc \in {"idle", "reading", "done"} /\ max_size \in Nat /\ i \in 0 .. max_size
  /\ \A n \in DOMAIN buffer : buffer[n] \in -1 .. 127
  /\ \A n \in DOMAIN screen : screen[n] \in -1 .. 127

\* Once every code has been read, shift is off when no shift key is held and
\* on when all of them are, in whatever order they went down and up.  (With
\* one of two still held it may be either: a release turns it off.)
ShiftFollows ==
  codes = <<>> /\ sent > 0 =>
    /\ down \intersect SHIFTS = {} => ~shift_active
    /\ SHIFTS \intersect Keys # {} /\ SHIFTS \intersect Keys \subseteq down => shift_active

\* scan_string stays within the max_size bytes it was given and leaves there
\* a line of printable characters that ends with the only NUL.
LineFits ==
  /\ \A n \in DOMAIN buffer : buffer[n] # Undef => n < max_size
  /\ pc = "done" =>
       /\ buffer[i] = NUL
       /\ \A n \in 0 .. i - 1 : buffer[n] >= SPACE

\* What the screen shows of the line is the line, also after corrections.
LineIsShown == \A n \in 0 .. i - 1 : screen[n] = buffer[n]

\* "Caps lock only affects letters, shift affects everything" (keyboard.c):
\* what scan_string stores without shift for a key that types no letter is
\* the key's character, whatever the caps lock.
IsLetter(c) == c \in 97 .. 122
CapsOnlyLetters ==
  [][codes # <<>> /\ GetKey /\ i' = i + 1 /\ ~shift_active =>
       LET c == scancode_normal(Head(codes)) IN IsLetter(c) \/ buffer'[i] = c]_vars

\* scan_string returns once the end key has been pressed, also when the
\* line is full.
EndKeyEnds ==
  (pc = "reading" /\ \E n \in 1 .. Len(codes) : scancode_normal(codes[n]) = END_BTN)
    ~> pc = "done"
============================================================================
