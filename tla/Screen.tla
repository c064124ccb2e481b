------------------------------- MODULE Screen -------------------------------
(***************************************************************************)
(* Drawing into the framebuffer (Kernel/src/Drivers/screen.c).  Nothing    *)
(* draws concurrently, so a drawing function is an operator on what it     *)
(* changes, a record                                                       *)
(*   px      [addresses of the framebuffer -> colors]; an address counts   *)
(*           bytes from fb.addr on, four to a pixel                        *)
(*   stray   something outside the framebuffer has been written            *)
(*   serial  the characters print_char has sent on the serial console      *)
(* Every coordinate is a uint32_t, and so is the product that becomes the  *)
(* offset of a row: the code clips nothing, it wraps.                      *)
(*                                                                         *)
(* A definition that stands directly before the one it is a variation of,  *)
(* and is used nowhere, is a mutant: the bug a property has to notice.     *)
(***************************************************************************)
EXTENDS Words, Sequences, SequencesExt

CONSTANTS
  FONT_CHAR_WIDTH, FONT_CHAR_HEIGHT,    \* 8, 16
  font8x16            \* [characters -> Seq(Nat)]: a glyph's rows, from the top

ASSUME FontAssumption ==
  /\ FONT_CHAR_WIDTH \in Nat \ {0} /\ FONT_CHAR_HEIGHT \in Nat \ {0}
  /\ DOMAIN font8x16 \subseteq Nat /\ \A c \in DOMAIN font8x16 : font8x16[c] \in Seq(Nat)

NL == 10

VARIABLES
  fb,      \* the geometry init_screen has taken from the loader
  screen   \* what drawing has changed

\* The framebuffers the loader may offer, each as [width, height, pitch].
NoScreen == [width |-> 0, height |-> 0, pitch |-> 0]
Addresses(f) == {4 * k : k \in 0 .. (f.pitch * f.height) \div 4 - 1}
Blank(f) == [px |-> [a \in Addresses(f) |-> 0], stray |-> FALSE, serial |-> <<>>]

\* The address put_pixel writes to; a row is as long as fb.pitch, padding
\* included.
PixelUnpadded(f, x, y) == ((y * 4 * f.width) % WORD) + ((x * 4) % WORD)
Pixel(f, x, y) == ((y * f.pitch) % WORD) + ((x * 4) % WORD)

\* A call of a drawing function amounts to a sequence of strokes: rectangles
\* and glyphs, whose pixels put_pixel writes row after row.
Solid == -1
Stroke(x, y, w, h, char, fg, bg) ==
  [x |-> x, y |-> y, w |-> w, h |-> h, char |-> char, fg |-> fg, bg |-> bg]

Places(k) == (0 .. k.w - 1) \X (0 .. k.h - 1)
PutAt(f, k, p) == Pixel(f, (k.x + p[1]) % WORD, (k.y + p[2]) % WORD)
Touches(f, k, a) == {p \in Places(k) : PutAt(f, k, p) = a}

\* Bit 7 of a row (here FONT_CHAR_WIDTH - 1) is its leftmost pixel.
Color(k, p) ==
  IF k.char = Solid THEN k.fg
  ELSE IF (font8x16[k.char][p[2] + 1] \div 2 ^ (FONT_CHAR_WIDTH - 1 - p[1])) % 2 = 1
  THEN k.fg ELSE k.bg

\* print_char sends the character it has drawn.
Sent(strokes) ==
  FlattenSeq([n \in DOMAIN strokes |->
                IF strokes[n].char = Solid THEN <<>> ELSE <<strokes[n].char>>])

\* The last pixel put at an address stays.
Drawn(f, s, strokes) ==
  LET Final(a) == {n \in DOMAIN strokes : /\ Touches(f, strokes[n], a) # {}
                      /\ \A m \in n + 1 .. Len(strokes) : Touches(f, strokes[m], a) = {}}
      Put(k, a) == CHOOSE p \in Touches(f, k, a) : \A q \in Touches(f, k, a) : q[2] <= p[2]
  IN  [px     |-> [a \in DOMAIN s.px |->
                     IF Final(a) = {} THEN s.px[a]
                     ELSE LET k == strokes[CHOOSE n \in Final(a) : TRUE] IN Color(k, Put(k, a))],
       stray  |-> s.stray \/ \E n \in DOMAIN strokes : \E p \in Places(strokes[n]) :
                                PutAt(f, strokes[n], p) \notin DOMAIN s.px,
       serial |-> s.serial \o Sent(strokes)]

draw_rect(x, y, width, height, color) == <<Stroke(x, y, width, height, Solid, color, color)>>

\* The box, then its top, bottom, left and right border over it.
draw_container_off_by_one(x, y, width, height, border_color, border_width, fill_color) ==
  draw_rect(x, y, width, height, fill_color)
    \o draw_rect(x, y, width, border_width, border_color)
    \o draw_rect(x, y + height - 1, width, border_width, border_color)
    \o draw_rect(x, y, border_width, height, border_color)
    \o draw_rect(x + width - 1, y, border_width, height, border_color)
draw_container(x, y, width, height, border_color, border_width, fill_color) ==
  draw_rect(x, y, width, height, fill_color)
    \o draw_rect(x, y, width, border_width, border_color)
    \o draw_rect(x, y + height - border_width, width, border_width, border_color)
    \o draw_rect(x, y, border_width, height, border_color)
    \o draw_rect(x + width - border_width, y, border_width, height, border_color)

print_char(c, x, y, fg_color, bg_color) ==
  <<Stroke(x, y, FONT_CHAR_WIDTH, FONT_CHAR_HEIGHT, c, fg_color, bg_color)>>

\* The variables x and y of print_string when it is at a character: a line
\* break leads to the beginning of the next line.
CursorX(str, x) ==
  LET at[n \in 1 .. Len(str)] ==
        IF n = 1 \/ str[n - 1] = NL THEN x ELSE at[n - 1] + FONT_CHAR_WIDTH
  IN  at
CursorY(str, y) ==
  LET at[n \in 1 .. Len(str)] ==
        IF n = 1 THEN y ELSE at[n - 1] + (IF str[n - 1] = NL THEN FONT_CHAR_HEIGHT ELSE 0)
  IN  at
print_string(str, x, y, fg_color, bg_color) ==
  FlattenSeq([n \in DOMAIN str |->
                IF str[n] = NL THEN <<>>
                ELSE print_char(str[n], CursorX(str, x)[n], CursorY(str, y)[n], fg_color, bg_color)])
=============================================================================
