-------------------------------- MODULE Boot --------------------------------
(***************************************************************************)
(* kmain (Kernel/src/main.c), which composes the parts: it takes the       *)
(* screen, clears it and greets, mounts the disk or stops, reads a file    *)
(* and shows it, sets the interrupt gates, and spins.  The file system is  *)
(* the one of Fat32, step by step; a drawing function is one step.  The    *)
(* serial console and the gates are the subjects of Serial and Interrupts. *)
(*                                                                         *)
(* Where kmain spins, clients yet to be written may read other files and   *)
(* draw: that is how the functions kmain does not need are reached.        *)
(*                                                                         *)
(* A definition that stands directly before the one it is a variation of,  *)
(* and is used nowhere, is a mutant: the bug a property has to notice.     *)
(***************************************************************************)
EXTENDS Fat32, Screen, FiniteSets

CONSTANTS
  Displays,    \* what the loader may offer: [width, height, pitch] or NoScreen
  KmainRead,   \* the request of kmain: "/hello.txt" and 200
  Hello,       \* "Hello, World!"
  COLUMN, HELLO_ROW, TEXT_ROW,    \* 10, 10, 30
  WHITE,       \* 0xFFFFFF; black is 0
  Contents,    \* [clusters -> Seq(characters)], the bytes of the files
  Shape,       \* [characters -> sets of <<column, row>>], what a glyph looks like
  Boxes        \* containers that clients draw: [x, y, width, height, border]

\* Rows are whole pixels, and a framebuffer is smaller than what a uint32_t
\* can count.
ASSUME DisplaysAssumption ==
  \A d \in Displays :
    d = NoScreen \/ /\ d \in [width : Nat \ {0}, height : Nat \ {0}, pitch : Nat]
                     /\ d.pitch >= 4 * d.width /\ d.pitch % 4 = 0 /\ d.pitch * d.height <= WORD
ASSUME BoxesAssumption == Boxes \subseteq [x : Nat, y : Nat, width : Nat, height : Nat, border : Nat]
ASSUME KmainAssumption == KmainRead \in Requests
\* The greeting is one line, and the file's text begins under it.
ASSUME TextsAssumption ==
  /\ COLUMN \in Nat /\ HELLO_ROW \in Nat /\ TEXT_ROW \in Nat
  /\ HELLO_ROW + FONT_CHAR_HEIGHT <= TEXT_ROW /\ Hello \in Seq(DOMAIN font8x16 \ {NL})
ASSUME ShapesAssumption ==
  \A c \in DOMAIN font8x16 :
    Shape[c] = {p \in (0 .. FONT_CHAR_WIDTH - 1) \X (0 .. FONT_CHAR_HEIGHT - 1) :
                  (font8x16[c][p[2] + 1] \div 2 ^ (FONT_CHAR_WIDTH - 1 - p[1])) % 2 = 1}
\* The file kmain reads is made of characters that have a glyph, and NUL.
ASSUME ContentsAssumption ==
  \A v \in Consistent : Outcome(v, KmainRead) > 0 =>
    LET chain == v.tree[Means[KmainRead.path]].chain
    IN  \A k \in DOMAIN chain : /\ Contents[chain[k]] \in Seq(DOMAIN font8x16 \union {NL, NUL})
                                /\ Len(Contents[chain[k]]) = ClusterBytes(v)

VARIABLES
  at,       \* the statement kmain has reached
  display   \* what the loader offers

bvars == <<vars, fb, screen, at, display>>
----------------------------------------------------------------------------
BootInit ==
  /\ Init /\ at = "screen" /\ display \in Displays
  /\ fb = NoScreen /\ screen = Blank(display)

\* init_screen stops when the loader has no framebuffer.
init_screen ==
  /\ at = "screen"
  /\ IF display = NoScreen THEN at' = "stopped" /\ UNCHANGED fb
     ELSE at' = "clear" /\ fb' = display
  /\ UNCHANGED <<vars, screen, display>>

Draw(call_of) == \E strokes \in {call_of} : screen' = Drawn(fb, screen, strokes)

ClearScreen ==
  /\ at = "clear" /\ at' = "hello"
  /\ Draw(draw_rect(0, 0, fb.width, fb.height, 0))
  /\ UNCHANGED <<vars, fb, display>>

SayHello ==
  /\ at = "hello" /\ at' = "mount"
  /\ Draw(print_string(Hello, COLUMN, HELLO_ROW, WHITE, 0))
  /\ UNCHANGED <<vars, fb, display>>

Mount ==
  /\ at = "mount" /\ (MountOk \/ MountFails)
  /\ at' = IF pc' = "idle" THEN "read" ELSE "stopped"
  /\ UNCHANGED <<fb, screen, display>>

ReadHello ==
  /\ at = "read" /\ Call(KmainRead) /\ at' = "show"
  /\ UNCHANGED <<fb, screen, display>>

\* What fat32_read_file left in test_str, up to the first NUL: kmain puts
\* one behind the bytes it was given.
Bytes(copies) ==
  FlattenSeq([k \in DOMAIN copies |-> SubSeq(Contents[copies[k].clus], 1, copies[k].n)])
StringOf(bytes) ==
  LET nul == CHOOSE n \in 1 .. Len(bytes) + 1 :
               /\ n = Len(bytes) + 1 \/ bytes[n] = NUL
               /\ \A m \in 1 .. n - 1 : bytes[m] # NUL
  IN  SubSeq(bytes, 1, nul - 1)

Show ==
  /\ at = "show" /\ pc = "idle" /\ at' = "gates"
  /\ \E str \in {StringOf(Bytes(copied))} :
       IF ret <= 0 THEN UNCHANGED screen
       ELSE Draw(print_string(str, COLUMN, TEXT_ROW, WHITE, 0))
  /\ UNCHANGED <<vars, fb, display>>

\* gdt_install does nothing in the 64-bit build; init_idt.
SetGates ==
  /\ at = "gates" /\ at' = "spin"
  /\ UNCHANGED <<vars, fb, screen, display>>

\* fat32_read_file runs, for kmain or for a client.
Reading ==
  /\ at \in {"show", "spin"} /\ pc \notin {"boot", "idle"}
  /\ Step /\ UNCHANGED <<fb, screen, at, display>>

ClientReads(r) ==
  /\ at = "spin" /\ Call(r)
  /\ UNCHANGED <<fb, screen, at, display>>

\* A client draws one box, before any client reads and as the last to draw.
Gray == WHITE + 1
ClientDraws(b) ==
  /\ at = "spin" /\ pc = "idle" /\ call = KmainRead /\ at' = "drawn"
  /\ Draw(draw_container(b.x, b.y, b.width, b.height, WHITE, b.border, Gray))
  /\ UNCHANGED <<vars, fb, display>>

Spins == (at \in {"stopped", "drawn"} \/ pc = "corrupt") /\ UNCHANGED bvars

Kmain ==
  \/ init_screen \/ ClearScreen \/ SayHello \/ Mount \/ ReadHello \/ Show \/ SetGates
  \/ Reading

BootNext ==
  \/ Kmain \/ Spins
  \/ \E r \in Requests : ClientReads(r)
  \/ \E b \in Boxes : ClientDraws(b)

\* kmain is never preempted.  Nothing says that there are clients.
BootSpec == BootInit /\ [][BootNext]_bvars /\ WF_bvars(Kmain)
----------------------------------------------------------------------------
(***************************************************************************)
(* Properties.                                                             *)
(***************************************************************************)
\* Where the n-th character of a text belongs: behind so many line breaks,
\* and so many characters behind the last of them.
Row(str, n) == Cardinality({m \in 1 .. n - 1 : str[m] = NL})
Column(str, n) == Cardinality({m \in 1 .. n - 1 : \A k \in m .. n - 1 : str[k] # NL})
Left(str, n) == COLUMN + Column(str, n) * FONT_CHAR_WIDTH
Top(str, n, y) == y + Row(str, n) * FONT_CHAR_HEIGHT
Glyphs(str) == {n \in DOMAIN str : str[n] # NL}

TextFits(str, y) ==
  \A n \in Glyphs(str) :
    /\ Left(str, n) + FONT_CHAR_WIDTH <= fb.width
    /\ Top(str, n, y) + FONT_CHAR_HEIGHT <= fb.height

\* The place <<i, j>> of the screen in the glyph of the n-th character.
Within(str, n, y, i, j) ==
  /\ i - Left(str, n) \in 0 .. FONT_CHAR_WIDTH - 1
  /\ j - Top(str, n, y) \in 0 .. FONT_CHAR_HEIGHT - 1
Inked(str, y, i, j) ==
  \E n \in Glyphs(str) :
    Within(str, n, y, i, j) /\ <<i - Left(str, n), j - Top(str, n, y)>> \in Shape[str[n]]

\* The characters of a text but its line breaks, in their order.
Carries(serial, str) ==
  /\ Len(serial) = Cardinality(Glyphs(str))
  /\ \A n \in Glyphs(str) : serial[Cardinality(Glyphs(str) \intersect 1 .. n)] = str[n]

\* The picture of the greeting with a text under it, and nothing else.
Pictures(str) ==
  /\ ~screen.stray
  /\ \A a \in Addresses(fb) :
       LET i == (a % fb.pitch) \div 4
           j == a \div fb.pitch
       IN  screen.px[a] = IF Inked(Hello, HELLO_ROW, i, j) \/ Inked(str, TEXT_ROW, i, j)
                          THEN WHITE ELSE 0
  /\ Carries(screen.serial, Hello \o str)

\* What the volume holds under the path of kmain, as a string of its buffer.
FileText ==
  LET chain == vol.tree[Means[KmainRead.path]].chain
      bytes == FlattenSeq([k \in DOMAIN chain |-> Contents[chain[k]]])
  IN  IF Outcome(vol, KmainRead) <= 0 THEN <<>>
      ELSE StringOf(SubSeq(bytes, 1, Outcome(vol, KmainRead)))

\* From the disk to the screen: where both texts fit the screen, kmain shows
\* the greeting and, under it, the file its path names, glyph by glyph in
\* the right places and nothing beside them, and sends both to the serial
\* console.  If disk reads fail it shows a beginning of the file.
ShowsFile ==
  vol \in Consistent /\ at = "gates" =>
    \E file \in {FileText} :
      TextFits(Hello, HELLO_ROW) /\ TextFits(file, TEXT_ROW) =>
        \E n \in 0 .. Len(file) : (n = Len(file) \/ ioerr) /\ Pictures(SubSeq(file, 1, n))

\* A container on the screen is a frame of border_width pixels around its
\* fill, up to a border as wide as the box, and changes nothing outside.
Framed(b) ==
  b.x + b.width <= fb.width /\ b.y + b.height <= fb.height
    /\ b.border <= b.width /\ b.border <= b.height =>
      /\ screen'.stray = screen.stray
      /\ \A a \in Addresses(fb) :
           LET i == ((a % fb.pitch) \div 4) - b.x
               j == (a \div fb.pitch) - b.y
               edge == Smaller(Smaller(i, b.width - 1 - i), Smaller(j, b.height - 1 - j))
           IN  screen'.px[a] = IF edge < 0 THEN screen.px[a]
                               ELSE IF edge < b.border THEN WHITE ELSE Gray
BoxesFramed == [][\A b \in Boxes : ClientDraws(b) => Framed(b)]_bvars

\* The boot comes to its end, and every call of fat32_read_file returns with
\* an answer or an error, unless it has overrun a buffer.
CallsReturn ==
  /\ <>(at \in {"stopped", "spin", "drawn"} \/ pc = "corrupt")
  /\ (at = "spin" /\ pc # "idle") ~> pc \in {"idle", "corrupt"}
=============================================================================
