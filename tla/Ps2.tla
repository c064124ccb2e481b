-------------------------------- MODULE Ps2 --------------------------------
(***************************************************************************)
(* The PS/2 port: mouse_handler (Kernel/src/Drivers/mouse.c), which runs   *)
(* on IRQ 12, and get_key (keyboard.c), which polls the same one-byte      *)
(* output buffer.  The handler runs behind an interrupt gate (idt.c), so   *)
(* it is one action; get_key reads the status and the data port in two     *)
(* steps, and the interrupt may come between them.                         *)
(*                                                                         *)
(* The controller, the interrupt controllers and the devices are external, *)
(* as the code uses them: the buffer takes a byte only when it is empty, a *)
(* mouse byte raises IRQ 12, IRQ 12 is not delivered again before the end  *)
(* of interrupt (EOI), and reading an empty buffer gives its last byte.    *)
(*                                                                         *)
(* A definition that stands directly before the one it is a variation of,  *)
(* and is used nowhere, is a mutant: the bug a property has to notice.     *)
(***************************************************************************)
EXTENDS Integers, Sequences

CONSTANTS
  Moves,        \* movements [dx, dy] of the mouse, -256 .. 255 each
  MaxPackets,   \* packets the mouse sends (a bound)
  MaxKeys,      \* scancodes the keyboard sends (a bound)
  Modes         \* [lossy: a byte of the mouse may be lost,
                \*  polls: the kernel calls get_key, again and again]

ASSUME MovesAssumption == \A m \in Moves : m.dx \in -256 .. 255 /\ m.dy \in -256 .. 255
ASSUME BoundsAssumption ==
  MaxPackets \in Nat /\ MaxKeys \in 0 .. 255 /\ Modes \subseteq [lossy : BOOLEAN, polls : BOOLEAN]

ALWAYS_ONE == 8     \* MOUSE_ALWAYS_ONE
X_SIGN     == 16    \* MOUSE_X_SIGN
Y_SIGN     == 32    \* MOUSE_Y_SIGN
DEFAULT    == [x |-> 400, y |-> 300]

Empty == [src |-> "none", val |-> 0]

VARIABLES
  mode,                      \* the one of this run of the system
  cycle, packet, position,   \* the static variables of mouse.c
  kpc,                       \* get_key: "status" or "data", the port it reads next
  got,                       \* history: the bytes get_key has read, and whose they were
  buffer,                    \* the output buffer
  latch,                     \* the byte the data port shows
  irq, inService,            \* IRQ 12 is requested; it has not been acknowledged
  queue,                     \* bytes the mouse has still to send
  packets, keys,             \* packets begun, scancodes sent
  moved                      \* history: the sum of the movements sent

handler == <<cycle, packet, position>>
reader  == <<kpc, got>>
devices == <<queue, packets, keys, moved>>
vars    == <<mode, handler, reader, buffer, latch, irq, inService, devices>>

Bit(b, mask) == (b \div mask) % 2 = 1
----------------------------------------------------------------------------
\* A delta of the packet as a 9-bit two's complement number: x_move |= ~0xFF.
DeltaUnsigned(b0, sign, b) == b
Delta(b0, sign, b) == IF Bit(b0, sign) THEN b - 256 ELSE b

\* handle_mouse_packet and move_mouse_cursor; the mouse's y axis points up.
Moved(p) ==
  [x |-> position.x + Delta(p[1], X_SIGN, p[2]),
   y |-> position.y - Delta(p[1], Y_SIGN, p[3])]

\* The byte completes a packet, or is the next of one.
CollectNoReset(b) ==
  /\ packet' = [packet EXCEPT ![cycle + 1] = b] /\ cycle' = cycle + 1
  /\ IF cycle = 2 THEN position' = Moved(packet) ELSE UNCHANGED position
Collect(b) ==
  LET p == [packet EXCEPT ![cycle + 1] = b]
  IN  /\ packet' = p
      /\ IF cycle = 2 THEN position' = Moved(p) /\ cycle' = 0
         ELSE cycle' = cycle + 1 /\ UNCHANGED position

Init ==
  /\ mode \in Modes
  /\ cycle = 0 /\ packet = <<0, 0, 0>> /\ position = DEFAULT
  /\ kpc = "status" /\ got = <<>>
  /\ buffer = Empty /\ latch = 0 /\ irq = FALSE /\ inService = FALSE
  /\ queue = <<>> /\ packets = 0 /\ keys = 0 /\ moved = [x |-> 0, y |-> 0]

MouseByteAny == buffer.src # "none"
MouseByte == buffer.src = "mouse"
OutOfSync == cycle = 0 /\ ~Bit(buffer.val, ALWAYS_ONE)

\* A first byte without bit 3 is dropped by a return before both EOIs.
EoiSkippedByPacket == OutOfSync \/ cycle = 2
EoiSkipped == OutOfSync

\* mouse_handler.
MouseInterrupt ==
  /\ irq /\ ~inService /\ irq' = FALSE
  /\ IF MouseByte
     THEN /\ buffer' = Empty
          /\ inService' = EoiSkipped
          /\ IF OutOfSync THEN UNCHANGED handler ELSE Collect(buffer.val)
     ELSE inService' = FALSE /\ UNCHANGED <<handler, buffer>>
  /\ UNCHANGED <<mode, reader, latch, devices>>

OutFullMouse == buffer.src = "mouse"
OutFull == buffer.src # "none"

\* get_key: inb(0x64), any byte makes it read the data port ...
PollStatus ==
  /\ mode.polls /\ kpc = "status" /\ OutFull
  /\ kpc' = "data"
  /\ UNCHANGED <<mode, handler, got, buffer, latch, irq, inService, devices>>

\* ... inb(0x60): the byte that is there now, or the last one once more.
ReadData ==
  /\ kpc = "data" /\ kpc' = "status"
  /\ got' = Append(got, [src |-> buffer.src, val |-> latch])
  /\ buffer' = Empty
  /\ UNCHANGED <<mode, handler, latch, irq, inService, devices>>
----------------------------------------------------------------------------
(***************************************************************************)
(* The devices.                                                            *)
(***************************************************************************)
\* How a mouse encodes a movement.
Encode(m) ==
  <<ALWAYS_ONE + (IF m.dx < 0 THEN X_SIGN ELSE 0) + (IF m.dy < 0 THEN Y_SIGN ELSE 0),
    m.dx % 256, m.dy % 256>>

MouseMoves(m) ==
  /\ queue = <<>> /\ packets < MaxPackets
  /\ queue' = Encode(m) /\ packets' = packets + 1
  /\ moved' = [x |-> moved.x + m.dx, y |-> moved.y - m.dy]
  /\ UNCHANGED <<mode, handler, reader, buffer, latch, irq, inService, keys>>

MouseSends ==
  /\ queue # <<>> /\ buffer = Empty
  /\ buffer' = [src |-> "mouse", val |-> Head(queue)] /\ latch' = Head(queue)
  /\ queue' = Tail(queue) /\ irq' = TRUE
  /\ UNCHANGED <<mode, handler, reader, inService, packets, keys, moved>>

ByteLost ==
  /\ mode.lossy /\ queue # <<>> /\ queue' = Tail(queue)
  /\ UNCHANGED <<mode, handler, reader, buffer, latch, irq, inService, packets, keys, moved>>

\* The scancodes are numbered, in the order they are sent.
KeyPressed ==
  /\ keys < MaxKeys /\ buffer = Empty
  /\ keys' = keys + 1
  /\ buffer' = [src |-> "keyboard", val |-> keys + 1] /\ latch' = keys + 1
  /\ UNCHANGED <<mode, handler, reader, irq, inService, queue, packets, moved>>

Devices == MouseSends \/ ByteLost \/ KeyPressed \/ \E m \in Moves : MouseMoves(m)
GetKey == PollStatus \/ ReadData

Next == MouseInterrupt \/ GetKey \/ Devices

\* The processor takes a requested interrupt that is not masked by one in
\* service, and a kernel that polls goes on polling.
Spec == Init /\ [][Next]_vars /\ WF_vars(MouseInterrupt) /\ WF_vars(GetKey)
----------------------------------------------------------------------------
(***************************************************************************)
(* Properties.                                                             *)
(***************************************************************************)
\* Types of the variables of mouse.c and of the port.
TypeOK ==
  /\ cycle \in 0 .. 2 /\ packet \in [1 .. 3 -> 0 .. 255]
  /\ position.x \in Int /\ position.y \in Int
  /\ kpc \in {"status", "data"} /\ latch \in 0 .. 255
  /\ buffer.src \in {"none", "mouse", "keyboard"} /\ buffer.val \in 0 .. 255
  /\ irq \in BOOLEAN /\ inService \in BOOLEAN
  /\ packets \in 0 .. MaxPackets /\ keys \in 0 .. MaxKeys

Undisturbed == ~mode.lossy /\ ~mode.polls

\* When the port is quiet and no byte has been lost or read by get_key, the
\* cursor of mouse.c is where the mouse's movements lead from (400, 300),
\* with the y axis turned round.
Tracks ==
  Undisturbed /\ queue = <<>> /\ ~MouseByte =>
    /\ cycle = 0
    /\ position = [x |-> DEFAULT.x + moved.x, y |-> DEFAULT.y + moved.y]

\* get_key reads every scancode, once and in order, whatever the interrupt
\* takes from the port between its two reads: mouse_handler takes only what
\* the mouse sent.
KeysKept ==
  LET read == {n \in 1 .. Len(got) : got[n].src = "keyboard"}
  IN  /\ \A k \in 1 .. keys :
           buffer = [src |-> "keyboard", val |-> k] \/ \E n \in read : got[n].val = k
      /\ \A m, n \in read : m < n => got[m].val < got[n].val
      /\ buffer.src = "keyboard" => \A n \in read : got[n].val < buffer.val

\* A scancode does not stay in the port of a kernel that polls: get_key
\* drains it, also when the mouse is no longer served.
KeyboardServed == (mode.polls /\ buffer.src = "keyboard") ~> buffer.src # "keyboard"

\* When nothing disturbs the packets, every byte of the mouse is taken from
\* the port in the end: the handler acknowledges each interrupt.
MouseServed == (Undisturbed /\ MouseByte) ~> ~MouseByte

\* "Must be 1 -- sync check" (mouse.h): a byte that fails the check is
\* dropped and the handler goes on with the next one, so that every byte is
\* taken from the port in the end also after one was lost.
MouseResyncs == MouseByte ~> ~MouseByte
============================================================================
