----------------------------- MODULE Ps2Proofs -----------------------------
(***************************************************************************)
(* Theorems about Ps2, for all movements and any number of packets and     *)
(* scancodes: types, no scancode is lost between get_key and the mouse     *)
(* interrupt, and the cursor is where the movements lead.                  *)
(***************************************************************************)
EXTENDS Ps2, SequenceTheorems, TLAPS

Byte == 0 .. 255
Got == [src : {"none", "mouse", "keyboard"}, val : Byte]

\* The state the handler and the port share.
Port ==
  /\ mode \in Modes
  /\ cycle \in 0 .. 2 /\ packet \in [1 .. 3 -> Byte] /\ position \in [x : Int, y : Int]
  /\ buffer \in Got /\ latch \in Byte
  /\ queue \in Seq(Byte) /\ moved \in [x : Int, y : Int]
  /\ packets \in 0 .. MaxPackets /\ keys \in 0 .. MaxKeys
Reader == kpc \in {"status", "data"} /\ got \in Seq(Got)
Lines == irq \in BOOLEAN /\ inService \in BOOLEAN
----------------------------------------------------------------------------
(***************************************************************************)
(* Bytes and movements.                                                    *)
(***************************************************************************)

\* A movement becomes three bytes.
LEMMA Encoded ==
  ASSUME NEW m \in Moves
  PROVE  /\ m.dx \in -256 .. 255 /\ m.dy \in -256 .. 255
         /\ Encode(m) \in Seq(Byte) /\ Len(Encode(m)) = 3
         /\ Encode(m)[1] \in Byte /\ Encode(m)[2] \in Byte /\ Encode(m)[3] \in Byte
         /\ Bit(Encode(m)[1], ALWAYS_ONE)
         /\ Delta(Encode(m)[1], X_SIGN, Encode(m)[2]) = m.dx
         /\ Delta(Encode(m)[1], Y_SIGN, Encode(m)[3]) = m.dy
<1>1. m.dx \in -256 .. 255 /\ m.dy \in -256 .. 255
  BY MovesAssumption
<1> DEFINE b0 == ALWAYS_ONE + (IF m.dx < 0 THEN X_SIGN ELSE 0) + (IF m.dy < 0 THEN Y_SIGN ELSE 0)
<1>2. Encode(m) = <<b0, m.dx % 256, m.dy % 256>>
  BY DEF Encode
<1>3. b0 \in Byte /\ Bit(b0, ALWAYS_ONE)
  BY DEF ALWAYS_ONE, X_SIGN, Y_SIGN, Byte, Bit
<1>4. (Bit(b0, X_SIGN) <=> m.dx < 0) /\ (Bit(b0, Y_SIGN) <=> m.dy < 0)
  BY DEF ALWAYS_ONE, X_SIGN, Y_SIGN, Bit
<1>5. \A d \in -256 .. 255 : d % 256 \in Byte /\ (IF d < 0 THEN (d % 256) - 256 ELSE d % 256) = d
  BY DEF Byte
<1> HIDE DEF b0
<1>6. Encode(m) \in Seq(Byte) /\ Len(Encode(m)) = 3
  BY <1>1, <1>2, <1>3, <1>5
<1> QED BY <1>1, <1>2, <1>3, <1>4, <1>5, <1>6 DEF Delta

\* A delta of two bytes is a number of nine bits.
LEMMA Deltas ==
  \A b0, sign, b \in Byte : Delta(b0, sign, b) \in Int
BY DEF Delta, Byte

\* The bytes the mouse has still to send, after the first.
LEMMA QueueTail ==
  ASSUME Port, queue # <<>>
  PROVE  /\ Head(queue) \in Byte /\ Tail(queue) \in Seq(Byte) /\ Head(queue) = queue[1]
         /\ Len(queue) \in Nat \ {0} /\ Len(Tail(queue)) = Len(queue) - 1
         /\ \A k \in 1 .. Len(Tail(queue)) : Tail(queue)[k] = queue[k + 1]
<1>1. Len(queue) \in Nat \ {0}
  BY EmptySeq DEF Port
<1>2. Head(queue) = queue[1]
  BY <1>1
<1> QED BY <1>1, <1>2, HeadTailProperties DEF Port
----------------------------------------------------------------------------
(***************************************************************************)
(* Types.                                                                  *)
(***************************************************************************)
\* What the handler makes of a byte of the mouse.
LEMMA HandlerPort ==
  ASSUME Port, MouseInterrupt
  PROVE  Port'
<1>1. /\ buffer' \in Got
      /\ UNCHANGED <<mode, latch, devices>>
  BY DEF MouseInterrupt, Empty, Got, Byte, Port
<1>2. CASE UNCHANGED handler
  BY <1>1, <1>2 DEF Port, devices, handler
<1>3. CASE Collect(buffer.val)
  <2> DEFINE p == [packet EXCEPT ![cycle + 1] = buffer.val]
  <2>1. p \in [1 .. 3 -> Byte]
    BY DEF Port, Got
  <2>2. packet' = p /\ cycle' = (IF cycle = 2 THEN 0 ELSE cycle + 1)
        /\ position' = IF cycle = 2 THEN Moved(p) ELSE position
    BY <1>3 DEF Collect
  <2>3. Moved(p) \in [x : Int, y : Int]
    <3>1. p[1] \in Byte /\ p[2] \in Byte /\ p[3] \in Byte /\ X_SIGN \in Byte /\ Y_SIGN \in Byte
      BY <2>1 DEF X_SIGN, Y_SIGN, Byte
    <3> HIDE DEF p
    <3>2. Delta(p[1], X_SIGN, p[2]) \in Int /\ Delta(p[1], Y_SIGN, p[3]) \in Int
      BY <3>1, Deltas
    <3>3. position.x \in Int /\ position.y \in Int
      BY DEF Port
    <3> QED BY <3>2, <3>3 DEF Moved
  <2> HIDE DEF p
  <2>4. cycle' \in 0 .. 2 /\ packet' \in [1 .. 3 -> Byte] /\ position' \in [x : Int, y : Int]
    BY <2>1, <2>2, <2>3 DEF Port
  <2> QED BY <1>1, <2>4 DEF Port, devices
<1> QED BY <1>2, <1>3 DEF MouseInterrupt

\* Every step keeps the port as the devices leave it.
LEMMA PortStep ==
  ASSUME Port, [Next]_vars
  PROVE  Port'
<1>1. CASE MouseInterrupt
  BY <1>1, HandlerPort
<1>2. CASE PollStatus
  BY <1>2 DEF PollStatus, Port, handler, devices
<1>3. CASE ReadData
  BY <1>3 DEF ReadData, Port, handler, devices, Empty, Got, Byte
<1>4. CASE MouseSends
  <2>1. Head(queue) \in Byte /\ Tail(queue) \in Seq(Byte)
    BY <1>4, QueueTail DEF MouseSends
  <2> QED BY <1>4, <2>1 DEF MouseSends, Port, handler, Got
<1>5. CASE ByteLost
  <2>1. Tail(queue) \in Seq(Byte)
    BY <1>5, QueueTail DEF ByteLost
  <2> QED BY <1>5, <2>1 DEF ByteLost, Port, handler
<1>6. CASE KeyPressed
  BY <1>6, BoundsAssumption DEF KeyPressed, Port, handler, Got, Byte
<1>7. CASE \E m \in Moves : MouseMoves(m)
  <2>1. PICK m \in Moves : MouseMoves(m)
    BY <1>7
  <2>2. Encode(m) \in Seq(Byte)
    BY Encoded
  <2>3. moved' \in [x : Int, y : Int] /\ packets' \in 0 .. MaxPackets
    <3>1. m.dx \in Int /\ m.dy \in Int
      <4>1. m.dx \in -256 .. 255 /\ m.dy \in -256 .. 255
        BY MovesAssumption, Zenon
      <4> QED BY <4>1
    <3> QED BY <2>1, <3>1, BoundsAssumption DEF MouseMoves, Port
  <2> QED BY <2>1, <2>2, <2>3 DEF MouseMoves, Port, handler
<1>8. CASE UNCHANGED vars
  BY <1>8 DEF vars, handler, devices, Port
<1> QED BY <1>1, <1>2, <1>3, <1>4, <1>5, <1>6, <1>7, <1>8 DEF Next, GetKey, Devices

\* Every step keeps what get_key relies upon.
LEMMA ReaderStep ==
  ASSUME Port, Reader, [Next]_vars
  PROVE  Reader'
<1>1. CASE ReadData
  <2>1. [src |-> buffer.src, val |-> latch] \in Got
    BY DEF Port, Got
  <2> QED BY <1>1, <2>1, AppendProperties DEF ReadData, Reader
<1>2. CASE PollStatus
  BY <1>2 DEF PollStatus, Reader
<1>3. CASE UNCHANGED reader
  BY <1>3 DEF reader, Reader
<1> QED BY <1>1, <1>2, <1>3
        DEF Next, GetKey, Devices, MouseInterrupt, MouseMoves, MouseSends, ByteLost, KeyPressed, vars

\* Every step keeps the interrupt lines in step with the port.
LEMMA LinesStep ==
  ASSUME Lines, [Next]_vars
  PROVE  Lines'
<1>1. CASE MouseInterrupt
  BY <1>1 DEF MouseInterrupt, Lines, EoiSkipped, OutOfSync
<1>2. CASE MouseSends
  BY <1>2 DEF MouseSends, Lines
<1>3. CASE UNCHANGED <<irq, inService>>
  BY <1>3 DEF Lines
<1> QED BY <1>1, <1>2, <1>3
        DEF Next, GetKey, Devices, PollStatus, ReadData, MouseMoves, ByteLost, KeyPressed, vars

\* The invariant the theorems below build upon.
Typed == Port /\ Reader /\ Lines

\* The types the theorems about the shared port rest on.
THEOREM Inductive == Spec => []Typed
<1>1. Init => Typed
  <2> SUFFICES ASSUME Init PROVE Typed
    OBVIOUS
  <2>1. cycle \in 0 .. 2 /\ packet \in [1 .. 3 -> Byte] /\ position \in [x : Int, y : Int]
    BY DEF Init, Byte, DEFAULT
  <2>2. buffer \in Got /\ latch \in Byte /\ moved \in [x : Int, y : Int]
    BY DEF Init, Byte, Got, Empty
  <2>3. mode \in Modes /\ packets \in 0 .. MaxPackets /\ keys \in 0 .. MaxKeys
    BY BoundsAssumption DEF Init
  <2>4. queue \in Seq(Byte) /\ got \in Seq(Got)
    BY EmptySeq DEF Init
  <2> QED BY <2>1, <2>2, <2>3, <2>4 DEF Init, Typed, Port, Reader, Lines
<1>2. Typed /\ [Next]_vars => Typed'
  BY PortStep, ReaderStep, LinesStep DEF Typed
<1> QED BY <1>1, <1>2, PTL DEF Spec

\* The variables of mouse.c and of the port keep their types: in particular
\* cycle never leaves the three bytes of packet.
THEOREM TypeCorrect == Spec => []TypeOK
<1>1. Typed => TypeOK
  BY DEF Typed, Port, Reader, Lines, TypeOK, Got, Byte
<1> QED BY <1>1, Inductive, PTL
----------------------------------------------------------------------------
(***************************************************************************)
(* No scancode is lost.  A key in the buffer is the newest one, shown by   *)
(* the latch, and get_key has read all the others in the order they came.  *)
(***************************************************************************)
Read == {n \in 1 .. Len(got) : got[n].src = "keyboard"}
KeyHeld == buffer.src = "keyboard"

Shown == (buffer.src # "none" => buffer.val = latch) /\ (KeyHeld => buffer.val = keys /\ keys > 0)
Bounded == \A n \in Read : got[n].val \in 1 .. keys /\ (KeyHeld => got[n].val < keys)
Ordered == \A m, n \in Read : m < n => got[m].val < got[n].val
NoneLost == \A k \in 1 .. keys : (KeyHeld /\ k = keys) \/ \E n \in Read : got[n].val = k
Kept == Shown /\ Bounded /\ Ordered /\ NoneLost

\* The steps that leave the keys alone.
LEMMA KeptElsewhere ==
  ASSUME Port, Kept, UNCHANGED <<got, keys>>,
         \/ UNCHANGED <<buffer, latch>>
         \/ ~KeyHeld /\ buffer'.src # "keyboard" /\ (buffer'.src # "none" => buffer'.val = latch')
  PROVE  Kept'
<1>1. Read' = Read
  BY DEF Read
<1>2. Shown'
  BY DEF Kept, Shown, KeyHeld
<1>3. Bounded' /\ Ordered' /\ NoneLost'
  BY <1>1 DEF Kept, Bounded, Ordered, NoneLost, KeyHeld
<1> QED BY <1>2, <1>3 DEF Kept

\* A new scancode is numbered after all that came before.
LEMMA KeptPressed ==
  ASSUME Port, Kept, KeyPressed
  PROVE  Kept'
<1>1. Read' = Read /\ got' = got /\ keys' = keys + 1 /\ keys \in Nat /\ ~KeyHeld
  BY BoundsAssumption DEF Read, KeyPressed, reader, KeyHeld, Empty, Port
<1>2. KeyHeld' /\ buffer'.val = keys' /\ latch' = keys'
  BY DEF KeyPressed, KeyHeld
<1>3. Shown'
  BY <1>1, <1>2 DEF Shown
<1>4. Bounded' /\ Ordered'
  BY <1>1 DEF Kept, Bounded, Ordered
<1>5. NoneLost'
  <2>1. \A k \in 1 .. keys' : k = keys' \/ k \in 1 .. keys
    BY <1>1
  <2> QED BY <1>1, <1>2, <2>1 DEF Kept, NoneLost
<1> QED BY <1>3, <1>4, <1>5 DEF Kept

\* What get_key reads from the data port joins the end of what it has read.
LEMMA KeptRead ==
  ASSUME Port, Reader, Kept, ReadData
  PROVE  Kept'
<1> DEFINE g == [src |-> buffer.src, val |-> latch]
<1> DEFINE last == Len(got) + 1
<1>1. /\ last \in Nat
      /\ last \notin Read
      /\ Len(got') = last
      /\ got'[last] = g
      /\ \A n \in 1 .. Len(got) : got'[n] = got[n]
  <2>1. g \in Got
    BY DEF Port, Got
  <2>2. got' = Append(got, g) /\ got \in Seq(Got)
    BY DEF ReadData, Reader
  <2> HIDE DEF g
  <2> QED BY <2>1, <2>2, AppendProperties, LenProperties DEF Read
<1>2. UNCHANGED keys /\ buffer'.src = "none" /\ keys \in Nat
  BY BoundsAssumption DEF ReadData, devices, Empty, Port
<1>3. Read' = IF KeyHeld THEN Read \cup {last} ELSE Read
  <2>1. 1 .. last = (1 .. Len(got)) \cup {last}
    BY LenProperties DEF Reader
  <2>2. g.src = "keyboard" <=> KeyHeld
    BY DEF KeyHeld
  <2> HIDE DEF g, last
  <2> QED BY <1>1, <2>1, <2>2 DEF Read
<1>4. KeyHeld => g.val = keys /\ keys > 0
  BY DEF Kept, Shown, KeyHeld
<1>5. \A n \in Read : n < last /\ got'[n] = got[n]
  BY <1>1, LenProperties DEF Read, Reader
<1>6. ~KeyHeld'
  BY <1>2 DEF KeyHeld
<1> HIDE DEF g, last
<1>7. Shown'
  BY <1>2, <1>6 DEF Shown
<1>8. Bounded'
  BY <1>1, <1>2, <1>3, <1>4, <1>5, <1>6 DEF Kept, Bounded
<1>9. Ordered'
  <2> SUFFICES ASSUME NEW m \in Read', NEW n \in Read', m < n
               PROVE  got'[m].val < got'[n].val
    BY DEF Ordered
  <2>1. CASE m \in Read /\ n \in Read
    BY <2>1, <1>5 DEF Kept, Ordered
  <2>2. CASE m \in Read /\ n = last /\ KeyHeld
    BY <2>2, <1>1, <1>4, <1>5 DEF Kept, Bounded
  <2>3. CASE m = last
    <3>1. n \in Read \/ n = last
      BY <1>3
    <3> QED BY <2>3, <3>1, <1>1, <1>5, LenProperties DEF Read, Reader
  <2> QED BY <2>1, <2>2, <2>3, <1>3
<1>10. NoneLost'
  BY <1>1, <1>2, <1>3, <1>4, <1>5, <1>6 DEF Kept, NoneLost
<1> QED BY <1>7, <1>8, <1>9, <1>10 DEF Kept

\* Every step keeps the scancodes in order.
LEMMA KeptStep ==
  ASSUME Port, Reader, Kept, [Next]_vars
  PROVE  Kept'
<1>1. CASE KeyPressed
  BY <1>1, KeptPressed
<1>2. CASE ReadData
  BY <1>2, KeptRead
<1>3. CASE MouseInterrupt
  BY <1>3, KeptElsewhere DEF MouseInterrupt, MouseByte, KeyHeld, Empty, reader, devices
<1>4. CASE MouseSends
  BY <1>4, KeptElsewhere DEF MouseSends, KeyHeld, Empty, reader
<1>5. CASE PollStatus \/ ByteLost \/ (\E m \in Moves : MouseMoves(m)) \/ UNCHANGED vars
  BY <1>5, KeptElsewhere DEF PollStatus, ByteLost, MouseMoves, vars, reader, devices
<1> QED BY <1>1, <1>2, <1>3, <1>4, <1>5 DEF Next, GetKey, Devices

\* get_key reads every scancode, once and in order, whatever mouse_handler
\* takes from the port between its two reads.
THEOREM ScancodesKept == Spec => []KeysKept
<1>1. Init => Kept
  BY DEF Init, Kept, Shown, Bounded, Ordered, NoneLost, Read, KeyHeld, Empty
<1>2. Typed /\ Kept /\ [Next]_vars => Kept'
  BY KeptStep DEF Typed
<1>3. Typed /\ Kept => KeysKept
  <2> SUFFICES ASSUME Typed, Kept PROVE KeysKept
    OBVIOUS
  <2>1. Ordered /\ (KeyHeld => \A n \in Read : got[n].val < buffer.val)
    BY DEF Kept, Shown, Bounded
  <2>2. KeyHeld => buffer = [src |-> "keyboard", val |-> keys]
    BY DEF Kept, Shown, KeyHeld, Typed, Port, Got
  <2>3. \A k \in 1 .. keys :
          buffer = [src |-> "keyboard", val |-> k] \/ \E n \in Read : got[n].val = k
    BY <2>2 DEF Kept, NoneLost
  <2> QED BY <2>1, <2>3 DEF KeysKept, Ordered, Read, KeyHeld
<1> QED BY <1>1, <1>2, <1>3, Inductive, PTL DEF Spec
----------------------------------------------------------------------------
(***************************************************************************)
(* The cursor follows the mouse.  In a run that nothing disturbs, either   *)
(* nothing is under way and the cursor is where it should be, or a         *)
(* movement is spread over the packet, the port and the mouse, in this     *)
(* order, or the last byte of one is in the port and the next is waiting.  *)
(***************************************************************************)
Held == IF MouseByte THEN 1 ELSE 0

Resting ==
  /\ cycle = 0 /\ queue = <<>> /\ ~MouseByte
  /\ position.x = DEFAULT.x + moved.x /\ position.y = DEFAULT.y + moved.y

UnderWay(m) ==
  /\ cycle + Held + Len(queue) = 3
  /\ \A k \in 1 .. cycle : packet[k] = Encode(m)[k]
  /\ MouseByte => buffer.val = Encode(m)[cycle + 1]
  /\ \A k \in 1 .. Len(queue) : queue[k] = Encode(m)[cycle + Held + k]
  /\ position.x + m.dx = DEFAULT.x + moved.x /\ position.y - m.dy = DEFAULT.y + moved.y

Crossing(m, n) ==
  /\ cycle = 2 /\ MouseByte /\ queue = Encode(n)
  /\ packet[1] = Encode(m)[1] /\ packet[2] = Encode(m)[2] /\ buffer.val = Encode(m)[3]
  /\ position.x + m.dx + n.dx = DEFAULT.x + moved.x
  /\ position.y - m.dy - n.dy = DEFAULT.y + moved.y

Along ==
  \/ Resting
  \/ \E m \in Moves : UnderWay(m)
  \/ \E m, n \in Moves : Crossing(m, n)
Steady == Undisturbed => kpc = "status" /\ Along

\* Movements are numbers.
LEMMA MoveInt ==
  ASSUME NEW m \in Moves
  PROVE  m.dx \in Int /\ m.dy \in Int
<1>1. m.dx \in -256 .. 255 /\ m.dy \in -256 .. 255
  BY MovesAssumption, Zenon
<1> QED
  BY <1>1

\* So is the position.
LEMMA PositionInt ==
  ASSUME Port
  PROVE  /\ position.x \in Int /\ position.y \in Int
         /\ moved.x \in Int /\ moved.y \in Int
         /\ DEFAULT.x \in Int /\ DEFAULT.y \in Int
BY DEF Port, DEFAULT

\* A byte of the mouse, taken by the handler.
LEMMA SteadyHandler ==
  ASSUME Port, Undisturbed, NEW m \in Moves, UnderWay(m), MouseInterrupt
  PROVE  Resting' \/ UnderWay(m)'
<1>0. m.dx \in Int /\ m.dy \in Int /\ DEFAULT.x \in Int /\ DEFAULT.y \in Int
  BY MoveInt DEF DEFAULT
<1>1. CASE ~MouseByte
  BY <1>1 DEF MouseInterrupt, handler, devices, UnderWay, Held, MouseByte
<1>2. CASE MouseByte
  <2> DEFINE p == [packet EXCEPT ![cycle + 1] = buffer.val]
  <2>1. Held = 1 /\ Held' = 0 /\ ~MouseByte' /\ UNCHANGED <<queue, moved>>
    BY <1>2 DEF Held, MouseByte, MouseInterrupt, Empty, devices
  <2>2. ~OutOfSync
    BY <1>2, Encoded DEF OutOfSync, UnderWay
  <2>3. packet' = p /\ cycle' = (IF cycle = 2 THEN 0 ELSE cycle + 1)
        /\ position' = IF cycle = 2 THEN Moved(p) ELSE position
    BY <1>2, <2>2 DEF MouseInterrupt, Collect
  <2>4. cycle \in 0 .. 2 /\ \A k \in 1 .. cycle + 1 : p[k] = Encode(m)[k]
    BY <1>2 DEF Port, UnderWay
  <2>5. Len(queue) = 2 - cycle
    BY <2>1, <2>4, LenProperties DEF UnderWay, Port
  <2> HIDE DEF p
  <2>6. CASE cycle = 2
    <3>1. queue' = <<>>
      BY <2>1, <2>5, <2>6, EmptySeq DEF Port
    <3>2. p[1] = Encode(m)[1] /\ p[2] = Encode(m)[2] /\ p[3] = Encode(m)[3]
      BY <2>4, <2>6
    <3>3. position'.x = position.x + m.dx /\ position'.y = position.y - m.dy
      BY <2>3, <2>6, <3>2, Encoded DEF Moved
    <3> QED BY <2>1, <2>3, <2>6, <3>1, <3>3 DEF Resting, UnderWay
  <2>7. CASE cycle # 2
    <3>1. cycle' = cycle + 1 /\ position' = position
      BY <2>3, <2>7
    <3>2. (\A k \in 1 .. cycle' : packet'[k] = Encode(m)[k]) /\ cycle' + Held' + Len(queue') = 3
      BY <2>1, <2>3, <2>4, <2>5, <3>1
    <3>3. \A k \in 1 .. Len(queue') : queue'[k] = Encode(m)[cycle' + Held' + k]
      BY <2>1, <2>4, <3>1 DEF UnderWay
    <3> QED BY <2>1, <3>1, <3>2, <3>3 DEF UnderWay
  <2> QED BY <2>6, <2>7
<1> QED BY <1>1, <1>2

\* A byte of the mouse, put into the port.
LEMMA SteadySends ==
  ASSUME Port, NEW m \in Moves, UnderWay(m), MouseSends
  PROVE  UnderWay(m)'
<1>1. Held = 0 /\ Held' = 1 /\ MouseByte' /\ buffer'.val = queue[1] /\ queue' = Tail(queue)
      /\ UNCHANGED <<cycle, packet, position, moved>>
  BY QueueTail DEF MouseSends, Held, MouseByte, Empty, handler
<1>2. cycle \in Nat /\ Len(queue) \in Nat \ {0} /\ Len(queue') = Len(queue) - 1
      /\ \A k \in 1 .. Len(queue') : queue'[k] = queue[k + 1]
  BY <1>1, QueueTail DEF MouseSends, Port
<1>3. cycle' + Held' + Len(queue') = 3
  BY <1>1, <1>2 DEF UnderWay
<1>4. buffer'.val = Encode(m)[cycle' + 1]
  <2>1. queue[1] = Encode(m)[cycle + Held + 1]
    BY <1>2 DEF UnderWay
  <2> QED BY <1>1, <1>2, <2>1
<1>5. \A k \in 1 .. Len(queue') : queue'[k] = Encode(m)[cycle' + Held' + k]
  <2> SUFFICES ASSUME NEW k \in 1 .. Len(queue')
               PROVE  queue'[k] = Encode(m)[cycle' + Held' + k]
    OBVIOUS
  <2>1. k + 1 \in 1 .. Len(queue) /\ cycle' + Held' + k = cycle + Held + (k + 1)
    BY <1>1, <1>2
  <2> QED BY <1>2, <2>1 DEF UnderWay
<1> QED BY <1>1, <1>3, <1>4, <1>5 DEF UnderWay

\* The last byte of a movement leaves the port, the next movement begins.
LEMMA SteadyCrosses ==
  ASSUME Port, NEW m \in Moves, NEW n \in Moves, Crossing(m, n), MouseInterrupt
  PROVE  UnderWay(n)'
<1> DEFINE p == [packet EXCEPT ![cycle + 1] = buffer.val]
<1>1. /\ Held' = 0 /\ ~MouseByte' /\ UNCHANGED <<queue, moved>>
      /\ cycle' = 0 /\ position' = Moved(p)
  BY DEF Crossing, Held, MouseByte, MouseInterrupt, Empty, devices, OutOfSync, Collect
<1>2. p[1] = Encode(m)[1] /\ p[2] = Encode(m)[2] /\ p[3] = Encode(m)[3]
  BY DEF Crossing, Port
<1> HIDE DEF p
<1>3. position'.x = position.x + m.dx /\ position'.y = position.y - m.dy
  BY <1>1, <1>2, Encoded DEF Moved
<1>4. position.x \in Int /\ position.y \in Int /\ moved.x \in Int /\ moved.y \in Int
      /\ m.dx \in Int /\ m.dy \in Int /\ n.dx \in Int /\ n.dy \in Int
      /\ DEFAULT.x \in Int /\ DEFAULT.y \in Int
  BY PositionInt, MoveInt
<1>5. position'.x + n.dx = DEFAULT.x + moved'.x /\ position'.y - n.dy = DEFAULT.y + moved'.y
  BY <1>1, <1>3, <1>4 DEF Crossing
<1>6. queue' = Encode(n) /\ Len(Encode(n)) = 3
  BY <1>1, Encoded DEF Crossing
<1> QED BY <1>1, <1>5, <1>6 DEF UnderWay

\* The bytes of a movement.
LEMMA SteadyMoves ==
  ASSUME Port, Along, NEW m \in Moves, MouseMoves(m)
  PROVE  Along'
<1>1. /\ moved'.x = moved.x + m.dx /\ moved'.y = moved.y - m.dy
      /\ queue = <<>> /\ queue' = Encode(m) /\ Len(Encode(m)) = 3
      /\ UNCHANGED <<cycle, packet, position, buffer>>
  BY Encoded DEF MouseMoves, handler
<1>2. position.x \in Int /\ position.y \in Int /\ moved.x \in Int /\ moved.y \in Int
      /\ m.dx \in Int /\ m.dy \in Int /\ DEFAULT.x \in Int /\ DEFAULT.y \in Int
  BY PositionInt, MoveInt
<1>3. CASE Resting
  <2>1. UnderWay(m)'
    <3>1. Held' = 0 /\ ~MouseByte'
      BY <1>1, <1>3 DEF Resting, Held, MouseByte
    <3>2. position'.x + m.dx = DEFAULT.x + moved'.x /\ position'.y - m.dy = DEFAULT.y + moved'.y
      BY <1>1, <1>2, <1>3 DEF Resting
    <3> QED BY <1>1, <1>3, <3>1, <3>2 DEF Resting, UnderWay
  <2> QED BY <2>1 DEF Along
<1>4. ASSUME NEW l \in Moves, UnderWay(l)
      PROVE  \E j, n \in Moves : Crossing(j, n)'
  <2>1. Len(queue) = 0 /\ cycle \in 0 .. 2
    BY <1>1 DEF Port
  <2>2. Held = 1 /\ cycle = 2 /\ MouseByte
    BY <1>4, <2>1 DEF UnderWay, Held
  <2>3. packet[1] = Encode(l)[1] /\ packet[2] = Encode(l)[2] /\ buffer.val = Encode(l)[3]
    BY <1>4, <2>2 DEF UnderWay
  <2>4. l.dx \in Int /\ l.dy \in Int
    BY MoveInt
  <2>5. position.x + l.dx = DEFAULT.x + moved.x /\ position.y - l.dy = DEFAULT.y + moved.y
    BY <1>4 DEF UnderWay
  <2>6. position'.x + l.dx + m.dx = DEFAULT.x + moved'.x
        /\ position'.y - l.dy - m.dy = DEFAULT.y + moved'.y
    <3>1. \A a, b, c, d, e \in Int : a + b = c + d => a + b + e = c + (d + e)
      OBVIOUS
    <3>2. \A a, b, c, d, e \in Int : a - b = c + d => a - b - e = c + (d - e)
      OBVIOUS
    <3>3. position.x + l.dx + m.dx = DEFAULT.x + (moved.x + m.dx)
      BY <1>2, <2>4, <2>5, <3>1
    <3>4. position.y - l.dy - m.dy = DEFAULT.y + (moved.y - m.dy)
      BY <1>2, <2>4, <2>5, <3>2
    <3> QED BY <1>1, <3>3, <3>4
  <2>7. Crossing(l, m)'
    BY <1>1, <2>2, <2>3, <2>6 DEF Crossing, MouseByte
  <2> QED BY <2>7
<1>5. ~\E j, n \in Moves : Crossing(j, n)
  BY <1>1, Encoded DEF Crossing
<1> QED BY <1>3, <1>4, <1>5 DEF Along

\* Every step keeps the cursor along with the movements.
LEMMA AlongStep ==
  ASSUME Port, Undisturbed, kpc = "status", Along, [Next]_vars
  PROVE  Along'
<1>1. CASE MouseInterrupt
  <2>1. CASE Resting
    BY <1>1, <2>1 DEF Along, Resting, MouseInterrupt, handler, devices, MouseByte
  <2>2. CASE \E m \in Moves : UnderWay(m)
    BY <1>1, <2>2, SteadyHandler DEF Along
  <2>3. CASE \E m, n \in Moves : Crossing(m, n)
    BY <1>1, <2>3, SteadyCrosses DEF Along
  <2> QED BY <2>1, <2>2, <2>3 DEF Along
<1>2. CASE MouseSends
  <2>1. \E m \in Moves : UnderWay(m)
    BY <1>2 DEF Along, Resting, Crossing, MouseSends, MouseByte, Empty
  <2> QED BY <1>2, <2>1, SteadySends DEF Along
<1>3. CASE \E m \in Moves : MouseMoves(m)
  BY <1>3, SteadyMoves
<1>4. CASE KeyPressed
  <2>1. ~MouseByte /\ ~MouseByte' /\ UNCHANGED <<cycle, packet, position, queue, moved>>
    BY <1>4 DEF KeyPressed, MouseByte, Empty, handler
  <2>2. Held' = Held
    BY <2>1 DEF Held
  <2> QED BY <2>1, <2>2 DEF Along, Resting, UnderWay, Crossing
<1>5. CASE UNCHANGED vars
  BY <1>5 DEF vars, handler, devices, Along, Resting, UnderWay, Crossing, Held, MouseByte
<1> QED BY <1>1, <1>2, <1>3, <1>4, <1>5
        DEF Next, GetKey, Devices, PollStatus, ReadData, ByteLost, Undisturbed

\* Every step keeps the port undisturbed, or counts as a disturbance.
LEMMA SteadyStep ==
  ASSUME Port, Steady, [Next]_vars
  PROVE  Steady'
<1>1. mode' = mode
  BY DEF Next, GetKey, Devices, PollStatus, ReadData, MouseInterrupt, MouseMoves, MouseSends,
         ByteLost, KeyPressed, vars
<1> SUFFICES ASSUME Undisturbed
             PROVE  kpc' = "status" /\ Along'
  BY <1>1 DEF Steady, Undisturbed
<1>2. kpc = "status" /\ Along
  BY DEF Steady
<1>3. kpc' = "status"
  BY <1>2 DEF Next, GetKey, Devices, PollStatus, ReadData, MouseInterrupt, MouseMoves, MouseSends,
              ByteLost, KeyPressed, vars, reader, Undisturbed
<1> QED BY <1>2, <1>3, AlongStep

\* The cursor is where the movements lead, with the y axis turned round,
\* whenever nothing disturbed the port and no byte is under way.
THEOREM CursorFollows == Spec => []Tracks
<1>1. Init => Steady
  BY DEF Init, Steady, Along, Resting, MouseByte, Empty, DEFAULT
<1>2. Typed /\ Steady /\ [Next]_vars => Steady'
  BY SteadyStep DEF Typed
<1>3. Typed /\ Steady => Tracks
  <2> SUFFICES ASSUME Typed, Steady, Undisturbed, queue = <<>>, ~MouseByte
               PROVE  /\ cycle = 0
                      /\ position = [x |-> DEFAULT.x + moved.x, y |-> DEFAULT.y + moved.y]
    BY DEF Tracks
  <2>1. Resting
    <3>1. ~\E m \in Moves : UnderWay(m)
      BY DEF UnderWay, Held, Typed, Port
    <3>2. ~\E m, n \in Moves : Crossing(m, n)
      BY DEF Crossing
    <3> QED BY <3>1, <3>2 DEF Steady, Along
  <2> QED BY <2>1 DEF Resting, Typed, Port
<1> QED BY <1>1, <1>2, <1>3, Inductive, PTL DEF Spec
============================================================================
