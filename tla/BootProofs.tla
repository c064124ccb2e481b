----------------------------- MODULE BootProofs -----------------------------
(***************************************************************************)
(* What the boot and its clients guarantee, for all displays, texts, boxes,*)
(* volumes and requests.                                                   *)
(*                                                                         *)
(* Boot uses the file system as Fat32 says it may be used: every step of   *)
(* kmain and of the clients is a step of Fat32 or leaves its state alone,  *)
(* and the invariants of Fat32 hold of the whole boot.                     *)
(*                                                                         *)
(* What is shown at a place of the screen is what the last stroke over it  *)
(* left (DrawnIs).  From there come both theorems about the screen: a box  *)
(* looks as it should whatever lay below it (BoxesDrawn), and once kmain   *)
(* has shown the file, the whole of its text stands on the screen, cell by *)
(* cell, and has gone out on the serial line, in order (FileShownWhole).   *)
(***************************************************************************)
EXTENDS Boot, Fat32Proofs, FiniteSetTheorems

\* No step of the boot reads the disk, or calls the driver, in a state in
\* which the driver does not expect it.
THEOREM BootImplementsFat32 == BootSpec => Init /\ [][Next]_vars
<1>1. BootInit => Init
  BY DEF BootInit
<1>2. [BootNext]_bvars => [Next]_vars
  <2> SUFFICES ASSUME [BootNext]_bvars PROVE [Next]_vars
    OBVIOUS
  <2>1. CASE init_screen \/ ClearScreen \/ SayHello \/ Show \/ SetGates
    BY <2>1 DEF init_screen, ClearScreen, SayHello, Show, SetGates
  <2>2. CASE Mount \/ Reading
    BY <2>2 DEF Mount, Reading, Next, Step
  <2>3. CASE ReadHello
    BY <2>3, KmainAssumption DEF ReadHello, Next
  <2>4. CASE \E r \in Requests : ClientReads(r)
    BY <2>4 DEF ClientReads, Next
  <2>5. CASE (\E b \in Boxes : ClientDraws(b)) \/ Spins \/ UNCHANGED bvars
    BY <2>5 DEF ClientDraws, Spins, bvars
  <2> QED BY <2>1, <2>2, <2>3, <2>4, <2>5 DEF BootNext, Kmain
<1> QED BY <1>1, <1>2, PTL DEF BootSpec

\* The invariant of the driver holds in the boot and its clients too.
THEOREM BootInvariant == BootSpec => []IInv
<1>1. Init => IInv
  BY TypeInit, ProgressInit DEF IInv
<1>2. IInv /\ [Next]_vars => IInv'
  BY TypeStep, ProgressStep, VolumesAssumption, SizesAssumption, RequestsAssumption,
     ReadOutcomesAssumption DEF IInv
<1> QED BY <1>1, <1>2, BootImplementsFat32, PTL

\* kmain stores a NUL at test_str[bytes]: the place is inside the buffer it
\* gave fat32_read_file, whatever is on the disk.
THEOREM BootBufferSafe == BootSpec => []WithinBuffer
<1>1. IInv => WithinBuffer
  <2>1. IInv => call.size \in Nat /\ ret \in Int /\ total \in Nat
    BY RequestsAssumption DEF IInv, TypeOK, NoCall
  <2> QED BY <2>1 DEF IInv, Progress, NotYet, WithinBuffer
<1> QED BY <1>1, BootInvariant, PTL

\* What kmain shows is made of the clusters of one chain, put one behind the
\* other without a gap.
THEOREM BootTiles == BootSpec => [](TypeOK /\ TilesBuffer /\ FollowsChain)
<1>1. IInv => TypeOK /\ TilesBuffer /\ FollowsChain
  BY DEF IInv, Progress
<1> QED BY <1>1, BootInvariant, PTL

\* kmain and its clients are given what the volume holds under the path they
\* name: at every moment a beginning of it, in the end all of it unless a
\* disk read failed, and no array of the driver overflows on the way unless
\* the path is one its arrays were not made for.
THEOREM BootExact == BootSpec => [](DeliversPrefix /\ ReadExact /\ BuffersFit)
<1>1. EInv => DeliversPrefix /\ ReadExact /\ BuffersFit
  BY DEF EInv, Fitting, Exact, DeliversPrefix, ReadExact
<1> QED BY <1>1, EInvHolds, BootImplementsFat32, PTL
----------------------------------------------------------------------------
\* A framebuffer, as DisplaysAssumption has it.
IsDisplay(f) ==
  /\ f.width \in Nat \ {0} /\ f.height \in Nat \ {0} /\ f.pitch \in Nat
  /\ f.pitch >= 4 * f.width /\ f.pitch % 4 = 0 /\ f.pitch * f.height <= WORD

\* The place of an address, counted in pixels.
PlaceX(f, a) == (a % f.pitch) \div 4
PlaceY(f, a) == a \div f.pitch

\* Of a multiple of four, and of its quotient.
LEMMA Fourths ==
  /\ \A n \in Nat : (4 * n) \div 4 = n /\ (4 * n) % 4 = 0
  /\ \A n \in Nat : n % 4 = 0 => n = 4 * (n \div 4) /\ n \div 4 \in Nat
OBVIOUS

\* An address of the framebuffer is the one of its place.
LEMMA AddressIs ==
  ASSUME NEW f, IsDisplay(f), NEW a \in Addresses(f)
  PROVE  /\ a \in Nat /\ PlaceX(f, a) \in Nat /\ PlaceY(f, a) \in 0 .. f.height - 1
         /\ 4 * PlaceX(f, a) < f.pitch /\ a = PlaceY(f, a) * f.pitch + 4 * PlaceX(f, a)
<1> DEFINE d == f.pitch
           h == f.height
           q == d \div 4
           j == a \div d
           r == a % d
<1>1. d \in Nat /\ d > 0 /\ d % 4 = 0 /\ h \in Nat /\ h > 0
  BY DEF IsDisplay
<1>2. d = 4 * q /\ q \in Nat
  BY <1>1, Fourths
<1>3. PICK k \in 0 .. (d * h) \div 4 - 1 : a = 4 * k
  BY DEF Addresses
<1>4. d * h = 4 * (q * h) /\ q * h \in Nat
  <2>1. (4 * q) * h = 4 * (q * h)
    BY <1>1, <1>2
  <2> QED
    BY <1>1, <1>2, <2>1
<1>5. (d * h) \div 4 = q * h
  <2> HIDE DEF q, d, h
  <2> QED
    BY <1>4, Fourths
<1>6. k \in Nat /\ a \in Nat /\ a < d * h
  BY <1>3, <1>4, <1>5
<1>7. j \in Nat /\ r \in Nat /\ r < d /\ a = d * j + r
  <2> HIDE DEF d
  <2>1. d \in Int
    BY <1>1
  <2> QED
    BY <1>1, <1>6, <2>1, DivMod
<1>8. j < h
  <2> HIDE DEF j, r
  <2>1. ASSUME j >= h PROVE FALSE
    <3>1. d * j >= d * h
      BY <1>1, <1>7, <2>1
    <3> QED
      BY <1>1, <1>6, <1>7, <3>1
  <2> QED
    BY <2>1, <1>1, <1>7
<1>9. r = 4 * (k - q * j) /\ k - q * j \in Nat
  <2> HIDE DEF j, r, d, q
  <2>1. (4 * q) * j = 4 * (q * j) /\ q * j \in Nat
    BY <1>2, <1>7
  <2>2. r = 4 * k - 4 * (q * j)
    BY <1>2, <1>3, <1>6, <1>7, <2>1
  <2> QED
    BY <1>6, <1>7, <2>1, <2>2
<1>10. r \div 4 = k - q * j /\ r = 4 * (r \div 4)
  <2> HIDE DEF j, r, q
  <2> QED
    BY <1>9, Fourths
<1>11. d * j = j * d
  <2> HIDE DEF j, d
  <2> QED
    BY <1>1, <1>7
<1> QED
  <2> HIDE DEF j, r, d
  <2>1. a \in Nat /\ r \div 4 \in Nat /\ j \in 0 .. h - 1 /\ 4 * (r \div 4) < d
        /\ a = j * d + 4 * (r \div 4)
    BY <1>1, <1>6, <1>7, <1>8, <1>9, <1>10, <1>11
  <2> QED
    BY <2>1 DEF j, r, d, PlaceX, PlaceY

\* put_pixel writes to the address of the place it is given, as long as that
\* is on the screen, and to no other: nothing wraps.
LEMMA PixelIs ==
  ASSUME NEW f, IsDisplay(f), NEW x \in 0 .. f.width - 1, NEW y \in 0 .. f.height - 1
  PROVE  /\ Pixel(f, x, y) \in Addresses(f)
         /\ PlaceX(f, Pixel(f, x, y)) = x /\ PlaceY(f, Pixel(f, x, y)) = y
         /\ x % WORD = x /\ y % WORD = y
<1> DEFINE d == f.pitch
           h == f.height
           q == d \div 4
           p == y * d + 4 * x
<1>1. /\ d \in Nat /\ d > 0 /\ d % 4 = 0 /\ h \in Nat /\ h > 0 /\ d >= 4 /\ 4 * x + 4 <= d
      /\ x \in Nat /\ y \in Nat /\ y <= h - 1 /\ WORD \in Nat /\ d * h <= WORD /\ WORD > 0
  BY WordAssumption DEF IsDisplay
<1>2. d = 4 * q /\ q \in Nat
  BY <1>1, Fourths
<1>3. y * d \in Nat /\ y * d + d <= d * h
  <2> HIDE DEF d, h
  <2>1. y * d \in Nat /\ (y + 1) * d <= h * d /\ (y + 1) * d = y * d + d /\ h * d = d * h
    <3>1. (y + 1) * d <= h * d
      BY <1>1
    <3>2. (y + 1) * d = y * d + d /\ h * d = d * h /\ y * d \in Nat
      BY <1>1
    <3> QED
      BY <3>1, <3>2
  <2> QED
    BY <2>1
<1>4. y * d < WORD /\ 4 * x < WORD /\ x < WORD /\ y < WORD
  <2> HIDE DEF d, h
  <2>1. y <= y * d
    BY <1>1
  <2>2. d * h \in Nat
    BY <1>1
  <2> QED
    BY <1>1, <1>3, <2>1, <2>2
<1>5. (y * d) % WORD = y * d /\ (x * 4) % WORD = 4 * x /\ x % WORD = x /\ y % WORD = y
  <2>1. \A n \in Nat : n < WORD => n % WORD = n
    BY <1>1
  <2>2. x * 4 = 4 * x
    BY <1>1
  <2> HIDE DEF d, h
  <2> QED
    BY <1>1, <1>3, <1>4, <2>1, <2>2
<1>6. Pixel(f, x, y) = p
  BY <1>5 DEF Pixel
<1>7. p \div d = y /\ p % d = 4 * x
  <2> HIDE DEF d
  <2>1. 4 * x \in Nat /\ 4 * x < d
    BY <1>1
  <2> QED
    BY <1>1, <2>1, Quotient
<1>8. p = 4 * (q * y + x) /\ q * y + x \in Nat
  <2> HIDE DEF d, q
  <2>1. y * (4 * q) = 4 * (q * y) /\ q * y \in Nat
    BY <1>1, <1>2
  <2> QED
    BY <1>1, <1>2, <2>1
<1>9. q * y + x \in 0 .. (d * h) \div 4 - 1
  <2>1. (4 * q) * h = 4 * (q * h) /\ q * h \in Nat
    BY <1>1, <1>2
  <2>2. (d * h) \div 4 = q * h
    <3> HIDE DEF q, d, h
    <3> QED
      BY <1>2, <2>1, Fourths
  <2>3. p + 4 <= d * h
    <3> HIDE DEF d, h
    <3> QED
      BY <1>1, <1>3
  <2>4. 4 * (q * y + x) + 4 <= 4 * (q * h)
    <3> HIDE DEF p, q, d, h
    <3> QED
      BY <1>2, <1>8, <2>1, <2>3
  <2> HIDE DEF p, q, d, h
  <2> QED
    BY <1>8, <2>1, <2>2, <2>4
<1>10. p \in Addresses(f)
  <2>1. \A k \in 0 .. (d * h) \div 4 - 1 : 4 * k \in Addresses(f)
    BY DEF Addresses
  <2> HIDE DEF p, q, d, h
  <2> QED
    BY <1>8, <1>9, <2>1
<1>11. (4 * x) \div 4 = x
  BY <1>1, Fourths
<1> QED
  <2> HIDE DEF p, d
  <2>1. PlaceX(f, p) = x /\ PlaceY(f, p) = y
    <3> QED BY <1>7, <1>11 DEF PlaceX, PlaceY, d
  <2> QED
    BY <1>5, <1>6, <1>10, <2>1

\* A stroke that stays on the screen, and the places it is drawn at.
Inside(f, k) ==
  /\ k.x \in Nat /\ k.y \in Nat /\ k.w \in Nat /\ k.h \in Nat
  /\ k.x + k.w <= f.width /\ k.y + k.h <= f.height
Covers(f, k, a) ==
  /\ k.x <= PlaceX(f, a) /\ PlaceX(f, a) < k.x + k.w
  /\ k.y <= PlaceY(f, a) /\ PlaceY(f, a) < k.y + k.h
Spot(f, k, a) == <<PlaceX(f, a) - k.x, PlaceY(f, a) - k.y>>

\* It puts one pixel at each address of those places, and none elsewhere.
LEMMA TouchedIs ==
  ASSUME NEW f, IsDisplay(f), NEW k, Inside(f, k)
  PROVE  /\ \A p \in Places(k) : PutAt(f, k, p) \in Addresses(f)
         /\ \A a \in Addresses(f) :
              /\ Covers(f, k, a) => Touches(f, k, a) = {Spot(f, k, a)} /\ Spot(f, k, a) \in Places(k)
              /\ ~Covers(f, k, a) => Touches(f, k, a) = {}
<1>0. f.width \in Nat /\ f.height \in Nat
  BY DEF IsDisplay
<1>1. ASSUME NEW p \in Places(k)
      PROVE  /\ PutAt(f, k, p) \in Addresses(f)
             /\ PlaceX(f, PutAt(f, k, p)) = k.x + p[1] /\ PlaceY(f, PutAt(f, k, p)) = k.y + p[2]
             /\ p = <<p[1], p[2]>> /\ p[1] \in 0 .. k.w - 1 /\ p[2] \in 0 .. k.h - 1
  <2>1. p = <<p[1], p[2]>> /\ p[1] \in 0 .. k.w - 1 /\ p[2] \in 0 .. k.h - 1
    BY DEF Places
  <2>2. k.x + p[1] \in 0 .. f.width - 1 /\ k.y + p[2] \in 0 .. f.height - 1
    BY <1>0, <2>1 DEF Inside
  <2>3. PutAt(f, k, p) = Pixel(f, k.x + p[1], k.y + p[2])
    BY <2>2, PixelIs DEF PutAt
  <2> QED
    BY <2>1, <2>2, <2>3, PixelIs
<1>2. ASSUME NEW a \in Addresses(f), NEW p \in Places(k), PutAt(f, k, p) = a
      PROVE  Covers(f, k, a) /\ p = Spot(f, k, a)
  <2>1. /\ PlaceX(f, a) = k.x + p[1] /\ PlaceY(f, a) = k.y + p[2]
        /\ p = <<p[1], p[2]>> /\ p[1] \in 0 .. k.w - 1 /\ p[2] \in 0 .. k.h - 1
    BY <1>1, <1>2
  <2>2. PlaceX(f, a) - k.x = p[1] /\ PlaceY(f, a) - k.y = p[2] /\ Covers(f, k, a)
    BY <2>1 DEF Inside, Covers
  <2> QED
    BY <2>1, <2>2 DEF Spot
<1>3. ASSUME NEW a \in Addresses(f), Covers(f, k, a)
      PROVE  Spot(f, k, a) \in Places(k) /\ PutAt(f, k, Spot(f, k, a)) = a
  <2> DEFINE i == PlaceX(f, a) - k.x
             j == PlaceY(f, a) - k.y
  <2>1. /\ a \in Nat /\ PlaceX(f, a) \in Nat /\ PlaceY(f, a) \in Nat
        /\ a = PlaceY(f, a) * f.pitch + 4 * PlaceX(f, a)
    BY AddressIs
  <2>2. i \in 0 .. k.w - 1 /\ j \in 0 .. k.h - 1
    BY <1>3, <2>1 DEF Inside, Covers
  <2>3. Spot(f, k, a) \in Places(k) /\ Spot(f, k, a)[1] = i /\ Spot(f, k, a)[2] = j
    BY <2>2 DEF Spot, Places
  <2>4. /\ PlaceX(f, PutAt(f, k, Spot(f, k, a))) = PlaceX(f, a) /\ PlaceY(f, PutAt(f, k, Spot(f, k, a))) = PlaceY(f, a)
        /\ PutAt(f, k, Spot(f, k, a)) \in Addresses(f)
    BY <1>1, <2>1, <2>3 DEF Inside
  <2>5. PutAt(f, k, Spot(f, k, a)) = a
    BY <2>1, <2>4, AddressIs
  <2> QED
    BY <2>3, <2>5
<1> QED
  BY <1>1, <1>2, <1>3 DEF Touches

\* The last of the numbers up to n that are in a set.
LEMMA LastIn ==
  ASSUME NEW n \in Nat, NEW T, T \subseteq 1 .. n, T # {}
  PROVE  \E m \in T : \A l \in m + 1 .. n : l \notin T
<1> DEFINE D == {n - t : t \in T}
<1>1. D \subseteq Nat /\ D # {}
  <2>1. \A t \in T : n - t \in Nat
    OBVIOUS
  <2>2. PICK t \in T : TRUE
    OBVIOUS
  <2>3. n - t \in D
    OBVIOUS
  <2> QED
    BY <2>1, <2>3
<1>2. PICK x \in D : \A y \in D : x <= y
  <2> HIDE DEF D
  <2> QED
    BY <1>1, Least
<1>3. PICK m \in T : x = n - m
  BY <1>2
<1>4. ASSUME NEW l \in m + 1 .. n, l \in T PROVE FALSE
  <2>1. n - l \in D /\ m \in Nat
    BY <1>4
  <2>2. n - m <= n - l
    BY <1>2, <1>3, <2>1
  <2> QED
    BY <1>4, <2>1, <2>2
<1> QED
  BY <1>4

\* Strokes that stay on the screen, and what drawing them makes of it: nothing
\* is written beside it, and each pixel is what the last stroke over it has
\* put there.
OnScreen(f, strokes) ==
  /\ Len(strokes) \in Nat /\ DOMAIN strokes = 1 .. Len(strokes)
  /\ \A m \in 1 .. Len(strokes) : Inside(f, strokes[m])
Becomes(f, s, strokes, d) ==
  /\ d.stray = s.stray
  /\ DOMAIN d.px = Addresses(f)
  /\ d.serial = s.serial \o Sent(strokes)
  /\ \A a \in Addresses(f) :
       \/ /\ \A m \in 1 .. Len(strokes) : ~Covers(f, strokes[m], a)
          /\ d.px[a] = s.px[a]
       \/ \E m \in 1 .. Len(strokes) :
            /\ Covers(f, strokes[m], a)
            /\ \A l \in m + 1 .. Len(strokes) : ~Covers(f, strokes[l], a)
            /\ d.px[a] = Color(strokes[m], Spot(f, strokes[m], a))

\* Where strokes have been drawn, each place shows the last of them over it.
LEMMA DrawnIs ==
  ASSUME NEW f, IsDisplay(f), NEW s, DOMAIN s.px = Addresses(f), s.stray \in BOOLEAN,
         NEW strokes, OnScreen(f, strokes)
  PROVE  Becomes(f, s, strokes, Drawn(f, s, strokes))
<1> DEFINE n == Len(strokes)
<1>0. n \in Nat /\ DOMAIN strokes = 1 .. n /\ \A m \in 1 .. n : Inside(f, strokes[m])
  BY DEF OnScreen
<1> HIDE DEF n
<1> DEFINE Final(a) == {m \in 1 .. n : /\ Touches(f, strokes[m], a) # {}
                                       /\ \A l \in m + 1 .. n : Touches(f, strokes[l], a) = {}}
           Put(k, a) == CHOOSE p \in Touches(f, k, a) : \A q \in Touches(f, k, a) : q[2] <= p[2]
           D == Drawn(f, s, strokes)
<1>1. /\ D.px = [a \in DOMAIN s.px |->
                   IF Final(a) = {} THEN s.px[a]
                   ELSE LET k == strokes[CHOOSE m \in Final(a) : TRUE] IN Color(k, Put(k, a))]
      /\ D.stray = (s.stray \/ \E m \in DOMAIN strokes : \E p \in Places(strokes[m]) :
                                  PutAt(f, strokes[m], p) \notin DOMAIN s.px)
      /\ D.serial = s.serial \o Sent(strokes)
  <2>1. DOMAIN strokes = 1 .. Len(strokes)
    BY DEF OnScreen
  <2> QED
    BY <2>1 DEF Drawn, n
<1>2. \A m \in 1 .. n : \A p \in Places(strokes[m]) : PutAt(f, strokes[m], p) \in Addresses(f)
  BY <1>0, TouchedIs
<1>3. ASSUME NEW a \in Addresses(f), NEW m \in 1 .. n
      PROVE  /\ Covers(f, strokes[m], a) => Touches(f, strokes[m], a) = {Spot(f, strokes[m], a)}
             /\ ~Covers(f, strokes[m], a) => Touches(f, strokes[m], a) = {}
  BY <1>0, <1>3, TouchedIs
<1>4. ASSUME NEW a \in Addresses(f), Final(a) = {}
      PROVE  (\A m \in 1 .. n : ~Covers(f, strokes[m], a)) /\ D.px[a] = s.px[a]
  <2>1. D.px[a] = s.px[a]
    BY <1>1, <1>4, Zenon
  <2>2. ASSUME NEW m \in 1 .. n, Covers(f, strokes[m], a) PROVE FALSE
    <3> DEFINE T == {l \in 1 .. n : Touches(f, strokes[l], a) # {}}
    <3>1. T # {} /\ T \subseteq 1 .. n
      BY <1>3, <2>2
    <3>2. PICK l \in T : \A r \in l + 1 .. n : r \notin T
      <4> HIDE DEF T
      <4> QED
        BY <1>0, <3>1, LastIn
    <3>3. l \in Final(a)
      BY <3>2
    <3> QED
      BY <1>4, <3>3
  <2> QED
    BY <2>1, <2>2
<1>5. ASSUME NEW a \in Addresses(f), Final(a) # {}
      PROVE  \E m \in 1 .. n :
               /\ Covers(f, strokes[m], a) /\ \A l \in m + 1 .. n : ~Covers(f, strokes[l], a)
               /\ D.px[a] = Color(strokes[m], Spot(f, strokes[m], a))
  <2> DEFINE m == CHOOSE m \in Final(a) : TRUE
  <2>1. m \in Final(a)
    BY <1>5
  <2>2. D.px[a] = Color(strokes[m], Put(strokes[m], a))
    <3> HIDE DEF Final
    <3> QED
      BY <1>1, <1>5, Zenon
  <2>3. m \in 1 .. n /\ Touches(f, strokes[m], a) # {} /\ \A l \in m + 1 .. n : Touches(f, strokes[l], a) = {}
    <3> HIDE DEF m
    <3> QED
      BY <2>1
  <2> HIDE DEF m
  <2>4. Covers(f, strokes[m], a) /\ Touches(f, strokes[m], a) = {Spot(f, strokes[m], a)}
    BY <1>3, <2>3
  <2>5. Put(strokes[m], a) = Spot(f, strokes[m], a)
    <3>1. \A p : p \in Touches(f, strokes[m], a) <=> p = Spot(f, strokes[m], a)
      BY <2>4
    <3>2. Spot(f, strokes[m], a)[2] <= Spot(f, strokes[m], a)[2]
      <4>1. PlaceY(f, a) - strokes[m].y \in Int
        BY <1>0, AddressIs, <2>3 DEF Inside
      <4> QED
        BY <4>1 DEF Spot
    <3> QED
      BY <3>1, <3>2
  <2>6. \A l \in m + 1 .. n : ~Covers(f, strokes[l], a)
    <3> TAKE l \in m + 1 .. n
    <3>1. l \in 1 .. n /\ Touches(f, strokes[l], a) = {}
      BY <1>0, <2>3
    <3> QED
      BY <1>3, <3>1
  <2> QED
    BY <2>2, <2>3, <2>4, <2>5, <2>6
<1>6. D.stray = s.stray
  <2>1. (D.stray <=> s.stray) /\ D.stray \in BOOLEAN
    BY <1>0, <1>1, <1>2
  <2> QED
    BY <2>1
<1>7. DOMAIN D.px = Addresses(f)
  BY <1>1, Zenon
<1> HIDE DEF D, Final
<1>8. \A a \in Addresses(f) :
        \/ (\A m \in 1 .. n : ~Covers(f, strokes[m], a)) /\ D.px[a] = s.px[a]
        \/ \E m \in 1 .. n :
             /\ Covers(f, strokes[m], a) /\ \A l \in m + 1 .. n : ~Covers(f, strokes[l], a)
             /\ D.px[a] = Color(strokes[m], Spot(f, strokes[m], a))
  BY <1>4, <1>5
<1> QED
  BY <1>1, <1>6, <1>7, <1>8, Zenon DEF D, Becomes, n

\* Five elements, one after the other.
LEMMA FiveOf ==
  ASSUME NEW S, NEW a \in S, NEW b \in S, NEW c \in S, NEW d \in S, NEW e \in S
  PROVE  LET t == <<a>> \o <<b>> \o <<c>> \o <<d>> \o <<e>>
         IN  /\ t \in Seq(S) /\ Len(t) = 5
             /\ t[1] = a /\ t[2] = b /\ t[3] = c /\ t[4] = d /\ t[5] = e
OBVIOUS

\* The strokes of a box, one after the other.
LEMMA BoxStrokes ==
  ASSUME NEW x, NEW y, NEW w, NEW h, NEW edge, NEW border, NEW fill
  PROVE  LET strokes == draw_container(x, y, w, h, edge, border, fill)
         IN  /\ DOMAIN strokes = 1 .. 5 /\ Len(strokes) = 5
             /\ strokes[1] = Stroke(x, y, w, h, Solid, fill, fill)
             /\ strokes[2] = Stroke(x, y, w, border, Solid, edge, edge)
             /\ strokes[3] = Stroke(x, y + h - border, w, border, Solid, edge, edge)
             /\ strokes[4] = Stroke(x, y, border, h, Solid, edge, edge)
             /\ strokes[5] = Stroke(x + w - border, y, border, h, Solid, edge, edge)
<1> DEFINE a == Stroke(x, y, w, h, Solid, fill, fill)
           b == Stroke(x, y, w, border, Solid, edge, edge)
           c == Stroke(x, y + h - border, w, border, Solid, edge, edge)
           d == Stroke(x, y, border, h, Solid, edge, edge)
           e == Stroke(x + w - border, y, border, h, Solid, edge, edge)
           S == {a, b, c, d, e}
<1>1. draw_container(x, y, w, h, edge, border, fill) = <<a>> \o <<b>> \o <<c>> \o <<d>> \o <<e>>
  BY DEF draw_container, draw_rect
<1>2. a \in S /\ b \in S /\ c \in S /\ d \in S /\ e \in S
  OBVIOUS
<1> HIDE DEF a, b, c, d, e, S
<1> DEFINE t == <<a>> \o <<b>> \o <<c>> \o <<d>> \o <<e>>
<1>3. /\ t \in Seq(S) /\ Len(t) = 5
      /\ t[1] = a /\ t[2] = b /\ t[3] = c /\ t[4] = d /\ t[5] = e
  BY <1>2
<1>4. draw_container(x, y, w, h, edge, border, fill) = t
  BY <1>1
<1> HIDE DEF t
<1>5. DOMAIN t = 1 .. 5
  BY <1>3
<1> QED
  BY <1>3, <1>4, <1>5 DEF a, b, c, d, e

\* A box on the screen is drawn as the frame it is meant to be.
LEMMA BoxFramed ==
  ASSUME IsDisplay(fb), DOMAIN screen.px = Addresses(fb), screen.stray \in BOOLEAN,
         NEW b \in Boxes, ClientDraws(b)
  PROVE  Framed(b)
<1> DEFINE strokes == draw_container(b.x, b.y, b.width, b.height, WHITE, b.border, Gray)
<1> SUFFICES ASSUME b.x + b.width <= fb.width, b.y + b.height <= fb.height,
                    b.border <= b.width, b.border <= b.height
             PROVE  /\ screen'.stray = screen.stray
                    /\ \A a \in Addresses(fb) :
                         LET i == PlaceX(fb, a) - b.x
                             j == PlaceY(fb, a) - b.y
                             edge == Smaller(Smaller(i, b.width - 1 - i),
                                             Smaller(j, b.height - 1 - j))
                         IN  screen'.px[a] = IF edge < 0 THEN screen.px[a]
                                             ELSE IF edge < b.border THEN WHITE ELSE Gray
  BY Zenon DEF Framed, PlaceX, PlaceY
<1>1. screen' = Drawn(fb, screen, strokes)
  BY Zenon DEF ClientDraws, Draw
<1>2. /\ b.x \in Nat /\ b.y \in Nat /\ b.width \in Nat /\ b.height \in Nat /\ b.border \in Nat
      /\ fb.width \in Nat /\ fb.height \in Nat
  BY BoxesAssumption DEF IsDisplay
<1>3. /\ DOMAIN strokes = 1 .. 5 /\ Len(strokes) = 5
      /\ strokes[1] = Stroke(b.x, b.y, b.width, b.height, Solid, Gray, Gray)
      /\ strokes[2] = Stroke(b.x, b.y, b.width, b.border, Solid, WHITE, WHITE)
      /\ strokes[3] = Stroke(b.x, b.y + b.height - b.border, b.width, b.border, Solid, WHITE, WHITE)
      /\ strokes[4] = Stroke(b.x, b.y, b.border, b.height, Solid, WHITE, WHITE)
      /\ strokes[5] = Stroke(b.x + b.width - b.border, b.y, b.border, b.height, Solid, WHITE, WHITE)
  BY BoxStrokes
<1> HIDE DEF strokes
<1>4. \A m \in 1 .. 5 : Inside(fb, strokes[m])
  BY <1>2, <1>3 DEF Inside, Stroke
<1>5. \A m \in 1 .. 5 : \A p : Color(strokes[m], p) = IF m = 1 THEN Gray ELSE WHITE
  BY <1>3 DEF Color, Stroke
<1>6. ASSUME NEW a \in Addresses(fb)
      PROVE  LET i == PlaceX(fb, a) - b.x
                 j == PlaceY(fb, a) - b.y
             IN  /\ i \in Int /\ j \in Int
                 /\ Covers(fb, strokes[1], a) <=> 0 <= i /\ i < b.width /\ 0 <= j /\ j < b.height
                 /\ Covers(fb, strokes[2], a) <=> 0 <= i /\ i < b.width /\ 0 <= j /\ j < b.border
                 /\ Covers(fb, strokes[3], a) <=>
                      0 <= i /\ i < b.width /\ b.height - b.border <= j /\ j < b.height
                 /\ Covers(fb, strokes[4], a) <=> 0 <= i /\ i < b.border /\ 0 <= j /\ j < b.height
                 /\ Covers(fb, strokes[5], a) <=>
                      b.width - b.border <= i /\ i < b.width /\ 0 <= j /\ j < b.height
  <2>1. PlaceX(fb, a) \in Nat /\ PlaceY(fb, a) \in Nat
    BY AddressIs
  <2> QED
    BY <1>2, <1>3, <2>1 DEF Covers, Stroke
<1>7. /\ screen'.stray = screen.stray
      /\ \A a \in Addresses(fb) :
              \/ /\ \A m \in 1 .. 5 : ~Covers(fb, strokes[m], a)
                 /\ screen'.px[a] = screen.px[a]
              \/ \E m \in 1 .. 5 :
                   /\ Covers(fb, strokes[m], a) /\ \A l \in m + 1 .. 5 : ~Covers(fb, strokes[l], a)
                   /\ screen'.px[a] = Color(strokes[m], Spot(fb, strokes[m], a))
  <2>1. OnScreen(fb, strokes)
    BY <1>3, <1>4 DEF OnScreen
  <2>2. Becomes(fb, screen, strokes, screen')
    BY <1>1, <2>1, DrawnIs, Zenon
  <2> QED
    BY <1>3, <2>2, Zenon DEF Becomes
<1>8. ASSUME NEW a \in Addresses(fb), NEW i \in Int, NEW j \in Int,
             i = PlaceX(fb, a) - b.x, j = PlaceY(fb, a) - b.y
      PROVE  screen'.px[a] =
               IF Smaller(Smaller(i, b.width - 1 - i), Smaller(j, b.height - 1 - j)) < 0
               THEN screen.px[a]
               ELSE IF Smaller(Smaller(i, b.width - 1 - i), Smaller(j, b.height - 1 - j)) < b.border
               THEN WHITE ELSE Gray
  <2>1. CASE \A m \in 1 .. 5 : ~Covers(fb, strokes[m], a)
    <3>1. ~Covers(fb, strokes[1], a)
      BY <2>1
    <3>2. Smaller(Smaller(i, b.width - 1 - i), Smaller(j, b.height - 1 - j)) < 0
      BY <1>2, <1>6, <1>8, <3>1 DEF Smaller
    <3>3. screen'.px[a] = screen.px[a]
      BY <1>7, <2>1
    <3> QED
      BY <3>2, <3>3
  <2>2. CASE \E m \in 1 .. 5 :
               /\ Covers(fb, strokes[m], a) /\ \A l \in m + 1 .. 5 : ~Covers(fb, strokes[l], a)
               /\ screen'.px[a] = Color(strokes[m], Spot(fb, strokes[m], a))
    <3>1. PICK m \in 1 .. 5 :
               /\ Covers(fb, strokes[m], a) /\ \A l \in m + 1 .. 5 : ~Covers(fb, strokes[l], a)
               /\ screen'.px[a] = Color(strokes[m], Spot(fb, strokes[m], a))
      BY <2>2
    <3>2. Smaller(Smaller(i, b.width - 1 - i), Smaller(j, b.height - 1 - j)) >= 0
      <4>1. 0 <= i /\ i < b.width /\ 0 <= j /\ j < b.height
        BY <1>2, <1>6, <1>8, <3>1
      <4> QED
        BY <4>1, <1>2 DEF Smaller
    <3>3. m = 1 <=>
            ~(Smaller(Smaller(i, b.width - 1 - i), Smaller(j, b.height - 1 - j)) < b.border)
      <4>1. CASE m = 1
        <5>1. /\ ~Covers(fb, strokes[2], a) /\ ~Covers(fb, strokes[3], a)
              /\ ~Covers(fb, strokes[4], a) /\ ~Covers(fb, strokes[5], a) /\ Covers(fb, strokes[1], a)
          BY <3>1, <4>1
        <5> QED
          BY <4>1, <5>1, <1>2, <1>6, <1>8 DEF Smaller
      <4>2. CASE m # 1
        <5>1. \/ Covers(fb, strokes[2], a) \/ Covers(fb, strokes[3], a)
              \/ Covers(fb, strokes[4], a) \/ Covers(fb, strokes[5], a)
          BY <3>1, <4>2
        <5> QED
          BY <4>2, <5>1, <1>2, <1>6, <1>8 DEF Smaller
      <4> QED
        BY <4>1, <4>2
    <3>4. screen'.px[a] = IF m = 1 THEN Gray ELSE WHITE
      BY <1>5, <3>1
    <3>5. Smaller(Smaller(i, b.width - 1 - i), Smaller(j, b.height - 1 - j)) \in Int
      BY <1>2 DEF Smaller
    <3> QED
      BY <1>2, <3>2, <3>3, <3>4, <3>5
  <2> QED
    BY <1>7, <2>1, <2>2
<1> QED
  BY <1>6, <1>7, <1>8
----------------------------------------------------------------------------
\* What kmain has drawn before it reads its file.
Cleared(f) == Drawn(f, Blank(f), draw_rect(0, 0, f.width, f.height, 0))
Greeted(f) == Drawn(f, Cleared(f), print_string(Hello, COLUMN, HELLO_ROW, WHITE, 0))

\* What is left to be drawn when the file has been read, and when it is shown.
FileShown ==
  screen = IF ret <= 0 THEN Greeted(fb)
           ELSE Drawn(fb, Greeted(fb), print_string(StringOf(Bytes(copied)), COLUMN, TEXT_ROW, WHITE, 0))

Canvas ==
  /\ at \in {"screen", "stopped", "clear", "hello", "mount", "read", "show", "gates", "spin", "drawn"}
  /\ at = "screen" => display \in Displays /\ screen = Blank(display)
  /\ at \notin {"screen", "stopped"} =>
       IsDisplay(fb) /\ DOMAIN screen.px = Addresses(fb) /\ screen.stray \in BOOLEAN
  /\ at = "clear" => screen = Blank(fb)
  /\ at = "hello" => screen = Cleared(fb)
  /\ at \in {"mount", "read", "show"} => screen = Greeted(fb)
  /\ at \in {"show", "gates"} => call = KmainRead
  /\ at = "gates" => pc = "idle" /\ FileShown

\* Drawing keeps the screen's size.
LEMMA DrawnTyped ==
  \A f, s, strokes : /\ DOMAIN Drawn(f, s, strokes).px = DOMAIN s.px
                     /\ Drawn(f, s, strokes).stray \in BOOLEAN
BY DEF Drawn

\* A step of the driver leaves the call as it is.
LEMMA StepKeepsCall == Step => UNCHANGED call
BY DEF Step, MountFails, MountOk, FindStops, ReadDone, FindCluster, FindNext, ReadCluster, ReadNext

\* kmain draws one thing after the other.
LEMMA CanvasHolds == (BootInit => Canvas) /\ (Canvas /\ [BootNext]_bvars => Canvas')
<1>1. BootInit => Canvas
  BY DEF BootInit, Canvas
<1>2. ASSUME Canvas, init_screen PROVE Canvas'
  <2>1. CASE display = NoScreen
    BY <1>2, <2>1 DEF init_screen, Canvas
  <2>2. CASE display # NoScreen
    <3>1. at' = "clear" /\ fb' = display /\ screen' = screen /\ at = "screen"
      BY <1>2, <2>2 DEF init_screen
    <3>2. display \in Displays /\ screen = Blank(display)
      BY <1>2, <3>1 DEF Canvas
    <3>3. IsDisplay(display)
      BY <2>2, <3>2, DisplaysAssumption DEF IsDisplay
    <3>4. DOMAIN Blank(display).px = Addresses(display) /\ Blank(display).stray \in BOOLEAN
      BY DEF Blank
    <3>5. IsDisplay(fb)' /\ screen' = Blank(fb)' /\ (DOMAIN screen.px = Addresses(fb))'
          /\ (screen.stray \in BOOLEAN)'
      BY <3>1, <3>2, <3>3, <3>4
    <3> QED
      BY <3>1, <3>5 DEF Canvas
  <2> QED
    BY <2>1, <2>2
<1>3. ASSUME NEW s, NEW strokes, IsDisplay(fb), DOMAIN s.px = Addresses(fb)
      PROVE  DOMAIN Drawn(fb, s, strokes).px = Addresses(fb) /\ Drawn(fb, s, strokes).stray \in BOOLEAN
  BY <1>3, DrawnTyped, Zenon
<1>4. ASSUME Canvas, ClearScreen PROVE Canvas'
  <2>1. at = "clear" /\ at' = "hello" /\ fb' = fb
        /\ screen' = Drawn(fb, screen, draw_rect(0, 0, fb.width, fb.height, 0))
    BY <1>4, Zenon DEF ClearScreen, Draw
  <2>2. screen = Blank(fb) /\ IsDisplay(fb) /\ DOMAIN screen.px = Addresses(fb)
    BY <1>4, <2>1 DEF Canvas
  <2>3. screen' = Cleared(fb') /\ (DOMAIN screen.px = Addresses(fb))' /\ screen'.stray \in BOOLEAN
    BY <1>3, <2>1, <2>2, Zenon DEF Cleared
  <2> QED
    BY <2>1, <2>2, <2>3 DEF Canvas
<1>5. ASSUME Canvas, SayHello PROVE Canvas'
  <2>1. at = "hello" /\ at' = "mount" /\ fb' = fb
        /\ screen' = Drawn(fb, screen, print_string(Hello, COLUMN, HELLO_ROW, WHITE, 0))
    BY <1>5, Zenon DEF SayHello, Draw
  <2>2. screen = Cleared(fb) /\ IsDisplay(fb) /\ DOMAIN screen.px = Addresses(fb)
    BY <1>5, <2>1 DEF Canvas
  <2>3. screen' = Greeted(fb') /\ (DOMAIN screen.px = Addresses(fb))' /\ screen'.stray \in BOOLEAN
    BY <1>3, <2>1, <2>2, Zenon DEF Greeted, Cleared
  <2> QED
    BY <2>1, <2>2, <2>3 DEF Canvas
<1>6. ASSUME Canvas, Mount PROVE Canvas'
  <2>1. at = "mount" /\ at' \in {"read", "stopped"} /\ UNCHANGED <<fb, screen>>
    BY <1>6 DEF Mount
  <2> QED
    BY <1>6, <2>1 DEF Canvas
<1>7. ASSUME Canvas, ReadHello PROVE Canvas'
  <2>1. at = "read" /\ at' = "show" /\ UNCHANGED <<fb, screen>> /\ call' = KmainRead
    BY <1>7 DEF ReadHello, Call
  <2> QED
    BY <1>7, <2>1 DEF Canvas
<1>8. ASSUME Canvas, Show PROVE Canvas'
  <2>1. /\ at = "show" /\ pc = "idle" /\ at' = "gates" /\ UNCHANGED <<fb, pc, call, ret, copied>>
        /\ screen' = IF ret <= 0 THEN screen
                     ELSE Drawn(fb, screen, print_string(StringOf(Bytes(copied)), COLUMN, TEXT_ROW, WHITE, 0))
    BY <1>8, Zenon DEF Show, Draw, vars
  <2>2. /\ screen = Greeted(fb) /\ IsDisplay(fb) /\ DOMAIN screen.px = Addresses(fb)
        /\ screen.stray \in BOOLEAN /\ call = KmainRead
    BY <1>8, <2>1 DEF Canvas
  <2>4. FileShown'
    BY <2>1, <2>2, Zenon DEF FileShown
  <2>5. DOMAIN screen'.px = Addresses(fb) /\ screen'.stray \in BOOLEAN
    BY <1>3, <2>1, <2>2, Zenon
  <2>6. (DOMAIN screen.px = Addresses(fb) /\ screen.stray \in BOOLEAN /\ IsDisplay(fb))'
    BY <2>1, <2>2, <2>5
  <2> QED
    BY <2>1, <2>2, <2>4, <2>6 DEF Canvas
<1>9. ASSUME Canvas, SetGates PROVE Canvas'
  <2>1. at = "gates" /\ at' = "spin" /\ UNCHANGED <<fb, screen>>
    BY <1>9 DEF SetGates
  <2> QED
    BY <1>9, <2>1 DEF Canvas
<1>10. ASSUME Canvas, Reading PROVE Canvas'
  <2>1. at \in {"show", "spin"} /\ at' = at /\ UNCHANGED <<fb, screen, call>>
    BY <1>10, StepKeepsCall DEF Reading
  <2> QED
    BY <1>10, <2>1 DEF Canvas
<1>11. ASSUME Canvas, NEW r \in Requests, ClientReads(r) PROVE Canvas'
  <2>1. at = "spin" /\ at' = at /\ UNCHANGED <<fb, screen>>
    BY <1>11 DEF ClientReads
  <2> QED
    BY <1>11, <2>1 DEF Canvas
<1>12. ASSUME Canvas, NEW b \in Boxes, ClientDraws(b) PROVE Canvas'
  <2>1. /\ at = "spin" /\ at' = "drawn" /\ fb' = fb
        /\ screen' = Drawn(fb, screen, draw_container(b.x, b.y, b.width, b.height, WHITE, b.border, Gray))
    BY <1>12, Zenon DEF ClientDraws, Draw
  <2>2. IsDisplay(fb) /\ DOMAIN screen.px = Addresses(fb)
    BY <1>12, <2>1 DEF Canvas
  <2>3. (DOMAIN screen.px = Addresses(fb))' /\ screen'.stray \in BOOLEAN
    BY <1>3, <2>1, <2>2, Zenon
  <2> QED
    BY <2>1, <2>2, <2>3 DEF Canvas
<1>13. ASSUME Canvas, UNCHANGED bvars PROVE Canvas'
  <2>1. UNCHANGED <<at, display, fb, screen, call, pc, ret, copied>>
    BY <1>13 DEF bvars, vars
  <2>2. FileShown' = FileShown
    BY <2>1 DEF FileShown
  <2> QED
    BY <1>13, <2>1, <2>2 DEF Canvas
<1>14. Spins => UNCHANGED bvars
  BY DEF Spins
<1> QED
  BY <1>1, <1>2, <1>4, <1>5, <1>6, <1>7, <1>8, <1>9, <1>10, <1>11, <1>12, <1>13, <1>14
     DEF BootNext, Kmain

\* Every box a client draws on the screen is framed.
THEOREM BoxesDrawn == BootSpec => BoxesFramed
<1>1. Canvas /\ [BootNext]_bvars => [\A b \in Boxes : ClientDraws(b) => Framed(b)]_bvars
  <2> SUFFICES ASSUME Canvas, BootNext, NEW b \in Boxes, ClientDraws(b) PROVE Framed(b)
    OBVIOUS
  <2>1. IsDisplay(fb) /\ DOMAIN screen.px = Addresses(fb) /\ screen.stray \in BOOLEAN
    BY DEF Canvas, ClientDraws
  <2> QED
    BY <2>1, BoxFramed
<1> QED
  BY <1>1, CanvasHolds, PTL DEF BootSpec, BoxesFramed
----------------------------------------------------------------------------
\* The values of FlattenSeq for the first pieces.
Flattens(g, pieces) ==
  /\ g[0] = <<>> /\ \A k \in 1 .. Len(pieces) : g[k] = g[k - 1] \o pieces[k]
  /\ FlattenSeq(pieces) = g[Len(pieces)]

\* FlattenSeq puts one piece behind the other.
LEMMA Flattened ==
  ASSUME NEW S, NEW pieces \in Seq(Seq(S))
  PROVE  \E g \in [0 .. Len(pieces) -> Seq(S)] : Flattens(g, pieces)
<1> DEFINE n == Len(pieces)
           step == [p \in Seq(S) \X (1 .. n) |-> p[1] \o pieces[p[2]]]
           Eq(f) == f = [i \in 1 .. n |-> IF i = 1 THEN pieces[i] ELSE f[i - 1] \o pieces[i]]
           flatten == CHOOSE f : Eq(f)
<1>1. n \in Nat /\ \A k \in 1 .. n : pieces[k] \in Seq(S)
  BY ElementOfSeq
<1>2. <<>> \in Seq(S) /\ \A s, t \in Seq(S) : s \o t \in Seq(S) /\ <<>> \o s = s
  BY ConcatProperties, ConcatEmptySeq, EmptySeq
<1>3. step \in [Seq(S) \X (1 .. n) -> Seq(S)]
  <2> HIDE DEF n
  <2> QED
    BY <1>1, <1>2
<1>4. PICK g \in [0 .. n -> Seq(S)] : Iterates(g, n, <<>>, step)
  <2> HIDE DEF n, step
  <2> QED
    BY <1>1, <1>2, <1>3, Recursion
<1>5. g[0] = <<>> /\ \A k \in 1 .. n : g[k] = g[k - 1] \o pieces[k]
  <2> HIDE DEF n
  <2>1. \A k \in 1 .. n : g[k] = step[<<g[k - 1], k>>]
    BY <1>4, Zenon DEF Iterates
  <2>2. ASSUME NEW k \in 1 .. n PROVE step[<<g[k - 1], k>>] = g[k - 1] \o pieces[k]
    <3>1. k - 1 \in 0 .. n
      BY <1>1
    <3>2. g[k - 1] \in Seq(S)
      BY <3>1
    <3> QED
      BY <3>2
  <2>3. g[0] = <<>>
    BY <1>4, Zenon DEF Iterates
  <2> QED
    BY <2>1, <2>2, <2>3
<1> HIDE DEF step
<1>6. CASE n = 0
  <2>1. pieces = <<>> /\ FlattenSeq(pieces) = pieces
    BY <1>6 DEF FlattenSeq
  <2> QED
    BY <1>5, <1>6, <2>1 DEF Flattens
<1>7. CASE n # 0
  <2>0. 1 \in 1 .. n /\ g[1] = pieces[1]
    <3>1. 1 \in 1 .. n /\ 1 - 1 = 0
      BY <1>1, <1>7
    <3>2. g[1] = <<>> \o pieces[1] /\ pieces[1] \in Seq(S)
      <4> HIDE DEF n
      <4> QED
        BY <1>1, <1>5, <3>1
    <3> QED
      BY <1>2, <3>1, <3>2
  <2>1. FlattenSeq(pieces) = flatten[n]
    BY <1>7, Zenon DEF FlattenSeq
  <2>2. Eq([i \in 1 .. n |-> g[i]])
    <3> DEFINE f == [i \in 1 .. n |-> g[i]]
    <3> HIDE DEF n
    <3>1. ASSUME NEW i \in 1 .. n PROVE g[i] = IF i = 1 THEN pieces[i] ELSE f[i - 1] \o pieces[i]
      <4>1. CASE i = 1
        <5> QED
          BY <2>0, <4>1
      <4>2. CASE i # 1
        <5>1. i - 1 \in 1 .. n
          BY <1>1, <4>2
        <5> QED
          BY <1>5, <4>2, <5>1
      <4> QED
        BY <4>1, <4>2
    <3> HIDE DEF f
    <3>2. f = [i \in 1 .. n |-> IF i = 1 THEN pieces[i] ELSE f[i - 1] \o pieces[i]]
      <4>1. f = [i \in 1 .. n |-> g[i]]
        BY DEF f
      <4> QED
        BY <3>1, <4>1
    <3> QED
      BY <3>2 DEF f
  <2>3. Eq(flatten)
    <3> HIDE DEF Eq
    <3> QED
      BY <2>2
  <2> HIDE DEF flatten
  <2>4. \A i \in 1 .. n : flatten[i] = IF i = 1 THEN pieces[i] ELSE flatten[i - 1] \o pieces[i]
    BY <2>3, Zenon
  <2> HIDE DEF n, Eq
  <2> DEFINE P == {i \in Nat : i \in 1 .. n => flatten[i] = g[i]}
  <2>5. 0 \in P
    OBVIOUS
  <2>6. ASSUME NEW i \in Nat, i \in P PROVE i + 1 \in P
    <3> SUFFICES ASSUME i + 1 \in 1 .. n PROVE flatten[i + 1] = g[i + 1]
      OBVIOUS
    <3>1. g[i + 1] = g[i] \o pieces[i + 1] /\ pieces[i + 1] \in Seq(S)
      <4>1. (i + 1) - 1 = i
        OBVIOUS
      <4> QED
        BY <1>1, <1>5, <4>1
    <3>2. CASE i = 0
      <4>1. flatten[1] = pieces[1]
        BY <2>0, <2>4
      <4> QED
        BY <2>0, <3>2, <4>1
    <3>3. CASE i # 0
      <4>1. i \in 1 .. n /\ i + 1 # 1 /\ (i + 1) - 1 = i
        BY <1>1, <3>3
      <4>2. flatten[i] = g[i]
        BY <2>6, <4>1
      <4>3. flatten[i + 1] = flatten[i] \o pieces[i + 1]
        BY <2>4, <4>1
      <4> QED
        BY <3>1, <4>2, <4>3
    <3> QED
      BY <3>2, <3>3
  <2>7. P \subseteq Nat
    OBVIOUS
  <2> HIDE DEF P
  <2>8. P = Nat
    BY <2>5, <2>6, <2>7, Induction
  <2>9. n \in P /\ n \in 1 .. n
    BY <1>1, <1>7, <2>8
  <2>10. flatten[n] = g[n]
    BY <2>9 DEF P
  <2> QED
    BY <1>5, <2>1, <2>10 DEF Flattens, n
<1> QED
  BY <1>6, <1>7

\* How many of a set of numbers come up to i.
Rank(Keep, i) == Cardinality(Keep \intersect 1 .. i)

\* The rank grows by one at each number of the set.
LEMMA RankIs ==
  ASSUME NEW n \in Nat, NEW Keep, Keep \subseteq 1 .. n
  PROVE  /\ Rank(Keep, 0) = 0 /\ Rank(Keep, n) = Cardinality(Keep)
         /\ \A i \in 0 .. n : Rank(Keep, i) \in Nat
         /\ \A i \in 1 .. n : Rank(Keep, i) = Rank(Keep, i - 1) + (IF i \in Keep THEN 1 ELSE 0)
<1>1. \A i \in 0 .. n : IsFiniteSet(Keep \intersect 1 .. i) /\ Rank(Keep, i) \in Nat
  <2> TAKE i \in 0 .. n
  <2>1. IsFiniteSet(1 .. i)
    BY FS_Interval
  <2>2. IsFiniteSet(Keep \intersect 1 .. i)
    BY <2>1, FS_Subset
  <2> QED
    BY <2>2, FS_CardinalityType DEF Rank
<1>2. ASSUME NEW i \in 1 .. n
      PROVE  Rank(Keep, i) = Rank(Keep, i - 1) + (IF i \in Keep THEN 1 ELSE 0)
  <2> DEFINE T == Keep \intersect 1 .. i - 1
  <2>1. i - 1 \in 0 .. n /\ i \notin T
    OBVIOUS
  <2>2. IsFiniteSet(T) /\ Cardinality(T) \in Nat
    BY <1>1, <2>1 DEF Rank
  <2>3. CASE i \in Keep
    <3>1. Keep \intersect 1 .. i = T \cup {i}
      BY <2>3
    <3>2. Cardinality(T \cup {i}) = Cardinality(T) + 1
      <4> HIDE DEF T
      <4> QED
        BY <2>1, <2>2, FS_AddElement
    <3> QED
      BY <2>3, <3>1, <3>2 DEF Rank
  <2>4. CASE i \notin Keep
    <3>1. Keep \intersect 1 .. i = T
      BY <2>4
    <3>2. Rank(Keep, i) = Cardinality(T) /\ Rank(Keep, i - 1) = Cardinality(T)
      BY <3>1, Zenon DEF Rank
    <3> HIDE DEF T
    <3> QED
      BY <2>2, <2>4, <3>2
  <2> QED
    BY <2>3, <2>4
<1>3. Keep \intersect 1 .. 0 = {} /\ Keep \intersect 1 .. n = Keep
  <2>1. \A x : x \notin 1 .. 0
    OBVIOUS
  <2> QED
    BY <2>1, Zenon
<1> QED
  BY <1>1, <1>2, <1>3, FS_EmptySet DEF Rank

\* s is made of the values of the numbers in Keep, in their order.
Picks(s, Keep, val) ==
  /\ Len(s) = Cardinality(Keep)
  /\ \A m \in Keep : Rank(Keep, m) \in 1 .. Len(s) /\ s[Rank(Keep, m)] = val[m]
  /\ \A k \in 1 .. Len(s) : \E m \in Keep : Rank(Keep, m) = k

\* One element more.
LEMMA Extended ==
  ASSUME NEW S, NEW s \in Seq(S), NEW v \in S
  PROVE  /\ s \o <<v>> \in Seq(S) /\ Len(s \o <<v>>) = Len(s) + 1 /\ (s \o <<v>>)[Len(s) + 1] = v
         /\ \A k \in 1 .. Len(s) : (s \o <<v>>)[k] = s[k]
<1>1. <<v>> \in Seq(S) /\ Len(<<v>>) = 1 /\ <<v>>[1] = v
  OBVIOUS
<1> DEFINE t == <<v>>
<1> HIDE DEF t
<1>2. t \in Seq(S) /\ Len(t) = 1 /\ t[1] = v
  BY <1>1 DEF t
<1>3. s \o t \in Seq(S) /\ Len(s \o t) = Len(s) + 1 /\ Len(s) \in Nat
      /\ \A i \in 1 .. Len(s) + 1 : (s \o t)[i] = IF i <= Len(s) THEN s[i] ELSE t[i - Len(s)]
  <2>1. /\ s \o t \in Seq(S) /\ Len(s \o t) = Len(s) + Len(t)
        /\ \A i \in 1 .. Len(s) + Len(t) : (s \o t)[i] = IF i <= Len(s) THEN s[i] ELSE t[i - Len(s)]
    BY <1>2, ConcatProperties, Zenon
  <2>2. Len(s) \in Nat
    BY LenProperties
  <2> QED
    BY <1>2, <2>1, <2>2, Zenon
<1>4. (s \o t)[Len(s) + 1] = v /\ \A k \in 1 .. Len(s) : (s \o t)[k] = s[k]
  BY <1>2, <1>3
<1> QED
  BY <1>3, <1>4 DEF t

\* Appending the values of the kept numbers, one by one, picks them.
LEMMA Picked ==
  ASSUME NEW S, NEW n \in Nat, NEW Keep, Keep \subseteq 1 .. n, NEW val,
         \A i \in Keep : val[i] \in S, NEW g \in [0 .. n -> Seq(S)], g[0] = <<>>,
         \A i \in 1 .. n : g[i] = g[i - 1] \o (IF i \in Keep THEN <<val[i]>> ELSE <<>>)
  PROVE  Picks(g[n], Keep, val)
<1> DEFINE Upto(i) == {m \in Keep : m <= i}
           Good(i) == /\ Len(g[i]) = Rank(Keep, i)
                      /\ \A m \in Upto(i) : /\ Rank(Keep, m) \in 1 .. Len(g[i])
                                            /\ g[i][Rank(Keep, m)] = val[m]
                      /\ \A k \in 1 .. Len(g[i]) : \E m \in Upto(i) : Rank(Keep, m) = k
           P == {i \in Nat : i <= n => Good(i)}
<1>0. /\ \A m \in Keep : m \in 1 .. n
      /\ \A i \in 0 .. n : Rank(Keep, i) \in Nat
      /\ \A i \in 1 .. n : Rank(Keep, i) = Rank(Keep, i - 1) + (IF i \in Keep THEN 1 ELSE 0)
      /\ Rank(Keep, 0) = 0
  BY RankIs
<1>1. 0 \in P
  <2>1. Len(g[0]) = 0 /\ \A m : m \notin Upto(0)
    <3>1. \A m \in Keep : ~(m <= 0)
      BY <1>0
    <3>2. Len(g[0]) = 0
      BY EmptySeq
    <3> QED
      BY <3>1, <3>2
  <2>2. \A k : k \notin 1 .. 0
    OBVIOUS
  <2>3. Good(0)
    <3> HIDE DEF Upto
    <3> QED
      BY <1>0, <2>1, <2>2
  <2> HIDE DEF Good
  <2> QED
    BY <2>3
<1>2. ASSUME NEW i \in Nat, i \in P PROVE i + 1 \in P
  <2> SUFFICES ASSUME i + 1 <= n PROVE Good(i + 1)
    OBVIOUS
  <2> DEFINE s == g[i]
             t == g[i + 1]
             r == Rank(Keep, i)
  <2>1. i \in 0 .. n /\ i + 1 \in 1 .. n /\ (i + 1) - 1 = i /\ Good(i)
    BY <1>2
  <2>2. s \in Seq(S) /\ Len(s) = r /\ r \in Nat
    BY <2>1, RankIs
  <2>3. Rank(Keep, i + 1) = r + (IF i + 1 \in Keep THEN 1 ELSE 0)
    <3>1. Rank(Keep, i + 1) = Rank(Keep, (i + 1) - 1) + (IF i + 1 \in Keep THEN 1 ELSE 0)
      BY <1>0, <2>1, Zenon
    <3> QED
      BY <2>1, <3>1
  <2>4. t = s \o (IF i + 1 \in Keep THEN <<val[i + 1]>> ELSE <<>>)
    BY <2>1
  <2>5. CASE i + 1 \in Keep
    <3> DEFINE v == val[i + 1]
    <3>1. Upto(i + 1) = Upto(i) \cup {i + 1}
      <4>1. \A m \in Keep : m <= i + 1 <=> (m <= i \/ m = i + 1)
        OBVIOUS
      <4> QED
        BY <2>5, <4>1
    <3>2. t = s \o <<v>> /\ v \in S
      BY <2>4, <2>5
    <3> HIDE DEF s, t, v, r
    <3>3. /\ Len(t) = r + 1 /\ t[r + 1] = v
          /\ \A k \in 1 .. r : t[k] = s[k]
      <4>0. s \in Seq(S) /\ v \in S
        BY <2>2, <3>2
      <4>1. /\ Len(s \o <<v>>) = Len(s) + 1 /\ (s \o <<v>>)[Len(s) + 1] = v
            /\ \A k \in 1 .. Len(s) : (s \o <<v>>)[k] = s[k]
        BY ONLY <4>0, Extended
      <4> QED
        BY <2>2, <3>2, <4>1, Zenon
    <3>4. Rank(Keep, i + 1) = r + 1
      BY <2>3, <2>5
    <3>5. ASSUME NEW m \in Upto(i)
          PROVE  Rank(Keep, m) \in 1 .. r + 1 /\ t[Rank(Keep, m)] = val[m]
      <4>1. Rank(Keep, m) \in 1 .. r /\ s[Rank(Keep, m)] = val[m]
        BY <2>1, <2>2 DEF s
      <4> QED
        BY <2>2, <3>3, <4>1
    <3>6. ASSUME NEW k \in 1 .. r + 1 PROVE \E m \in Upto(i + 1) : Rank(Keep, m) = k
      <4>1. CASE k = r + 1
        BY <2>5, <3>1, <3>4, <4>1
      <4>2. CASE k # r + 1
        <5>1. k \in 1 .. Len(s)
          BY <2>2, <4>2
        <5>2. PICK m \in Upto(i) : Rank(Keep, m) = k
          BY <2>1, <5>1 DEF s
        <5> QED
          BY <3>1, <5>2
      <4> QED
        BY <4>1, <4>2
    <3>7. ASSUME NEW m \in Upto(i + 1)
          PROVE  Rank(Keep, m) \in 1 .. r + 1 /\ t[Rank(Keep, m)] = val[m]
      <4>1. CASE m = i + 1
        BY <2>2, <3>3, <3>4, <4>1 DEF v
      <4>2. CASE m # i + 1
        BY <3>1, <3>5, <4>2
      <4> QED
        BY <4>1, <4>2
    <3> HIDE DEF Upto
    <3> QED
      BY <3>3, <3>4, <3>6, <3>7 DEF t
  <2>6. CASE i + 1 \notin Keep
    <3>1. Upto(i + 1) = Upto(i)
      <4>1. \A m \in Keep : m <= i + 1 <=> m <= i
        BY <2>6
      <4> QED
        BY <4>1
    <3>2. t = s
      BY <2>2, <2>4, <2>6
    <3>3. Rank(Keep, i + 1) = r
      BY <2>2, <2>3, <2>6
    <3> HIDE DEF Upto
    <3> QED
      BY <2>1, <3>1, <3>2, <3>3
  <2> QED
    BY <2>5, <2>6
<1>3. P = Nat
  <2>1. P \subseteq Nat
    OBVIOUS
  <2> HIDE DEF P
  <2> QED
    BY <1>1, <1>2, <2>1, Induction
<1>4. Good(n)
  <2>1. n \in P
    BY <1>3
  <2> QED
    BY <2>1
<1>5. Upto(n) = Keep
  <2>1. \A m \in Keep : m <= n
    BY <1>0
  <2> QED
    BY <2>1
<1>6. Rank(Keep, n) = Cardinality(Keep)
  BY RankIs
<1> HIDE DEF P, Upto
<1> QED
  BY <1>4, <1>5, <1>6 DEF Picks

\* From one character of a text to the next.
LEMMA CellsAre ==
  ASSUME NEW str
  PROVE  /\ Row(str, 1) = 0 /\ Column(str, 1) = 0
         /\ \A n \in Nat \ {0} :
              /\ Row(str, n) \in Nat /\ Column(str, n) \in Nat
              /\ Row(str, n + 1) = Row(str, n) + (IF str[n] = NL THEN 1 ELSE 0)
              /\ Column(str, n + 1) = IF str[n] = NL THEN 0 ELSE Column(str, n) + 1
<1> DEFINE Breaks(n) == {m \in 1 .. n - 1 : str[m] = NL}
           Before(n) == {m \in 1 .. n - 1 : \A k \in m .. n - 1 : str[k] # NL}
<1>1. \A n : Row(str, n) = Cardinality(Breaks(n)) /\ Column(str, n) = Cardinality(Before(n))
  BY DEF Row, Column
<1>2. ASSUME NEW n \in Nat \ {0}
      PROVE  /\ IsFiniteSet(Breaks(n)) /\ IsFiniteSet(Before(n))
             /\ Cardinality(Breaks(n)) \in Nat /\ Cardinality(Before(n)) \in Nat
  <2>1. IsFiniteSet(1 .. n - 1)
    BY FS_Interval
  <2>2. Breaks(n) \subseteq 1 .. n - 1 /\ Before(n) \subseteq 1 .. n - 1
    OBVIOUS
  <2> HIDE DEF Breaks, Before
  <2> QED
    BY <2>1, <2>2, FS_Subset, FS_CardinalityType
<1>3. ASSUME NEW n \in Nat \ {0}
      PROVE  Cardinality(Breaks(n + 1)) = Cardinality(Breaks(n)) + (IF str[n] = NL THEN 1 ELSE 0)
  <2>1. CASE str[n] = NL
    <3>1. Breaks(n + 1) = Breaks(n) \cup {n} /\ n \notin Breaks(n)
      <4>1. (n + 1) - 1 = n /\ \A m : m \in 1 .. n <=> (m \in 1 .. n - 1 \/ m = n)
        OBVIOUS
      <4>2. n \notin 1 .. n - 1
        OBVIOUS
      <4> QED
        BY <2>1, <4>1, <4>2
    <3> HIDE DEF Breaks
    <3> QED
      BY <1>2, <2>1, <3>1, FS_AddElement
  <2>2. CASE str[n] # NL
    <3>1. Breaks(n + 1) = Breaks(n)
      <4>1. (n + 1) - 1 = n /\ \A m : m \in 1 .. n <=> (m \in 1 .. n - 1 \/ m = n)
        OBVIOUS
      <4> QED
        BY <2>2, <4>1
    <3> HIDE DEF Breaks
    <3>2. Cardinality(Breaks(n + 1)) = Cardinality(Breaks(n)) /\ Cardinality(Breaks(n)) \in Nat
      BY <1>2, <3>1, Zenon
    <3> QED
      BY <2>2, <3>2
  <2> QED
    BY <2>1, <2>2
<1>4. ASSUME NEW n \in Nat \ {0}
      PROVE  Cardinality(Before(n + 1)) = IF str[n] = NL THEN 0 ELSE Cardinality(Before(n)) + 1
  <2>0. (n + 1) - 1 = n /\ \A m \in 1 .. n : n \in m .. n
    OBVIOUS
  <2>1. CASE str[n] = NL
    <3>1. Before(n + 1) = {}
      BY <2>0, <2>1
    <3> HIDE DEF Before
    <3> QED
      BY <2>1, <3>1, FS_EmptySet
  <2>2. CASE str[n] # NL
    <3>1. Before(n + 1) = Before(n) \cup {n} /\ n \notin Before(n)
      <4>1. \A m : m \in 1 .. n <=> (m \in 1 .. n - 1 \/ m = n)
        OBVIOUS
      <4>2. n \notin 1 .. n - 1
        OBVIOUS
      <4>3. \A m \in 1 .. n : (\A k \in m .. n : str[k] # NL) <=> (\A k \in m .. n - 1 : str[k] # NL)
        <5>1. \A m \in 1 .. n : \A k : k \in m .. n <=> (k \in m .. n - 1 \/ k = n)
          OBVIOUS
        <5> QED
          BY <2>2, <5>1
      <4>4. \A k : k \notin n .. n - 1
        OBVIOUS
      <4> QED
        BY <2>0, <4>1, <4>2, <4>3, <4>4
    <3> HIDE DEF Before
    <3> QED
      BY <1>2, <2>2, <3>1, FS_AddElement
  <2> QED
    BY <2>1, <2>2
<1>5. Breaks(1) = {} /\ Before(1) = {}
  <2>1. \A m : m \notin 1 .. 1 - 1
    OBVIOUS
  <2> QED
    BY <2>1
<1> HIDE DEF Breaks, Before
<1> QED
  BY <1>1, <1>2, <1>3, <1>4, <1>5, FS_EmptySet

\* No two characters have the same cell.
LEMMA CellsDiffer ==
  ASSUME NEW str, NEW n \in Nat \ {0}, NEW m \in Nat \ {0}, n < m
  PROVE  Row(str, n) < Row(str, m) \/ (Row(str, n) = Row(str, m) /\ Column(str, n) < Column(str, m))
<1> DEFINE R(i) == Row(str, i)
           C(i) == Column(str, i)
           Behind(d) == R(n) < R(n + d + 1) \/ (R(n) = R(n + d + 1) /\ C(n) < C(n + d + 1))
           P == {d \in Nat : Behind(d)}
<1>1. \A i \in Nat \ {0} :
              /\ R(i) \in Nat /\ C(i) \in Nat
              /\ R(i + 1) = R(i) + (IF str[i] = NL THEN 1 ELSE 0)
              /\ C(i + 1) = IF str[i] = NL THEN 0 ELSE C(i) + 1
  BY CellsAre
<1> HIDE DEF R, C
<1>2. 0 \in P
  <2>1. n + 0 + 1 = n + 1
    OBVIOUS
  <2> QED
    BY <1>1, <2>1
<1>3. ASSUME NEW d \in Nat, d \in P PROVE d + 1 \in P
  <2>1. n + (d + 1) + 1 = (n + d + 1) + 1 /\ n + d + 1 \in Nat \ {0}
    OBVIOUS
  <2> DEFINE i == n + d + 1
  <2>2. /\ R(i) \in Nat /\ C(i) \in Nat /\ R(n) \in Nat /\ C(n) \in Nat
        /\ R(i + 1) = R(i) + (IF str[i] = NL THEN 1 ELSE 0)
        /\ C(i + 1) = IF str[i] = NL THEN 0 ELSE C(i) + 1
    BY <1>1, <2>1
  <2>3. R(n) < R(i) \/ (R(n) = R(i) /\ C(n) < C(i))
    BY <1>3
  <2>4. n + (d + 1) + 1 = i + 1
    BY <2>1
  <2> HIDE DEF i
  <2>5. R(n) < R(i + 1) \/ (R(n) = R(i + 1) /\ C(n) < C(i + 1))
    BY <2>2, <2>3
  <2> QED
    BY <2>4, <2>5
<1>4. P = Nat
  <2>1. P \subseteq Nat
    OBVIOUS
  <2> HIDE DEF P
  <2> QED
    BY <1>2, <1>3, <2>1, Induction
<1>5. m - n - 1 \in P /\ n + (m - n - 1) + 1 = m
  <2> HIDE DEF P
  <2> QED
    BY <1>4
<1>6. Behind(m - n - 1)
  BY <1>5
<1> HIDE DEF P
<1> QED
  BY <1>5, <1>6 DEF R, C

\* Two functions that begin with the same value and go on in the same way.
Agree(f, g, n) == f[1] = g[1] /\ \A i \in 2 .. n : f[i - 1] = g[i - 1] => f[i] = g[i]

\* A recursive definition over 1 .. n is satisfied by one function at most.
LEMMA OneSolution ==
  ASSUME NEW n \in Nat, NEW f, NEW g, Agree(f, g, n)
  PROVE  \A i \in 1 .. n : f[i] = g[i]
<1>0. f[1] = g[1] /\ \A i \in 2 .. n : f[i - 1] = g[i - 1] => f[i] = g[i]
  BY DEF Agree
<1> DEFINE P == {i \in Nat : i \in 1 .. n => f[i] = g[i]}
<1>1. 0 \in P
  OBVIOUS
<1>2. ASSUME NEW i \in Nat, i \in P PROVE i + 1 \in P
  <2>1. CASE i = 0
    BY <1>0, <2>1
  <2>2. CASE i # 0
    <3> SUFFICES ASSUME i + 1 \in 1 .. n PROVE f[i + 1] = g[i + 1]
      OBVIOUS
    <3>1. i + 1 \in 2 .. n /\ (i + 1) - 1 = i /\ i \in 1 .. n
      BY <2>2
    <3> QED
      BY <1>0, <1>2, <3>1
  <2> QED
    BY <2>1, <2>2
<1>3. P = Nat
  <2>1. P \subseteq Nat
    OBVIOUS
  <2> HIDE DEF P
  <2> QED
    BY <1>1, <1>2, <2>1, Induction
<1>4. \A i \in 1 .. n : i \in P
  <2> HIDE DEF P
  <2> QED
    BY <1>3
<1> QED
  BY <1>4

\* print_string is at the right place when it is at a character.
LEMMA CursorIs ==
  ASSUME NEW S, NEW str \in Seq(S), NEW x \in Nat, NEW y \in Nat
  PROVE  \A n \in 1 .. Len(str) :
           /\ CursorX(str, x)[n] = x + Column(str, n) * FONT_CHAR_WIDTH
           /\ CursorY(str, y)[n] = y + Row(str, n) * FONT_CHAR_HEIGHT
<1> DEFINE l == Len(str)
           W == FONT_CHAR_WIDTH
           H == FONT_CHAR_HEIGHT
           X(n) == x + Column(str, n) * W
           Y(n) == y + Row(str, n) * H
           NextX(f, n) == IF n = 1 \/ str[n - 1] = NL THEN x ELSE f[n - 1] + W
           NextY(f, n) == IF n = 1 THEN y ELSE f[n - 1] + (IF str[n - 1] = NL THEN H ELSE 0)
           EqX(f) == f = [n \in 1 .. l |-> NextX(f, n)]
           EqY(f) == f = [n \in 1 .. l |-> NextY(f, n)]
<1>1. W \in Nat /\ H \in Nat /\ l \in Nat
  BY FontAssumption
<1> HIDE DEF W, H, l
<1>2. X(1) = x /\ Y(1) = y
  <2>1. \A a \in Nat : 0 * a = 0 /\ x + 0 = x /\ y + 0 = y
    OBVIOUS
  <2> QED
    BY <1>1, <2>1, CellsAre
<1>3. ASSUME NEW n \in Nat \ {0}
      PROVE  /\ X(n) \in Nat /\ Y(n) \in Nat
             /\ X(n + 1) = IF str[n] = NL THEN x ELSE X(n) + W
             /\ Y(n + 1) = Y(n) + (IF str[n] = NL THEN H ELSE 0)
  <2> DEFINE c == Column(str, n)
             r == Row(str, n)
             cc == Column(str, n + 1)
             rr == Row(str, n + 1)
  <2>1. /\ c \in Nat /\ r \in Nat /\ cc = (IF str[n] = NL THEN 0 ELSE c + 1)
        /\ rr = r + (IF str[n] = NL THEN 1 ELSE 0)
    BY CellsAre
  <2> HIDE DEF c, r, cc, rr
  <2>2. \A a, b \in Nat : a * b \in Nat /\ (a + 1) * b = a * b + b /\ 0 * b = 0
    OBVIOUS
  <2>3. /\ x + c * W \in Nat /\ y + r * H \in Nat
        /\ x + cc * W = IF str[n] = NL THEN x ELSE (x + c * W) + W
        /\ y + rr * H = (y + r * H) + (IF str[n] = NL THEN H ELSE 0)
    <3>1. c * W \in Nat /\ (c + 1) * W = c * W + W /\ 0 * W = 0
      BY <1>1, <2>1, <2>2
    <3>2. r * H \in Nat /\ (r + 1) * H = r * H + H /\ r + 0 = r
      BY <1>1, <2>1, <2>2
    <3> DEFINE p == c * W
               q == r * H
    <3>5. p \in Nat /\ q \in Nat
      BY <3>1, <3>2, <1>1, <2>1, <2>2
    <3> HIDE DEF p, q
    <3>6. /\ x + p \in Nat /\ y + q \in Nat /\ x + (p + W) = (x + p) + W /\ y + (q + H) = (y + q) + H
          /\ x + 0 = x /\ (y + q) + 0 = y + q
      BY <1>1, <3>5
    <3>3. CASE str[n] = NL
      <4>1. cc = 0 /\ rr = r + 1
        BY <2>1, <3>3
      <4>2. cc * W = 0 /\ rr * H = r * H + H
        BY <3>1, <3>2, <4>1
      <4> QED
        BY <3>3, <3>6, <4>2, Zenon DEF p, q
    <3>4. CASE str[n] # NL
      <4>1. cc = c + 1 /\ rr = r
        BY <2>1, <3>2, <3>4
      <4>2. cc * W = c * W + W /\ rr * H = r * H
        BY <3>1, <4>1
      <4> QED
        BY <3>4, <3>6, <4>2, Zenon DEF p, q
    <3> QED
      BY <3>3, <3>4
  <2> QED
    BY <2>3 DEF c, r, cc, rr
<1> HIDE DEF X, Y
<1>4. ASSUME NEW n \in 1 .. l, n # 1
      PROVE  /\ n - 1 \in 1 .. l
             /\ X(n) = IF str[n - 1] = NL THEN x ELSE X(n - 1) + W
             /\ Y(n) = Y(n - 1) + (IF str[n - 1] = NL THEN H ELSE 0)
  <2>1. n - 1 \in Nat \ {0} /\ (n - 1) + 1 = n /\ n - 1 \in 1 .. l
    BY <1>1, <1>4
  <2> QED
    BY <1>3, <2>1
<1> DEFINE fx == [n \in 1 .. l |-> X(n)]
           fy == [n \in 1 .. l |-> Y(n)]
<1>5. \A n \in 1 .. l : X(n) = NextX(fx, n) /\ Y(n) = NextY(fy, n)
  <2> TAKE n \in 1 .. l
  <2>1. CASE n = 1
    BY <1>2, <2>1
  <2>2. CASE n # 1
    <3>1. n - 1 \in 1 .. l
      BY <1>4, <2>2
    <3>2. fx[n - 1] = X(n - 1) /\ fy[n - 1] = Y(n - 1)
      BY <3>1
    <3> HIDE DEF fx, fy
    <3> QED
      BY <1>4, <2>2, <3>2
  <2> QED
    BY <2>1, <2>2
<1>6. EqX(fx) /\ EqY(fy)
  <2>1. fx = [n \in 1 .. l |-> X(n)] /\ fy = [n \in 1 .. l |-> Y(n)]
    OBVIOUS
  <2> HIDE DEF fx, fy, NextX, NextY
  <2> QED
    BY <1>5, <2>1
<1> DEFINE gx == CHOOSE f : EqX(f)
           gy == CHOOSE f : EqY(f)
<1>7. EqX(gx) /\ EqY(gy)
  <2> HIDE DEF EqX, EqY
  <2> QED
    BY <1>6, Zenon
<1>8. CursorX(str, x) = gx /\ CursorY(str, y) = gy
  BY Zenon DEF CursorX, CursorY, l, W, H
<1>9. ASSUME NEW f, EqX(f) PROVE \A n \in 1 .. l : f[n] = NextX(f, n)
  <2> HIDE DEF NextX
  <2> QED
    BY <1>9, Zenon
<1>10. ASSUME NEW f, EqY(f) PROVE \A n \in 1 .. l : f[n] = NextY(f, n)
  <2> HIDE DEF NextY
  <2> QED
    BY <1>10, Zenon
<1> HIDE DEF gx, gy, fx, fy, EqX, EqY
<1>11. \A n \in 1 .. l : gx[n] = fx[n]
  <2>1. CASE l = 0
    <3>1. \A n : n \notin 1 .. 0
      OBVIOUS
    <3> QED
      BY <2>1, <3>1
  <2>2. CASE l # 0
    <3>1. 1 \in 1 .. l
      BY <1>1, <2>2
    <3>2. gx[1] = fx[1]
      BY <1>6, <1>7, <1>9, <3>1
    <3>3. \A n \in 2 .. l : n \in 1 .. l /\ n # 1
      BY <1>1
    <3>4. \A n \in 2 .. l : gx[n - 1] = fx[n - 1] => gx[n] = fx[n]
      BY <1>6, <1>7, <1>9, <3>3
    <3>5. Agree(gx, fx, l)
      BY <3>2, <3>4, Zenon DEF Agree
    <3> QED
      BY <1>1, <3>5, OneSolution
  <2> QED
    BY <2>1, <2>2
<1>12. \A n \in 1 .. l : gy[n] = fy[n]
  <2>1. CASE l = 0
    <3>1. \A n : n \notin 1 .. 0
      OBVIOUS
    <3> QED
      BY <2>1, <3>1
  <2>2. CASE l # 0
    <3>1. 1 \in 1 .. l
      BY <1>1, <2>2
    <3>2. gy[1] = fy[1]
      BY <1>6, <1>7, <1>10, <3>1
    <3>3. \A n \in 2 .. l : n \in 1 .. l /\ n # 1
      BY <1>1
    <3>4. \A n \in 2 .. l : gy[n - 1] = fy[n - 1] => gy[n] = fy[n]
      BY <1>6, <1>7, <1>10, <3>3
    <3>5. Agree(gy, fy, l)
      BY <3>2, <3>4, Zenon DEF Agree
    <3> QED
      BY <1>1, <3>5, OneSolution
  <2> QED
    BY <2>1, <2>2
<1> HIDE DEF NextX, NextY
<1>13. \A n \in 1 .. l : gx[n] = X(n) /\ gy[n] = Y(n)
  BY <1>11, <1>12 DEF fx, fy
<1> QED
  BY <1>8, <1>13 DEF X, Y, W, H, l
----------------------------------------------------------------------------
\* The characters that a text is made of, and the stroke of one of them.
Printable == DOMAIN font8x16 \cup {NL}
Letter(str, n, x, y, fg, bg) ==
  Stroke(x + Column(str, n) * FONT_CHAR_WIDTH, y + Row(str, n) * FONT_CHAR_HEIGHT,
         FONT_CHAR_WIDTH, FONT_CHAR_HEIGHT, str[n], fg, bg)
Letters(str, x, y, fg, bg) == [n \in DOMAIN str |-> Letter(str, n, x, y, fg, bg)]

\* The pieces that print_string puts behind each other.
LEMMA TextStrokes ==
  ASSUME NEW str \in Seq(Printable), NEW x \in Nat, NEW y \in Nat, NEW fg, NEW bg
  PROVE  /\ Picks(print_string(str, x, y, fg, bg), Glyphs(str), Letters(str, x, y, fg, bg))
         /\ \E S : print_string(str, x, y, fg, bg) \in Seq(S)
<1> DEFINE l == Len(str)
           val == Letters(str, x, y, fg, bg)
           S == {val[n] : n \in 1 .. l}
           piece(n) == IF str[n] = NL THEN <<>> ELSE <<val[n]>>
           pieces == [n \in 1 .. l |-> piece(n)]
<1>1. l \in Nat /\ DOMAIN str = 1 .. l
  OBVIOUS
<1>2. \A n \in 1 .. l : val[n] = Letter(str, n, x, y, fg, bg) /\ val[n] \in S
  BY <1>1 DEF Letters
<1>3. \A n \in 1 .. l :
        piece(n) = IF str[n] = NL THEN <<>>
                   ELSE print_char(str[n], CursorX(str, x)[n], CursorY(str, y)[n], fg, bg)
  <2> TAKE n \in 1 .. l
  <2>1. /\ CursorX(str, x)[n] = x + Column(str, n) * FONT_CHAR_WIDTH
        /\ CursorY(str, y)[n] = y + Row(str, n) * FONT_CHAR_HEIGHT
    BY CursorIs
  <2>2. val[n] = Letter(str, n, x, y, fg, bg)
    BY <1>2
  <2> HIDE DEF val, l
  <2>3. <<val[n]>> = print_char(str[n], CursorX(str, x)[n], CursorY(str, y)[n], fg, bg)
    BY <2>1, <2>2, Zenon DEF Letter, print_char
  <2> QED
    BY <2>3
<1> HIDE DEF val, S
<1>4. print_string(str, x, y, fg, bg) = FlattenSeq(pieces)
  <2> DEFINE q(n) == IF str[n] = NL THEN <<>>
                     ELSE print_char(str[n], CursorX(str, x)[n], CursorY(str, y)[n], fg, bg)
  <2>1. print_string(str, x, y, fg, bg) = FlattenSeq([n \in 1 .. l |-> q(n)])
    BY <1>1, Zenon DEF print_string
  <2>2. \A n \in 1 .. l : piece(n) = q(n)
    BY <1>3
  <2> HIDE DEF q, piece, l
  <2>3. [n \in 1 .. l |-> q(n)] = [n \in 1 .. l |-> piece(n)]
    BY <2>2
  <2> QED
    BY <2>1, <2>3
<1>5. \A n \in 1 .. l : piece(n) \in Seq(S)
  <2> TAKE n \in 1 .. l
  <2>1. val[n] \in S
    BY <1>2
  <2>2. \A v \in S : <<v>> \in Seq(S)
    OBVIOUS
  <2> QED
    BY <2>1, <2>2, EmptySeq
<1>6. pieces \in Seq(Seq(S)) /\ Len(pieces) = l /\ \A n \in 1 .. l : pieces[n] = piece(n)
  <2> HIDE DEF piece, l
  <2>1. pieces \in Seq(Seq(S))
    BY <1>1, <1>5, IsASeq
  <2>2. DOMAIN pieces = 1 .. l
    BY Zenon
  <2>3. Len(pieces) = l
    BY <1>1, <2>1, <2>2, LenProperties
  <2> QED
    BY <2>1, <2>3
<1> HIDE DEF pieces
<1>7. PICK g \in [0 .. l -> Seq(S)] : Flattens(g, pieces)
  BY <1>6, Flattened
<1>8. /\ g[0] = <<>> /\ FlattenSeq(pieces) = g[l]
      /\ \A i \in 1 .. l : g[i] = g[i - 1] \o (IF i \in Glyphs(str) THEN <<val[i]>> ELSE <<>>)
  <2>1. g[0] = <<>> /\ FlattenSeq(pieces) = g[l] /\ \A i \in 1 .. l : g[i] = g[i - 1] \o pieces[i]
    BY <1>6, <1>7 DEF Flattens
  <2>2. \A i \in 1 .. l : pieces[i] = IF i \in Glyphs(str) THEN <<val[i]>> ELSE <<>>
    BY <1>1, <1>6 DEF Glyphs
  <2> QED
    BY <2>1, <2>2, Zenon
<1>9. Glyphs(str) \subseteq 1 .. l /\ \A i \in Glyphs(str) : val[i] \in S
  BY <1>1, <1>2 DEF Glyphs
<1> HIDE DEF l
<1>10. Picks(g[l], Glyphs(str), val)
  BY <1>1, <1>8, <1>9, Picked
<1>11. g[l] \in Seq(S)
  BY <1>1
<1> QED
  BY <1>4, <1>8, <1>10, <1>11 DEF val

\* print_string sends the characters that it draws.
LEMMA TextSent ==
  ASSUME NEW str \in Seq(Printable), NEW x \in Nat, NEW y \in Nat, NEW fg, NEW bg
  PROVE  /\ Picks(Sent(print_string(str, x, y, fg, bg)), Glyphs(str), str)
         /\ \E S : Sent(print_string(str, x, y, fg, bg)) \in Seq(S)
<1> DEFINE strokes == print_string(str, x, y, fg, bg)
           n == Len(strokes)
           C == {strokes[k].char : k \in 1 .. n}
           val == [k \in 1 .. n |-> strokes[k].char]
           piece(k) == IF strokes[k].char = Solid THEN <<>> ELSE <<strokes[k].char>>
           pieces == [k \in 1 .. n |-> piece(k)]
<1>1. Picks(strokes, Glyphs(str), Letters(str, x, y, fg, bg)) /\ \E S : strokes \in Seq(S)
  BY TextStrokes
<1> HIDE DEF strokes
<1>2. n \in Nat /\ DOMAIN strokes = 1 .. n
  BY <1>1
<1>3. DOMAIN str = 1 .. Len(str) /\ Glyphs(str) \subseteq 1 .. Len(str)
  BY DEF Glyphs
<1>4. /\ n = Cardinality(Glyphs(str))
      /\ \A m \in Glyphs(str) : /\ Rank(Glyphs(str), m) \in 1 .. n
                                /\ strokes[Rank(Glyphs(str), m)] = Letter(str, m, x, y, fg, bg)
      /\ \A k \in 1 .. n : \E m \in Glyphs(str) : Rank(Glyphs(str), m) = k
  <2>1. \A m \in Glyphs(str) : Letters(str, x, y, fg, bg)[m] = Letter(str, m, x, y, fg, bg)
    BY <1>3 DEF Letters
  <2> QED
    BY <1>1, <2>1, Zenon DEF Picks
<1>5. \A m \in Glyphs(str) : strokes[Rank(Glyphs(str), m)].char = str[m]
  <2>1. \A m : Letter(str, m, x, y, fg, bg).char = str[m]
    BY DEF Letter, Stroke
  <2> QED
    BY <1>4, <2>1
<1>6. \A k \in 1 .. n : strokes[k].char # Solid
  <2> TAKE k \in 1 .. n
  <2>1. PICK m \in Glyphs(str) : Rank(Glyphs(str), m) = k
    BY <1>4
  <2>2. strokes[k].char = str[m]
    BY <1>5, <2>1
  <2>3. str[m] \in Nat
    <3>1. str[m] \in Printable
      BY <1>3, ElementOfSeq
    <3> QED
      BY <3>1, FontAssumption DEF Printable, NL
  <2> QED
    BY <2>2, <2>3 DEF Solid
<1>7. Sent(strokes) = FlattenSeq(pieces)
  BY <1>2, Zenon DEF Sent
<1>8. \A k \in 1 .. n : piece(k) = <<strokes[k].char>> /\ piece(k) \in Seq(C)
  <2> TAKE k \in 1 .. n
  <2>1. strokes[k].char \in C
    OBVIOUS
  <2>2. \A v \in C : <<v>> \in Seq(C)
    OBVIOUS
  <2>3. piece(k) = <<strokes[k].char>>
    BY <1>6
  <2> HIDE DEF C, piece
  <2> QED
    BY <2>1, <2>2, <2>3
<1>9. pieces \in Seq(Seq(C)) /\ Len(pieces) = n /\ \A k \in 1 .. n : pieces[k] = <<val[k]>>
  <2> HIDE DEF piece, n, C
  <2>1. pieces \in Seq(Seq(C))
    BY <1>2, <1>8, IsASeq
  <2>2. DOMAIN pieces = 1 .. n
    BY Zenon
  <2>3. Len(pieces) = n
    BY <1>2, <2>1, <2>2, LenProperties
  <2> QED
    BY <1>8, <2>1, <2>3
<1> HIDE DEF pieces, piece
<1>10. PICK g \in [0 .. n -> Seq(C)] : Flattens(g, pieces)
  BY <1>9, Flattened
<1>11. /\ g[0] = <<>> /\ FlattenSeq(pieces) = g[n]
       /\ \A i \in 1 .. n : g[i] = g[i - 1] \o (IF i \in 1 .. n THEN <<val[i]>> ELSE <<>>)
  <2>1. g[0] = <<>> /\ FlattenSeq(pieces) = g[n] /\ \A i \in 1 .. n : g[i] = g[i - 1] \o pieces[i]
    BY <1>9, <1>10 DEF Flattens
  <2> QED
    BY <1>9, <2>1, Zenon
<1>12. \A i \in 1 .. n : val[i] \in C
  OBVIOUS
<1>13. Picks(g[n], 1 .. n, val)
  <2> HIDE DEF n, val, C
  <2> QED
    BY <1>2, <1>11, <1>12, Picked
<1>14. \A k \in 1 .. n : Rank(1 .. n, k) = k
  <2> TAKE k \in 1 .. n
  <2> HIDE DEF n
  <2>1. (1 .. n) \intersect (1 .. k) = 1 .. k
    BY <1>2
  <2>2. Cardinality(1 .. k) = k
    BY <1>2, FS_Interval
  <2> QED
    BY <2>1, <2>2 DEF Rank
<1> DEFINE sent == Sent(strokes)
<1>15. Len(sent) = n /\ \A k \in 1 .. n : sent[k] = val[k]
  <2>1. Cardinality(1 .. n) = n
    <3> HIDE DEF n
    <3> QED
      BY <1>2, FS_Interval
  <2>2. sent = g[n]
    BY <1>7, <1>11
  <2> HIDE DEF sent, n, val
  <2> QED
    BY <1>13, <1>14, <2>1, <2>2 DEF Picks
<1>16. Picks(sent, Glyphs(str), str)
  <2>1. \A m \in Glyphs(str) : Rank(Glyphs(str), m) \in 1 .. n
                               /\ sent[Rank(Glyphs(str), m)] = str[m]
    <3> TAKE m \in Glyphs(str)
    <3>1. Rank(Glyphs(str), m) \in 1 .. n
      BY <1>4
    <3>2. sent[Rank(Glyphs(str), m)] = strokes[Rank(Glyphs(str), m)].char
      <4> HIDE DEF n, sent
      <4> QED
        BY <1>15, <3>1
    <3> HIDE DEF n, sent
    <3> QED
      BY <1>5, <3>1, <3>2
  <2> HIDE DEF n, sent
  <2> QED
    BY <1>4, <1>15, <2>1, Zenon DEF Picks
<1>17. sent \in Seq(C)
  <2> HIDE DEF n, C
  <2> QED
    BY <1>2, <1>7, <1>11
<1> QED
  BY <1>16, <1>17 DEF strokes

\* Two texts, one behind the other.
LEMMA BothCarried ==
  ASSUME NEW t \in Seq(Printable), NEW u \in Seq(Printable),
         NEW a, \E S : a \in Seq(S), NEW b, \E S : b \in Seq(S),
         Picks(a, Glyphs(t), t), Picks(b, Glyphs(u), u)
  PROVE  Carries(a \o b, t \o u)
<1> DEFINE l == Len(t)
           m == Len(u)
           w == t \o u
           K == Glyphs(w)
           c == Cardinality(Glyphs(t))
           d == Cardinality(Glyphs(u))
<1>1. l \in Nat /\ m \in Nat /\ DOMAIN t = 1 .. l /\ DOMAIN u = 1 .. m
  OBVIOUS
<1>2. /\ w \in Seq(Printable) /\ Len(w) = l + m
      /\ \A i \in 1 .. l + m : w[i] = IF i <= l THEN t[i] ELSE u[i - l]
  BY ConcatProperties
<1>3. DOMAIN w = 1 .. l + m
  <2> HIDE DEF w, l, m
  <2> QED
    BY <1>2, LenProperties
<1> HIDE DEF w, l, m
<1>4. \A i \in 1 .. l : i \in K <=> i \in Glyphs(t)
  <2> TAKE i \in 1 .. l
  <2>1. i \in 1 .. l + m /\ i <= l
    BY <1>1
  <2> QED
    BY <1>1, <1>2, <1>3, <2>1 DEF Glyphs
<1>5. \A i \in 1 .. m : l + i \in K <=> i \in Glyphs(u)
  <2> TAKE i \in 1 .. m
  <2>1. l + i \in 1 .. l + m /\ ~(l + i <= l) /\ (l + i) - l = i
    BY <1>1
  <2> QED
    BY <1>1, <1>2, <1>3, <2>1 DEF Glyphs
<1>6. K \subseteq 1 .. l + m /\ Glyphs(t) \subseteq 1 .. l /\ Glyphs(u) \subseteq 1 .. m /\ l + m \in Nat
  BY <1>1, <1>3 DEF Glyphs
<1> HIDE DEF K
<1>7. /\ Rank(K, l + m) = Cardinality(K)
      /\ \A i \in 1 .. l + m : Rank(K, i) = Rank(K, i - 1) + (IF i \in K THEN 1 ELSE 0)
  BY <1>6, RankIs
<1>8. /\ Rank(Glyphs(u), 0) = 0 /\ Rank(Glyphs(u), m) = d
      /\ \A i \in 0 .. m : Rank(Glyphs(u), i) \in Nat
      /\ \A i \in 1 .. m : Rank(Glyphs(u), i) = Rank(Glyphs(u), i - 1) + (IF i \in Glyphs(u) THEN 1 ELSE 0)
  BY <1>1, <1>6, RankIs
<1>9. /\ Rank(Glyphs(t), l) = c /\ \A i \in 0 .. l : Rank(Glyphs(t), i) \in Nat
  BY <1>1, <1>6, RankIs
<1>10. \A i \in 0 .. l : Rank(K, i) = Rank(Glyphs(t), i)
  <2> TAKE i \in 0 .. l
  <2>1. \A k \in 1 .. i : k \in 1 .. l
    BY <1>1
  <2>2. K \intersect 1 .. i = Glyphs(t) \intersect 1 .. i
    BY <1>4, <2>1
  <2> QED
    BY <2>2 DEF Rank
<1> DEFINE P == {i \in Nat : i <= m => Rank(K, l + i) = c + Rank(Glyphs(u), i)}
<1> HIDE DEF c, d
<1>11. c \in Nat /\ l \in 0 .. l /\ 0 \in 0 .. m
  BY <1>1, <1>9
<1>12. 0 \in P
  <2>1. l + 0 = l /\ c + 0 = c
    BY <1>1, <1>11
  <2>2. Rank(K, l) = c
    BY <1>9, <1>10, <1>11
  <2> QED
    BY <1>8, <2>1, <2>2
<1>13. ASSUME NEW i \in Nat, i \in P PROVE i + 1 \in P
  <2> SUFFICES ASSUME i + 1 <= m PROVE Rank(K, l + (i + 1)) = c + Rank(Glyphs(u), i + 1)
    OBVIOUS
  <2>1. /\ i + 1 \in 1 .. m /\ (i + 1) - 1 = i /\ i \in 0 .. m
        /\ l + (i + 1) \in 1 .. l + m /\ (l + (i + 1)) - 1 = l + i
    BY <1>1
  <2>2. Rank(K, l + i) = c + Rank(Glyphs(u), i) /\ Rank(Glyphs(u), i) \in Nat
    BY <1>1, <1>8, <1>13, <2>1
  <2>3. Rank(K, l + (i + 1)) = Rank(K, l + i) + (IF l + (i + 1) \in K THEN 1 ELSE 0)
    BY <1>7, <2>1
  <2>4. Rank(Glyphs(u), i + 1) = Rank(Glyphs(u), i) + (IF i + 1 \in Glyphs(u) THEN 1 ELSE 0)
    BY <1>8, <2>1
  <2>5. l + (i + 1) \in K <=> i + 1 \in Glyphs(u)
    BY <1>5, <2>1
  <2> DEFINE r == Rank(Glyphs(u), i)
  <2> HIDE DEF P, r
  <2>6. r \in Nat /\ Rank(K, l + i) = c + r /\ Rank(Glyphs(u), i + 1) = r + (IF i + 1 \in Glyphs(u) THEN 1 ELSE 0)
    BY <2>2, <2>4 DEF r
  <2> QED
    BY <1>11, <2>3, <2>5, <2>6
<1>14. P = Nat
  <2>1. P \subseteq Nat
    OBVIOUS
  <2> HIDE DEF P
  <2> QED
    BY <1>12, <1>13, <2>1, Induction
<1>15. \A i \in 0 .. m : Rank(K, l + i) = c + Rank(Glyphs(u), i)
  <2> TAKE i \in 0 .. m
  <2> HIDE DEF P
  <2>1. i \in Nat /\ i <= m
    BY <1>1
  <2>2. i \in P
    BY <1>14, <2>1
  <2> QED
    BY <2>1, <2>2 DEF P
<1> HIDE DEF P
<1>16. /\ Len(a) = c /\ Len(b) = d
       /\ \A k \in Glyphs(t) : Rank(Glyphs(t), k) \in 1 .. c /\ a[Rank(Glyphs(t), k)] = t[k]
       /\ \A k \in Glyphs(u) : Rank(Glyphs(u), k) \in 1 .. d /\ b[Rank(Glyphs(u), k)] = u[k]
  BY DEF Picks, c, d
<1>17. d \in Nat
  BY <1>1, <1>8
<1>18. /\ Len(a \o b) = c + d
       /\ \A i \in 1 .. c + d : (a \o b)[i] = IF i <= c THEN a[i] ELSE b[i - c]
  <2>1. PICK A : a \in Seq(A)
    OBVIOUS
  <2>2. PICK B : b \in Seq(B)
    OBVIOUS
  <2>3. a \in Seq(A \cup B) /\ b \in Seq(A \cup B)
    BY <2>1, <2>2, SeqMonotonic
  <2> QED
    BY <1>16, <2>3, ConcatProperties
<1>19. Cardinality(K) = c + d
  <2>1. m \in 0 .. m
    BY <1>1
  <2> QED
    BY <1>7, <1>8, <1>15, <2>1
<1>20. \A n \in K : (a \o b)[Rank(K, n)] = w[n]
  <2> TAKE n \in K
  <2>1. n \in 1 .. l + m
    BY <1>6
  <2>2. CASE n <= l
    <3>1. n \in 1 .. l /\ n \in 0 .. l /\ n \in Glyphs(t)
      BY <1>1, <1>4, <2>1, <2>2
    <3>2. Rank(K, n) \in 1 .. c /\ a[Rank(K, n)] = t[n] /\ w[n] = t[n]
      BY <1>2, <1>10, <1>16, <2>1, <2>2, <3>1
    <3> DEFINE r == Rank(K, n)
    <3> HIDE DEF r
    <3>3. r \in 1 .. c /\ a[r] = t[n]
      BY <3>2 DEF r
    <3>4. r \in 1 .. c + d /\ r <= c
      BY <1>11, <1>17, <3>3
    <3>5. (a \o b)[r] = a[r]
      BY <1>18, <3>4
    <3> QED
      BY <3>2, <3>3, <3>5 DEF r
  <2>3. CASE ~(n <= l)
    <3> DEFINE k == n - l
    <3>1. k \in 1 .. m /\ k \in 0 .. m /\ l + k = n
      BY <1>1, <2>1, <2>3
    <3>2. k \in Glyphs(u) /\ w[n] = u[k]
      BY <1>2, <1>5, <2>1, <2>3, <3>1
    <3> DEFINE r == Rank(Glyphs(u), k)
    <3> HIDE DEF k
    <3>3. r \in 1 .. d /\ b[r] = u[k] /\ Rank(K, n) = c + r
      BY <1>15, <1>16, <3>1, <3>2
    <3> HIDE DEF r
    <3>4. c + r \in 1 .. c + d /\ ~(c + r <= c) /\ (c + r) - c = r
      BY <1>11, <1>17, <3>3
    <3>5. (a \o b)[c + r] = b[r]
      BY <1>18, <3>4
    <3> QED
      BY <3>2, <3>3, <3>5
  <2> QED
    BY <2>2, <2>3
<1> QED
  BY <1>18, <1>19, <1>20, Zenon DEF Carries, Rank, K, w

\* A text that the screen has room for.
Fits(f, str, y) ==
  \A n \in Glyphs(str) :
    /\ Left(str, n) + FONT_CHAR_WIDTH <= f.width
    /\ Top(str, n, y) + FONT_CHAR_HEIGHT <= f.height

\* The cell of a character is a place.
LEMMA CellTyped ==
  ASSUME NEW str \in Seq(Printable), NEW y \in Nat, NEW n \in Glyphs(str)
  PROVE  /\ n \in Nat \ {0} /\ str[n] \in DOMAIN font8x16 /\ str[n] # Solid
         /\ Row(str, n) \in Nat /\ Column(str, n) \in Nat
         /\ Left(str, n) \in Nat /\ Top(str, n, y) \in Nat
<1>1. n \in 1 .. Len(str) /\ str[n] # NL
  BY DEF Glyphs
<1>2. n \in Nat \ {0} /\ str[n] \in DOMAIN font8x16
  <2>1. str[n] \in Printable
    BY <1>1, ElementOfSeq
  <2> QED
    BY <1>1, <2>1 DEF Printable
<1>3. Row(str, n) \in Nat /\ Column(str, n) \in Nat
  BY <1>2, CellsAre
<1>4. str[n] # Solid
  BY <1>2, FontAssumption DEF Solid
<1>5. \A c, w \in Nat : COLUMN + c * w \in Nat /\ y + c * w \in Nat
  BY TextsAssumption
<1>6. Left(str, n) \in Nat /\ Top(str, n, y) \in Nat
  BY <1>3, <1>5, FontAssumption DEF Left, Top
<1> QED
  BY <1>2, <1>3, <1>4, <1>6

\* Two different numbers of the same cell width apart do not overlap.
LEMMA Apart ==
  ASSUME NEW b \in Nat, NEW w \in Nat, NEW c \in Nat, NEW d \in Nat, c < d, NEW i \in Nat,
         i - (b + c * w) \in 0 .. w - 1, i - (b + d * w) \in 0 .. w - 1
  PROVE  FALSE
<1>1. d * w >= c * w + w
  <2>1. (d - c - 1) * w >= 0
    OBVIOUS
  <2>2. (d - c - 1) * w = d * w - c * w - w
    OBVIOUS
  <2>3. d * w \in Nat /\ c * w \in Nat
    OBVIOUS
  <2> QED
    BY <2>1, <2>2, <2>3
<1> DEFINE p == c * w
           q == d * w
<1>2. p \in Nat /\ q \in Nat /\ q >= p + w
  BY <1>1
<1>3. i - (b + p) \in 0 .. w - 1 /\ i - (b + q) \in 0 .. w - 1
  OBVIOUS
<1> HIDE DEF p, q
<1> QED
  BY <1>2, <1>3

\* A place of the screen is in one glyph at most.
LEMMA OneGlyph ==
  ASSUME NEW str \in Seq(Printable), NEW y \in Nat, NEW i \in Nat, NEW j \in Nat,
         NEW n \in Glyphs(str), NEW m \in Glyphs(str), Within(str, n, y, i, j), Within(str, m, y, i, j)
  PROVE  n = m
<1>1. ASSUME NEW a \in Glyphs(str), NEW b \in Glyphs(str), a < b,
             Within(str, a, y, i, j), Within(str, b, y, i, j)
      PROVE  FALSE
  <2>1. /\ a \in Nat \ {0} /\ b \in Nat \ {0}
        /\ Row(str, a) \in Nat /\ Column(str, a) \in Nat /\ Row(str, b) \in Nat /\ Column(str, b) \in Nat
    BY CellTyped
  <2>2. FONT_CHAR_WIDTH \in Nat /\ FONT_CHAR_HEIGHT \in Nat /\ COLUMN \in Nat
    BY FontAssumption, TextsAssumption
  <2>3. Row(str, a) < Row(str, b) \/ Column(str, a) < Column(str, b)
    BY <1>1, <2>1, CellsDiffer
  <2>4. CASE Row(str, a) < Row(str, b)
    <3>1. /\ j - (y + Row(str, a) * FONT_CHAR_HEIGHT) \in 0 .. FONT_CHAR_HEIGHT - 1
          /\ j - (y + Row(str, b) * FONT_CHAR_HEIGHT) \in 0 .. FONT_CHAR_HEIGHT - 1
      BY <1>1, Zenon DEF Within, Top
    <3> QED
      BY <2>1, <2>2, <2>4, <3>1, Apart
  <2>5. CASE Column(str, a) < Column(str, b)
    <3>1. /\ i - (COLUMN + Column(str, a) * FONT_CHAR_WIDTH) \in 0 .. FONT_CHAR_WIDTH - 1
          /\ i - (COLUMN + Column(str, b) * FONT_CHAR_WIDTH) \in 0 .. FONT_CHAR_WIDTH - 1
      BY <1>1, Zenon DEF Within, Left
    <3> QED
      BY <2>1, <2>2, <2>5, <3>1, Apart
  <2> QED
    BY <2>3, <2>4, <2>5
<1>2. n \in Nat /\ m \in Nat
  BY CellTyped
<1>3. ~(n < m)
  BY <1>1
<1>4. ~(m < n)
  BY <1>1
<1> QED
  BY <1>2, <1>3, <1>4

\* What a text makes of the screen: its glyphs, each in its cell, and nothing
\* beside them.
Written(f, s, str, y, fg, bg, d) ==
  /\ d.stray = s.stray
  /\ DOMAIN d.px = Addresses(f)
  /\ d.serial = s.serial \o Sent(print_string(str, COLUMN, y, fg, bg))
  /\ \A a \in Addresses(f) :
       d.px[a] = IF Inked(str, y, PlaceX(f, a), PlaceY(f, a)) THEN fg
                 ELSE IF \E n \in Glyphs(str) : Within(str, n, y, PlaceX(f, a), PlaceY(f, a)) THEN bg
                 ELSE s.px[a]

\* A text that fits is written: each of its cells shows its own glyph.
LEMMA TextDrawn ==
  ASSUME NEW f, IsDisplay(f), NEW s, DOMAIN s.px = Addresses(f), s.stray \in BOOLEAN,
         NEW str \in Seq(Printable), NEW y \in Nat, NEW fg, NEW bg, Fits(f, str, y)
  PROVE  Written(f, s, str, y, fg, bg, Drawn(f, s, print_string(str, COLUMN, y, fg, bg)))
<1> DEFINE strokes == print_string(str, COLUMN, y, fg, bg)
           L(m) == Letter(str, m, COLUMN, y, fg, bg)
           d == Drawn(f, s, strokes)
           G == Glyphs(str)
<1>0. COLUMN \in Nat /\ FONT_CHAR_WIDTH \in Nat /\ FONT_CHAR_HEIGHT \in Nat
      /\ f.width \in Nat /\ f.height \in Nat
  BY FontAssumption, TextsAssumption DEF IsDisplay
<1>1. /\ \A m \in G : Rank(G, m) \in 1 .. Len(strokes) /\ strokes[Rank(G, m)] = L(m)
      /\ \A k \in 1 .. Len(strokes) : \E m \in G : Rank(G, m) = k
      /\ Len(strokes) \in Nat /\ DOMAIN strokes = 1 .. Len(strokes)
  <2>1. Picks(strokes, G, Letters(str, COLUMN, y, fg, bg)) /\ \E S : strokes \in Seq(S)
    BY <1>0, TextStrokes
  <2>2. \A m \in G : Letters(str, COLUMN, y, fg, bg)[m] = L(m)
    BY DEF Letters, Glyphs
  <2>3. Len(strokes) \in Nat /\ DOMAIN strokes = 1 .. Len(strokes)
    BY <2>1, LenProperties
  <2> HIDE DEF strokes, L, G
  <2> QED
    BY <2>1, <2>2, <2>3, Zenon DEF Picks
<1> HIDE DEF strokes
<1>2. \A m \in G : /\ L(m).x = Left(str, m) /\ L(m).y = Top(str, m, y)
                   /\ L(m).w = FONT_CHAR_WIDTH /\ L(m).h = FONT_CHAR_HEIGHT
                   /\ L(m).char = str[m] /\ L(m).fg = fg /\ L(m).bg = bg
  BY DEF Letter, Stroke, Left, Top
<1>3. \A m \in G : /\ m \in Nat \ {0} /\ str[m] \in DOMAIN font8x16 /\ str[m] # Solid
                   /\ Left(str, m) \in Nat /\ Top(str, m, y) \in Nat
  BY CellTyped
<1> HIDE DEF L
<1>4. \A m \in G : Inside(f, L(m))
  BY <1>0, <1>2, <1>3 DEF Inside, Fits
<1>5. \A k \in 1 .. Len(strokes) : \E m \in G : strokes[k] = L(m)
  BY <1>1, Zenon
<1>6. OnScreen(f, strokes)
  BY <1>1, <1>4, <1>5, Zenon DEF OnScreen
<1>7. Becomes(f, s, strokes, d)
  BY <1>6, DrawnIs, Zenon
<1> HIDE DEF d, G
<1>8. ASSUME NEW a \in Addresses(f), NEW m \in G
      PROVE  /\ PlaceX(f, a) \in Nat /\ PlaceY(f, a) \in Nat
             /\ Covers(f, L(m), a) <=> Within(str, m, y, PlaceX(f, a), PlaceY(f, a))
             /\ Spot(f, L(m), a) = <<PlaceX(f, a) - Left(str, m), PlaceY(f, a) - Top(str, m, y)>>
  <2> DEFINE i == PlaceX(f, a)
             j == PlaceY(f, a)
             x == Left(str, m)
             t == Top(str, m, y)
  <2>1. i \in Nat /\ j \in Nat
    BY AddressIs
  <2>2. L(m).x = x /\ L(m).y = t /\ L(m).w = FONT_CHAR_WIDTH /\ L(m).h = FONT_CHAR_HEIGHT
        /\ x \in Nat /\ t \in Nat
    BY <1>2, <1>3
  <2>3. Spot(f, L(m), a) = <<i - x, j - t>>
    BY <2>2 DEF Spot
  <2> HIDE DEF i, j, x, t
  <2>4. (/\ x <= i /\ i < x + FONT_CHAR_WIDTH /\ t <= j /\ j < t + FONT_CHAR_HEIGHT)
        <=> i - x \in 0 .. FONT_CHAR_WIDTH - 1 /\ j - t \in 0 .. FONT_CHAR_HEIGHT - 1
    BY <1>0, <2>1, <2>2
  <2>5. Covers(f, L(m), a) <=> Within(str, m, y, i, j)
    BY <2>2, <2>4 DEF Covers, Within, i, j, x, t
  <2> QED
    BY <2>1, <2>3, <2>5 DEF i, j, x, t
<1>9. ASSUME NEW a \in Addresses(f), NEW m \in G, Covers(f, L(m), a)
      PROVE  Color(L(m), Spot(f, L(m), a)) =
               IF <<PlaceX(f, a) - Left(str, m), PlaceY(f, a) - Top(str, m, y)>> \in Shape[str[m]]
               THEN fg ELSE bg
  <2> DEFINE p == <<PlaceX(f, a) - Left(str, m), PlaceY(f, a) - Top(str, m, y)>>
  <2>1. Spot(f, L(m), a) = p /\ Within(str, m, y, PlaceX(f, a), PlaceY(f, a))
    BY <1>8, <1>9
  <2>2. p \in (0 .. FONT_CHAR_WIDTH - 1) \X (0 .. FONT_CHAR_HEIGHT - 1)
    BY <2>1, Zenon DEF Within
  <2> HIDE DEF p
  <2>3. p \in Shape[str[m]] <=>
          (font8x16[str[m]][p[2] + 1] \div 2 ^ (FONT_CHAR_WIDTH - 1 - p[1])) % 2 = 1
    <3>1. Shape[str[m]] = {q \in (0 .. FONT_CHAR_WIDTH - 1) \X (0 .. FONT_CHAR_HEIGHT - 1) :
                  (font8x16[str[m]][q[2] + 1] \div 2 ^ (FONT_CHAR_WIDTH - 1 - q[1])) % 2 = 1}
      BY <1>3, ShapesAssumption, Zenon
    <3> QED
      BY <2>2, <3>1, Zenon
  <2>4. Color(L(m), p) = IF (font8x16[str[m]][p[2] + 1] \div 2 ^ (FONT_CHAR_WIDTH - 1 - p[1])) % 2 = 1
                         THEN fg ELSE bg
    <3>1. L(m).char = str[m] /\ L(m).fg = fg /\ L(m).bg = bg /\ str[m] # Solid
      BY <1>2, <1>3
    <3> QED
      BY <3>1, Zenon DEF Color
  <2>5. Color(L(m), p) = IF p \in Shape[str[m]] THEN fg ELSE bg
    BY <2>3, <2>4, Zenon
  <2> QED
    BY <2>1, <2>5, Zenon DEF p
<1>10. ASSUME NEW a \in Addresses(f)
       PROVE  d.px[a] = IF Inked(str, y, PlaceX(f, a), PlaceY(f, a)) THEN fg
                 ELSE IF \E n \in Glyphs(str) : Within(str, n, y, PlaceX(f, a), PlaceY(f, a)) THEN bg
                 ELSE s.px[a]
  <2> DEFINE i == PlaceX(f, a)
             j == PlaceY(f, a)
             W(m) == Within(str, m, y, i, j)
             I(m) == <<i - Left(str, m), j - Top(str, m, y)>> \in Shape[str[m]]
  <2>0. i \in Nat /\ j \in Nat
    BY AddressIs
  <2>1. \/ (\A m \in 1 .. Len(strokes) : ~Covers(f, strokes[m], a)) /\ d.px[a] = s.px[a]
        \/ \E m \in 1 .. Len(strokes) : /\ Covers(f, strokes[m], a)
                                        /\ d.px[a] = Color(strokes[m], Spot(f, strokes[m], a))
    BY <1>7, Zenon DEF Becomes
  <2>2. \/ (\A m \in G : ~W(m)) /\ d.px[a] = s.px[a]
        \/ \E m \in G : W(m) /\ d.px[a] = IF I(m) THEN fg ELSE bg
    <3>1. CASE (\A m \in 1 .. Len(strokes) : ~Covers(f, strokes[m], a)) /\ d.px[a] = s.px[a]
      <4>1. \A m \in G : ~Covers(f, L(m), a)
        BY <1>1, <3>1, Zenon
      <4> QED
        BY <1>8, <3>1, <4>1
    <3>2. CASE \E m \in 1 .. Len(strokes) : /\ Covers(f, strokes[m], a)
                                            /\ d.px[a] = Color(strokes[m], Spot(f, strokes[m], a))
      <4>1. PICK m \in G : Covers(f, L(m), a) /\ d.px[a] = Color(L(m), Spot(f, L(m), a))
        BY <1>5, <3>2
      <4> QED
        BY <1>8, <1>9, <4>1
    <3> QED
      BY <2>1, <3>1, <3>2
  <2>3. \A n, m \in G : W(n) /\ W(m) => n = m
    <3>1. \A n, m \in Glyphs(str) : Within(str, n, y, i, j) /\ Within(str, m, y, i, j) => n = m
      BY <2>0, OneGlyph
    <3> QED
      BY <3>1 DEF G
  <2>4. Inked(str, y, i, j) <=> \E m \in G : W(m) /\ I(m)
    BY Zenon DEF Inked, G
  <2> HIDE DEF i, j, W, I
  <2>5. d.px[a] = IF \E m \in G : W(m) /\ I(m) THEN fg
                  ELSE IF \E m \in G : W(m) THEN bg ELSE s.px[a]
    BY <2>2, <2>3
  <2> QED
    BY <2>4, <2>5, Zenon DEF i, j, W, G
<1> QED
  BY <1>7, <1>10, Zenon DEF Becomes, Written, d, strokes
----------------------------------------------------------------------------
\* The screen that ClearScreen leaves is black and nothing has been sent.
LEMMA ClearedIs ==
  ASSUME NEW f, IsDisplay(f)
  PROVE  /\ Cleared(f).stray = FALSE /\ DOMAIN Cleared(f).px = Addresses(f)
         /\ Cleared(f).serial = <<>> /\ \A a \in Addresses(f) : Cleared(f).px[a] = 0
<1> DEFINE k == Stroke(0, 0, f.width, f.height, Solid, 0, 0)
           strokes == draw_rect(0, 0, f.width, f.height, 0)
           s == Blank(f)
<1>1. /\ DOMAIN s.px = Addresses(f) /\ s.stray = FALSE /\ s.serial = <<>>
      /\ \A a \in Addresses(f) : s.px[a] = 0
  BY DEF Blank
<1>2. k.x = 0 /\ k.y = 0 /\ k.w = f.width /\ k.h = f.height /\ k.char = Solid /\ k.fg = 0
  BY DEF Stroke
<1>3. strokes = <<k>>
  BY DEF draw_rect
<1> HIDE DEF k, strokes, s
<1>4. Len(strokes) = 1 /\ DOMAIN strokes = 1 .. 1 /\ strokes[1] = k
  BY <1>3
<1>5. Inside(f, k)
  BY <1>2 DEF Inside, IsDisplay
<1>6. OnScreen(f, strokes)
  BY <1>4, <1>5 DEF OnScreen
<1>7. Becomes(f, s, strokes, Cleared(f))
  <2>1. Becomes(f, s, strokes, Drawn(f, s, strokes))
    BY <1>1, <1>6, DrawnIs
  <2> QED
    BY <2>1 DEF Cleared, s, strokes
<1>8. Sent(strokes) = <<>>
  <2> DEFINE pieces == [n \in 1 .. 1 |-> <<>>]
  <2>1. Sent(strokes) = FlattenSeq([n \in 1 .. 1 |-> IF strokes[n].char = Solid THEN <<>>
                                                     ELSE <<strokes[n].char>>])
    BY <1>4, Zenon DEF Sent
  <2>2. \A n \in 1 .. 1 : strokes[n].char = Solid
    BY <1>2, <1>4
  <2>3. [n \in 1 .. 1 |-> IF strokes[n].char = Solid THEN <<>> ELSE <<strokes[n].char>>] = pieces
    BY <2>2, Zenon
  <2>4. pieces \in Seq(Seq({})) /\ Len(pieces) = 1 /\ pieces[1] = <<>>
    <3>1. pieces = <<<<>>>>
      OBVIOUS
    <3> HIDE DEF pieces
    <3> QED
      BY <3>1, EmptySeq
  <2> HIDE DEF pieces
  <2>5. PICK g \in [0 .. 1 -> Seq({})] : Flattens(g, pieces)
    BY <2>4, Flattened
  <2>6. g[0] = <<>> /\ g[1] = g[0] \o pieces[1] /\ FlattenSeq(pieces) = g[1]
    <3>1. 1 \in 1 .. 1 /\ 1 - 1 = 0
      OBVIOUS
    <3> QED
      BY <2>4, <2>5, <3>1 DEF Flattens
  <2>7. <<>> \o <<>> = <<>>
    BY EmptySeq, ConcatEmptySeq
  <2> QED
    BY <2>1, <2>3, <2>4, <2>6, <2>7
<1>9. \A a \in Addresses(f) : Cleared(f).px[a] = 0
  <2> TAKE a \in Addresses(f)
  <2>1. \/ Cleared(f).px[a] = s.px[a]
        \/ \E m \in 1 .. Len(strokes) : Cleared(f).px[a] = Color(strokes[m], Spot(f, strokes[m], a))
    BY <1>7, Zenon DEF Becomes
  <2>2. \A p : Color(k, p) = 0
    BY <1>2, Zenon DEF Color
  <2>3. \A m \in 1 .. Len(strokes) : strokes[m] = k
    BY <1>4
  <2> QED
    BY <1>1, <2>1, <2>2, <2>3
<1>10. <<>> \o <<>> = <<>>
  BY EmptySeq, ConcatEmptySeq
<1> QED
  BY <1>1, <1>7, <1>8, <1>9, <1>10, Zenon DEF Becomes

\* The greeting can be printed.
LEMMA HelloTyped == Hello \in Seq(Printable) /\ HELLO_ROW \in Nat /\ TEXT_ROW \in Nat /\ COLUMN \in Nat
<1>1. DOMAIN font8x16 \ {NL} \subseteq Printable
  BY DEF Printable
<1> QED
  BY <1>1, TextsAssumption, SeqMonotonic

\* On it the greeting stands alone.
LEMMA GreetedIs ==
  ASSUME NEW f, IsDisplay(f), Fits(f, Hello, HELLO_ROW)
  PROVE  /\ Greeted(f).stray = FALSE /\ DOMAIN Greeted(f).px = Addresses(f)
         /\ Greeted(f).serial = Sent(print_string(Hello, COLUMN, HELLO_ROW, WHITE, 0))
         /\ \A a \in Addresses(f) :
              Greeted(f).px[a] = IF Inked(Hello, HELLO_ROW, PlaceX(f, a), PlaceY(f, a)) THEN WHITE ELSE 0
<1> DEFINE s == Cleared(f)
           sent == Sent(print_string(Hello, COLUMN, HELLO_ROW, WHITE, 0))
<1>1. /\ s.stray = FALSE /\ DOMAIN s.px = Addresses(f) /\ s.serial = <<>>
      /\ \A a \in Addresses(f) : s.px[a] = 0
  BY ClearedIs
<1> HIDE DEF s
<1>2. Written(f, s, Hello, HELLO_ROW, WHITE, 0, Greeted(f))
  <2>1. Written(f, s, Hello, HELLO_ROW, WHITE, 0,
                Drawn(f, s, print_string(Hello, COLUMN, HELLO_ROW, WHITE, 0)))
    BY <1>1, HelloTyped, TextDrawn
  <2> QED
    BY <2>1, Zenon DEF Greeted, s
<1>3. \E S : sent \in Seq(S)
  BY HelloTyped, TextSent
<1> HIDE DEF sent
<1>4. <<>> \o sent = sent
  BY <1>3, ConcatEmptySeq
<1>5. Greeted(f).serial = sent
  BY <1>1, <1>2, <1>4, Zenon DEF Written, sent
<1>6. \A a \in Addresses(f) :
        Greeted(f).px[a] = IF Inked(Hello, HELLO_ROW, PlaceX(f, a), PlaceY(f, a)) THEN WHITE ELSE 0
  BY <1>1, <1>2, Zenon DEF Written
<1> QED
  BY <1>1, <1>2, <1>5, <1>6, Zenon DEF Written, sent

\* The text of the file begins under the greeting.
LEMMA TextBelow ==
  ASSUME NEW str \in Seq(Printable), NEW n \in Glyphs(str), NEW i \in Nat, NEW j \in Nat,
         Within(str, n, TEXT_ROW, i, j)
  PROVE  ~Inked(Hello, HELLO_ROW, i, j)
<1> SUFFICES ASSUME NEW m \in Glyphs(Hello), Within(Hello, m, HELLO_ROW, i, j) PROVE FALSE
  BY Zenon DEF Inked
<1>1. Row(Hello, m) = 0
  <2>1. m \in 1 .. Len(Hello) /\ DOMAIN Hello = 1 .. Len(Hello)
    BY TextsAssumption DEF Glyphs
  <2>2. \A k \in 1 .. Len(Hello) : Hello[k] # NL
    BY TextsAssumption, ElementOfSeq
  <2>3. {k \in 1 .. m - 1 : Hello[k] = NL} = {}
    BY <2>1, <2>2
  <2> QED
    BY <2>3, FS_EmptySet DEF Row
<1>2. Row(str, n) \in Nat
  BY HelloTyped, CellTyped
<1> DEFINE H == FONT_CHAR_HEIGHT
           p == Row(str, n) * H
<1>3. H \in Nat /\ HELLO_ROW + H <= TEXT_ROW /\ HELLO_ROW \in Nat /\ TEXT_ROW \in Nat /\ 0 * H = 0
  BY FontAssumption, TextsAssumption
<1>4. p \in Nat
  BY <1>2, <1>3
<1>5. j - (TEXT_ROW + p) \in 0 .. H - 1 /\ j - (HELLO_ROW + 0 * H) \in 0 .. H - 1
  BY <1>1, Zenon DEF Within, Top
<1> HIDE DEF H, p
<1> QED
  BY <1>3, <1>4, <1>5

\* Both texts have been drawn.
LEMMA BothDrawn ==
  ASSUME IsDisplay(fb), NEW str \in Seq(Printable), Fits(fb, Hello, HELLO_ROW),
         Fits(fb, str, TEXT_ROW),
         screen = Drawn(fb, Greeted(fb), print_string(str, COLUMN, TEXT_ROW, WHITE, 0))
  PROVE  Pictures(str)
<1> DEFINE g == Greeted(fb)
           hs == Sent(print_string(Hello, COLUMN, HELLO_ROW, WHITE, 0))
           ts == Sent(print_string(str, COLUMN, TEXT_ROW, WHITE, 0))
<1>1. /\ g.stray = FALSE /\ DOMAIN g.px = Addresses(fb) /\ g.serial = hs
      /\ \A a \in Addresses(fb) :
           g.px[a] = IF Inked(Hello, HELLO_ROW, PlaceX(fb, a), PlaceY(fb, a)) THEN WHITE ELSE 0
  BY GreetedIs
<1> HIDE DEF g
<1>2. Written(fb, g, str, TEXT_ROW, WHITE, 0, screen)
  <2>1. Written(fb, g, str, TEXT_ROW, WHITE, 0,
                Drawn(fb, g, print_string(str, COLUMN, TEXT_ROW, WHITE, 0)))
    BY <1>1, HelloTyped, TextDrawn
  <2> QED
    BY <2>1, Zenon DEF g
<1>3. screen.stray = FALSE /\ screen.serial = hs \o ts
  BY <1>1, <1>2, Zenon DEF Written
<1>4. ASSUME NEW a \in Addresses(fb)
      PROVE  screen.px[a] = IF \/ Inked(Hello, HELLO_ROW, PlaceX(fb, a), PlaceY(fb, a))
                               \/ Inked(str, TEXT_ROW, PlaceX(fb, a), PlaceY(fb, a))
                            THEN WHITE ELSE 0
  <2> DEFINE i == PlaceX(fb, a)
             j == PlaceY(fb, a)
  <2>1. i \in Nat /\ j \in Nat
    BY AddressIs
  <2>2. (\E n \in Glyphs(str) : Within(str, n, TEXT_ROW, i, j)) => ~Inked(Hello, HELLO_ROW, i, j)
    BY <2>1, TextBelow
  <2>3. screen.px[a] = IF Inked(str, TEXT_ROW, i, j) THEN WHITE
                       ELSE IF \E n \in Glyphs(str) : Within(str, n, TEXT_ROW, i, j) THEN 0
                       ELSE IF Inked(Hello, HELLO_ROW, i, j) THEN WHITE ELSE 0
    BY <1>1, <1>2, Zenon DEF Written
  <2> QED
    BY <2>2, <2>3, Zenon
<1>5. Carries(screen.serial, Hello \o str)
  <2>1. /\ Picks(hs, Glyphs(Hello), Hello) /\ \E S : hs \in Seq(S)
        /\ Picks(ts, Glyphs(str), str) /\ \E S : ts \in Seq(S)
    BY HelloTyped, TextSent
  <2> HIDE DEF hs, ts
  <2>2. Carries(hs \o ts, Hello \o str)
    BY <2>1, HelloTyped, BothCarried
  <2> QED
    BY <1>3, <2>2
<1> QED
  BY <1>3, <1>4, <1>5, Zenon DEF Pictures, PlaceX, PlaceY

\* The greeting alone has been drawn.
LEMMA HelloDrawn ==
  ASSUME IsDisplay(fb), Fits(fb, Hello, HELLO_ROW), screen = Greeted(fb)
  PROVE  Pictures(<<>>)
<1> DEFINE hs == Sent(print_string(Hello, COLUMN, HELLO_ROW, WHITE, 0))
<1>1. /\ screen.stray = FALSE /\ screen.serial = hs
      /\ \A a \in Addresses(fb) :
           screen.px[a] = IF Inked(Hello, HELLO_ROW, PlaceX(fb, a), PlaceY(fb, a)) THEN WHITE ELSE 0
  BY GreetedIs
<1>2. Picks(hs, Glyphs(Hello), Hello) /\ \E S : hs \in Seq(S)
  BY HelloTyped, TextSent
<1> HIDE DEF hs
<1>3. Glyphs(<<>>) = {} /\ <<>> \in Seq(Printable)
  BY EmptySeq DEF Glyphs
<1>4. Picks(<<>>, Glyphs(<<>>), <<>>)
  <2>1. Cardinality({}) = 0 /\ Len(<<>>) = 0 /\ \A k : k \notin 1 .. 0
    BY FS_EmptySet, EmptySeq
  <2> QED
    BY <1>3, <2>1 DEF Picks
<1>5. hs \o <<>> = hs
  BY <1>2, ConcatEmptySeq
<1>6. Carries(hs \o <<>>, Hello \o <<>>)
  BY <1>2, <1>3, <1>4, HelloTyped, BothCarried
<1>7. \A i, j : ~Inked(<<>>, TEXT_ROW, i, j)
  BY <1>3 DEF Inked
<1>8. ASSUME NEW a \in Addresses(fb)
      PROVE  screen.px[a] = IF \/ Inked(Hello, HELLO_ROW, PlaceX(fb, a), PlaceY(fb, a))
                               \/ Inked(<<>>, TEXT_ROW, PlaceX(fb, a), PlaceY(fb, a))
                            THEN WHITE ELSE 0
  BY <1>1, <1>7, Zenon
<1>9. Carries(screen.serial, Hello \o <<>>)
  BY <1>1, <1>5, <1>6, Zenon
<1> QED
  BY <1>1, <1>8, <1>9, Zenon DEF Pictures, PlaceX, PlaceY
----------------------------------------------------------------------------
\* The beginnings of two sequences, one behind the other.
LEMMA Joined ==
  ASSUME NEW S, NEW s \in Seq(S), NEW t \in Seq(S)
  PROVE  /\ s \o t \in Seq(S) /\ Len(s \o t) = Len(s) + Len(t)
         /\ \A i \in 0 .. Len(s) : SubSeq(s \o t, 1, i) = SubSeq(s, 1, i)
         /\ \A n \in 0 .. Len(t) : s \o SubSeq(t, 1, n) = SubSeq(s \o t, 1, Len(s) + n)
<1> DEFINE u == s \o t
<1>1. /\ u \in Seq(S) /\ Len(u) = Len(s) + Len(t) /\ Len(s) \in Nat /\ Len(t) \in Nat
      /\ \A i \in 1 .. Len(s) + Len(t) : u[i] = IF i <= Len(s) THEN s[i] ELSE t[i - Len(s)]
  BY ConcatProperties, LenProperties
<1> HIDE DEF u
<1>2. ASSUME NEW i \in 0 .. Len(s) PROVE SubSeq(u, 1, i) = SubSeq(s, 1, i)
  <2>1. i \in 0 .. Len(u)
    BY <1>1
  <2>2. /\ SubSeq(u, 1, i) \in Seq(S) /\ Len(SubSeq(u, 1, i)) = i
        /\ \A m \in 1 .. i : SubSeq(u, 1, i)[m] = u[m]
    BY <1>1, <2>1, Beginnings
  <2>3. /\ SubSeq(s, 1, i) \in Seq(S) /\ Len(SubSeq(s, 1, i)) = i
        /\ \A m \in 1 .. i : SubSeq(s, 1, i)[m] = s[m]
    BY Beginnings
  <2>4. \A m \in 1 .. i : u[m] = s[m]
    BY <1>1
  <2> QED
    BY <2>2, <2>3, <2>4, SeqEqual
<1>3. ASSUME NEW n \in 0 .. Len(t) PROVE s \o SubSeq(t, 1, n) = SubSeq(u, 1, Len(s) + n)
  <2> DEFINE b == SubSeq(t, 1, n)
             l == Len(s)
  <2>1. /\ b \in Seq(S) /\ Len(b) = n /\ \A m \in 1 .. n : b[m] = t[m]
    BY Beginnings
  <2>2. /\ s \o b \in Seq(S) /\ Len(s \o b) = l + n
        /\ \A i \in 1 .. l + n : (s \o b)[i] = IF i <= l THEN s[i] ELSE b[i - l]
    <3> HIDE DEF b
    <3> QED
      BY <2>1, ConcatProperties
  <2>3. l + n \in 0 .. Len(u)
    BY <1>1
  <2>4. /\ SubSeq(u, 1, l + n) \in Seq(S) /\ Len(SubSeq(u, 1, l + n)) = l + n
        /\ \A m \in 1 .. l + n : SubSeq(u, 1, l + n)[m] = u[m]
    <3> HIDE DEF l
    <3> QED
      BY <1>1, <2>3, Beginnings
  <2> HIDE DEF b
  <2>5. \A i \in 1 .. l + n : (s \o b)[i] = u[i]
    <3> TAKE i \in 1 .. l + n
    <3>1. l \in Nat /\ i \in 1 .. l + Len(t) /\ (~(i <= l) => i - l \in 1 .. n)
      BY <1>1
    <3> HIDE DEF l
    <3>2. u[i] = IF i <= l THEN s[i] ELSE t[i - l]
      BY <1>1, <3>1 DEF l
    <3> QED
      BY <2>1, <2>2, <3>1, <3>2
  <2> HIDE DEF l
  <2>6. s \o b = SubSeq(u, 1, l + n)
    BY <2>2, <2>4, <2>5, SeqEqual
  <2> QED
    BY <2>6 DEF b, l
<1> QED
  BY <1>1, <1>2, <1>3 DEF u

\* Pieces of the same length, put one behind the other.
Piled(S, cb, n, pieces, g) ==
  /\ g \in [0 .. n -> Seq(S)] /\ g[0] = <<>>
  /\ \A k \in 1 .. n : /\ pieces[k] \in Seq(S) /\ Len(pieces[k]) = cb
                       /\ g[k] = g[k - 1] \o pieces[k]
Even(cb, n, g) ==
  \A k \in 0 .. n : Len(g[k]) = k * cb /\ k * cb \in Nat /\ SubSeq(g[n], 1, k * cb) = g[k]

\* The first k pieces are the first k * cb values of all of them.
LEMMA EvenPieces ==
  ASSUME NEW S, NEW cb \in Nat, NEW n \in Nat, NEW pieces, NEW g, Piled(S, cb, n, pieces, g)
  PROVE  Even(cb, n, g)
<1>a. /\ g \in [0 .. n -> Seq(S)] /\ g[0] = <<>>
      /\ \A k \in 1 .. n : /\ pieces[k] \in Seq(S) /\ Len(pieces[k]) = cb
                           /\ g[k] = g[k - 1] \o pieces[k]
  BY DEF Piled
<1>0. \A k \in Nat : k * cb \in Nat /\ (k + 1) * cb = k * cb + cb
  OBVIOUS
<1> DEFINE P == {k \in Nat : k <= n => Len(g[k]) = k * cb}
<1>1. 0 \in P
  <2>1. Len(g[0]) = 0 /\ 0 * cb = 0
    BY <1>a, EmptySeq
  <2> QED
    BY <2>1
<1>2. ASSUME NEW k \in Nat, k \in P PROVE k + 1 \in P
  <2> SUFFICES ASSUME k + 1 <= n PROVE Len(g[k + 1]) = (k + 1) * cb
    OBVIOUS
  <2>1. k + 1 \in 1 .. n /\ (k + 1) - 1 = k /\ k \in 0 .. n
    OBVIOUS
  <2>2. g[k + 1] = g[k] \o pieces[k + 1] /\ pieces[k + 1] \in Seq(S) /\ Len(pieces[k + 1]) = cb
    BY <1>a, <2>1
  <2>3. g[k] \in Seq(S) /\ Len(g[k]) = k * cb
    BY <1>a, <1>2, <2>1
  <2> HIDE DEF P
  <2>4. Len(g[k] \o pieces[k + 1]) = Len(g[k]) + Len(pieces[k + 1])
    BY <2>2, <2>3, Joined
  <2> QED
    BY <1>0, <2>2, <2>3, <2>4
<1>3. \A k \in 0 .. n : Len(g[k]) = k * cb
  <2>1. P \subseteq Nat
    OBVIOUS
  <2> HIDE DEF P
  <2>2. P = Nat
    BY <1>1, <1>2, <2>1, Induction
  <2> TAKE k \in 0 .. n
  <2>3. k \in Nat /\ k <= n
    OBVIOUS
  <2>4. k \in P
    BY <2>2, <2>3
  <2> QED
    BY <2>3, <2>4 DEF P
<1> HIDE DEF P
<1>4. ASSUME NEW k \in 0 .. n PROVE SubSeq(g[n], 1, k * cb) = g[k]
  <2> DEFINE j == k * cb
             Q == {d \in Nat : k + d <= n => SubSeq(g[k + d], 1, j) = g[k]}
  <2>1. j \in Nat /\ Len(g[k]) = j /\ g[k] \in Seq(S)
    BY <1>a, <1>0, <1>3
  <2> HIDE DEF j
  <2>2. 0 \in Q
    <3>1. k + 0 = k /\ SubSeq(g[k], 1, j) = g[k]
      BY <2>1, Beginnings
    <3> QED
      BY <3>1
  <2>3. ASSUME NEW d \in Nat, d \in Q PROVE d + 1 \in Q
    <3> SUFFICES ASSUME k + (d + 1) <= n PROVE SubSeq(g[k + (d + 1)], 1, j) = g[k]
      OBVIOUS
    <3> DEFINE m == k + d
    <3>1. m + 1 \in 1 .. n /\ (m + 1) - 1 = m /\ m \in 0 .. n /\ k + (d + 1) = m + 1 /\ k <= m /\ m \in Nat
      OBVIOUS
    <3>2. SubSeq(g[m], 1, j) = g[k]
      BY <2>3, <3>1
    <3> HIDE DEF m
    <3>3. g[m + 1] = g[m] \o pieces[m + 1] /\ pieces[m + 1] \in Seq(S) /\ g[m] \in Seq(S)
      BY <1>a, <3>1
    <3>4. j \in 0 .. Len(g[m])
      <4>1. k * cb <= m * cb /\ Len(g[m]) = m * cb /\ m * cb \in Nat
        BY <1>0, <1>3, <3>1
      <4> QED
        BY <2>1, <4>1 DEF j
    <3> HIDE DEF Q
    <3>5. SubSeq(g[m] \o pieces[m + 1], 1, j) = SubSeq(g[m], 1, j)
      BY <3>3, <3>4, Joined
    <3> QED
      BY <3>1, <3>2, <3>3, <3>5
  <2>4. Q = Nat
    <3>1. Q \subseteq Nat
      OBVIOUS
    <3> HIDE DEF Q
    <3> QED
      BY <2>2, <2>3, <3>1, Induction
  <2> HIDE DEF Q
  <2>5. n - k \in Nat /\ k + (n - k) = n
    OBVIOUS
  <2>6. n - k \in Q
    BY <2>4, <2>5
  <2>7. SubSeq(g[n], 1, j) = g[k]
    BY <2>5, <2>6 DEF Q
  <2> QED
    BY <2>7 DEF j
<1> QED
  BY <1>0, <1>3, <1>4 DEF Even

\* The first pieces of whole, each cut where size bytes are full.
Cutting(S, cb, size, whole, cut) ==
  /\ whole \in Seq(Seq(S)) /\ \A k \in 1 .. Len(whole) : Len(whole[k]) = cb
  /\ cut \in Seq(Seq(S)) /\ Len(cut) <= Len(whole)
  /\ \A k \in 1 .. Len(cut) :
       (k - 1) * cb < size /\ cut[k] = SubSeq(whole[k], 1, Smaller(cb, size - (k - 1) * cb))
Reassembled(cb, size, whole, cut) ==
  FlattenSeq(cut) = SubSeq(FlattenSeq(whole), 1, Smaller(Len(cut) * cb, size))

\* The first pieces put one behind the other, and the last of them cut where
\* size bytes are full, are the first size bytes of all of them.
LEMMA CutPieces ==
  ASSUME NEW S, NEW cb \in Nat, cb > 0, NEW size \in Nat, NEW whole, NEW cut,
         Cutting(S, cb, size, whole, cut)
  PROVE  Reassembled(cb, size, whole, cut)
<1> DEFINE n == Len(whole)
           l == Len(cut)
<1>h. /\ whole \in Seq(Seq(S)) /\ \A k \in 1 .. Len(whole) : Len(whole[k]) = cb
      /\ cut \in Seq(Seq(S)) /\ Len(cut) <= Len(whole)
      /\ \A k \in 1 .. Len(cut) :
           (k - 1) * cb < size /\ cut[k] = SubSeq(whole[k], 1, Smaller(cb, size - (k - 1) * cb))
  BY DEF Cutting
<1>0. /\ n \in Nat /\ l \in Nat /\ l <= n
      /\ \A k \in 1 .. n : whole[k] \in Seq(S) /\ Len(whole[k]) = cb
  BY <1>h, ElementOfSeq, LenProperties
<1>1. PICK g \in [0 .. n -> Seq(S)] : Flattens(g, whole)
  BY <1>h, Flattened
<1>2. PICK h \in [0 .. l -> Seq(S)] : Flattens(h, cut)
  BY <1>h, Flattened
<1>3. /\ g[0] = <<>> /\ FlattenSeq(whole) = g[n] /\ \A k \in 1 .. n : g[k] = g[k - 1] \o whole[k]
      /\ h[0] = <<>> /\ FlattenSeq(cut) = h[l] /\ \A k \in 1 .. l : h[k] = h[k - 1] \o cut[k]
  BY <1>1, <1>2 DEF Flattens
<1>c. \A k \in 1 .. l :
        (k - 1) * cb < size /\ cut[k] = SubSeq(whole[k], 1, Smaller(cb, size - (k - 1) * cb))
  BY <1>h
<1> HIDE DEF n, l
<1>4. \A k \in 0 .. n : Len(g[k]) = k * cb /\ k * cb \in Nat /\ SubSeq(g[n], 1, k * cb) = g[k]
  <2>1. Piled(S, cb, n, whole, g)
    BY <1>0, <1>3 DEF Piled
  <2>2. Even(cb, n, g)
    BY <1>0, <2>1, EvenPieces
  <2> QED
    BY <1>0, <2>1, <2>2 DEF Even
<1> DEFINE Full(k) == h[k] = SubSeq(g[k], 1, Smaller(k * cb, size))
           P == {k \in Nat : k <= l => Full(k)}
<1>5. 0 \in P
  <2>1. Smaller(0 * cb, size) = 0 /\ SubSeq(<<>>, 1, 0) = <<>>
    BY DEF Smaller
  <2> QED
    BY <1>3, <2>1
<1>6. ASSUME NEW k \in Nat, k \in P PROVE k + 1 \in P
  <2> SUFFICES ASSUME k + 1 <= l PROVE Full(k + 1)
    OBVIOUS
  <2>1. /\ k + 1 \in 1 .. l /\ k + 1 \in 1 .. n /\ (k + 1) - 1 = k /\ k \in 0 .. n /\ k + 1 \in 0 .. n
    BY <1>0
  <2> DEFINE j == k * cb
             c == Smaller(cb, size - j)
             s == g[k]
             t == whole[k + 1]
  <2>2. /\ j \in Nat /\ Len(s) = j /\ s \in Seq(S) /\ t \in Seq(S) /\ Len(t) = cb
        /\ g[k + 1] = s \o t /\ (k + 1) * cb = j + cb
    <3>1. (k + 1) * cb = k * cb + cb
      OBVIOUS
    <3> QED
      BY <1>0, <1>3, <1>4, <2>1, <3>1
  <2>3. j < size /\ cut[k + 1] = SubSeq(t, 1, c)
    BY <1>c, <2>1
  <2>4. h[k + 1] = h[k] \o cut[k + 1] /\ h[k] = SubSeq(s, 1, Smaller(j, size))
    <3>1. Full(k)
      BY <1>0, <1>6
    <3>2. h[k + 1] = h[k] \o cut[k + 1]
      BY <1>3, <2>1
    <3> QED
      BY <3>1, <3>2
  <2> HIDE DEF j, s, t, P
  <2>5. c \in 0 .. cb /\ j + c = Smaller(j + cb, size) /\ Smaller(j, size) = j
    BY <2>2, <2>3 DEF Smaller
  <2> HIDE DEF c
  <2>6. SubSeq(s, 1, j) = s
    BY <2>2, Beginnings
  <2>7. s \o SubSeq(t, 1, c) = SubSeq(s \o t, 1, j + c)
    BY <2>2, <2>5, Joined
  <2>8. h[k + 1] = SubSeq(g[k + 1], 1, Smaller(j + cb, size))
    BY <2>2, <2>3, <2>4, <2>5, <2>6, <2>7
  <2> QED
    BY <2>2, <2>8
<1>7. P = Nat
  <2>1. P \subseteq Nat
    OBVIOUS
  <2> HIDE DEF P
  <2> QED
    BY <1>5, <1>6, <2>1, Induction
<1>8. h[l] = SubSeq(g[l], 1, Smaller(l * cb, size))
  <2> HIDE DEF P
  <2>1. l \in P
    BY <1>0, <1>7
  <2> QED
    BY <1>0, <2>1 DEF P
<1> HIDE DEF P, Full
<1>9. SubSeq(g[l], 1, Smaller(l * cb, size)) = SubSeq(g[n], 1, Smaller(l * cb, size))
  <2> DEFINE j == l * cb
             m == Smaller(j, size)
  <2>1. l \in 0 .. n /\ n \in 0 .. n
    BY <1>0
  <2>2. j \in Nat /\ j <= n * cb /\ Len(g[n]) = n * cb /\ g[l] = SubSeq(g[n], 1, j) /\ n * cb \in Nat
        /\ g[n] \in Seq(S)
    <3>1. l * cb <= n * cb
      BY <1>0
    <3> QED
      BY <1>4, <2>1, <3>1
  <2> HIDE DEF j
  <2>3. m \in 0 .. j /\ j \in 0 .. Len(g[n])
    BY <2>2 DEF Smaller
  <2> HIDE DEF m
  <2>4. SubSeq(SubSeq(g[n], 1, j), 1, m) = SubSeq(g[n], 1, m)
    BY <2>2, <2>3, Beginnings
  <2>5. SubSeq(g[l], 1, m) = SubSeq(g[n], 1, m)
    BY <2>2, <2>4
  <2> QED
    BY <2>5 DEF m, j
<1>10. g[n] \in Seq(S) /\ Len(g[n]) = n * cb
  BY <1>0, <1>4
<1> QED
  BY <1>3, <1>8, <1>9, <1>10 DEF Reassembled, n, l

\* Where the string ends that begins a buffer.
EndsAt(s, e) ==
  /\ e \in 0 .. Len(s) /\ StringOf(s) = SubSeq(s, 1, e)
  /\ \A m \in 1 .. e : s[m] # NUL
  /\ e = Len(s) \/ s[e + 1] = NUL

\* A string ends before the first NUL.
LEMMA StringEnds ==
  ASSUME NEW S, NEW s \in Seq(S)
  PROVE  \E e : EndsAt(s, e)
<1> DEFINE l == Len(s)
           T == {n \in 1 .. l + 1 : n = l + 1 \/ s[n] = NUL}
           Ends(n) == /\ n = l + 1 \/ s[n] = NUL
                      /\ \A m \in 1 .. n - 1 : s[m] # NUL
           nul == CHOOSE n \in 1 .. l + 1 : Ends(n)
<1>1. l \in Nat
  OBVIOUS
<1> HIDE DEF l
<1>2. T \subseteq Nat /\ T # {}
  <2>1. l + 1 \in T
    BY <1>1
  <2>2. T \subseteq Nat
    BY <1>1
  <2> HIDE DEF T
  <2> QED
    BY <2>1, <2>2
<1>3. PICK n \in T : \A y \in T : n <= y
  <2> HIDE DEF T
  <2> QED
    BY <1>2, Least
<1>4. n \in 1 .. l + 1 /\ Ends(n)
  <2>1. \A m \in 1 .. n - 1 : s[m] # NUL
    <3> TAKE m \in 1 .. n - 1
    <3>1. m \in 1 .. l + 1 /\ ~(n <= m)
      BY <1>1, <1>3
    <3> QED
      BY <1>3, <3>1
  <2> QED
    BY <1>3, <2>1
<1>5. nul \in 1 .. l + 1 /\ Ends(nul)
  <2> HIDE DEF Ends
  <2> QED
    BY <1>4
<1>6. StringOf(s) = SubSeq(s, 1, nul - 1)
  BY Zenon DEF StringOf, l
<1> HIDE DEF nul
<1>7. nul - 1 \in 0 .. l /\ (nul - 1 = l \/ s[(nul - 1) + 1] = NUL)
  <2>1. (nul - 1) + 1 = nul
    BY <1>1, <1>5
  <2>2. nul = l + 1 => nul - 1 = l
    BY <1>1
  <2>3. nul - 1 \in 0 .. l
    BY <1>1, <1>5
  <2> QED
    BY <1>5, <2>1, <2>2, <2>3
<1>8. \A m \in 1 .. nul - 1 : s[m] # NUL
  BY <1>5
<1>9. EndsAt(s, nul - 1)
  BY <1>6, <1>7, <1>8, Zenon DEF EndsAt, l
<1> QED
  BY <1>9

\* The string in a beginning of a buffer is a beginning of the string in it.
LEMMA StringBegins ==
  ASSUME NEW S, NEW s \in Seq(S), NEW k \in 0 .. Len(s)
  PROVE  \E n \in 0 .. Len(StringOf(s)) : StringOf(SubSeq(s, 1, k)) = SubSeq(StringOf(s), 1, n)
<1> DEFINE t == SubSeq(s, 1, k)
<1>1. t \in Seq(S) /\ Len(t) = k /\ \A m \in 1 .. k : t[m] = s[m]
  BY Beginnings
<1> HIDE DEF t
<1>a. PICK e : EndsAt(s, e)
  BY StringEnds
<1>b. PICK i : EndsAt(t, i)
  BY <1>1, StringEnds
<1>2. /\ e \in 0 .. Len(s) /\ StringOf(s) = SubSeq(s, 1, e) /\ \A m \in 1 .. e : s[m] # NUL
      /\ e = Len(s) \/ s[e + 1] = NUL
  BY <1>a DEF EndsAt
<1>3. /\ i \in 0 .. k /\ StringOf(t) = SubSeq(t, 1, i) /\ \A m \in 1 .. i : t[m] # NUL
      /\ i = k \/ t[i + 1] = NUL
  BY <1>1, <1>b DEF EndsAt
<1>4. i <= e
  <2> SUFFICES ASSUME e < i PROVE FALSE
    BY <1>2, <1>3
  <2>1. e + 1 \in 1 .. i /\ e + 1 \in 1 .. k /\ e # Len(s)
    BY <1>2, <1>3
  <2> QED
    BY <1>1, <1>2, <1>3, <2>1
<1>5. i \in 0 .. e /\ i \in 0 .. Len(s) /\ Len(SubSeq(s, 1, e)) = e
  BY <1>2, <1>3, <1>4, Beginnings
<1>6. SubSeq(SubSeq(s, 1, e), 1, i) = SubSeq(s, 1, i) /\ SubSeq(SubSeq(s, 1, k), 1, i) = SubSeq(s, 1, i)
  BY <1>2, <1>3, <1>5, Beginnings
<1>7. StringOf(t) = SubSeq(StringOf(s), 1, i) /\ i \in 0 .. Len(StringOf(s))
  BY <1>2, <1>3, <1>5, <1>6 DEF t
<1> QED
  BY <1>7 DEF t

\* A string of the characters that have a glyph can be printed.
LEMMA StringPrintable ==
  ASSUME NEW s \in Seq(DOMAIN font8x16 \cup {NL, NUL})
  PROVE  StringOf(s) \in Seq(Printable)
<1> DEFINE C == DOMAIN font8x16 \cup {NL, NUL}
<1>a. PICK e : EndsAt(s, e)
  BY StringEnds
<1>1. e \in 0 .. Len(s) /\ StringOf(s) = SubSeq(s, 1, e) /\ \A m \in 1 .. e : s[m] # NUL
  BY <1>a DEF EndsAt
<1>2. \A m \in 1 .. e : s[m] \in Printable
  <2> TAKE m \in 1 .. e
  <2>1. m \in 1 .. Len(s)
    BY <1>1
  <2>2. s[m] \in C
    BY <2>1, ElementOfSeq
  <2> QED
    BY <1>1, <2>2 DEF Printable
<1>3. SubSeq(s, 1, e) \in Seq(Printable)
  <2>1. e \in Int
    BY <1>1
  <2> QED
    BY <1>2, <2>1, SubSeqProperties
<1> QED
  BY <1>1, <1>3
----------------------------------------------------------------------------
\* What has been copied came in clusters that fit their buffer.
Sized == copied # <<>> => fs.bpc <= CLUSBUF

\* Every step keeps it, for ReadClusters copies no other.
LEMMA SizedHolds == (Init => Sized) /\ (EInv /\ Sized /\ [Next]_vars => Sized')
<1>1. Init => Sized
  BY DEF Init, Sized
<1>2. ASSUME EInv, Sized, [Next]_vars PROVE Sized'
  <2>1. UNCHANGED <<copied, fs>> => Sized'
    BY <1>2 DEF Sized
  <2>2. CASE MountOk
    <3>1. pc = "boot" /\ UNCHANGED copied
      BY <2>2 DEF MountOk
    <3>2. copied = <<>>
      BY <1>2, <3>1 DEF EInv, IInv, Progress, NotYet
    <3> QED
      BY <3>1, <3>2 DEF Sized
  <2>3. CASE \E r \in Requests : Call(r)
    BY <2>3 DEF Call, Sized
  <2>4. CASE \E ok \in BOOLEAN : ReadCluster(ok)
    <3>1. UNCHANGED copied \/ ~Overruns
      BY <2>4 DEF ReadCluster
    <3>2. UNCHANGED <<fs, vol>> /\ pc = "read"
      BY <2>4 DEF ReadCluster
    <3>3. fs.bpc \in Nat /\ CLUSBUF \in Nat
      BY <1>2, SizesAssumption DEF EInv, IInv, TypeOK, FatStruct
    <3> QED
      BY <1>2, <3>1, <3>2, <3>3 DEF Overruns, Sized
  <2>5. MountFails \/ FindStops \/ ReadDone \/ KmainSpins \/ UNCHANGED vars
          \/ (\E ok \in BOOLEAN : FindCluster(ok) \/ FindNext(ok) \/ ReadNext(ok))
        => UNCHANGED <<copied, fs>>
    BY DEF MountFails, FindStops, ReadDone, FindCluster, FindNext, ReadNext, KmainSpins, vars
  <2> QED
    BY <1>2, <2>1, <2>2, <2>3, <2>4, <2>5 DEF Next, Step
<1> QED
  BY <1>1, <1>2

\* The pieces the file consists of, and what kmain prints of it.
Pieces == [k \in DOMAIN Chain(Goal) |-> Contents[Chain(Goal)[k]]]
Printed == IF ret <= 0 THEN <<>> ELSE StringOf(Bytes(copied))
Chars == DOMAIN font8x16 \cup {NL, NUL}

\* The text is what the volume holds under the path kmain names, to its end.
LEMMA FileTextIs ==
  ASSUME call = KmainRead
  PROVE  FileText = IF Outcome(vol, call) <= 0 THEN <<>>
                    ELSE StringOf(SubSeq(FlattenSeq(Pieces), 1, Outcome(vol, call)))
BY Zenon DEF FileText, Pieces, Chain, Goal

\* The numbers of a call that has returned.
LEMMA AtEnd ==
  ASSUME Given, pc = "idle", call = KmainRead
  PROVE  /\ call \in Requests /\ call.size \in Nat /\ ret \in Int /\ total \in Nat
         /\ ClusterBytes(vol) \in Nat /\ ClusterBytes(vol) > 0 /\ Outcome(vol, call) \in Int
         /\ call = NoCall => Outcome(vol, call) <= 0
         /\ fs.bpc = ClusterBytes(vol) /\ CLUSBUF \in Nat
         /\ Goal \in DOMAIN vol.tree => Chain(Goal) \in Seq(Nat) /\ Len(Chain(Goal)) \in Nat
         /\ Goal \in DOMAIN vol.tree =>
              Len(Chain(Goal)) * ClusterBytes(vol) \in Nat
<1>1. call \in Requests /\ call.size \in Nat
  BY KmainAssumption, PathTyped
<1>2. ret \in Int /\ total \in Nat
  BY DEF Given, IInv, TypeOK
<1>3. ClusterBytes(vol) \in Nat /\ ClusterBytes(vol) > 0 /\ fs.bpc = ClusterBytes(vol) /\ CLUSBUF \in Nat
  BY Geometry
<1>4. Goal \in DOMAIN vol.tree =>
        /\ Chain(Goal) \in Seq(Nat) /\ Len(Chain(Goal)) \in Nat
        /\ Len(Chain(Goal)) * ClusterBytes(vol) \in Nat
  <2> SUFFICES ASSUME Goal \in DOMAIN vol.tree
               PROVE  /\ Chain(Goal) \in Seq(Nat) /\ Len(Chain(Goal)) \in Nat
                      /\ Len(Chain(Goal)) * ClusterBytes(vol) \in Nat
    OBVIOUS
  <2>1. Chain(Goal) \in Seq(Nat)
    BY ChainIs
  <2>2. Len(Chain(Goal)) \in Nat
    BY <2>1
  <2>3. \A x, y \in Nat : x * y \in Nat
    OBVIOUS
  <2> QED
    BY <1>3, <2>1, <2>2, <2>3
<1>5. Outcome(vol, call) \in Int /\ (call.size = 0 => Outcome(vol, call) <= 0)
  <2> DEFINE p == Len(Chain(Goal)) * ClusterBytes(vol)
             through == \E n \in 1 .. Len(Goal) - 1 : Above(n) \in DOMAIN vol.tree /\ ~vol.tree[Above(n)].dir
  <2>1. Outcome(vol, call) =
          IF Goal # <<>> /\ ClusterBytes(vol) > CLUSBUF THEN -4
          ELSE IF Goal \in DOMAIN vol.tree THEN Smaller(call.size, p)
          ELSE IF through THEN -2 ELSE 0
    BY OutcomeIs
  <2>2. Goal \in DOMAIN vol.tree => p \in Nat
    BY <1>4
  <2> HIDE DEF p, through
  <2> QED
    BY <1>1, <2>1, <2>2 DEF Smaller
<1>6. call = NoCall => call.size = 0
  BY DEF NoCall
<1> QED
  BY <1>1, <1>2, <1>3, <1>4, <1>5, <1>6

\* The file that a call has to deliver.
LEMMA FileIs ==
  ASSUME Given, pc = "idle", call = KmainRead, Outcome(vol, call) > 0
  PROVE  /\ Goal \in DOMAIN vol.tree /\ Len(Chain(Goal)) \in Nat
         /\ Outcome(vol, call) = Smaller(call.size, Len(Chain(Goal)) * ClusterBytes(vol))
         /\ Pieces \in Seq(Seq(Chars)) /\ Len(Pieces) = Len(Chain(Goal))
         /\ \A k \in 1 .. Len(Pieces) : /\ Len(Pieces[k]) = ClusterBytes(vol)
                                        /\ Pieces[k] = Contents[Chain(Goal)[k]]
         /\ FlattenSeq(Pieces) \in Seq(Chars)
         /\ Len(FlattenSeq(Pieces)) = Len(Chain(Goal)) * ClusterBytes(vol)
<1> DEFINE c == Chain(Goal)
           n == Len(c)
           cb == ClusterBytes(vol)
<1>1. Goal \in DOMAIN vol.tree /\ Outcome(vol, call) = Smaller(call.size, n * cb)
  <2> DEFINE p == n * cb
             through == \E m \in 1 .. Len(Goal) - 1 : Above(m) \in DOMAIN vol.tree /\ ~vol.tree[Above(m)].dir
  <2>1. Outcome(vol, call) =
          IF Goal # <<>> /\ cb > CLUSBUF THEN -4
          ELSE IF Goal \in DOMAIN vol.tree THEN Smaller(call.size, p)
          ELSE IF through THEN -2 ELSE 0
    BY OutcomeIs
  <2> HIDE DEF p, through, cb
  <2>2. Goal \in DOMAIN vol.tree /\ Outcome(vol, call) = Smaller(call.size, p)
    BY <2>1
  <2> QED
    BY <2>2 DEF p, cb
<1>2. c \in Seq(Nat) /\ n \in Nat /\ cb \in Nat /\ cb > 0 /\ call.size \in Nat
  BY <1>1, AtEnd
<1>3. DOMAIN c = 1 .. n
  BY <1>2
<1>4. \A k \in 1 .. n : Contents[c[k]] \in Seq(Chars) /\ Len(Contents[c[k]]) = cb
  <2>1. vol \in Consistent /\ Outcome(vol, KmainRead) > 0
    BY DEF Given
  <2>2. vol.tree[Means[KmainRead.path]].chain = c
    BY DEF Chain, Goal
  <2> HIDE DEF c
  <2>3. \A k \in DOMAIN c : Contents[c[k]] \in Seq(Chars) /\ Len(Contents[c[k]]) = cb
    BY <2>1, <2>2, ContentsAssumption, Zenon DEF Chars
  <2> QED
    BY <1>3, <2>3
<1> DEFINE w == [k \in 1 .. n |-> Contents[c[k]]]
<1>5. Pieces = w
  BY <1>3 DEF Pieces
<1>6. w \in Seq(Seq(Chars)) /\ Len(w) = n /\ \A k \in 1 .. n : w[k] = Contents[c[k]]
  <2> HIDE DEF c, n
  <2>1. w \in Seq(Seq(Chars))
    BY <1>2, <1>4, IsASeq
  <2>2. DOMAIN w = 1 .. n
    BY Zenon
  <2>3. Len(w) = n
    BY <1>2, <2>1, <2>2, LenProperties
  <2> QED
    BY <2>1, <2>3
<1> HIDE DEF c, n, cb, w
<1>7. \A k \in 1 .. Len(w) : Len(w[k]) = cb
  BY <1>4, <1>6
<1>8. FlattenSeq(w) \in Seq(Chars) /\ Len(FlattenSeq(w)) = n * cb
  <2>1. PICK g \in [0 .. n -> Seq(Chars)] : Flattens(g, w)
    BY <1>6, Flattened
  <2>2. g[0] = <<>> /\ FlattenSeq(w) = g[n] /\ \A k \in 1 .. n : g[k] = g[k - 1] \o w[k]
    BY <1>6, <2>1 DEF Flattens
  <2>3. Piled(Chars, cb, n, w, g)
    BY <1>4, <1>6, <2>2 DEF Piled
  <2>4. Even(cb, n, g)
    BY <1>2, <2>3, EvenPieces
  <2> QED
    BY <1>2, <2>2, <2>4 DEF Even
<1> QED
  BY <1>1, <1>2, <1>5, <1>6, <1>7, <1>8 DEF c, n, cb

\* The bytes that kmain has been given are the first of the file.
LEMMA BytesAre ==
  ASSUME Given, Sized, pc = "idle", call = KmainRead, ret > 0
  PROVE  /\ Outcome(vol, call) > 0 /\ total \in 0 .. Outcome(vol, call)
         /\ Bytes(copied) = SubSeq(FlattenSeq(Pieces), 1, total)
         /\ ~ioerr => total = Outcome(vol, call)
<1> DEFINE len == Len(copied)
           cb == ClusterBytes(vol)
           size == call.size
           c == Chain(Goal)
           n == Len(c)
           d == Delivery(vol, call)
<1>0. /\ call \in Requests /\ size \in Nat /\ ret \in Int /\ total \in Nat /\ cb \in Nat /\ cb > 0
      /\ fs.bpc = cb /\ CLUSBUF \in Nat /\ Outcome(vol, call) \in Int
      /\ (call = NoCall => Outcome(vol, call) <= 0)
  BY AtEnd
<1>1. ret = total /\ total > 0 /\ copied # <<>> /\ copied \in Seq(Chunk) /\ len \in Nat /\ len >= 1
  <2>1. ret = total /\ copied \in Seq(Chunk) /\ (copied = <<>> => total = 0)
    BY DEF Given, IInv, Progress, NotYet, TypeOK, TilesBuffer
  <2>2. len \in Nat /\ (len = 0 <=> copied = <<>>)
    BY <2>1
  <2>3. total > 0
    BY <2>1
  <2> QED
    BY <2>1, <2>2, <2>3
<1>2. \A k \in 1 .. len : k \in DOMAIN d /\ copied[k] = d[k]
  BY DEF Given, Exact, DeliversPrefix
<1>3. Goal \in DOMAIN vol.tree
  <2> SUFFICES ASSUME Goal \notin DOMAIN vol.tree PROVE FALSE
    OBVIOUS
  <2> DEFINE top == (size + cb - 1) \div cb
  <2>1. top \in Nat
    BY <1>0, Ceiling
  <2>2. DOMAIN d = 1 .. Smaller(Len(<<>>), top)
    <3>1. Means[call.path] \notin DOMAIN vol.tree
      BY DEF Goal
    <3> QED
      BY <3>1, Zenon DEF Delivery
  <2> HIDE DEF top, d
  <2>3. Smaller(Len(<<>>), top) = 0
    BY <2>1 DEF Smaller
  <2>4. 1 \in DOMAIN d
    BY <1>1, <1>2
  <2> QED
    BY <2>2, <2>3, <2>4
<1>4. c \in Seq(Nat) /\ n \in Nat /\ n * cb \in Nat
  BY <1>3, AtEnd
<1> HIDE DEF len
<1>5. ASSUME NEW k \in 1 .. len
      PROVE  /\ k \in 1 .. n /\ (k - 1) * cb < size /\ (k - 1) * cb \in Nat
             /\ copied[k].at = (k - 1) * cb /\ copied[k].n = Smaller(cb, size - (k - 1) * cb)
             /\ copied[k].clus = c[k]
  <2>1. k - 1 \in Nat /\ (k - 1) + 1 = k /\ k >= 1
    BY <1>1
  <2>2. k <= n /\ (k - 1) * cb < size
    <3>1. (k - 1) + 1 \in DOMAIN d
      BY <1>2, <2>1
    <3>2. \A i \in Nat : i + 1 \in DOMAIN d <=> i + 1 <= n /\ i * cb < size
      BY <1>0, <1>3, DeliveryIs
    <3> HIDE DEF d, n, cb
    <3>3. (k - 1) + 1 <= n /\ (k - 1) * cb < size
      BY <2>1, <3>1, <3>2
    <3> QED
      BY <2>1, <3>3
  <2>3. d[k] = [at |-> (k - 1) * cb, n |-> Smaller(cb, size - (k - 1) * cb), clus |-> c[k],
                lba |-> DataStart(vol) + (c[k] - 2) * vol.bpb.spc]
    BY <1>0, <1>2, <1>3, DeliveryIs
  <2>4. copied[k] = d[k]
    BY <1>2
  <2> DEFINE j == (k - 1) * cb
  <2>5. j \in Nat
    <3>1. \A x, y \in Nat : x * y \in Nat
      OBVIOUS
    <3> QED
      BY <1>0, <2>1, <3>1
  <2> HIDE DEF j, d, cb, c, size
  <2>6. copied[k].at = j /\ copied[k].n = Smaller(cb, size - j) /\ copied[k].clus = c[k]
    BY <2>3, <2>4 DEF j
  <2>7. k \in 1 .. n
    BY <1>4, <2>1, <2>2 DEF c
  <2> QED
    BY <2>2, <2>5, <2>6, <2>7 DEF j, cb
<1>6. ~(Goal # <<>> /\ cb > CLUSBUF)
  BY <1>0, <1>1 DEF Sized
<1>7. Outcome(vol, call) = Smaller(size, n * cb)
  BY <1>3, <1>6, OutcomeIs, Zenon
<1>8. len * cb \in Nat /\ len * cb <= n * cb /\ len <= n /\ cb <= n * cb /\ size > 0
      /\ (len - 1) * cb + cb = len * cb
  <2>1. len \in 1 .. len /\ 1 \in 1 .. len
    BY <1>1 DEF len
  <2>2. len <= n /\ len \in Nat /\ len >= 1 /\ n >= 1
    BY <1>1, <1>4, <1>5, <2>1 DEF len
  <2>3. 0 * cb < size
    BY <1>5, <2>1
  <2>4. \A x, y, z \in Nat : x <= y => x * z <= y * z /\ x * z \in Nat
    OBVIOUS
  <2>5. (len - 1) * cb + cb = len * cb /\ 1 * cb = cb /\ 0 * cb = 0
    <3> HIDE DEF cb
    <3> QED
      BY <1>0, <2>2 DEF cb
  <2>6. len * cb <= n * cb /\ len * cb \in Nat /\ 1 * cb <= n * cb
    BY <1>0, <1>4, <2>2, <2>4
  <2> HIDE DEF cb, n, size
  <2> QED
    BY <2>2, <2>3, <2>5, <2>6
<1>9. total = Smaller(len * cb, size)
  <2>1. total = copied[len].at + copied[len].n
    BY <1>1 DEF Given, IInv, Progress, TilesBuffer, len
  <2>2. len \in 1 .. len
    BY <1>1 DEF len
  <2> DEFINE j == (len - 1) * cb
             m == len * cb
  <2>3. j \in Nat /\ j < size /\ copied[len].at = j /\ copied[len].n = Smaller(cb, size - j)
    BY <1>5, <2>2
  <2>4. m = j + cb
    BY <1>8
  <2>5. size \in Nat /\ cb \in Nat
    BY <1>0
  <2> HIDE DEF j, m, cb, size
  <2>6. total = Smaller(m, size)
    BY <2>1, <2>3, <2>4, <2>5 DEF Smaller
  <2> QED
    BY <2>6 DEF m
<1>10. Outcome(vol, call) > 0 /\ total \in 0 .. Outcome(vol, call)
  <2> DEFINE j == n * cb
             m == len * cb
             o == Outcome(vol, call)
  <2>1. o = Smaller(size, j) /\ total = Smaller(m, size) /\ m <= j /\ m \in Nat /\ j \in Nat
        /\ cb <= j /\ cb > 0 /\ size > 0 /\ size \in Nat /\ cb \in Nat
    BY <1>0, <1>4, <1>7, <1>8, <1>9
  <2> HIDE DEF o, j, m, cb, size
  <2>2. o > 0 /\ total \in 0 .. o
    BY <2>1 DEF Smaller
  <2> QED
    BY <2>2 DEF o
<1>11. /\ Pieces \in Seq(Seq(Chars)) /\ Len(Pieces) = n
       /\ \A k \in 1 .. Len(Pieces) : Len(Pieces[k]) = cb /\ Pieces[k] = Contents[c[k]]
  BY <1>10, FileIs
<1> DEFINE piece(k) == SubSeq(Contents[copied[k].clus], 1, copied[k].n)
           cut == [k \in 1 .. len |-> piece(k)]
<1>12. Bytes(copied) = FlattenSeq(cut)
  <2>1. DOMAIN copied = 1 .. len
    BY <1>1 DEF len
  <2> QED
    BY <2>1, Zenon DEF Bytes
<1> HIDE DEF d, c, n, cb, size
<1>13. ASSUME NEW k \in 1 .. len
       PROVE  piece(k) = SubSeq(Pieces[k], 1, Smaller(cb, size - (k - 1) * cb)) /\ piece(k) \in Seq(Chars)
  <2> DEFINE m == Smaller(cb, size - (k - 1) * cb)
             j == (k - 1) * cb
  <2>1. k \in 1 .. Len(Pieces) /\ Pieces[k] = Contents[copied[k].clus] /\ copied[k].n = m
    BY <1>5, <1>11
  <2>2. Pieces[k] \in Seq(Chars) /\ Len(Pieces[k]) = cb
    BY <1>11, <2>1, ElementOfSeq
  <2>3. m \in 0 .. cb
    <3>1. j \in Nat /\ j < size /\ size \in Nat /\ cb \in Nat /\ m = Smaller(cb, size - j)
      BY <1>0, <1>5 DEF size, cb
    <3> HIDE DEF j, m
    <3> QED
      BY <3>1 DEF Smaller
  <2> HIDE DEF m
  <2>4. SubSeq(Pieces[k], 1, m) \in Seq(Chars)
    BY <2>2, <2>3, Beginnings
  <2> QED
    BY <2>1, <2>4 DEF m
<1>14. cut \in Seq(Seq(Chars)) /\ Len(cut) = len /\ \A k \in 1 .. len : cut[k] = piece(k)
  <2> HIDE DEF piece
  <2>0. len \in Nat
    BY <1>1 DEF len
  <2>1. cut \in Seq(Seq(Chars))
    BY <1>13, <2>0, IsASeq
  <2>2. DOMAIN cut = 1 .. len
    BY Zenon
  <2>3. Len(cut) = len
    BY <2>0, <2>1, <2>2, LenProperties
  <2> QED
    BY <2>1, <2>3
<1> HIDE DEF cut, piece
<1>15. FlattenSeq(cut) = SubSeq(FlattenSeq(Pieces), 1, Smaller(Len(cut) * cb, size))
  <2>1. /\ cb \in Nat /\ cb > 0 /\ size \in Nat
        /\ \A k \in 1 .. Len(Pieces) : Len(Pieces[k]) = cb
        /\ Len(cut) <= Len(Pieces)
    BY <1>0, <1>8, <1>11, <1>14 DEF cb, size
  <2>2. \A k \in 1 .. Len(cut) :
          /\ (k - 1) * cb < size
          /\ cut[k] = SubSeq(Pieces[k], 1, Smaller(cb, size - (k - 1) * cb))
    BY <1>5, <1>13, <1>14
  <2>3. Cutting(Chars, cb, size, Pieces, cut)
    BY <1>11, <1>14, <2>1, <2>2 DEF Cutting
  <2> QED
    BY <2>1, <2>3, CutPieces DEF Reassembled
<1>16. ~ioerr => total = Outcome(vol, call)
  <2> SUFFICES ASSUME ~ioerr PROVE total = Outcome(vol, call)
    OBVIOUS
  <2>1. call # NoCall
    BY <1>0, <1>10
  <2> QED
    BY <1>1, <2>1 DEF Given, Exact, ReadExact
<1> QED
  BY <1>9, <1>10, <1>12, <1>14, <1>15, <1>16

\* What kmain prints is the file, or a beginning of it after a failure.
LEMMA PrintedIs ==
  ASSUME Given, Sized, pc = "idle", call = KmainRead
  PROVE  /\ Printed \in Seq(Printable) /\ FileText \in Seq(Printable)
         /\ \E n \in 0 .. Len(FileText) :
              (n = Len(FileText) \/ ioerr) /\ Printed = SubSeq(FileText, 1, n)
<1> DEFINE o == Outcome(vol, call)
           bytes == FlattenSeq(Pieces)
           s == SubSeq(bytes, 1, o)
<1>1. o \in Int /\ ret \in Int /\ (call = NoCall => o <= 0)
  BY AtEnd
<1>2. FileText = IF o <= 0 THEN <<>> ELSE StringOf(s)
  BY FileTextIs
<1>3. ASSUME o > 0 PROVE bytes \in Seq(Chars) /\ o \in 0 .. Len(bytes) /\ s \in Seq(Chars) /\ Len(s) = o
  <2> DEFINE p == Len(Chain(Goal)) * ClusterBytes(vol)
  <2>1. bytes \in Seq(Chars) /\ Len(bytes) = p /\ o = Smaller(call.size, p)
    BY <1>3, FileIs
  <2>2. call.size \in Nat /\ p \in Nat
    BY <1>3, FileIs, AtEnd
  <2> HIDE DEF bytes, o, p
  <2>3. o \in 0 .. Len(bytes)
    BY <1>1, <1>3, <2>1, <2>2 DEF Smaller
  <2> QED
    BY <2>1, <2>3, Beginnings
<1> HIDE DEF o, bytes, s
<1>4. FileText \in Seq(Printable)
  <2>1. CASE o <= 0
    BY <1>2, <2>1, EmptySeq
  <2>2. CASE ~(o <= 0)
    BY <1>1, <1>2, <1>3, <2>2, StringPrintable DEF Chars
  <2> QED
    BY <2>1, <2>2
<1>5. Len(FileText) \in Nat /\ SubSeq(FileText, 1, 0) = <<>> /\ SubSeq(FileText, 1, Len(FileText)) = FileText
      /\ 0 \in 0 .. Len(FileText) /\ Len(FileText) \in 0 .. Len(FileText)
  <2> DEFINE t == FileText
  <2> HIDE DEF t
  <2>1. t \in Seq(Printable)
    BY <1>4 DEF t
  <2>2. Len(t) \in Nat
    BY <2>1
  <2>3. 0 \in 0 .. Len(t) /\ Len(t) \in 0 .. Len(t)
    BY <2>2
  <2>4. SubSeq(t, 1, 0) = <<>> /\ SubSeq(t, 1, Len(t)) = t
    BY <2>1, <2>3, Beginnings
  <2> QED
    BY <2>2, <2>3, <2>4 DEF t
<1>6. CASE ret <= 0
  <2>1. Printed = <<>> /\ Printed \in Seq(Printable)
    BY <1>6, EmptySeq DEF Printed
  <2>2. Len(FileText) = 0 \/ ioerr
    <3> SUFFICES ASSUME ~ioerr PROVE Len(FileText) = 0
      OBVIOUS
    <3>1. call # NoCall => ret = o
      BY DEF Given, Exact, ReadExact, o
    <3>2. o <= 0
      BY <1>1, <1>6, <3>1
    <3> QED
      BY <1>2, <3>2, EmptySeq
  <2> QED
    BY <1>4, <1>5, <2>1, <2>2
<1>7. CASE ~(ret <= 0)
  <2>1. ret > 0
    BY <1>1, <1>7
  <2>2. o > 0 /\ total \in 0 .. o /\ Bytes(copied) = SubSeq(bytes, 1, total) /\ (~ioerr => total = o)
    BY <2>1, BytesAre DEF o, bytes
  <2>3. bytes \in Seq(Chars) /\ o \in 0 .. Len(bytes) /\ s \in Seq(Chars) /\ Len(s) = o
    BY <1>3, <2>2
  <2>4. Bytes(copied) = SubSeq(s, 1, total)
    BY <2>2, <2>3, Beginnings DEF s
  <2>5. FileText = StringOf(s) /\ Printed = StringOf(Bytes(copied))
    <3>1. ~(o <= 0)
      BY <1>1, <2>2
    <3> QED
      BY <1>2, <1>7, <3>1 DEF Printed
  <2>6. PICK n \in 0 .. Len(StringOf(s)) : StringOf(SubSeq(s, 1, total)) = SubSeq(StringOf(s), 1, n)
    BY <2>2, <2>3, StringBegins
  <2>7. CASE ioerr
    <3>1. n \in 0 .. Len(FileText) /\ Printed = SubSeq(FileText, 1, n)
      BY <2>4, <2>5, <2>6
    <3>2. SubSeq(FileText, 1, n) \in Seq(Printable)
      BY <1>4, <3>1, Beginnings
    <3> QED
      BY <1>4, <2>7, <3>1, <3>2
  <2>8. CASE ~ioerr
    <3>1. SubSeq(s, 1, total) = s
      BY <2>2, <2>3, <2>8, Beginnings
    <3>2. Printed = FileText
      BY <2>4, <2>5, <3>1
    <3> QED
      BY <1>4, <1>5, <3>2
  <2> QED
    BY <2>7, <2>8
<1> QED
  BY <1>6, <1>7

\* The beginning of a text that the screen has room for fits too.
LEMMA PrefixFits ==
  ASSUME NEW S, NEW str \in Seq(S), NEW n \in 0 .. Len(str), NEW y, TextFits(str, y)
  PROVE  TextFits(SubSeq(str, 1, n), y)
<1> DEFINE s == SubSeq(str, 1, n)
<1>1. n \in Nat /\ Len(str) \in Nat /\ n <= Len(str) /\ DOMAIN str = 1 .. Len(str)
  BY LenProperties
<1>2. DOMAIN s = 1 .. n /\ \A m \in 1 .. n : s[m] = str[m]
  BY SubSeqProperties
<1> HIDE DEF s
<1>3. ASSUME NEW m \in Glyphs(s)
      PROVE  m \in Glyphs(str) /\ Row(s, m) = Row(str, m) /\ Column(s, m) = Column(str, m)
  <2>1. m \in 1 .. n /\ s[m] # NL
    BY <1>2 DEF Glyphs
  <2>2. m \in Glyphs(str)
    BY <1>1, <1>2, <2>1 DEF Glyphs
  <2>3. \A k \in 1 .. m - 1 : s[k] = str[k] /\ \A i \in k .. m - 1 : s[i] = str[i]
    BY <1>1, <1>2, <2>1
  <2>4. {k \in 1 .. m - 1 : s[k] = NL} = {k \in 1 .. m - 1 : str[k] = NL}
    BY <2>3
  <2>5. {k \in 1 .. m - 1 : \A i \in k .. m - 1 : s[i] # NL}
        = {k \in 1 .. m - 1 : \A i \in k .. m - 1 : str[i] # NL}
    BY <2>3
  <2> QED
    BY <2>2, <2>4, <2>5, Zenon DEF Row, Column
<1> QED
  BY <1>3, Zenon DEF TextFits, Left, Top, s

\* The canvas, when kmain has drawn its last, and the bytes it was given.
LEMMA ShownAtEnd == Canvas /\ EInv /\ Sized => ShowsFile
<1> SUFFICES ASSUME Canvas, EInv, Sized, vol \in Consistent, at = "gates",
                    TextFits(Hello, HELLO_ROW), TextFits(FileText, TEXT_ROW)
             PROVE  \E n \in 0 .. Len(FileText) :
                      (n = Len(FileText) \/ ioerr) /\ Pictures(SubSeq(FileText, 1, n))
  BY Zenon DEF ShowsFile
<1>1. pc = "idle" /\ call = KmainRead /\ FileShown /\ IsDisplay(fb)
  BY DEF Canvas
<1>2. Given
  BY VolumesAssumption, SizesAssumption, RequestsAssumption, MeansAssumption, ReadOutcomesAssumption
     DEF EInv, Given, Constants
<1>3. Printed \in Seq(Printable) /\ FileText \in Seq(Printable)
  BY <1>1, <1>2, PrintedIs
<1>4. PICK n \in 0 .. Len(FileText) : (n = Len(FileText) \/ ioerr) /\ Printed = SubSeq(FileText, 1, n)
  BY <1>1, <1>2, PrintedIs
<1>5. Fits(fb, Hello, HELLO_ROW) /\ Fits(fb, Printed, TEXT_ROW)
  <2>1. TextFits(Printed, TEXT_ROW)
    BY <1>3, <1>4, PrefixFits
  <2> QED
    BY <2>1, Zenon DEF TextFits, Fits
<1>6. Pictures(Printed)
  <2>1. CASE ret <= 0
    <3>1. Printed = <<>> /\ screen = Greeted(fb)
      BY <1>1, <2>1, Zenon DEF Printed, FileShown
    <3> QED
      BY <1>1, <1>5, <3>1, HelloDrawn
  <2>2. CASE ~(ret <= 0)
    <3>1. Printed = StringOf(Bytes(copied))
      BY <2>2, Zenon DEF Printed
    <3>2. screen = Drawn(fb, Greeted(fb), print_string(Printed, COLUMN, TEXT_ROW, WHITE, 0))
      BY <1>1, <2>2, <3>1, Zenon DEF FileShown
    <3> QED
      BY <1>1, <1>3, <1>5, <3>2, BothDrawn
  <2> QED
    BY <2>1, <2>2
<1> QED
  BY <1>4, <1>6

\* From the disk to the screen: when kmain has drawn its last, the greeting
\* and the file that the volume holds stand on the screen, cell by cell, and
\* have been sent over the serial line, in order; after a failed disk read it
\* is a beginning of the file.
THEOREM FileShownWhole == BootSpec => []ShowsFile
<1>1. Init => EInv /\ Sized
  BY EInvHolds, SizedHolds
<1>2. EInv /\ Sized /\ [Next]_vars => (EInv /\ Sized)'
  BY EInvHolds, SizedHolds
<1>3. BootSpec => [](EInv /\ Sized)
  BY <1>1, <1>2, BootImplementsFat32, PTL
<1>4. BootSpec => []Canvas
  BY CanvasHolds, PTL DEF BootSpec
<1> QED
  BY <1>3, <1>4, ShownAtEnd, PTL
=============================================================================
