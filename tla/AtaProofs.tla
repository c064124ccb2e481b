----------------------------- MODULE AtaProofs -----------------------------
(***************************************************************************)
(* Theorems about Ata, for all media, calls and widths of the registers,   *)
(* and whatever commands fail: a read delivers the sectors it was asked    *)
(* for, a write puts its sectors where it was told and nowhere else.       *)
(*                                                                         *)
(* They are about calls the registers can express: from one sector to as   *)
(* many as the count register has values, at addresses the LBA bits reach  *)
(* (for a master, those without the bits of the drive register).           *)
(***************************************************************************)
EXTENDS Ata, SequenceTheorems, TLAPS

Moves(r) == r.kind \in {"read", "write"}
Expressible ==
  \A r \in Requests : Moves(r) =>
    /\ r.count \in 1 .. COUNT_REG
    /\ r.lba \div (BYTE * BYTE * BYTE) < IF r.dev = 0 THEN 1 ELSE HEADS

\* A sequence of whatever it contains; a record with the fields of act.
IsSequence(s) == s \in Seq({s[j] : j \in DOMAIN s})
IsAct(a) == a = [kind |-> a.kind, dev |-> a.dev, lba |-> a.lba, left |-> a.left, data |-> a.data]
IsMedia(m) == m = [d \in DOMAIN m |-> [s \in DOMAIN m[d] |-> m[d][s]]]
Registers ==
  [drive : {0, 1}, head : 0 .. HEADS - 1, cnt : 0 .. COUNT_REG - 1,
   low : 0 .. BYTE - 1, mid : 0 .. BYTE - 1, high : 0 .. BYTE - 1]
----------------------------------------------------------------------------
(***************************************************************************)
(* The invariant.                                                          *)
(***************************************************************************)
Moving == pc \in {"first", "poll", "transfer"}
Quiet  == phase \in {"ready", "err"}
Late   == phase = "busy" /\ act.data # <<>>

Types ==
  /\ pc \in {"idle", "regs", "first", "poll", "transfer", "wait"}
  /\ op \in Requests \cup {NoOp} /\ k \in 0 .. 5 /\ i \in Nat
  /\ ret \in {"ok", "error"} /\ regs \in Registers
  /\ phase \in {"ready", "busy", "drq", "err"}
Command ==
  /\ IsAct(act) /\ act.left \in 0 .. COUNT_REG /\ act.lba \in Int
  /\ act.data = <<>> \/ act.data = <<act.data[1]>>
Buffer == IsSequence(buf) /\ Len(buf) <= i
History == dirty = (op.kind = "write") /\ (op.kind = "write" => wr = [req |-> op, n |-> i])

\* What the driver takes for granted, and what follows: the drive listens
\* when a command block is written, and a drive that works is there.
Listening ==
  /\ Moves(op) => op.dev \in DOMAIN disk
  /\ pc = "regs" => Quiet /\ i = 0 /\ buf = <<>> /\ op.kind # "wait"
  /\ ~Quiet => Present
  /\ pc = "transfer" => phase = "drq"
  /\ Moving => op.kind # "wait"
  /\ pc = "wait" => ~Moves(op) /\ (Quiet \/ (Late /\ act.left = 1))
  /\ pc = "idle" /\ op.kind # "write" => Quiet

\* The registers written so far.
Written ==
  pc = "regs" /\ Moves(op) =>
    /\ k >= 1 => regs.drive = op.dev /\ regs.head = HeadBits(op)
    /\ k >= 2 => regs.cnt = op.count % COUNT_REG
    /\ k >= 3 => regs.low = op.lba % BYTE
    /\ k >= 4 => regs.mid = (op.lba \div BYTE) % BYTE
    /\ k >= 5 => regs.high = (op.lba \div (BYTE * BYTE)) % BYTE

Probes ==
  Moving /\ Identifies /\ ~Quiet => act.kind = "identify" /\ act.left = 1 /\ act.data = <<>>

\* The command in progress and the loop of the driver are at the same sector.
Reads ==
  /\ op.kind = "read" /\ Moving =>
       /\ i < op.count /\ Len(buf) = i /\ phase # "ready"
       /\ ~Quiet => /\ act.kind = "read" /\ act.dev = op.dev /\ act.lba = op.lba + i
                    /\ act.left = op.count - i /\ act.data = <<>>
       /\ phase = "drq" => act.lba \in DOMAIN disk[act.dev]
  /\ op.kind = "read" /\ pc = "idle" /\ ret = "ok" => Len(buf) = op.count

Writes ==
  op.kind = "write" /\ pc # "regs" =>
    /\ Moving => i < op.count
    /\ pc = "idle" => phase = "err" \/ i = op.count
    /\ phase = "ready" => i = op.count
    /\ ~Quiet => act.kind = "write" /\ act.dev = op.dev
    /\ phase = "drq" \/ (phase = "busy" /\ act.data = <<>>) =>
         /\ i < op.count /\ act.lba = op.lba + i /\ act.left = op.count - i /\ act.data = <<>>
    /\ phase = "busy" /\ act.data = <<>> => i = 0
    /\ Late => i >= 1 /\ i <= op.count /\ act.left = op.count - i + 1

\* A sector that is stored late belongs to the last write.
LateSector ==
  Late =>
    /\ wr.req.kind = "write" /\ act.dev = wr.req.dev /\ wr.req.lba \in Nat /\ wr.n \in Nat \ {0}
    /\ act.lba = wr.req.lba + (wr.n - 1) /\ act.data = <<wr.req.data[wr.n]>>

\* What has been read, and what has been stored.
Delivered ==
  op.kind = "read" => \A j \in 1 .. Len(buf) : buf[j] = disk[op.dev][op.lba + j - 1]
Stored ==
  op.kind = "write" /\ phase # "err" =>
    \A j \in 1 .. i : disk[op.dev][op.lba + j - 1] = op.data[j] \/ (Late /\ j = i)

Flow == Types /\ Command /\ Buffer /\ History /\ Listening
Inv == Flow /\ Written /\ Probes /\ Reads /\ Writes /\ LateSector /\ Delivered /\ Stored
            /\ IsMedia(disk)
----------------------------------------------------------------------------
(***************************************************************************)
(* Sequences, requests, and the parts of an address.                       *)
(***************************************************************************)

\* A sequence that has grown by a word.
LEMMA Appended ==
  ASSUME NEW s, IsSequence(s), NEW e
  PROVE  /\ IsSequence(Append(s, e)) /\ Len(Append(s, e)) = Len(s) + 1 /\ Len(s) \in Nat
         /\ Append(s, e)[Len(s) + 1] = e
         /\ \A j \in 1 .. Len(s) : Append(s, e)[j] = s[j]
<1> DEFINE S == {s[j] : j \in DOMAIN s} \cup {e}
           t == Append(s, e)
<1>1. s \in Seq(S) /\ e \in S
  <2>1. s \in Seq({s[j] : j \in DOMAIN s})
    BY DEF IsSequence
  <2>2. Len(s) \in Nat /\ DOMAIN s = 1 .. Len(s) /\ s = [j \in 1 .. Len(s) |-> s[j]]
    BY <2>1, LenProperties
  <2>3. \A j \in 1 .. Len(s) : s[j] \in S
    BY <2>2
  <2> QED BY <2>2, <2>3, IsASeq
<1> HIDE DEF S
<1>2. /\ t \in Seq(S) /\ Len(t) = Len(s) + 1 /\ Len(s) \in Nat
      /\ t[Len(s) + 1] = e /\ \A j \in 1 .. Len(s) : t[j] = s[j]
  BY <1>1, AppendProperties, LenProperties
<1>3. IsSequence(t)
  <2>1. Len(t) \in Nat /\ DOMAIN t = 1 .. Len(t) /\ t = [j \in 1 .. Len(t) |-> t[j]]
    BY <1>2, LenProperties
  <2> HIDE DEF t
  <2>2. \A j \in 1 .. Len(t) : t[j] \in {t[m] : m \in DOMAIN t}
    BY <2>1
  <2> QED BY <2>1, <2>2, IsASeq DEF IsSequence
<1> QED BY <1>2, <1>3

\* The fields of the call being served.
LEMMA Calls ==
  ASSUME NEW r \in Requests \cup {NoOp}
  PROVE  /\ r.kind \in {"read", "write", "identify", "init", "wait"}
         /\ r.dev \in {0, 1} /\ r.lba \in Nat /\ r.count \in Nat
BY RequestsAssumption DEF NoOp

\* Quotient and remainder.
LEMMA DivMod ==
  \A x \in Int : \A d \in Nat \ {0} : x = d * (x \div d) + (x % d) /\ x \div d \in Int
                                      /\ x % d \in 0 .. d - 1
OBVIOUS

\* An address shifted twice is the address shifted by the sum.
LEMMA NestedDiv ==
  ASSUME NEW x \in Nat, NEW a \in Nat \ {0}, NEW b \in Nat \ {0}
  PROVE  x \div (a * b) = (x \div a) \div b
<1> DEFINE q == x \div a
           p == q \div b
           s == q % b
           r == x % a
           t == a * s + r
<1>1. x \in Int /\ x = a * q + r /\ q \in Int /\ r \in 0 .. a - 1
  BY DivMod
<1>2. q = b * p + s /\ p \in Int /\ s \in 0 .. b - 1
  BY <1>1, DivMod
<1> HIDE DEF q, p, s, r
<1>3. a * b \in Nat \ {0}
  OBVIOUS
<1>4. t \in Int /\ 0 <= t /\ t < a * b
  <2>1. \A m \in 0 .. b - 1 : a * m \in Nat /\ a * m <= a * (b - 1)
    OBVIOUS
  <2>2. a * (b - 1) = a * b - a
    OBVIOUS
  <2> DEFINE u == a * s
             ab == a * b
  <2>3. u \in Nat /\ u <= ab - a /\ ab \in Nat
    BY <1>2, <1>3, <2>1, <2>2
  <2> HIDE DEF u, ab
  <2>4. u + r \in Int /\ 0 <= u + r /\ u + r < ab
    BY <1>1, <2>3
  <2> QED BY <2>4 DEF u, ab
<1>5. x = (a * b) * p + t
  <2>1. \A m, l \in Int : a * (b * m + l) = (a * b) * m + a * l
    OBVIOUS
  <2>2. a * q = (a * b) * p + a * s
    BY <1>2, <2>1
  <2> DEFINE u == a * s
             w == (a * b) * p
             aq == a * q
  <2>3. u \in Int /\ w \in Int /\ aq \in Int
    BY <1>1, <1>2
  <2> HIDE DEF u, w, aq
  <2>4. aq + r = w + (u + r)
    BY <1>1, <2>2, <2>3 DEF u, w, aq
  <2> QED BY <1>1, <2>4 DEF u, w, aq
<1>6. \A d \in Nat \ {0} : \A m, l \in Int : 0 <= l /\ l < d => (d * m + l) \div d = m
  OBVIOUS
<1> HIDE DEF t
<1>7. ((a * b) * p + t) \div (a * b) = p
  BY <1>2, <1>3, <1>4, <1>6
<1> QED BY <1>5, <1>7 DEF p, q

\* The four parts of an address, put together by the controller.
LEMMA Decoded ==
  ASSUME NEW x \in Nat
  PROVE  (x % BYTE) + BYTE * (((x \div BYTE) % BYTE) + BYTE * (((x \div (BYTE * BYTE)) % BYTE)
           + BYTE * (x \div (BYTE * BYTE * BYTE)))) = x
<1>1. BYTE \in Nat \ {0} /\ BYTE * BYTE \in Nat \ {0}
  BY RegisterAssumption
<1> DEFINE q == x \div BYTE
           p == q \div BYTE
           o == p \div BYTE
<1>2. q \in Int /\ x = BYTE * q + (x % BYTE) /\ x % BYTE \in Int
  BY <1>1, DivMod
<1>3. p \in Int /\ q = BYTE * p + (q % BYTE) /\ q % BYTE \in Int
  BY <1>1, <1>2, DivMod
<1>4. o \in Int /\ p = BYTE * o + (p % BYTE) /\ p % BYTE \in Int
  BY <1>1, <1>3, DivMod
<1>5. x \div (BYTE * BYTE) = p
  BY <1>1, NestedDiv, Zenon
<1>6. x \div (BYTE * BYTE * BYTE) = o
  <2>1. x \div ((BYTE * BYTE) * BYTE) = (x \div (BYTE * BYTE)) \div BYTE
    BY <1>1, NestedDiv, Zenon
  <2> QED BY <1>5, <2>1, Zenon
<1> HIDE DEF q, p, o
<1>7. ASSUME NEW n \in Int, NEW m \in Int, n = BYTE * m + (n % BYTE), n % BYTE \in Int
      PROVE  (n % BYTE) + BYTE * m = n
  <2> DEFINE u == BYTE * m
  <2>1. u \in Int
    BY <1>1, <1>7
  <2> HIDE DEF u
  <2>2. (n % BYTE) + u = n
    BY <1>7, <2>1 DEF u
  <2> QED BY <2>2 DEF u
<1>8. (p % BYTE) + BYTE * o = p
  BY <1>3, <1>4, <1>7
<1>9. (q % BYTE) + BYTE * p = q
  BY <1>2, <1>3, <1>7
<1>10. (x % BYTE) + BYTE * q = x
  BY <1>2, <1>7
<1> QED BY <1>5, <1>6, <1>8, <1>9, <1>10 DEF q

\* The command block addresses the sector the caller asked for.
LEMMA Addressed ==
  ASSUME Expressible, Types, Written, Moves(op), pc = "regs", k = 5, op # NoOp
  PROVE  DecodedLba = op.lba
<1>1. op \in Requests /\ op.lba \in Nat
  BY Calls DEF Types
<1> DEFINE head == op.lba \div (BYTE * BYTE * BYTE)
<1>2. head \in Nat
  <2>1. BYTE * BYTE * BYTE \in Nat \ {0}
    BY RegisterAssumption
  <2>2. \A d \in Nat \ {0} : \A x \in Nat : x \div d \in Nat
    OBVIOUS
  <2> QED BY <1>1, <2>1, <2>2
<1>3. head < IF op.dev = 0 THEN 1 ELSE HEADS
  BY <1>1 DEF Expressible
<1>4. regs.head = head
  <2>1. regs.head = IF op.dev = 0 THEN 0 ELSE head % HEADS
    BY DEF Written, HeadBits
  <2>2. \A x, d \in Nat : x < d => x % d = x
    OBVIOUS
  <2> HIDE DEF head
  <2> QED BY <1>2, <1>3, <2>1, <2>2, RegisterAssumption
<1>5. /\ regs.low = op.lba % BYTE /\ regs.mid = (op.lba \div BYTE) % BYTE
      /\ regs.high = (op.lba \div (BYTE * BYTE)) % BYTE
  BY DEF Written
<1> QED BY <1>1, <1>4, <1>5, Decoded DEF DecodedLba
----------------------------------------------------------------------------
(***************************************************************************)
(* The steps of the driver.                                                *)
(***************************************************************************)

\* Before the first call nothing has been asked of the drive.
LEMMA InitInv == Init /\ (\A m \in Disks : IsMedia(m)) => Inv
<1> SUFFICES ASSUME Init, \A m \in Disks : IsMedia(m) PROVE Inv
  OBVIOUS
<1>1. Types
  BY RegisterAssumption DEF Init, Types, Registers
<1>2. Command
  BY RegisterAssumption DEF Init, Command, IsAct, NoAct
<1>3. Buffer
  BY EmptySeq DEF Init, Buffer, IsSequence
<1> QED
  BY <1>1, <1>2, <1>3
     DEF Init, Inv, Flow, History, Listening, Written, Probes, Reads, Writes, LateSector,
         Delivered, Stored, NoOp, Moves, Moving, Quiet, Late

\* A call begins with a drive that listens.
LEMMA CallInv ==
  ASSUME Inv, NEW r \in Requests, Call(r)
  PROVE  Inv'
<1>1. /\ pc = "idle" /\ op' = r /\ k' = 0 /\ i' = 0 /\ buf' = <<>>
      /\ pc' = IF r.kind = "wait" THEN "wait" ELSE "regs"
      /\ dirty' = (r.kind = "write")
      /\ wr' = IF r.kind = "write" THEN [req |-> r, n |-> 0] ELSE wr
      /\ UNCHANGED <<ret, regs, phase, act, disk>>
  BY DEF Call, drive
<1>2. Moves(r) => r.dev \in DOMAIN disk
  BY DEF Call, MayCall, Moves
<1>3. r.kind # "wait" => Quiet
  BY DEF Call, MayCall, Inv, Flow, History, Listening
<1>4. Quiet \/ (Late /\ act.left = 1)
  <2>1. op.count \in Nat
    BY Calls DEF Inv, Flow, Types
  <2> QED BY <1>1, <2>1 DEF Inv, Flow, Types, Listening, Writes, Quiet, Late
<1>5. Types' /\ Command'
  BY <1>1 DEF Inv, Flow, Types, Command
<1>6. Buffer'
  BY <1>1, EmptySeq DEF Buffer, IsSequence
<1>7. History' /\ Listening'
  BY <1>1, <1>2, <1>3, <1>4
     DEF Inv, Flow, History, Listening, Moves, Moving, Quiet, Late, Present
<1>8. LateSector'
  BY <1>1, <1>3 DEF Inv, LateSector, Late, Quiet
<1>9. Written' /\ Probes' /\ Reads' /\ Writes' /\ Delivered' /\ Stored' /\ IsMedia(disk)'
  BY <1>1 DEF Inv, Written, Probes, Reads, Writes, Delivered, Stored, Moving, Moves
<1> QED BY <1>5, <1>6, <1>7, <1>8, <1>9 DEF Inv, Flow

\* Values that fit the registers.
LEMMA RegValues ==
  ASSUME NEW r \in Requests \cup {NoOp}
  PROVE  /\ RegValue(r, "drive") = r.dev /\ r.dev \in {0, 1} /\ HeadBits(r) \in 0 .. HEADS - 1
         /\ RegValue(r, "cnt") = r.count % COUNT_REG /\ r.count % COUNT_REG \in 0 .. COUNT_REG - 1
         /\ RegValue(r, "low") = r.lba % BYTE /\ r.lba % BYTE \in 0 .. BYTE - 1
         /\ RegValue(r, "mid") = (r.lba \div BYTE) % BYTE
         /\ (r.lba \div BYTE) % BYTE \in 0 .. BYTE - 1
         /\ RegValue(r, "high") = (r.lba \div (BYTE * BYTE)) % BYTE
         /\ (r.lba \div (BYTE * BYTE)) % BYTE \in 0 .. BYTE - 1
<1>1. r.dev \in {0, 1} /\ r.lba \in Int /\ r.count \in Int
  BY Calls
<1>2. BYTE \in Nat \ {0} /\ HEADS \in Nat \ {0} /\ COUNT_REG \in Nat \ {0}
      /\ BYTE * BYTE \in Nat \ {0} /\ BYTE * BYTE * BYTE \in Nat \ {0}
  BY RegisterAssumption
<1>3. \A x \in Int : \A d \in Nat \ {0} : x \div d \in Int /\ x % d \in 0 .. d - 1
  OBVIOUS
<1>4. HeadBits(r) \in 0 .. HEADS - 1
  <2>1. 0 \in 0 .. HEADS - 1
    BY <1>2
  <2>2. (r.lba \div (BYTE * BYTE * BYTE)) % HEADS \in 0 .. HEADS - 1
    BY <1>1, <1>2, <1>3, Zenon
  <2> QED BY <2>1, <2>2 DEF HeadBits
<1>5. r.count % COUNT_REG \in 0 .. COUNT_REG - 1 /\ r.lba % BYTE \in 0 .. BYTE - 1
      /\ (r.lba \div BYTE) % BYTE \in 0 .. BYTE - 1
      /\ (r.lba \div (BYTE * BYTE)) % BYTE \in 0 .. BYTE - 1
  BY <1>1, <1>2, <1>3, Zenon
<1>6. /\ RegValue(r, "drive") = r.dev
      /\ RegValue(r, "cnt") = r.count % COUNT_REG
      /\ RegValue(r, "low") = r.lba % BYTE
      /\ RegValue(r, "mid") = (r.lba \div BYTE) % BYTE
      /\ RegValue(r, "high") = (r.lba \div (BYTE * BYTE)) % BYTE
  BY DEF RegValue
<1> QED BY <1>1, <1>4, <1>5, <1>6

\* One outb to the command block of a drive that listens.
LEMMA OutRegInv ==
  ASSUME Inv, OutReg
  PROVE  Inv'
<1> DEFINE name == RegOrder[k + 1]
           val == IF Identifies /\ name # "drive" THEN 0 ELSE RegValue(op, name)
<1>1. /\ pc = "regs" /\ k \in 0 .. 4 /\ k' = k + 1 /\ Quiet
      /\ regs' = IF name = "drive"
                 THEN [regs EXCEPT !.drive = val, !.head = IF Identifies THEN 0 ELSE HeadBits(op)]
                 ELSE [regs EXCEPT ![name] = val]
      /\ phase' \in {"ready", phase}
      /\ UNCHANGED <<pc, op, i, buf, ret, dirty, wr, act, disk>>
  BY DEF OutReg, Inv, Flow, Types, Listening, Listens, Quiet, RegOrder
<1>2. /\ k = 0 => name = "drive"
      /\ k = 1 => name = "cnt"
      /\ k = 2 => name = "low"
      /\ k = 3 => name = "mid"
      /\ k = 4 => name = "high"
  BY DEF RegOrder
<1>3. Moves(op) => ~Identifies
  BY DEF Moves, Identifies
<1>4. op \in Requests \cup {NoOp} /\ regs \in Registers
  BY DEF Inv, Flow, Types
<1>5. 0 \in 0 .. HEADS - 1 /\ 0 \in 0 .. COUNT_REG - 1 /\ 0 \in 0 .. BYTE - 1
  BY RegisterAssumption
<1> HIDE DEF name
<1>6. regs' \in Registers
  <2>1. CASE k = 0
    BY <1>1, <1>2, <1>4, <1>5, <2>1, RegValues DEF Registers
  <2>2. CASE k = 1
    BY <1>1, <1>2, <1>4, <1>5, <2>2, RegValues DEF Registers
  <2>3. CASE k = 2
    BY <1>1, <1>2, <1>4, <1>5, <2>3, RegValues DEF Registers
  <2>4. CASE k = 3
    BY <1>1, <1>2, <1>4, <1>5, <2>4, RegValues DEF Registers
  <2>5. CASE k = 4
    BY <1>1, <1>2, <1>4, <1>5, <2>5, RegValues DEF Registers
  <2> QED BY <1>1, <2>1, <2>2, <2>3, <2>4, <2>5
<1>7. Quiet' /\ ~Late'
  BY <1>1 DEF Quiet, Late
<1>8. Flow'
  BY <1>1, <1>6, <1>7
     DEF Inv, Flow, Types, Command, Buffer, History, Listening, Moves, Moving, Quiet, Late
<1>9. Written'
  <2> SUFFICES ASSUME Moves(op)
               PROVE  /\ k' >= 1 => regs'.drive = op.dev /\ regs'.head = HeadBits(op)
                      /\ k' >= 2 => regs'.cnt = op.count % COUNT_REG
                      /\ k' >= 3 => regs'.low = op.lba % BYTE
                      /\ k' >= 4 => regs'.mid = (op.lba \div BYTE) % BYTE
                      /\ k' >= 5 => regs'.high = (op.lba \div (BYTE * BYTE)) % BYTE
    BY <1>1 DEF Written, Moves, HeadBits
  <2>0. /\ k >= 1 => regs.drive = op.dev /\ regs.head = HeadBits(op)
        /\ k >= 2 => regs.cnt = op.count % COUNT_REG
        /\ k >= 3 => regs.low = op.lba % BYTE
        /\ k >= 4 => regs.mid = (op.lba \div BYTE) % BYTE
        /\ k >= 5 => regs.high = (op.lba \div (BYTE * BYTE)) % BYTE
    BY <1>1 DEF Inv, Written
  <2>1. CASE k = 0
    BY <1>1, <1>2, <1>3, <1>4, <2>1, RegValues DEF Registers
  <2>2. CASE k = 1
    BY <1>1, <1>2, <1>3, <1>4, <2>0, <2>2, RegValues DEF Registers
  <2>3. CASE k = 2
    BY <1>1, <1>2, <1>3, <1>4, <2>0, <2>3, RegValues DEF Registers
  <2>4. CASE k = 3
    BY <1>1, <1>2, <1>3, <1>4, <2>0, <2>4, RegValues DEF Registers
  <2>5. CASE k = 4
    BY <1>1, <1>2, <1>3, <1>4, <2>0, <2>5, RegValues DEF Registers
  <2> QED BY <1>1, <2>1, <2>2, <2>3, <2>4, <2>5
<1>10. Probes' /\ Reads' /\ Writes' /\ LateSector' /\ IsMedia(disk)'
  BY <1>1, <1>7 DEF Inv, Probes, Reads, Writes, LateSector, Moving
<1>11. Delivered' /\ Stored'
  BY <1>1, <1>7 DEF Inv, Flow, Listening, Delivered, Stored, Late
<1> QED BY <1>8, <1>9, <1>10, <1>11 DEF Inv

\* The command addresses the sector, and the count, of the call.
LEMMA OutCommandInv ==
  ASSUME Expressible, Inv, OutCommand
  PROVE  Inv'
<1>1. /\ pc = "regs" /\ k = 5 /\ i = 0 /\ buf = <<>> /\ Quiet /\ op.kind # "wait"
      /\ UNCHANGED <<op, k, i, buf, dirty, wr, regs, disk>>
  BY DEF OutCommand, RegOrder, Inv, Flow, Listening
<1>2. op \in Requests /\ (Moves(op) <=> ~Identifies)
  BY <1>1, Calls DEF Inv, Flow, Types, NoOp, Moves, Identifies
<1>3. Moves(op) => op.count \in 1 .. COUNT_REG /\ op.lba \in Nat
  BY <1>2, Calls DEF Expressible
<1>4. pc' = "first" /\ ret' = ret
  BY <1>2, <1>3 DEF OutCommand
<1>5. Moves(op) => /\ Present /\ DecodedLba = op.lba /\ regs.drive = op.dev
                   /\ regs.cnt = op.count % COUNT_REG
  <2>1. Moves(op) => DecodedLba = op.lba
    BY <1>1, Addressed DEF Inv, Flow, NoOp
  <2> QED BY <1>1, <2>1 DEF Inv, Flow, Listening, Written, Present
<1>6. Moves(op) => (IF regs.cnt = 0 THEN COUNT_REG ELSE regs.cnt) = op.count
  <2>1. \A c \in Nat \ {0} : \A m \in 1 .. c : (IF m % c = 0 THEN c ELSE m % c) = m
    OBVIOUS
  <2> QED BY <1>3, <1>5, <2>1, RegisterAssumption
<1>7. DecodedLba \in Int /\ regs.cnt \in 0 .. COUNT_REG - 1
  <2>1. regs \in Registers
    BY DEF Inv, Flow, Types
  <2>2. /\ regs.low \in Int /\ regs.mid \in Int /\ regs.high \in Int /\ regs.head \in Int
        /\ BYTE \in Int /\ regs.cnt \in 0 .. COUNT_REG - 1
    BY <2>1, RegisterAssumption DEF Registers
  <2> QED BY <2>2 DEF DecodedLba
<1> DEFINE a == [kind |-> IF Identifies THEN "identify" ELSE op.kind,
                 dev  |-> regs.drive, lba |-> DecodedLba, data |-> <<>>,
                 left |-> IF Identifies THEN 1 ELSE IF regs.cnt = 0 THEN COUNT_REG ELSE regs.cnt]
<1>8. CASE ~Present
  <2>1. UNCHANGED <<phase, act>> /\ ~Moves(op)
    BY <1>5, <1>8 DEF OutCommand
  <2> QED
    BY <1>1, <1>4, <1>8, <2>1
       DEF Inv, Flow, Types, Command, Buffer, History, Listening, Written, Probes, Reads, Writes,
           LateSector, Delivered, Stored, Moves, Moving, Quiet, Late
<1>9. CASE Present
  <2>1. phase' = "busy" /\ act' = a
    BY <1>1, <1>9 DEF OutCommand, Listens, Quiet
  <2>2. /\ a.kind = (IF Identifies THEN "identify" ELSE op.kind) /\ a.dev = regs.drive
        /\ a.lba = DecodedLba /\ a.data = <<>>
        /\ a.left = IF Identifies THEN 1 ELSE IF regs.cnt = 0 THEN COUNT_REG ELSE regs.cnt
        /\ IsAct(a)
    BY DEF IsAct
  <2> HIDE DEF a
  <2>3. Command'
    <3>1. a.left \in 0 .. COUNT_REG
      BY <1>7, <2>2, RegisterAssumption
    <3> QED BY <1>7, <2>1, <2>2, <3>1 DEF Command
  <2>4. Types' /\ Buffer' /\ History' /\ Listening'
    BY <1>1, <1>4, <1>9, <2>1
       DEF Inv, Flow, Types, Buffer, History, Listening, Moves, Moving, Quiet, Present
  <2>5. ~Late' /\ ~Quiet'
    BY <2>1, <2>2 DEF Late, Quiet
  <2>6. Written' /\ Probes' /\ LateSector' /\ Delivered' /\ Stored' /\ IsMedia(disk)'
    BY <1>1, <1>4, <2>1, <2>2, <2>5
       DEF Inv, Written, Probes, LateSector, Delivered, Stored, Identifies
  <2>7. op.kind = "read" \/ op.kind = "write" =>
          /\ act'.kind = op.kind /\ act'.dev = op.dev /\ act'.lba = op.lba + i
          /\ act'.left = op.count - i /\ act'.data = <<>> /\ i < op.count
    BY <1>1, <1>2, <1>3, <1>5, <1>6, <2>1, <2>2 DEF Moves
  <2>8. Reads' /\ Writes'
    BY <1>1, <1>4, <2>1, <2>5, <2>7 DEF Reads, Writes
  <2> QED BY <2>3, <2>4, <2>6, <2>8 DEF Inv, Flow
<1> QED BY <1>8, <1>9

\* A step that reads the status register changes nothing but pc and ret.
LEMMA StatusInv ==
  ASSUME Inv, FirstStatus \/ PollStatus \/ WaitReady
  PROVE  Inv'
<1>1. UNCHANGED <<op, k, i, buf, dirty, wr, regs, phase, act, disk>>
  BY DEF FirstStatus, PollStatus, WaitReady, drive
<1>2. \/ /\ pc \in {"first", "poll"} /\ ret' = ret
         /\ \/ pc' = "poll"
            \/ pc' = "transfer" /\ phase = "drq"
      \/ /\ pc \in {"first", "poll"} /\ ret' = "error" /\ pc' \in {"idle", "wait"}
         /\ pc' = "wait" => op.kind = "init"
         /\ phase = "err" \/ (Identifies /\ Quiet)
      \/ /\ pc = "wait" /\ pc' = "idle" /\ ret' \in {"ok", ret} /\ Quiet /\ ~Moves(op)
  BY DEF FirstStatus, PollStatus, WaitReady, Return, DRQ, BSY, ERR, Inv, Flow, Listening, Late, Quiet
<1>3. Types' /\ Command' /\ Buffer' /\ History'
  BY <1>1, <1>2 DEF Inv, Flow, Types, Command, Buffer, History
<1>4. Listening'
  BY <1>1, <1>2
     DEF Inv, Flow, Types, Listening, Moves, Moving, Quiet, Present, Identifies
<1>5. Written' /\ Probes' /\ LateSector' /\ Delivered' /\ Stored' /\ IsMedia(disk)'
  BY <1>1, <1>2
     DEF Inv, Written, Probes, LateSector, Delivered, Stored, Moving, Late, Quiet, Identifies
<1>6. Reads' /\ Writes'
  BY <1>1, <1>2 DEF Inv, Reads, Writes, Moving, Late, Quiet, Identifies, Moves
<1> QED BY <1>3, <1>4, <1>5, <1>6 DEF Inv, Flow

\* A sector is read: the one that the caller wants next.
LEMMA TransferInInv ==
  ASSUME Inv, TransferIn
  PROVE  Inv'
<1>1. /\ pc = "transfer" /\ op.kind # "write" /\ phase = "drq" /\ Present /\ DRQ /\ i' = i + 1
      /\ UNCHANGED <<op, k, dirty, wr, regs, disk>>
  BY DEF TransferIn, Onwards, Inv, Flow, Listening, Quiet, DRQ
<1>2. op.kind = "read" \/ Identifies
  BY <1>1, Calls DEF Inv, Flow, Types, Listening, Moving, Identifies
<1>3. \/ act.left > 1 /\ act' = [act EXCEPT !.left = @ - 1, !.lba = @ + 1] /\ phase' = "busy"
      \/ ~(act.left > 1) /\ act' = NoAct /\ phase' = "ready"
  BY <1>1 DEF TransferIn
<1>4. i \in Nat /\ act.left \in 0 .. COUNT_REG /\ act.lba \in Int /\ IsAct(act)
      /\ COUNT_REG \in Nat \ {0} /\ op.count \in Nat
  BY RegisterAssumption, Calls DEF Inv, Flow, Types, Command
<1>5. act.left > 1 => /\ act'.left = act.left - 1 /\ act'.lba = act.lba + 1 /\ IsAct(act')
                      /\ act'.kind = act.kind /\ act'.dev = act.dev /\ act'.data = act.data
  BY <1>3, <1>4 DEF IsAct
<1>6. Command' /\ IsMedia(disk)'
  BY <1>1, <1>3, <1>4, <1>5 DEF Inv, Flow, Command, NoAct, IsAct
<1>7. CASE Identifies
  <2>1. act.left = 1 /\ op.kind # "read"
    BY <1>1, <1>7 DEF Inv, Probes, Moving, Quiet, Identifies
  <2>2. /\ buf' = buf /\ ret' = "ok" /\ pc' \in {"wait", "idle"} /\ phase' = "ready"
        /\ pc' = "wait" => op.kind = "init"
    BY <1>1, <1>3, <1>7, <2>1 DEF TransferIn, Onwards, Return
  <2>3. Flow'
    BY <1>1, <1>4, <1>6, <1>7, <2>2
       DEF Inv, Flow, Types, Buffer, History, Listening, Moves, Moving, Quiet, Identifies
  <2> QED
    BY <1>1, <1>6, <1>7, <2>1, <2>2, <2>3
       DEF Inv, Written, Probes, Reads, Writes, LateSector, Delivered, Stored, Late, Moving, Quiet
<1>8. CASE op.kind = "read"
  <2>1. /\ i < op.count /\ Len(buf) = i /\ act.kind = "read" /\ act.dev = op.dev
        /\ act.lba = op.lba + i /\ act.left = op.count - i /\ act.data = <<>>
        /\ ~Identifies
    BY <1>1, <1>8 DEF Inv, Reads, Moving, Quiet, Identifies
  <2>2. buf' = Append(buf, disk[op.dev][op.lba + i])
    BY <1>1, <2>1 DEF TransferIn
  <2>3. \/ act.left > 1 /\ pc' = "first" /\ ret' = ret /\ phase' = "busy" /\ i' < op.count
        \/ ~(act.left > 1) /\ pc' = "idle" /\ ret' = "ok" /\ phase' = "ready" /\ i' = op.count
    BY <1>1, <1>3, <1>4, <1>8, <2>1 DEF TransferIn, Onwards, Return
  <2>4. /\ IsSequence(buf') /\ Len(buf') = i' /\ buf'[i + 1] = disk[op.dev][op.lba + i]
        /\ \A j \in 1 .. i : buf'[j] = buf[j]
    BY <1>1, <2>1, <2>2, Appended DEF Inv, Flow, Buffer
  <2>5. Types' /\ Buffer' /\ History' /\ Listening'
    BY <1>1, <1>4, <1>8, <2>3, <2>4
       DEF Inv, Flow, Types, Buffer, History, Listening, Moves, Moving, Quiet, Present
  <2>6. Delivered'
    <3>1. op.lba \in Nat
      BY Calls DEF Inv, Flow, Types
    <3>2. \A j \in 1 .. i' : j = i + 1 \/ j \in 1 .. i
      BY <1>1, <1>4
    <3>3. op.lba + (i + 1) - 1 = op.lba + i
      BY <1>4, <3>1
    <3> QED BY <1>1, <1>8, <2>1, <2>4, <3>2, <3>3 DEF Inv, Delivered
  <2>7. Reads'
    <3>1. op.lba \in Nat
      BY Calls DEF Inv, Flow, Types
    <3>2. CASE act.left > 1
      <4>1. /\ act'.kind = "read" /\ act'.dev = op.dev /\ act'.data = <<>>
            /\ act'.lba = op.lba + i' /\ act'.left = op.count - i'
        BY <1>1, <1>4, <1>5, <2>1, <3>1, <3>2
      <4> QED BY <1>1, <2>3, <2>4, <3>2, <4>1 DEF Reads, Moving
    <3>3. CASE ~(act.left > 1)
      BY <1>1, <2>3, <2>4, <3>3 DEF Reads, Moving
    <3> QED BY <3>2, <3>3
  <2>8. ~Late'
    BY <1>5, <2>1, <2>3 DEF Late
  <2> QED
    BY <1>1, <1>6, <1>8, <2>3, <2>5, <2>6, <2>7, <2>8
       DEF Inv, Flow, Written, Probes, Writes, LateSector, Stored, Identifies
<1> QED BY <1>2, <1>7, <1>8

\* A sector is handed to the drive, which stores it when it is ready to.
LEMMA TransferOutInv ==
  ASSUME Inv, TransferOut
  PROVE  Inv'
<1>1. /\ pc = "transfer" /\ op.kind = "write" /\ phase = "drq" /\ Present /\ i' = i + 1
      /\ wr = [req |-> op, n |-> i] /\ wr' = [req |-> op, n |-> i + 1]
      /\ act' = [act EXCEPT !.data = <<op.data[i + 1]>>] /\ phase' = "busy"
      /\ UNCHANGED <<op, k, buf, dirty, regs, disk>>
  BY DEF TransferOut, Onwards, Inv, Flow, Listening, History, Quiet, DRQ
<1>2. i \in Nat /\ op.count \in Nat /\ op.lba \in Nat /\ IsAct(act)
  BY Calls DEF Inv, Flow, Types, Command
<1>3. /\ i < op.count /\ act.kind = "write" /\ act.dev = op.dev
      /\ act.lba = op.lba + i /\ act.left = op.count - i
  BY <1>1 DEF Inv, Writes, Moving, Quiet
<1>4. /\ act'.data = <<op.data[i + 1]>> /\ act'.kind = "write" /\ act'.dev = op.dev
      /\ act'.lba = op.lba + i /\ act'.left = op.count - i /\ IsAct(act')
  BY <1>1, <1>2, <1>3 DEF IsAct
<1>5. \/ pc' = "first" /\ ret' = ret /\ i' < op.count
      \/ pc' = "idle" /\ ret' = "ok" /\ i' = op.count
  BY <1>1, <1>2, <1>3 DEF TransferOut, Onwards, Return, Identifies
<1>6. Types' /\ Buffer' /\ History' /\ Listening'
  <2>1. Len(buf) <= i => Len(buf) <= i + 1
    BY <1>2, Appended DEF Inv, Flow, Buffer
  <2> QED BY <1>1, <1>2, <1>5, <2>1
             DEF Inv, Flow, Types, Buffer, History, Listening, Moves, Moving, Quiet, Present
<1>7. Command'
  BY <1>2, <1>3, <1>4 DEF Inv, Flow, Command
<1>8. Late' /\ ~Quiet'
  BY <1>1, <1>4 DEF Late, Quiet
<1>9. Writes'
  BY <1>1, <1>2, <1>4, <1>5, <1>8 DEF Writes, Moving
<1>10. LateSector'
  BY <1>1, <1>2, <1>4 DEF LateSector
<1>11. Stored'
  <2>1. \A j \in 1 .. i + 1 : j = i + 1 \/ j \in 1 .. i
    BY <1>2
  <2> QED BY <1>1, <1>8, <2>1 DEF Inv, Stored, Late
<1>12. Written' /\ Probes' /\ Reads' /\ Delivered' /\ IsMedia(disk)'
  BY <1>1, <1>5 DEF Inv, Written, Probes, Reads, Delivered, Identifies
<1> QED BY <1>6, <1>7, <1>9, <1>10, <1>11, <1>12 DEF Inv, Flow
----------------------------------------------------------------------------
(***************************************************************************)
(* The steps of the drive.                                                 *)
(***************************************************************************)

\* The drive raises DRQ for the next sector.
LEMMA AsksInv ==
  ASSUME Inv, DriveAsks
  PROVE  Inv'
<1>1. /\ phase = "busy" /\ act.data = <<>> /\ phase' = "drq"
      /\ act.kind \in {"read", "write"} => act.lba \in DOMAIN disk[act.dev]
      /\ UNCHANGED <<pc, op, k, i, buf, ret, dirty, wr, regs, act, disk>>
  BY DEF DriveAsks, driver, OnMedium
<1>2. Moving \/ (pc = "idle" /\ op.kind = "write")
  BY <1>1 DEF Inv, Flow, Types, Listening, Quiet, Late, Moving
<1>3. Flow'
  BY <1>1, <1>2
     DEF Inv, Flow, Types, Command, Buffer, History, Listening, Moves, Moving, Quiet, Late, Present
<1>4. Written' /\ Probes' /\ Reads' /\ LateSector' /\ Delivered' /\ Stored' /\ IsMedia(disk)'
  BY <1>1 DEF Inv, Written, Probes, Reads, LateSector, Delivered, Stored, Moving, Quiet, Late,
              Identifies
<1>5. Writes'
  BY <1>1 DEF Inv, Writes, Moving, Quiet, Late
<1> QED BY <1>3, <1>4, <1>5 DEF Inv

\* The drive stores a sector where the last write put it.
LEMMA StoresInv ==
  ASSUME Inv, DriveStores
  PROVE  Inv'
<1>1. /\ phase = "busy" /\ act.data # <<>> /\ Late /\ act.lba \in DOMAIN disk[act.dev]
      /\ disk' = [disk EXCEPT ![act.dev][act.lba] = act.data[1]]
      /\ \/ act.left > 1 /\ phase' = "drq"
            /\ act' = [act EXCEPT !.left = @ - 1, !.lba = @ + 1, !.data = <<>>]
         \/ ~(act.left > 1) /\ act' = NoAct /\ phase' = "ready"
      /\ UNCHANGED <<pc, op, k, i, buf, ret, dirty, wr, regs>>
  BY DEF DriveStores, driver, OnMedium, Late
<1>2. /\ i \in Nat /\ op.count \in Nat /\ op.lba \in Nat /\ IsAct(act) /\ IsMedia(disk)
      /\ act.left \in 0 .. COUNT_REG /\ act.lba \in Int /\ COUNT_REG \in Nat
  BY Calls, RegisterAssumption DEF Inv, Flow, Types, Command
<1>3. act.left > 1 => /\ act'.left = act.left - 1 /\ act'.lba = act.lba + 1 /\ act'.data = <<>>
                      /\ act'.kind = act.kind /\ act'.dev = act.dev /\ IsAct(act')
  BY <1>1, <1>2 DEF IsAct
<1>4. DOMAIN disk' = DOMAIN disk /\ IsMedia(disk')
      /\ \A d \in DOMAIN disk : DOMAIN disk'[d] = DOMAIN disk[d]
  <2> DEFINE track(d) == [disk[d] EXCEPT ![act.lba] = act.data[1]]
  <2>1. disk' = [d \in DOMAIN disk |-> IF d = act.dev THEN track(d) ELSE disk[d]]
    BY <1>1
  <2>2. \A d \in DOMAIN disk : disk[d] = [s \in DOMAIN disk[d] |-> disk[d][s]]
    BY <1>2 DEF IsMedia
  <2>3. \A d \in DOMAIN disk :
          DOMAIN track(d) = DOMAIN disk[d] /\ track(d) = [s \in DOMAIN disk[d] |-> track(d)[s]]
    OBVIOUS
  <2> HIDE DEF track
  <2>4. \A d \in DOMAIN disk :
          DOMAIN disk'[d] = DOMAIN disk[d] /\ disk'[d] = [s \in DOMAIN disk[d] |-> disk'[d][s]]
    BY <2>1, <2>2, <2>3
  <2> QED BY <2>1, <2>4 DEF IsMedia
<1>5. op.kind # "read" \/ pc \in {"idle", "wait", "regs"}
  BY <1>1 DEF Inv, Flow, Types, Reads, Moving, Quiet
<1>6. op.kind = "write" \/ (pc = "wait" /\ act.left = 1)
  <2>1. ~Quiet /\ act.data # <<>>
    BY <1>1 DEF Quiet
  <2>2. op.kind \in {"read", "write", "identify", "init", "wait"}
    BY Calls DEF Inv, Flow, Types
  <2>3. CASE Moving
    BY <2>1, <2>2, <2>3 DEF Inv, Flow, Listening, Probes, Reads, Identifies
  <2>4. CASE ~Moving
    BY <2>1, <2>4 DEF Inv, Flow, Types, Listening, Moving
  <2> QED BY <2>3, <2>4
<1>7. Flow'
  <2>1. Types' /\ Command' /\ Buffer' /\ History'
    BY <1>1, <1>2, <1>3 DEF Inv, Flow, Types, Command, Buffer, History, NoAct, IsAct
  <2>2. pc # "regs" /\ pc # "transfer"
    BY <1>1 DEF Inv, Flow, Listening, Quiet
  <2>3. Listening'
    BY <1>1, <1>4, <1>6, <2>2 DEF Inv, Flow, Listening, Moves, Moving, Quiet, Present
  <2> QED BY <2>1, <2>3 DEF Flow
<1>8. ~Late'
  BY <1>1 DEF Late
<1>9. CASE op.kind # "write"
  <2>1. pc = "wait" /\ phase' = "ready" /\ op.kind # "read"
    BY <1>1, <1>6, <1>9 DEF Inv, Flow, Listening, Moves
  <2> QED
    <3>1. UNCHANGED <<pc, op, buf, ret>>
      BY <1>1, Zenon
    <3>2. Probes' /\ Reads'
      BY <1>9, <2>1, <3>1 DEF Probes, Reads, Moving
    <3>3. LateSector' /\ Delivered'
      BY <1>8, <2>1, <3>1 DEF LateSector, Delivered
    <3>4. Writes' /\ Stored'
      BY <1>9, <3>1 DEF Writes, Stored
    <3>5. Written'
      BY <1>1, <1>4, <1>8, <1>9, <2>1 DEF Inv, Written
    <3> QED
      BY <1>4, <1>7, <3>2, <3>3, <3>4, <3>5 DEF Inv
<1>10. CASE op.kind = "write"
  <2>1. /\ pc # "regs" /\ act.dev = op.dev /\ act.lba = op.lba + (i - 1)
        /\ i >= 1 /\ i <= op.count /\ act.left = op.count - i + 1
        /\ act.kind = "write" /\ act.data[1] = op.data[i] /\ op.dev \in DOMAIN disk
    BY <1>1, <1>10 DEF Inv, Flow, Listening, History, Writes, LateSector, Quiet, Moves
  <2>2. Writes'
    BY <1>1, <1>2, <1>3, <1>8, <1>10, <2>1, SMTT(30) DEF Inv, Writes, Moving, Quiet
  <2>3. Stored'
    <3> SUFFICES ASSUME NEW j \in 1 .. i
                 PROVE  disk'[op.dev][op.lba + j - 1] = op.data[j]
      BY <1>1 DEF Stored
    <3>1. CASE j = i
      <4>1. op.lba + j - 1 = act.lba
        BY <1>2, <2>1, <3>1
      <4> QED BY <1>1, <1>2, <2>1, <3>1, <4>1 DEF IsMedia
    <3>2. CASE j # i
      <4>1. op.lba + j - 1 # act.lba
        BY <1>2, <2>1, <3>2
      <4>2. disk[op.dev][op.lba + j - 1] = op.data[j]
        BY <1>1, <1>10, <3>2 DEF Inv, Stored
      <4>3. disk'[op.dev][op.lba + j - 1] = disk[op.dev][op.lba + j - 1]
        BY <1>1, <1>2, <2>1, <4>1 DEF IsMedia
      <4> QED BY <4>2, <4>3
    <3> QED BY <3>1, <3>2
  <2> QED
    BY <1>1, <1>4, <1>7, <1>8, <1>10, <2>1, <2>2, <2>3
       DEF Inv, Written, Probes, Reads, LateSector, Delivered, Identifies
<1> QED BY <1>9, <1>10

\* After a failure the driver finds ERR, or the call was over.
LEMMA FailedInv ==
  ASSUME Inv, DriveFailed
  PROVE  Inv'
<1>1. /\ phase = "busy" /\ phase' = "err" /\ act' = NoAct
      /\ UNCHANGED <<pc, op, k, i, buf, ret, dirty, wr, regs, disk>>
  BY DEF DriveFailed, driver
<1>2. pc # "transfer" /\ ~Late' /\ Quiet'
  BY <1>1 DEF Inv, Flow, Listening, Late, Quiet
<1>3. Flow'
  BY <1>1, <1>2, RegisterAssumption
     DEF Inv, Flow, Types, Command, Buffer, History, Listening, Moves, Moving, NoAct, IsAct
<1>4. Written' /\ Probes' /\ Reads' /\ LateSector' /\ Delivered' /\ Stored' /\ IsMedia(disk)'
  BY <1>1, <1>2 DEF Inv, Written, Probes, Reads, LateSector, Delivered, Stored, Moving
<1>5. Writes'
  BY <1>1, <1>2 DEF Inv, Writes, Moving
<1> QED BY <1>3, <1>4, <1>5 DEF Inv
----------------------------------------------------------------------------
(***************************************************************************)
(* The theorems.                                                           *)
(***************************************************************************)
Media == \A m \in Disks : IsMedia(m)

\* Whatever the drives do and whichever commands fail, the driver and the
\* drive it waits for are at the same sector of the same call.
THEOREM Inductive == ASSUME Expressible, Media PROVE Spec => []Inv
<1>1. Init => Inv
  BY InitInv DEF Media
<1>2. Inv /\ [Next]_vars => Inv'
  <2> SUFFICES ASSUME Inv, [Next]_vars PROVE Inv'
    OBVIOUS
  <2>1. CASE DriverStep
    BY <2>1, OutRegInv, OutCommandInv, StatusInv, TransferInInv, TransferOutInv DEF DriverStep
  <2>2. CASE DriveStep
    BY <2>2, AsksInv, StoresInv, FailedInv DEF DriveStep
  <2>3. CASE \E r \in Requests : Call(r)
    BY <2>3, CallInv
  <2>4. CASE UNCHANGED vars
    <3>1. UNCHANGED <<pc, op, k, i, buf, ret, dirty, wr, regs, phase, act, disk>>
      BY <2>4 DEF vars, driver, drive
    <3> QED
      BY <3>1 DEF Inv, Flow, Types, Command, Buffer, History, Listening, Written, Probes, Reads,
                  Writes, LateSector, Delivered, Stored, Moving, Quiet, Late, Present, Identifies
  <2> QED BY <2>1, <2>2, <2>3, <2>4 DEF Next
<1> QED BY <1>1, <1>2, PTL DEF Spec

\* The variables keep their types: no register is given a value it has not,
\* and the driver never has more sectors than it has counted.
THEOREM TypeCorrect == ASSUME Expressible, Media PROVE Spec => []TypeOK
<1>1. Inv => TypeOK
  <2> SUFFICES ASSUME Inv PROVE TypeOK
    OBVIOUS
  <2>1. regs \in Registers /\ op \in Requests \cup {NoOp}
    BY DEF Inv, Flow, Types
  <2>2. Len(act.data) <= 1
    <3>1. Len(<<>>) = 0 /\ \A x : Len(<<x>>) = 1
      OBVIOUS
    <3>2. Len(act.data) = 0 \/ Len(act.data) = 1
      BY <3>1, Zenon DEF Inv, Flow, Command
    <3>3. 0 <= 1 /\ 1 <= 1
      OBVIOUS
    <3> QED BY <3>2, <3>3, Zenon
  <2>3. dirty \in BOOLEAN
    BY DEF Inv, Flow, History
  <2>4. \A r \in {"low", "mid", "high"} : regs[r] \in 0 .. BYTE - 1
    BY <2>1 DEF Registers
  <2> QED BY <2>1, <2>2, <2>3, <2>4 DEF Inv, Flow, Types, Command, Buffer, TypeOK, Registers
<1> QED BY <1>1, Inductive, PTL

\* ata_read_sectors returns 0 only with the sectors it was asked for.
THEOREM ReadsDelivered == ASSUME Expressible, Media PROVE Spec => []ReadDelivers
<1>1. Inv => ReadDelivers
  BY DEF Inv, Reads, Delivered, ReadDelivers
<1> QED BY <1>1, Inductive, PTL

\* Every sector of a write that returned 0 is on the medium when the drive
\* is ready.
THEOREM WritesLand == ASSUME Expressible, Media PROVE Spec => []WriteLands
<1>1. Inv => WriteLands
  <2> SUFFICES ASSUME Inv, pc = "idle", op.kind = "write", ret = "ok", phase = "ready",
                      NEW j \in 1 .. op.count
               PROVE  disk[op.dev][op.lba + j - 1] = op.data[j]
    BY DEF WriteLands
  <2>1. i = op.count
    BY DEF Inv, Writes
  <2> QED BY <2>1 DEF Inv, Stored, Late
<1> QED BY <1>1, Inductive, PTL

\* No sector of any medium changes but to what the last write was to put
\* there, also when the drive stores it after the call has returned.
THEOREM NothingElseWritten == ASSUME Expressible, Media PROVE Spec => OnlyWhatWasAsked
<1> DEFINE Asked ==
      \A d \in DOMAIN disk : \A s \in DOMAIN disk[d] :
        disk'[d][s] # disk[d][s] =>
          /\ wr.req.kind = "write" /\ wr.req.dev = d
          /\ s - wr.req.lba \in 0 .. wr.n - 1
          /\ disk'[d][s] = wr.req.data[s - wr.req.lba + 1]
<1>1. Inv /\ [Next]_vars => [Asked]_vars
  <2> SUFFICES ASSUME Inv, Next PROVE Asked
    OBVIOUS
  <2>1. CASE UNCHANGED disk
    BY <2>1
  <2>2. CASE DriveStores
    <3> SUFFICES ASSUME NEW d \in DOMAIN disk, NEW s \in DOMAIN disk[d],
                        disk'[d][s] # disk[d][s]
                 PROVE  /\ wr.req.kind = "write" /\ wr.req.dev = d
                        /\ s - wr.req.lba \in 0 .. wr.n - 1
                        /\ disk'[d][s] = wr.req.data[s - wr.req.lba + 1]
      OBVIOUS
    <3>1. Late /\ disk' = [disk EXCEPT ![act.dev][act.lba] = act.data[1]]
      BY <2>2 DEF DriveStores, Late
    <3>2. d = act.dev /\ s = act.lba /\ disk'[d][s] = act.data[1]
      BY <3>1
    <3>3. /\ wr.req.kind = "write" /\ act.dev = wr.req.dev /\ wr.req.lba \in Nat
          /\ wr.n \in Nat \ {0} /\ act.lba = wr.req.lba + (wr.n - 1)
          /\ act.data[1] = wr.req.data[wr.n]
      BY <3>1 DEF Inv, LateSector
    <3>4. s - wr.req.lba = wr.n - 1 /\ s - wr.req.lba + 1 = wr.n
      BY <3>2, <3>3
    <3> QED BY <3>2, <3>3, <3>4
  <2> QED
    BY <2>1, <2>2 DEF Next, DriverStep, DriveStep, Call, OutReg, OutCommand, FirstStatus,
          PollStatus, TransferIn, TransferOut, WaitReady, DriveAsks, DriveFailed, drive
<1> QED BY <1>1, Inductive, PTL DEF Spec, OnlyWhatWasAsked
----------------------------------------------------------------------------
(***************************************************************************)
(* The driver implements BlockDevice.                                      *)
(***************************************************************************)
\* What the refinement needs besides: nothing is late in a quiet drive, the
\* drive that works is the one that is selected, and ata_init waits with the
\* answer of ata_identify in hand.
Settled ==
  /\ Quiet => act.data = <<>>
  /\ ~Quiet => act.dev = regs.drive
  /\ Identifies /\ (Moving \/ (pc = "regs" /\ k >= 1)) => regs.drive = op.dev
  /\ pc = "wait" /\ op.kind = "init" =>
       Quiet /\ (ret = "error" => phase = "err" \/ op.dev \notin DOMAIN disk)

\* Selecting the drive, and the registers after it.
LEMMA SettledOutReg ==
  ASSUME Inv, Settled, OutReg
  PROVE  Settled'
<1> DEFINE name == RegOrder[k + 1]
<1>1. /\ pc = "regs" /\ k \in 0 .. 4 /\ k' = k + 1 /\ Quiet /\ Quiet' /\ regs \in Registers
      /\ UNCHANGED <<pc, op, act>>
  BY DEF OutReg, Inv, Flow, Types, Listening, Listens, Quiet, RegOrder
<1>2. name \in {"drive", "cnt", "low", "mid", "high"} /\ (k = 0 => name = "drive")
  BY <1>1 DEF RegOrder
<1>3. k = 0 => regs'.drive = op.dev
  <2>1. k = 0 => regs' = [regs EXCEPT !.drive = RegValue(op, "drive"),
                                      !.head = IF Identifies THEN 0 ELSE HeadBits(op)]
    BY <1>1, <1>2 DEF OutReg, Listens, Quiet
  <2>2. RegValue(op, "drive") = op.dev
    BY RegValues DEF Inv, Flow, Types
  <2> QED BY <1>1, <2>1, <2>2 DEF Registers
<1>4. k >= 1 => regs'.drive = regs.drive
  <2>1. k >= 1 => name # "drive"
    BY <1>1 DEF RegOrder
  <2>2. k >= 1 => \E v : regs' = [regs EXCEPT ![name] = v]
    BY <1>1, <2>1 DEF OutReg, Listens, Quiet
  <2> HIDE DEF name
  <2> QED BY <1>1, <1>2, <2>1, <2>2 DEF Registers
<1> QED BY <1>1, <1>3, <1>4 DEF Settled, Moving, Identifies

\* Every step keeps what the refinement needs.
LEMMA SettledStep ==
  ASSUME Inv, Settled, Expressible, [Next]_vars
  PROVE  Settled'
<1>1. CASE OutReg
  BY <1>1, SettledOutReg
<1>2. CASE OutCommand
  <2>1. /\ pc = "regs" /\ k = 5 /\ Quiet /\ op.kind # "wait" /\ UNCHANGED <<op, k, regs, disk>>
        /\ pc' \in {"first", "idle", "wait"} /\ (pc' = "wait" => op.count = 0 /\ ~Identifies)
    BY <1>2 DEF OutCommand, RegOrder, Inv, Flow, Listening, Return
  <2>2. \/ phase' = "busy" /\ act'.data = <<>> /\ act'.dev = regs.drive
        \/ UNCHANGED <<phase, act>>
    BY <1>2 DEF OutCommand
  <2> QED BY <2>1, <2>2 DEF Settled, Moving, Identifies, Quiet
<1>3. CASE FirstStatus \/ PollStatus \/ WaitReady
  <2>1. /\ UNCHANGED <<op, k, regs, phase, act, disk>>
        /\ \/ pc \in {"first", "poll"} /\ pc' \in {"poll", "transfer", "idle"}
           \/ /\ pc \in {"first", "poll"} /\ pc' = "wait" /\ Identifies
              /\ phase = "err" \/ ~Present
           \/ pc = "wait" /\ pc' = "idle"
    BY <1>3 DEF FirstStatus, PollStatus, WaitReady, Return, ERR, drive, Identifies
  <2> QED BY <2>1 DEF Inv, Flow, Listening, Settled, Moving, Identifies, Present, Quiet
<1>4. CASE TransferIn
  <2>1. /\ pc = "transfer" /\ phase = "drq" /\ DRQ /\ IsAct(act)
        /\ UNCHANGED <<op, k, regs, disk>>
        /\ pc' \in {"first", "idle", "wait"} /\ (pc' = "wait" => op.kind = "init" /\ ret' = "ok")
    BY <1>4 DEF TransferIn, Onwards, Return, Inv, Flow, Command, Listening, DRQ, Quiet
  <2>2. \/ /\ act.left > 1 /\ phase' = "busy" /\ act'.dev = act.dev
        \/ ~(act.left > 1) /\ act'.data = <<>> /\ phase' = "ready"
    <3>1. IF ~DRQ THEN UNCHANGED <<act, phase>>
          ELSE IF act.left > 1
               THEN act' = [act EXCEPT !.left = @ - 1, !.lba = @ + 1] /\ phase' = "busy"
               ELSE act' = NoAct /\ phase' = "ready"
      BY <1>4 DEF TransferIn
    <3>2. CASE act.left > 1
      <4>1. act' = [act EXCEPT !.left = @ - 1, !.lba = @ + 1] /\ phase' = "busy"
        BY <2>1, <3>1, <3>2
      <4> QED BY <2>1, <3>2, <4>1 DEF IsAct
    <3>3. CASE ~(act.left > 1)
      <4>1. act' = NoAct /\ phase' = "ready"
        BY <2>1, <3>1, <3>3
      <4> QED BY <3>3, <4>1 DEF NoAct
    <3> QED BY <3>2, <3>3
  <2>3. op.kind = "init" => act.left = 1
    BY <2>1 DEF Inv, Probes, Moving, Quiet, Identifies
  <2> QED BY <2>1, <2>2, <2>3 DEF Settled, Moving, Identifies, Quiet
<1>5. CASE TransferOut
  <2>1. /\ pc = "transfer" /\ op.kind = "write" /\ phase = "drq" /\ phase' = "busy"
        /\ act'.dev = act.dev /\ UNCHANGED <<op, k, regs, disk>>
    BY <1>5 DEF TransferOut, Inv, Flow, Command, Listening, DRQ, Quiet, IsAct
  <2> QED BY <2>1 DEF Settled, Moving, Identifies, Quiet
<1>6. CASE DriveStep
  <2>1. /\ phase = "busy" /\ UNCHANGED <<pc, op, k, ret, regs>>
        /\ \/ phase' = "drq" /\ act'.dev = act.dev
           \/ phase' \in {"ready", "err"} /\ act'.data = <<>>
    <3>1. /\ phase = "busy" /\ IsAct(act) /\ UNCHANGED <<driver, regs>>
      BY <1>6 DEF DriveStep, DriveAsks, DriveStores, DriveFailed, Inv, Flow, Command
    <3>2. CASE DriveAsks
      BY <3>1, <3>2 DEF DriveAsks, driver
    <3>3. CASE DriveStores
      <4>1. CASE act.left > 1
        BY <3>1, <3>3, <4>1 DEF DriveStores, driver, IsAct
      <4>2. CASE ~(act.left > 1)
        BY <3>1, <3>3, <4>2 DEF DriveStores, driver, NoAct
      <4> QED BY <4>1, <4>2
    <3>4. CASE DriveFailed
      BY <3>1, <3>4 DEF DriveFailed, driver, NoAct
    <3> QED BY <1>6, <3>2, <3>3, <3>4 DEF DriveStep
  <2> QED BY <2>1 DEF Settled, Moving, Identifies, Quiet
<1>7. CASE \E r \in Requests : Call(r)
  <2>1. PICK r \in Requests : Call(r)
    BY <1>7
  <2>2. /\ op' = r /\ k' = 0 /\ UNCHANGED <<regs, phase, act, disk>>
        /\ pc' = IF r.kind = "wait" THEN "wait" ELSE "regs"
    BY <2>1 DEF Call, drive
  <2> QED BY <2>2 DEF Settled, Moving, Identifies, Quiet
<1>8. CASE UNCHANGED vars
  <2>1. UNCHANGED <<pc, op, k, ret, regs, phase, act, disk>>
    BY <1>8 DEF vars, driver, drive
  <2> QED BY <2>1 DEF Settled, Moving, Identifies, Quiet
<1> QED BY <1>1, <1>2, <1>3, <1>4, <1>5, <1>6, <1>7, <1>8 DEF Next, DriverStep, DriveStep

\* The state of BlockDevice that a state of the driver stands for.
AbsBusy   == pc # "idle"
AbsRet    == IF pc = "idle" THEN ret ELSE "none"
AbsMoved  == IF Identifies THEN 0 ELSE i
AbsLate   == IF act.data = <<>> THEN NoLate
             ELSE [dev |-> act.dev, lba |-> act.lba, data |-> act.data[1]]
AbsFailed == phase = "err" /\ pc # "regs" /\ op.kind # "wait"
Stutters == UNCHANGED <<disk, op, AbsBusy, AbsMoved, buf, AbsRet, AbsLate, AbsFailed>>
Abs == BD!BDNext \/ Stutters

\* The error a command meets is a failure of the abstract drive.
LEMMA MapStatus ==
  ASSUME Inv, Settled, FirstStatus \/ PollStatus \/ WaitReady
  PROVE  Abs
<1>1. UNCHANGED <<op, k, i, buf, dirty, wr, regs, phase, act, disk>>
  BY DEF FirstStatus, PollStatus, WaitReady, drive
<1>2. /\ AbsMoved' = AbsMoved /\ AbsLate' = AbsLate
      /\ pc # "regs" /\ pc' # "regs" => AbsFailed' = AbsFailed
  BY <1>1 DEF AbsMoved, AbsLate, AbsFailed, Identifies
<1>3. CASE pc' \in {"poll", "transfer", "wait"}
  <2>1. pc \in {"first", "poll"}
    BY <1>3 DEF FirstStatus, PollStatus, WaitReady, Return
  <2> QED BY <1>1, <1>2, <1>3, <2>1 DEF Abs, Stutters, AbsBusy, AbsRet
<1>4. CASE pc \in {"first", "poll"} /\ pc' = "idle"
  <2>1. ret' = "error" /\ (phase = "err" \/ (Identifies /\ ~Present))
    BY <1>4 DEF FirstStatus, PollStatus, WaitReady, Return, ERR
  <2>2. op.kind # "wait" /\ op.kind # "init"
    <3>1. Return("error")
      BY <1>4, <2>1 DEF FirstStatus, PollStatus, WaitReady
    <3>2. op.kind # "init"
      BY <1>4, <3>1 DEF Return
    <3>3. op.kind # "wait"
      BY <1>4 DEF Inv, Flow, Listening, Moving
    <3> QED BY <3>2, <3>3
  <2>3. AbsFailed \/ op.dev \notin DOMAIN disk
    BY <1>4, <2>1, <2>2 DEF AbsFailed, Settled, Moving, Present
  <2>4. BD!Refuse
    BY <1>1, <1>2, <1>4, <2>1, <2>2, <2>3 DEF BD!Refuse, AbsBusy, AbsRet, AbsMoved, AbsLate, AbsFailed
  <2> QED BY <2>4 DEF Abs, BD!BDNext
<1>5. CASE pc = "wait" /\ pc' = "idle"
  <2>1. Quiet /\ ~Moves(op) /\ AbsLate = NoLate
    BY <1>5 DEF WaitReady, FirstStatus, PollStatus, BSY, Inv, Flow, Listening, Late, Quiet, Settled, AbsLate
  <2>2. ret' = (IF op.kind = "init" THEN ret ELSE "ok") /\ ret \in {"ok", "error"}
    BY <1>5 DEF WaitReady, FirstStatus, PollStatus, Return, Inv, Flow, Types
  <2>3. CASE ret' = "ok"
    <3>1. BD!Succeed
      BY <1>1, <1>2, <1>5, <2>1, <2>3
         DEF BD!Succeed, AbsBusy, AbsRet, AbsMoved, AbsLate, AbsFailed, Moves, NoLate, BD!NoLate
    <3> QED BY <3>1 DEF Abs, BD!BDNext
  <2>4. CASE ret' = "error"
    <3>1. op.kind = "init" /\ ret = "error" /\ (AbsFailed \/ op.dev \notin DOMAIN disk)
      BY <1>5, <2>2, <2>4 DEF Settled, AbsFailed
    <3>2. BD!Refuse
      BY <1>1, <1>2, <1>5, <2>1, <2>4, <3>1
         DEF BD!Refuse, AbsBusy, AbsRet, AbsMoved, AbsLate, AbsFailed, NoLate, BD!NoLate
    <3> QED BY <3>2 DEF Abs, BD!BDNext
  <2> QED BY <2>2, <2>3, <2>4
<1> QED
  BY <1>3, <1>4, <1>5
     DEF FirstStatus, PollStatus, WaitReady, Return, Inv, Flow, Types

\* A call of the driver is a call of the abstract device.
LEMMA MapCall ==
  ASSUME Inv, Settled, NEW r \in Requests, Call(r)
  PROVE  Abs
<1>1. /\ pc = "idle" /\ op' = r /\ i' = 0 /\ buf' = <<>>
      /\ pc' = IF r.kind = "wait" THEN "wait" ELSE "regs"
      /\ UNCHANGED <<phase, act, disk>>
  BY DEF Call, drive
<1>2. AbsMoved' = 0 /\ AbsLate' = AbsLate /\ ~AbsFailed' /\ AbsRet' = "none" /\ AbsBusy' /\ ~AbsBusy
  BY <1>1 DEF AbsMoved, AbsLate, AbsFailed, AbsRet, AbsBusy
<1>3. BD!Begin(r)
  BY <1>1, <1>2 DEF BD!Begin, AbsMoved, AbsLate, AbsFailed, AbsRet, AbsBusy
<1> QED BY <1>3 DEF Abs, BD!BDNext

\* Writing the command block is no step of the abstract device, but for a
\* failure of the call before that becomes one of this call.
LEMMA MapCommand ==
  ASSUME Inv, Settled, Expressible, OutReg \/ OutCommand
  PROVE  Abs
<1>1. /\ pc = "regs" /\ UNCHANGED <<op, i, buf, disk, ret>> /\ pc' \in {"regs", "first"}
      /\ Quiet /\ op.kind # "wait"
  <2>1. pc = "regs" /\ Quiet /\ op.kind # "wait"
    BY DEF OutReg, OutCommand, Inv, Flow, Listening
  <2>2. Identifies \/ op.count # 0
    BY <2>1, Calls DEF Inv, Flow, Types, Expressible, Moves, Identifies, NoOp
  <2> QED BY <2>1, <2>2 DEF OutReg, OutCommand
<1>2. act.data = <<>> /\ act'.data = <<>>
  BY <1>1 DEF Settled, OutReg, OutCommand
<1>3. /\ AbsMoved' = AbsMoved /\ AbsLate' = AbsLate /\ AbsRet' = AbsRet /\ AbsBusy /\ AbsBusy'
      /\ ~AbsFailed
  BY <1>1, <1>2 DEF AbsMoved, AbsLate, AbsRet, AbsBusy, AbsFailed, Identifies
<1>4. CASE ~AbsFailed'
  <2>1. AbsFailed' = AbsFailed
    BY <1>3, <1>4 DEF AbsFailed
  <2> QED BY <1>1, <1>3, <2>1 DEF Abs, Stutters
<1>5. CASE AbsFailed'
  <2>1. BD!Fail
    BY <1>1, <1>2, <1>3, <1>5
       DEF BD!Fail, AbsMoved, AbsLate, AbsRet, AbsBusy, AbsFailed, NoLate, BD!NoLate
  <2> QED BY <2>1 DEF Abs, BD!BDNext
<1> QED BY <1>4, <1>5

\* 256 words read from the data port are one sector delivered.
LEMMA MapIn ==
  ASSUME Inv, Settled, TransferIn
  PROVE  Abs
<1>1. /\ pc = "transfer" /\ op.kind # "write" /\ phase = "drq" /\ Present /\ DRQ /\ i' = i + 1
      /\ UNCHANGED <<op, k, dirty, wr, regs, disk>> /\ op.kind # "wait"
  BY DEF TransferIn, Onwards, Inv, Flow, Listening, Quiet, DRQ, Moving
<1>2. op.kind = "read" \/ Identifies
  BY <1>1, Calls DEF Inv, Flow, Types, Identifies
<1>3. i \in Nat /\ IsAct(act) /\ phase' \in {"busy", "ready"} /\ act'.data = <<>>
      /\ act.data = <<>>
  <2>1. act.data = <<>>
    BY <1>1, <1>2 DEF Inv, Probes, Reads, Moving, Quiet
  <2>2. act'.data = <<>> /\ phase' \in {"busy", "ready"}
    <3>1. CASE act.left > 1
      BY <1>1, <2>1, <3>1 DEF TransferIn, Inv, Flow, Command, IsAct
    <3>2. CASE ~(act.left > 1)
      BY <1>1, <3>2 DEF TransferIn, NoAct
    <3> QED BY <3>1, <3>2
  <2> QED BY <2>1, <2>2 DEF Inv, Flow, Types, Command
<1>4. AbsLate = NoLate /\ AbsLate' = NoLate /\ ~AbsFailed /\ ~AbsFailed' /\ AbsBusy
      /\ AbsFailed' = AbsFailed
  BY <1>1, <1>3 DEF AbsLate, AbsFailed, AbsBusy
<1>5. CASE Identifies
  <2>1. buf' = buf /\ ret' = "ok" /\ pc' = (IF op.kind = "init" THEN "wait" ELSE "idle")
        /\ AbsMoved' = AbsMoved
    BY <1>1, <1>5 DEF TransferIn, Onwards, Return, AbsMoved, Identifies
  <2>2. CASE op.kind = "init"
    BY <1>1, <1>4, <2>1, <2>2 DEF Abs, Stutters, AbsBusy, AbsRet
  <2>3. CASE op.kind # "init"
    <3>1. BD!Succeed
      BY <1>1, <1>4, <1>5, <2>1, <2>3
         DEF BD!Succeed, Identifies, AbsBusy, AbsRet, AbsMoved, AbsLate, AbsFailed, NoLate, BD!NoLate
    <3> QED BY <3>1 DEF Abs, BD!BDNext
  <2> QED BY <2>2, <2>3
<1>6. CASE op.kind = "read"
  <2>1. /\ i < op.count /\ act.kind = "read" /\ act.dev = op.dev /\ act.lba = op.lba + i
        /\ act.lba \in DOMAIN disk[act.dev] /\ ~Identifies /\ op.dev \in DOMAIN disk
    BY <1>1, <1>6 DEF Inv, Flow, Listening, Moves, Reads, Moving, Quiet, Identifies
  <2>2. buf' = Append(buf, disk[op.dev][op.lba + i])
    BY <1>1, <2>1 DEF TransferIn
  <2>3. \/ pc' = "first" /\ ret' = ret
        \/ pc' = "idle" /\ ret' = "ok" /\ i' = op.count
    <3>1. op.count \in Nat
      BY Calls DEF Inv, Flow, Types
    <3> QED BY <1>1, <1>3, <1>6, <2>1, <3>1 DEF TransferIn, Onwards, Return
  <2>4. AbsMoved = i /\ AbsMoved' = i + 1
    BY <1>1, <2>1 DEF AbsMoved, Identifies
  <2>5. BD!InRange(op.dev, op.lba + AbsMoved)
    BY <2>1, <2>4 DEF BD!InRange
  <2>6. BD!GoesOn
    BY <1>1, <2>3, <2>4 DEF BD!GoesOn, AbsBusy, AbsRet, AbsMoved
  <2>7. BD!Deliver
    BY <1>1, <1>4, <1>6, <2>1, <2>2, <2>4, <2>5, <2>6
       DEF BD!Deliver, AbsBusy, AbsMoved, AbsLate, AbsFailed, NoLate, BD!NoLate
  <2> QED BY <2>7 DEF Abs, BD!BDNext
<1> QED BY <1>2, <1>5, <1>6

\* 256 words written to the data port are one sector accepted.
LEMMA MapOut ==
  ASSUME Inv, Settled, TransferOut
  PROVE  Abs
<1>1. /\ pc = "transfer" /\ op.kind = "write" /\ phase = "drq" /\ i' = i + 1
      /\ act' = [act EXCEPT !.data = <<op.data[i + 1]>>] /\ phase' = "busy"
      /\ UNCHANGED <<op, k, buf, dirty, regs, disk>> /\ ~Identifies /\ IsAct(act)
  BY DEF TransferOut, Onwards, Inv, Flow, Command, Listening, Quiet, DRQ, Identifies
<1>2. /\ i \in Nat /\ op.count \in Nat /\ i < op.count /\ act.data = <<>>
      /\ act.dev = op.dev /\ act.lba = op.lba + i
  BY <1>1, Calls DEF Inv, Flow, Types, Writes, Moving, Quiet
<1>3. AbsLate = NoLate /\ AbsLate' = [dev |-> op.dev, lba |-> op.lba + i, data |-> op.data[i + 1]]
  BY <1>1, <1>2 DEF AbsLate, IsAct
<1>4. \/ pc' = "first" /\ ret' = ret
      \/ pc' = "idle" /\ ret' = "ok" /\ i' = op.count
  BY <1>1, <1>2 DEF TransferOut, Onwards, Return
<1>5. AbsMoved = i /\ AbsMoved' = i + 1 /\ AbsBusy /\ ~AbsFailed /\ AbsFailed' = AbsFailed
  BY <1>1 DEF AbsMoved, AbsBusy, AbsFailed, Identifies
<1>6. BD!GoesOn
  BY <1>1, <1>4, <1>5 DEF BD!GoesOn, AbsBusy, AbsRet, AbsMoved
<1>7. BD!Accept
  BY <1>1, <1>2, <1>3, <1>5, <1>6
     DEF BD!Accept, AbsBusy, AbsMoved, AbsLate, AbsFailed, NoLate, BD!NoLate
<1> QED BY <1>7 DEF Abs, BD!BDNext

\* What the drive does by itself is a store, a failure, or not to be seen.
LEMMA MapDrive ==
  ASSUME Inv, Settled, DriveStep
  PROVE  Abs
<1>1. phase = "busy" /\ ~Quiet /\ Present /\ act.dev = regs.drive /\ IsAct(act)
      /\ UNCHANGED <<pc, op, i, buf, ret>> /\ regs \in Registers
  BY DEF DriveStep, DriveAsks, DriveStores, DriveFailed, driver, Inv, Flow, Types, Command,
         Listening, Quiet, Settled
<1>2. AbsMoved' = AbsMoved /\ AbsRet' = AbsRet /\ AbsBusy' = AbsBusy /\ ~AbsFailed
  BY <1>1 DEF AbsMoved, AbsRet, AbsBusy, AbsFailed, Identifies
<1>3. act.data # <<>> => AbsLate = [dev |-> act.dev, lba |-> act.lba, data |-> act.data[1]]
                         /\ AbsLate # NoLate
  BY <1>1 DEF AbsLate, NoLate, Registers
<1>4. CASE DriveAsks
  <2>1. AbsLate' = AbsLate /\ AbsFailed' = AbsFailed /\ disk' = disk
    BY <1>1, <1>4 DEF DriveAsks, AbsLate, AbsFailed
  <2> QED BY <1>1, <1>2, <2>1 DEF Abs, Stutters
<1>5. CASE DriveStores
  <2>1. /\ act.data # <<>> /\ act.lba \in DOMAIN disk[act.dev]
        /\ disk' = [disk EXCEPT ![act.dev][act.lba] = act.data[1]]
        /\ act'.data = <<>> /\ phase' # "err"
    <3>1. act.data # <<>> /\ act.lba \in DOMAIN disk[act.dev]
      BY <1>5 DEF DriveStores, OnMedium
    <3>2. disk' = [disk EXCEPT ![act.dev][act.lba] = act.data[1]]
      BY <1>5 DEF DriveStores
    <3>3. CASE act.left > 1
      <4>1. act' = [act EXCEPT !.left = @ - 1, !.lba = @ + 1, !.data = <<>>] /\ phase' = "drq"
        BY <1>5, <3>3 DEF DriveStores
      <4>2. act'.data = <<>>
        BY <1>1, <4>1 DEF IsAct
      <4> QED BY <3>1, <3>2, <4>1, <4>2
    <3>4. CASE ~(act.left > 1)
      BY <1>5, <3>1, <3>2, <3>4 DEF DriveStores, NoAct
    <3> QED BY <3>3, <3>4
  <2>2. AbsLate' = NoLate /\ AbsFailed' = AbsFailed
    BY <1>1, <2>1 DEF AbsLate, AbsFailed
  <2>3. BD!InRange(act.dev, act.lba)
    BY <1>1, <2>1 DEF BD!InRange, Present
  <2>4. BD!Store
    BY <1>1, <1>2, <1>3, <2>1, <2>2, <2>3
       DEF BD!Store, AbsBusy, AbsRet, AbsMoved, AbsLate, AbsFailed, NoLate, BD!NoLate
  <2> QED BY <2>4 DEF Abs, BD!BDNext
<1>6. CASE DriveFailed
  <2>1. act'.data = <<>> /\ phase' = "err" /\ disk' = disk
    BY <1>6 DEF DriveFailed, NoAct
  <2>2. AbsLate' = NoLate
    BY <2>1 DEF AbsLate
  <2>3. pc # "regs"
    BY <1>1 DEF Inv, Flow, Listening
  <2>4. AbsFailed' = (op.kind # "wait")
    BY <1>1, <2>1, <2>3 DEF AbsFailed
  <2>5. AbsLate # NoLate \/ AbsBusy
    BY <1>1, <1>3 DEF AbsBusy, Inv, Flow, Types, Listening, Writes, Quiet, Late
  <2>6. CASE AbsLate # NoLate \/ AbsBusy
    <3>1. BD!Fail
      BY <1>1, <1>2, <2>1, <2>2, <2>4, <2>6
         DEF BD!Fail, AbsBusy, AbsRet, AbsMoved, AbsLate, AbsFailed, NoLate, BD!NoLate
    <3> QED BY <3>1 DEF Abs, BD!BDNext
  <2> QED BY <2>5, <2>6
<1> QED BY <1>4, <1>5, <1>6 DEF DriveStep

\* The busy-waiting driver, its ports and a drive that works at its own pace
\* are together a device of numbered sectors, which moves them in order and
\* says so truthfully.
THEOREM Refinement == ASSUME Expressible, Media PROVE Spec => ImplementsBlockDevice
<1>1. Init => BD!Init /\ Settled
  <2> SUFFICES ASSUME Init PROVE BD!Init /\ Settled
    OBVIOUS
  <2>1. Settled
    BY DEF Init, Settled, Quiet, NoAct, Moving, Identifies, NoOp
  <2>2. BD!Init
    BY DEF Init, BD!Init, NoAct, NoOp, NoLate, BD!NoLate, Identifies
  <2> QED BY <2>1, <2>2
<1>2. Inv /\ Settled /\ [Next]_vars => Settled'
  BY SettledStep
<1>3. Inv /\ Settled /\ [Next]_vars => [BD!BDNext]_(BD!bdvars)
  <2> SUFFICES ASSUME Inv, Settled, [Next]_vars PROVE Abs
    BY DEF Abs, Stutters, BD!bdvars, AbsBusy, AbsRet, AbsMoved, AbsLate, AbsFailed
  <2>1. CASE UNCHANGED vars
    <3>1. UNCHANGED <<pc, op, i, buf, ret, phase, act, disk>>
      BY <2>1 DEF vars, driver, drive
    <3> QED
      BY <3>1 DEF Abs, Stutters, AbsBusy, AbsRet, AbsMoved, AbsLate, AbsFailed, Identifies
  <2> QED
    BY <2>1, MapStatus, MapCall, MapCommand, MapIn, MapOut, MapDrive DEF Next, DriverStep
<1> QED BY <1>1, <1>2, <1>3, Inductive, PTL DEF Spec, BD!BDSpec, ImplementsBlockDevice
============================================================================
