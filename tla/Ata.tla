-------------------------------- MODULE Ata --------------------------------
(***************************************************************************)
(* The ATA PIO driver (Kernel/src/Drivers/ata.c) and one channel of the    *)
(* IDE controller it drives through its ports.  The driver busy-waits: one *)
(* action per outb of a command block, per read of the status register,    *)
(* and per sector of 256 words moved through the data port (the drive does *)
(* nothing while it holds DRQ).  The drives work at their own pace between *)
(* any two of these.                                                       *)
(*                                                                         *)
(* The controller is external, modelled as the driver sees it: a drive     *)
(* ignores the registers and commands written while it is busy or holds    *)
(* data, a sector count of 0 asks for COUNT_REG sectors, and a drive that  *)
(* is absent ignores commands and reads as status 0.  A drive that fails   *)
(* clears DRQ: it has one phase at a time, and no status has ERR and DRQ.  *)
(*                                                                         *)
(* A definition that stands directly before the one it is a variation of,  *)
(* and is used nowhere, is a mutant: the bug a property has to notice.     *)
(***************************************************************************)
EXTENDS Integers, Sequences

CONSTANTS
  BYTE,        \* the values of an 8-bit LBA register (256)
  HEADS,       \* the values of the LBA bits of the drive register (16)
  COUNT_REG,   \* the values of the sector count register (256)
  Disks,       \* the media: [drives that are present -> [sectors -> data]]
  Requests,    \* the calls: [kind, dev, lba, count, data]
  Junk,        \* data that are no sector of a medium
  DriveFails   \* a drive may fail a command

ASSUME RegisterAssumption ==
  BYTE \in Nat \ {0} /\ HEADS \in Nat \ {0} /\ COUNT_REG \in Nat \ {0}
ASSUME DriveFailsAssumption == DriveFails \in BOOLEAN
ASSUME RequestsAssumption ==
  \A r \in Requests :
    /\ r.kind \in {"read", "write", "identify", "init", "wait"}
    /\ r.dev \in {0, 1} /\ r.lba \in Nat /\ r.count \in Nat

NoOp   == [kind |-> "wait", dev |-> 0, lba |-> 0, count |-> 0, data |-> <<>>]
NoAct  == [kind |-> "none", dev |-> 0, lba |-> 0, left |-> 0, data |-> <<>>]

VARIABLES
  pc, op, k, i, buf, ret,    \* the driver: where it is, its arguments, the
                             \*   registers written, its loop counter, the
                             \*   sectors read so far, the value returned
  dirty,                     \* a write was called since the last wait
  wr,                        \* history: the last write called, and the number
                             \*   of its sectors transferred to the drive
  regs,                      \* the controller's command block
  phase,                     \* the selected drive: "ready", "busy", "drq", "err"
  act,                       \* the command in progress; its data is what was
                             \*   written to the drive and not stored yet
  disk                       \* the media

driver == <<pc, op, k, i, buf, ret, dirty, wr>>
drive  == <<regs, phase, act, disk>>
vars   == <<driver, drive>>
----------------------------------------------------------------------------
\* The status register.  BSY, DRQ and ERR as the driver tests them.
Present  == regs.drive \in DOMAIN disk
BSY      == Present /\ phase = "busy"
DRQ      == Present /\ phase = "drq"
ERR      == Present /\ phase = "err"
Listens  == phase \notin {"busy", "drq"}

DecodedLba == regs.low + BYTE * (regs.mid + BYTE * (regs.high + BYTE * regs.head))

\* The command block in the order it is written; identify clears it.
RegOrder == <<"drive", "cnt", "low", "mid", "high">>
Identifies == op.kind \in {"identify", "init"}

HeadBitsNone(r) == 0
HeadBits(r) == IF r.dev = 0 THEN 0 ELSE (r.lba \div (BYTE * BYTE * BYTE)) % HEADS

RegValueNoHigh(r, name) ==
  CASE name = "cnt"  -> r.count % COUNT_REG
    [] name = "low"  -> r.lba % BYTE
    [] name = "mid"  -> (r.lba \div BYTE) % BYTE
    [] name = "high" -> 0
    [] OTHER -> r.dev
RegValueWide(r, name) ==
  CASE name = "cnt"  -> r.count
    [] name = "low"  -> r.lba % BYTE
    [] name = "mid"  -> (r.lba \div BYTE) % BYTE
    [] name = "high" -> (r.lba \div (BYTE * BYTE)) % BYTE
    [] OTHER -> r.dev
RegValue(r, name) ==
  CASE name = "cnt"  -> r.count % COUNT_REG
    [] name = "low"  -> r.lba % BYTE
    [] name = "mid"  -> (r.lba \div BYTE) % BYTE
    [] name = "high" -> (r.lba \div (BYTE * BYTE)) % BYTE
    [] OTHER -> r.dev

\* A call returns; ata_init goes on to wait for the drive.
Return(r) ==
  /\ ret' = r
  /\ pc' = IF op.kind = "init" /\ pc # "wait" THEN "wait" ELSE "idle"
----------------------------------------------------------------------------
Init ==
  /\ pc = "idle" /\ op = NoOp /\ k = 0 /\ i = 0 /\ buf = <<>> /\ ret = "ok"
  /\ dirty = FALSE /\ wr = [req |-> NoOp, n |-> 0]
  /\ regs = [drive |-> 0, head |-> 0, cnt |-> 0, low |-> 0, mid |-> 0, high |-> 0]
  /\ phase = "ready" /\ act = NoAct
  /\ disk \in Disks

\* What the driver takes for granted and does not check: callers use drives
\* that are present, and call ata_wait_ready between a write and the next
\* command.
MayCall(r) ==
  /\ r.kind \in {"read", "write"} => r.dev \in DOMAIN disk
  /\ dirty => r.kind = "wait"

Call(r) ==
  /\ pc = "idle" /\ MayCall(r)
  /\ op' = r /\ k' = 0 /\ i' = 0 /\ buf' = <<>>
  /\ pc' = IF r.kind = "wait" THEN "wait" ELSE "regs"
  /\ dirty' = (r.kind = "write")
  /\ wr' = IF r.kind = "write" THEN [req |-> r, n |-> 0] ELSE wr
  /\ UNCHANGED <<ret, drive>>

\* One outb to the command block; selecting another drive shows its status.
OutReg ==
  LET name == RegOrder[k + 1]
      val  == IF Identifies /\ name # "drive" THEN 0 ELSE RegValue(op, name)
  IN  /\ pc = "regs" /\ k < Len(RegOrder)
      /\ k' = k + 1
      /\ IF ~Listens THEN UNCHANGED <<regs, phase>>
         ELSE /\ regs' = IF name = "drive"
                         THEN [regs EXCEPT !.drive = val,
                                           !.head = IF Identifies THEN 0 ELSE HeadBits(op)]
                         ELSE [regs EXCEPT ![name] = val]
              /\ phase' = IF name = "drive" /\ val # regs.drive THEN "ready" ELSE phase
      /\ UNCHANGED <<pc, op, i, buf, ret, dirty, wr, act, disk>>

\* The outb of the command.  A call for no sectors returns at once.
OutCommand ==
  /\ pc = "regs" /\ k = Len(RegOrder)
  /\ IF Listens /\ Present
     THEN /\ phase' = "busy"
          /\ act' = [kind |-> IF Identifies THEN "identify" ELSE op.kind,
                     dev  |-> regs.drive, lba |-> DecodedLba, data |-> <<>>,
                     left |-> IF Identifies THEN 1
                              ELSE IF regs.cnt = 0 THEN COUNT_REG ELSE regs.cnt]
     ELSE UNCHANGED <<phase, act>>
  /\ IF ~Identifies /\ op.count = 0 THEN Return("ok")
     ELSE pc' = "first" /\ UNCHANGED ret
  /\ UNCHANGED <<op, k, i, buf, dirty, wr, regs, disk>>

FirstStatusNoProbe ==
  /\ pc = "first" /\ UNCHANGED ret
  /\ pc' = IF ~BSY /\ DRQ THEN "transfer" ELSE "poll"
  /\ UNCHANGED <<op, k, i, buf, dirty, wr, drive>>

\* The first read of the status register, which is not tested for ERR.
\* identify takes a status of 0 for the absence of the drive.
FirstStatus ==
  /\ pc = "first"
  /\ \/ Identifies /\ ~Present /\ Return("error")
     \/ ~(Identifies /\ ~Present) /\ UNCHANGED ret
        /\ pc' = IF ~BSY /\ DRQ THEN "transfer" ELSE "poll"
  /\ UNCHANGED <<op, k, i, buf, dirty, wr, drive>>

\* The loop that polls until the drive asks for a transfer.
PollStatus ==
  /\ pc = "poll"
  /\ \/ ERR /\ Return("error")
     \/ ~ERR /\ pc' = (IF ~BSY /\ DRQ THEN "transfer" ELSE "poll") /\ UNCHANGED ret
  /\ UNCHANGED <<op, k, i, buf, dirty, wr, drive>>

\* After a sector: the next one, or success.
Onwards ==
  /\ i' = i + 1
  /\ IF ~Identifies /\ i + 1 < op.count THEN pc' = "first" /\ UNCHANGED ret
     ELSE Return("ok")

\* 256 words read: the drive moves on to its next sector.
TransferIn ==
  /\ pc = "transfer" /\ op.kind # "write"
  /\ Onwards
  /\ buf' = IF Identifies THEN buf
            ELSE Append(buf, IF DRQ /\ act.kind = "read" THEN disk[act.dev][act.lba] ELSE Junk)
  /\ IF ~DRQ THEN UNCHANGED <<act, phase>>
     ELSE IF act.left > 1
          THEN act' = [act EXCEPT !.left = @ - 1, !.lba = @ + 1] /\ phase' = "busy"
          ELSE act' = NoAct /\ phase' = "ready"
  /\ UNCHANGED <<op, k, dirty, wr, regs, disk>>

TransferOutFirst ==
  /\ pc = "transfer" /\ op.kind = "write"
  /\ Onwards
  /\ wr' = [wr EXCEPT !.n = @ + 1]
  /\ IF DRQ THEN act' = [act EXCEPT !.data = <<op.data[1]>>] /\ phase' = "busy"
     ELSE UNCHANGED <<act, phase>>
  /\ UNCHANGED <<op, k, buf, dirty, regs, disk>>
\* 256 words written: the drive is busy until it has stored them.
TransferOut ==
  /\ pc = "transfer" /\ op.kind = "write"
  /\ Onwards
  /\ wr' = [wr EXCEPT !.n = @ + 1]
  /\ IF DRQ THEN act' = [act EXCEPT !.data = <<op.data[i + 1]>>] /\ phase' = "busy"
     ELSE UNCHANGED <<act, phase>>
  /\ UNCHANGED <<op, k, buf, dirty, regs, disk>>

\* ata_wait_ready returns when it reads a status without BSY.
WaitReadyOnce ==
  /\ pc = "wait"
  /\ Return(IF op.kind = "init" THEN ret ELSE "ok")
  /\ UNCHANGED <<op, k, i, buf, dirty, wr, drive>>
WaitReady ==
  /\ pc = "wait" /\ ~BSY
  /\ Return(IF op.kind = "init" THEN ret ELSE "ok")
  /\ UNCHANGED <<op, k, i, buf, dirty, wr, drive>>
----------------------------------------------------------------------------
(***************************************************************************)
(* The drive.                                                              *)
(***************************************************************************)
OnMedium == act.lba \in DOMAIN disk[act.dev]

\* The drive has the next sector at hand, or room for it.
DriveAsks ==
  /\ phase = "busy" /\ act.data = <<>>
  /\ act.kind \in {"read", "write"} => OnMedium
  /\ phase' = "drq"
  /\ UNCHANGED <<driver, regs, act, disk>>

DriveStores ==
  /\ phase = "busy" /\ act.data # <<>> /\ OnMedium
  /\ disk' = [disk EXCEPT ![act.dev][act.lba] = act.data[1]]
  /\ IF act.left > 1
     THEN act' = [act EXCEPT !.left = @ - 1, !.lba = @ + 1, !.data = <<>>] /\ phase' = "drq"
     ELSE act' = NoAct /\ phase' = "ready"
  /\ UNCHANGED <<driver, regs>>

DriveFailed ==
  /\ phase = "busy"
  /\ DriveFails \/ (act.kind # "identify" /\ ~OnMedium)
  /\ phase' = "err" /\ act' = NoAct
  /\ UNCHANGED <<driver, regs, disk>>
----------------------------------------------------------------------------
DriverStep ==
  OutReg \/ OutCommand \/ FirstStatus \/ PollStatus \/ TransferIn \/ TransferOut \/ WaitReady
DriveStep == DriveAsks \/ DriveStores \/ DriveFailed

Next == DriverStep \/ DriveStep \/ \E r \in Requests : Call(r)

\* The driver busy-waits and is never preempted; a drive answers in the end.
Spec == Init /\ [][Next]_vars /\ WF_vars(DriverStep) /\ WF_vars(DriveStep)
----------------------------------------------------------------------------
(***************************************************************************)
(* Properties.                                                             *)
(***************************************************************************)
\* Types of the driver's and the controller's variables.
TypeOK ==
  /\ pc \in {"idle", "regs", "first", "poll", "transfer", "wait"}
  /\ op \in Requests \cup {NoOp} /\ k \in 0 .. 5 /\ i \in Nat
  /\ Len(buf) <= i /\ ret \in {"ok", "error"} /\ dirty \in BOOLEAN
  /\ regs.drive \in {0, 1} /\ regs.head \in 0 .. HEADS - 1 /\ regs.cnt \in 0 .. COUNT_REG - 1
  /\ \A r \in {"low", "mid", "high"} : regs[r] \in 0 .. BYTE - 1
  /\ phase \in {"ready", "busy", "drq", "err"}
  /\ act.left \in 0 .. COUNT_REG /\ Len(act.data) <= 1

\* ata_read_sectors returns 0 only with the sectors lba .. lba + count - 1
\* of the drive it was asked for, in order; the sectors it has stored in the
\* buffer before an error are the first of these.
ReadDelivers ==
  op.kind = "read" =>
    /\ \A j \in 1 .. Len(buf) : buf[j] = disk[op.dev][op.lba + j - 1]
    /\ pc = "idle" /\ ret = "ok" => Len(buf) = op.count

\* A sector of a medium changes only to the data that the last call of
\* ata_write_sectors, to that drive, held for that sector and has
\* transferred: no call overwrites a sector it was not asked to write, also
\* when the drive stores it after the call has returned.
OnlyWhatWasAsked ==
  [][\A d \in DOMAIN disk : \A s \in DOMAIN disk[d] :
       disk'[d][s] # disk[d][s] =>
         /\ wr.req.kind = "write" /\ wr.req.dev = d
         /\ s - wr.req.lba \in 0 .. wr.n - 1
         /\ disk'[d][s] = wr.req.data[s - wr.req.lba + 1]]_vars

\* Once the drive is ready after an ata_write_sectors that returned 0, every
\* sector of the call is on the medium; only a failure of the drive after
\* the last transfer may go unseen.
WriteLands ==
  pc = "idle" /\ op.kind = "write" /\ ret = "ok" /\ phase = "ready" =>
    \A j \in 1 .. op.count : disk[op.dev][op.lba + j - 1] = op.data[j]

\* Every call returns when the drives that are used are present and callers
\* wait after a write: the driver never polls for a transfer that the drive
\* does not have, nor leaves one behind.
CallsReturn == pc # "idle" ~> pc = "idle"

\* "Select drive and set LBA bits" (ata.c): the command block addresses the
\* sector the caller asked for, on a drive of up to 2^28 sectors.
LbaBitsSet ==
  pc \in {"first", "poll"} /\ i = 0 /\ ~Identifies /\ phase = "busy" =>
    act.lba = op.lba

\* The driver and the controller implement BlockDevice.
NoLate == [dev |-> -1, lba |-> 0, data |-> Junk]
BD == INSTANCE BlockDevice WITH
  busy   <- pc # "idle",
  ret    <- IF pc = "idle" THEN ret ELSE "none",
  moved  <- IF Identifies THEN 0 ELSE i,
  late   <- IF act.data = <<>> THEN NoLate
            ELSE [dev |-> act.dev, lba |-> act.lba, data |-> act.data[1]],
  failed <- phase = "err" /\ pc # "regs" /\ op.kind # "wait"

ImplementsBlockDevice == BD!BDSpec
============================================================================
