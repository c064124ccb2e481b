---------------------------- MODULE BlockDevice ----------------------------
(***************************************************************************)
(* What the ATA driver promises its callers: drives of numbered sectors,   *)
(* read and written by one blocking call at a time.  Sectors are moved in  *)
(* order.  A write hands a sector to its drive, which stores it a moment   *)
(* later (late); the call may return before the last sector is stored, and *)
(* a drive that fails may drop it.  Waiting for the drive ends only when   *)
(* nothing is late.                                                        *)
(***************************************************************************)
EXTENDS Integers, Sequences

CONSTANTS
  Disks,      \* the media: [drives that are present -> [sectors -> data]]
  Requests,   \* the calls: [kind, dev, lba, count, data]
  Junk        \* stands for data that are no sector of a medium

NoLate == [dev |-> -1, lba |-> 0, data |-> Junk]

VARIABLES
  disk,     \* what the drives hold
  op,       \* the call being served, or the last one served
  busy,     \* a call is being served
  moved,    \* sectors moved by the call so far
  buf,      \* the sectors a read has delivered to the caller
  ret,      \* "ok" or "error", the answer to the last call; "none" before it
  late,     \* the sector a drive has accepted and not stored
  failed    \* a drive has failed the call

bdvars == <<disk, op, busy, moved, buf, ret, late, failed>>

InRange(d, s) == d \in DOMAIN disk /\ s \in DOMAIN disk[d]
----------------------------------------------------------------------------
Init ==
  /\ disk \in Disks
  /\ op = [kind |-> "wait", dev |-> 0, lba |-> 0, count |-> 0, data |-> <<>>]
  /\ busy = FALSE /\ moved = 0 /\ buf = <<>> /\ ret = "ok"
  /\ late = NoLate /\ failed = FALSE

Begin(r) ==
  /\ ~busy /\ busy' = TRUE
  /\ op' = r /\ moved' = 0 /\ buf' = <<>> /\ failed' = FALSE /\ ret' = "none"
  /\ UNCHANGED <<disk, late>>

\* The call goes on, or returns success when every sector has been moved.
GoesOn ==
  \/ UNCHANGED <<busy, ret>>
  \/ moved' = op.count /\ busy' = FALSE /\ ret' = "ok"

\* The next sector of a read is the one the medium holds.
Deliver ==
  LET s == op.lba + moved
  IN  /\ busy /\ op.kind = "read" /\ moved < op.count /\ ~failed /\ late = NoLate
      /\ InRange(op.dev, s)
      /\ buf' = Append(buf, disk[op.dev][s]) /\ moved' = moved + 1 /\ GoesOn
      /\ UNCHANGED <<disk, op, late, failed>>

\* The next sector of a write is accepted when the one before it is stored.
Accept ==
  LET s == op.lba + moved
  IN  /\ busy /\ op.kind = "write" /\ moved < op.count /\ ~failed /\ late = NoLate
      /\ late' = [dev |-> op.dev, lba |-> s, data |-> op.data[moved + 1]]
      /\ moved' = moved + 1 /\ GoesOn
      /\ UNCHANGED <<disk, op, buf, failed>>

Store ==
  /\ late # NoLate /\ InRange(late.dev, late.lba)
  /\ disk' = [disk EXCEPT ![late.dev][late.lba] = late.data]
  /\ late' = NoLate
  /\ UNCHANGED <<op, busy, moved, buf, ret, failed>>

\* The drive fails; a sector it had accepted is lost.
Fail ==
  /\ late # NoLate \/ busy
  /\ late' = NoLate /\ failed' = (op.kind # "wait")
  /\ UNCHANGED <<disk, op, busy, moved, buf, ret>>

\* A call that moves no sector returns success; a wait when nothing is late.
Succeed ==
  /\ busy /\ busy' = FALSE /\ ret' = "ok"
  /\ op.kind \notin {"read", "write"} \/ op.count = 0
  /\ op.kind \in {"wait", "init"} => late = NoLate
  /\ UNCHANGED <<disk, op, moved, buf, late, failed>>

\* It returns an error when a drive failed it, or is absent.
Refuse ==
  /\ busy /\ busy' = FALSE /\ ret' = "error"
  /\ op.kind # "wait" /\ (failed \/ op.dev \notin DOMAIN disk)
  /\ op.kind = "init" => late = NoLate
  /\ UNCHANGED <<disk, op, moved, buf, late, failed>>

BDNext ==
  \/ Deliver \/ Accept \/ Store \/ Fail \/ Succeed \/ Refuse
  \/ \E r \in Requests : Begin(r)

BDSpec == Init /\ [][BDNext]_bdvars
============================================================================
