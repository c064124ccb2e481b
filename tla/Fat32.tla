------------------------------- MODULE Fat32 -------------------------------
(***************************************************************************)
(* The FAT32 driver of the kernel (Kernel/src/Drivers/fat32.c): mounting   *)
(* with fat32_init, then reads of whole files by path with                 *)
(* fat32_read_file, which calls fat32_find_file, read_cluster and          *)
(* fat32_next_cluster.  One action per iteration of a loop of the code,    *)
(* each with the one disk read that iteration makes; the disk read         *)
(* (ata_read_sectors, module Ata) either delivers the sectors or fails.    *)
(*                                                                         *)
(* The strings of a path are the subject of Path.  What a path names is    *)
(* given a second time, as Means, for the properties to compare.           *)
(*                                                                         *)
(* A definition that stands directly before the one it is a variation of,  *)
(* and is used nowhere, is a mutant: the bug a property has to notice.     *)
(***************************************************************************)
EXTENDS Fat32Volume, Path

CONSTANTS
  CLUSBUF,       \* sizeof cluster_data and of cluster_buf (4096)
  PART_START,    \* partition_start_lba, the argument of fat32_init (0x800)
  Volumes,       \* the volumes the disk may hold
  PARTS,         \* pointers in parts (16)
  NAMEBUF,       \* sizeof name_buf (256)
  Requests,      \* the calls: [path : Seq(characters), size : buf_size]
  Means,         \* [paths of Requests -> Seq(short names)], what they name
  ReadOutcomes   \* {TRUE}: the disk never fails; BOOLEAN: any read may fail

NEXT_FAIL == 268435455      \* 0x0FFFFFFF, next cluster after a failed read

NoFs == [fat_start |-> 0, data_start |-> 0, bps |-> 0, spc |-> 0, bpc |-> 0, root |-> 0]
NoCall == [path |-> <<>>, size |-> 0]

VARIABLES
  vol,      \* the volume in the drive
  fs,       \* *fat, the struct FAT32 that fat32_init fills
  pc,       \* where the kernel is
  call,     \* the request being served, or the last one served
  part,     \* i of fat32_find_file, from 1
  cluster,  \* current_cluster of fat32_find_file, cluster of fat32_read_file
  total,    \* total_read
  copied,   \* history: the memcpys into the caller's buffer, in order
  ret,      \* the value returned by the last call
  ioerr     \* history: a disk read has failed during this call

vars == <<vol, fs, pc, call, part, cluster, total, copied, ret, ioerr>>

ASSUME VolumesAssumption == \A v \in Volumes : IsVolume(v)
ASSUME SizesAssumption ==
  /\ PART_START \in Nat /\ CLUSBUF \in Nat /\ PARTS \in Nat /\ NAMEBUF \in Nat
  /\ 2 * CLUSBUF <= WORD
\* The size of a buffer can be returned as an int.
ASSUME RequestsAssumption ==
  \A r \in Requests : /\ r.size \in Nat /\ 2 * r.size < WORD
                      /\ r.path \in Seq(Nat \ {NUL})
                      /\ r.path \in DOMAIN Means /\ Means[r.path] \in Seq(Seq(Nat))
ASSUME MeansAssumption == \A r \in Requests : NamedBy(r.path, Means[r.path])
ASSUME ReadOutcomesAssumption == ReadOutcomes \subseteq BOOLEAN /\ TRUE \in ReadOutcomes
----------------------------------------------------------------------------
cluster_to_lba(c) == (fs.data_start + (c - 2) * fs.spc) % WORD

\* The FAT sector that fat32_next_cluster reads for cluster c, and the place
\* of its word there.
fat_sector(c) == (fs.fat_start + ((4 * c) % WORD) \div fs.bps) % WORD
ent_offset(c) == ((4 * c) % WORD) % fs.bps

next_cluster_negative(c, ok) ==
  LET word == FatWordAt(vol, fat_sector(c), ent_offset(c)) % FAT_MASK
  IN  IF ~ok THEN -1 ELSE IF word >= EOC THEN 0 ELSE word
next_cluster_fat0(c, ok) ==
  LET word == FatWordAt(vol, fs.fat_start, ent_offset(c)) % FAT_MASK
  IN  IF ~ok THEN NEXT_FAIL ELSE IF word >= EOC THEN 0 ELSE word

\* fat32_next_cluster: 0 after the last cluster, NEXT_FAIL when the read of
\* the FAT sector failed.
next_cluster(c, ok) ==
  LET word == FatWordAt(vol, fat_sector(c), ent_offset(c)) % FAT_MASK
  IN  IF ~ok THEN NEXT_FAIL ELSE IF word >= EOC THEN 0 ELSE word

\* The loop condition on a cluster, and the test on the next one.
InChain(c) == 2 <= c /\ c < EOC
Follows(c) == c # 0 /\ c < EOC

\* The entries of the current cluster that the scan compares: those before
\* the end marker that are neither deleted nor part of a long name.
ScannedDeleted ==
  LET ent(k) == EntryAt(vol, cluster_to_lba(cluster), k * DIRENT)
  IN  {k \in 0 .. (fs.bpc - 1) \div DIRENT :
         \A j \in 0 .. k : ent(j).kind # "end" /\ ent(k).kind # "lfn"}
Scanned ==
  LET ent(k) == EntryAt(vol, cluster_to_lba(cluster), k * DIRENT)
  IN  {k \in 0 .. (fs.bpc - 1) \div DIRENT :
         /\ \A j \in 0 .. k : ent(j).kind # "end"
         /\ ent(k).kind \notin {"deleted", "lfn"}}

\* The scanned entries with the wanted name, in the order of the scan.
Hits(name) == {k \in Scanned : EntryAt(vol, cluster_to_lba(cluster), k * DIRENT).name = name}
FirstHit(name) ==
  LET k == CHOOSE k \in Hits(name) : \A j \in Hits(name) : k <= j
  IN  EntryAt(vol, cluster_to_lba(cluster), k * DIRENT)

\* The names fat32_find_file looks for, one after the other, and whether
\* the path it takes them from is within its arrays.
ShortNames ==
  [path \in {r.path : r \in Requests} |->
     LET s == split_path(path)
     IN  [i \in DOMAIN s.parts |-> pad_short_name(StringAt(s.buffer, s.parts[i]))]]
FindHolds(path) ==
  LET s == split_path(path) IN Len(s.parts) <= PARTS /\ Len(s.buffer) <= NAMEBUF

Names  == ShortNames[call.path]
Target == Names[part]

Return(r) == ret' = r /\ pc' = "idle"

\* The check of the cluster size against sizeof(cluster_data).
BufferHoldsUnchecked == TRUE
BufferHolds == fs.bpc <= CLUSBUF

\* What a cluster contributes to the caller's buffer, and where it goes.
to_copy_uncut == fs.bpc
to_copy == IF (total + fs.bpc) % WORD > call.size THEN call.size - total ELSE fs.bpc

DestAtStart == 0
Dest == total
Attempt(ok) == ok \in ReadOutcomes /\ ioerr' = (ioerr \/ ~ok)
----------------------------------------------------------------------------
Init ==
  /\ vol \in Volumes
  /\ fs = NoFs /\ pc = "boot" /\ call = NoCall
  /\ part = 1 /\ cluster = 0 /\ total = 0 /\ copied = <<>> /\ ret = 0
  /\ ioerr = FALSE

\* fat32_init fails: the boot sector cannot be read, or a field it divides
\* or multiplies by is zero.  kmain then spins for ever.
MountFails ==
  /\ pc = "boot" /\ pc' = "hang"
  /\ \E ok \in ReadOutcomes, b \in {BpbAt(vol, PART_START)} :
       \/ ~ok /\ ret' = -1 /\ ioerr' = TRUE
       \/ ok /\ (b.bps = 0 \/ b.spc = 0 \/ b.fatsz = 0) /\ ret' = -2 /\ UNCHANGED ioerr
  /\ UNCHANGED <<vol, fs, call, part, cluster, total, copied>>

MountOk ==
  LET b == BpbAt(vol, PART_START)
  IN  /\ pc = "boot" /\ pc' = "idle"
      /\ b.bps # 0 /\ b.spc # 0 /\ b.fatsz # 0
      /\ fs' = [fat_start  |-> (PART_START + b.rsvd) % WORD,
                data_start |-> (PART_START + b.rsvd + b.nfats * b.fatsz) % WORD,
                bps  |-> b.bps, spc |-> b.spc, bpc |-> b.bps * b.spc,
                root |-> b.root]
      /\ UNCHANGED <<vol, call, part, cluster, total, copied, ret, ioerr>>

KmainSpins == pc \in {"hang", "corrupt"} /\ UNCHANGED vars

\* fat32_read_file is called and enters fat32_find_file.  A path too long
\* for its arrays overwrites its stack; one without components is the root
\* directory and needs no search.
Call(r) ==
  /\ pc = "idle"
  /\ call' = r /\ part' = 1 /\ cluster' = fs.root
  /\ total' = 0 /\ copied' = <<>> /\ ioerr' = FALSE
  /\ IF ~FindHolds(r.path) THEN pc' = "corrupt" /\ UNCHANGED ret
     ELSE IF ShortNames[r.path] # <<>> THEN pc' = "find" /\ UNCHANGED ret
     ELSE IF int(fs.root) > 0 THEN pc' = "read" /\ UNCHANGED ret
     ELSE Return(int(fs.root))
  /\ UNCHANGED <<vol, fs>>

\* One cluster of a directory is read and scanned for the component.
FindCluster(ok) ==
  /\ pc = "find" /\ InChain(cluster) /\ BufferHolds
  /\ Attempt(ok)
  /\ \/ ~ok /\ Return(-3) /\ UNCHANGED <<part, cluster>>
     \/ ok /\ Hits(Target) = {} /\ pc' = "findnext" /\ UNCHANGED <<part, cluster, ret>>
     \/ /\ ok /\ Hits(Target) # {}
        /\ LET hit  == FirstHit(Target)
               last == part = Len(Names)
           IN  /\ cluster' = hit.clus
               /\ \/ ~last /\ hit.kind # "dir" /\ Return(-2) /\ UNCHANGED part
                  \/ ~last /\ hit.kind = "dir" /\ part' = part + 1 /\ UNCHANGED <<pc, ret>>
                  \/ last /\ int(hit.clus) <= 0 /\ Return(int(hit.clus)) /\ UNCHANGED part
                  \/ last /\ int(hit.clus) > 0 /\ pc' = "read" /\ UNCHANGED <<part, ret>>
  /\ UNCHANGED <<vol, fs, call, total, copied>>

\* The directory search ends without a read: the cluster buffer is too
\* small (-4), or the component's directory has no first cluster (0).
FindStops ==
  /\ pc = "find"
  /\ \/ InChain(cluster) /\ ~BufferHolds /\ Return(-4)
     \/ ~InChain(cluster) /\ Return(0)
  /\ UNCHANGED <<vol, fs, call, part, cluster, total, copied, ioerr>>

FindNextStays(ok) ==
  LET next == next_cluster(cluster, ok)
  IN  /\ pc = "findnext" /\ Attempt(ok)
      /\ \/ Follows(next) /\ pc' = "find" /\ UNCHANGED ret
         \/ ~Follows(next) /\ Return(0)
      /\ UNCHANGED <<vol, fs, call, part, cluster, total, copied>>

\* On to the directory's next cluster; without one the path is not found.
FindNext(ok) ==
  LET next == next_cluster(cluster, ok)
  IN  /\ pc = "findnext" /\ Attempt(ok)
      /\ \/ Follows(next) /\ cluster' = next /\ pc' = "find" /\ UNCHANGED ret
         \/ ~Follows(next) /\ Return(0) /\ UNCHANGED cluster
      /\ UNCHANGED <<vol, fs, call, part, total, copied>>

\* read_cluster puts sectors behind the end of cluster_buf, perhaps also when
\* it fails later on: what the kernel does from then on is undefined.
Overruns == fs.bpc > CLUSBUF

\* One cluster of the file is read and copied, cut to the caller's buffer.
ReadCluster(ok) ==
  /\ pc = "read" /\ InChain(cluster) /\ total < call.size
  /\ Attempt(ok)
  /\ \/ ~ok /\ Return(-3) /\ UNCHANGED <<total, copied>>
     \/ Overruns /\ pc' = "corrupt" /\ UNCHANGED <<total, copied, ret>>
     \/ /\ ok /\ ~Overruns /\ pc' = "readnext" /\ UNCHANGED ret
        /\ copied' = Append(copied, [at |-> Dest, n |-> to_copy, clus |-> cluster,
                                     lba |-> cluster_to_lba(cluster)])
        /\ total' = (total + to_copy) % WORD
  /\ UNCHANGED <<vol, fs, call, part, cluster>>

ReadNext(ok) ==
  LET next == next_cluster(cluster, ok)
  IN  /\ pc = "readnext" /\ Attempt(ok)
      /\ \/ Follows(next) /\ cluster' = next /\ pc' = "read" /\ UNCHANGED ret
         \/ ~Follows(next) /\ Return(int(total)) /\ UNCHANGED cluster
      /\ UNCHANGED <<vol, fs, call, part, total, copied>>

ReadDone ==
  /\ pc = "read" /\ ~(InChain(cluster) /\ total < call.size)
  /\ Return(int(total))
  /\ UNCHANGED <<vol, fs, call, part, cluster, total, copied, ioerr>>

Step ==
  \/ MountFails \/ MountOk \/ FindStops \/ ReadDone
  \/ \E ok \in BOOLEAN : FindCluster(ok) \/ FindNext(ok) \/ ReadCluster(ok) \/ ReadNext(ok)

Next == Step \/ KmainSpins \/ \E r \in Requests : Call(r)

\* The kernel is one thread that is never preempted: a step it can take, it
\* takes.  Nothing says that a caller ever calls.
Spec == Init /\ [][Next]_vars /\ WF_vars(Step)
----------------------------------------------------------------------------
(***************************************************************************)
(* Properties.                                                             *)
(***************************************************************************)
Chunk == [at : Nat, n : Nat, clus : Int, lba : Int]
FatStruct == [fat_start : Nat, data_start : Nat, bps : Nat, spc : Nat, bpc : Nat, root : Nat]

\* Types of the driver's variables and of the struct FAT32 it fills.
TypeOK ==
  /\ vol \in Volumes /\ fs \in FatStruct
  /\ pc \in {"boot", "hang", "corrupt", "idle", "find", "findnext", "read", "readnext"}
  /\ call \in Requests \cup {NoCall}
  /\ part \in Nat \ {0} /\ cluster \in Nat /\ total \in Nat
  /\ copied \in Seq(Chunk) /\ ret \in Int /\ ioerr \in BOOLEAN

\* fat32_read_file never copies or reports more bytes than buf_size: the
\* index at which kmain stores the terminating NUL (main.c) is inside its
\* buffer of buf_size + 1 bytes, whatever the volume holds.  total_read is a
\* uint32_t and wraps; buf_size is below 2^31 (RequestsAssumption).
WithinBuffer == total <= call.size /\ (pc = "idle" => ret <= call.size)

\* The copies made by fat32_read_file fill the caller's buffer from its
\* first byte, without a gap and without writing a byte twice, and
\* total_read is always where the next one goes.
TilesBuffer ==
  /\ \A k \in 1 .. Len(copied) :
       copied[k].at = IF k = 1 THEN 0 ELSE copied[k - 1].at + copied[k - 1].n
  /\ total = IF copied = <<>> THEN 0 ELSE copied[Len(copied)].at + copied[Len(copied)].n

\* What fat32_read_file copies are the clusters of one chain of the FAT in
\* their order: each copy comes from the sectors of its cluster and from
\* the successor, in the allocation table, of the cluster before it.
FollowsChain ==
  /\ \A k \in 1 .. Len(copied) :
       copied[k].lba = DataStart(vol) + (copied[k].clus - 2) * vol.bpb.spc
  /\ \A k \in 1 .. Len(copied) - 1 :
       copied[k + 1].clus = FatSuccessor(vol, copied[k].clus)

Smaller(a, b) == IF a <= b THEN a ELSE b

\* The volumes that hold what they are meant to hold, as far as the names
\* that are asked for go: nothing is said of a disk that is not mounted.
Mountable(v) ==
  /\ BpbAt(v, PART_START).bps # 0 /\ BpbAt(v, PART_START).spc # 0
  /\ BpbAt(v, PART_START).fatsz # 0
Wanted == UNION {{Means[r.path][i] : i \in DOMAIN Means[r.path]} : r \in Requests}
Consistent == {v \in Volumes : Mountable(v) => Holds(v, Wanted)}

\* The copies that deliver the first r.size bytes of the chain the volume
\* holds under r.path.
Delivery(v, r) ==
  LET chain == IF Means[r.path] \in DOMAIN v.tree THEN v.tree[Means[r.path]].chain ELSE <<>>
      cb    == ClusterBytes(v)
  IN  [k \in 1 .. Smaller(Len(chain), (r.size + cb - 1) \div cb) |->
         [at |-> (k - 1) * cb, n |-> Smaller(cb, r.size - (k - 1) * cb),
          clus |-> chain[k], lba |-> DataStart(v) + (chain[k] - 2) * v.bpb.spc]]

\* The value a read returns when the disk does not fail.
Outcome(v, r) ==
  LET path    == Means[r.path]
      through == \E i \in 1 .. Len(path) - 1 :
                   SubSeq(path, 1, i) \in DOMAIN v.tree /\ ~v.tree[SubSeq(path, 1, i)].dir
  IN  IF path # <<>> /\ ClusterBytes(v) > CLUSBUF THEN -4
      ELSE IF path \in DOMAIN v.tree
           THEN Smaller(r.size, Len(v.tree[path].chain) * ClusterBytes(v))
      ELSE IF through THEN -2 ELSE 0

\* At every moment, and also when disk reads fail in the middle of a search
\* or of a chain, the bytes fat32_read_file has copied are the first bytes
\* of the file the path names: never another file's, never out of order.
DeliversPrefix ==
  vol \in Consistent =>
    \A k \in 1 .. Len(copied) :
      k \in DOMAIN Delivery(vol, call) /\ copied[k] = Delivery(vol, call)[k]

\* A call during which no disk read failed returns exactly what the volume
\* holds: the whole of the file's chain cut to buf_size, 0 for a missing
\* path, -2 for a path through a file, -4 for clusters that are too large.
ReadExact ==
  vol \in Consistent /\ pc = "idle" /\ ~ioerr /\ call # NoCall =>
    /\ ret = Outcome(vol, call)
    /\ ret > 0 => copied = Delivery(vol, call)

\* Nothing of the kernel's memory is overwritten by a path that has fewer
\* than NAMEBUF characters, one to PARTS names among them: the arrays of
\* fat32_find_file hold its parts, and its check of the cluster size
\* protects the buffer of fat32_read_file as well.  (The root directory,
\* for which nothing is searched, is not protected.)
BuffersFit ==
  pc = "corrupt" => Len(call.path) >= NAMEBUF \/ Len(Means[call.path]) \notin 1 .. PARTS
============================================================================
