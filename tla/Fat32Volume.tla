---------------------------- MODULE Fat32Volume ----------------------------
(***************************************************************************)
(* The medium the FAT32 driver reads: a volume as mformat and mcopy lay it *)
(* out (Makefile), seen through 512-byte sectors.  Nothing here is code of *)
(* the kernel: it is the on-disk format the code under Drivers/fat32.c and *)
(* Drivers/Headers/fat32.h takes for granted.                              *)
(*                                                                         *)
(* A volume v is a record                                                  *)
(*   start        LBA of the partition, where the boot sector is           *)
(*   bpb          [bps, spc, rsvd, nfats, fatsz, root], the boot sector's  *)
(*                fields that the driver reads                             *)
(*   fat          [0 .. n-1 -> Nat], the allocation table                  *)
(*   dirs         [directory clusters -> sequences of directory entries]   *)
(*   tree         [paths -> [dir : BOOLEAN, chain : Seq(Nat)]], what the   *)
(*                volume is meant to hold: the oracle of the properties    *)
(* File contents are not represented: a byte of a file is named by the     *)
(* sector it lies in.                                                      *)
(***************************************************************************)
EXTENDS Words, Sequences

CONSTANTS
  SECTOR,     \* ATA_SECTOR_SIZE, the bytes of a sector (512)
  DIRENT      \* sizeof(struct DIR_entry) (32)

ASSUME SectorAssumption ==
  /\ SECTOR \in Nat \ {0} /\ DIRENT \in Nat \ {0}
  /\ SECTOR % 4 = 0 /\ SECTOR % DIRENT = 0

\* What the first byte of DIR_Name and DIR_Attr say of an entry.
EntryKind == {"end", "deleted", "lfn", "file", "dir"}

IsEntry(e) == e.kind \in EntryKind /\ e.clus \in Nat

\* An entry of zeroes: the end-of-directory marker (DIR_Name[0] = 0x00).
ZeroEntry == [kind |-> "end", name |-> <<>>, clus |-> 0]

ZeroBpb == [bps |-> 0, spc |-> 0, rsvd |-> 0, nfats |-> 0, fatsz |-> 0, root |-> 0]

Bpb == [bps : Nat, spc : Nat, rsvd : Nat, nfats : Nat, fatsz : Nat, root : Nat]

EOC      == 268435448      \* 0x0FFFFFF8, first end-of-chain value
FAT_MASK == 268435456      \* 0x0FFFFFFF + 1: & 0x0FFFFFFF is % FAT_MASK

FatWords == SECTOR \div 4
InTable(v, c) == c < v.bpb.fatsz * FatWords

\* The boot sector, when it is read at the LBA where the partition starts.
BpbAt(v, lba) == IF lba = v.start THEN v.bpb ELSE ZeroBpb

FatStart(v)  == v.start + v.bpb.rsvd
DataStart(v) == FatStart(v) + v.bpb.nfats * v.bpb.fatsz

\* The sectors of a volume are fewer than a uint32_t counts, those that its
\* table has room for included, and so are the bytes of the table.
Counted(v) ==
  /\ DataStart(v) + v.bpb.fatsz * FatWords * v.bpb.spc <= WORD
  /\ v.bpb.fatsz * SECTOR <= WORD

\* A volume as a formatter leaves it: its sectors are the drive's, and the
\* clusters that the boot sector, the table and the directories name have a
\* word in the table.  A disk without a volume has zeroes for a boot sector.
IsVolume(v) ==
  /\ v.start \in Nat /\ v.bpb \in Bpb /\ v.bpb.bps \in {0, SECTOR}
  /\ \A n \in DOMAIN v.fat : v.fat[n] \in Nat
  /\ \A c \in DOMAIN v.dirs : \A k \in DOMAIN v.dirs[c] : IsEntry(v.dirs[c][k])
  /\ v.bpb.fatsz # 0 =>
       /\ Counted(v) /\ InTable(v, v.bpb.root)
       /\ \A n \in DOMAIN v.fat : v.fat[n] % FAT_MASK >= EOC \/ InTable(v, v.fat[n] % FAT_MASK)
       /\ \A c \in DOMAIN v.dirs : \A k \in DOMAIN v.dirs[c] : InTable(v, v.dirs[c][k].clus)

\* The FAT word whose first byte is byte off of sector lba; each of the
\* nfats copies holds the same words.  Sectors never written read as zero.
FatWordAt(v, lba, off) ==
  LET n == ((lba - FatStart(v)) % v.bpb.fatsz) * FatWords + off \div 4
  IN  IF /\ FatStart(v) <= lba /\ lba < DataStart(v)
         /\ n \in DOMAIN v.fat
      THEN v.fat[n] ELSE 0

\* The cluster that follows cluster c on the volume.
FatSuccessor(v, c) ==
  IF InTable(v, c) /\ c \in DOMAIN v.fat THEN v.fat[c] % FAT_MASK ELSE 0

\* The directory entry that starts off bytes after the start of sector lba.
EntryAt(v, lba, off) ==
  LET sector == lba - DataStart(v) + off \div SECTOR
      clus   == 2 + sector \div v.bpb.spc
      k      == 1 + ((sector % v.bpb.spc) * SECTOR + (off % SECTOR)) \div DIRENT
  IN  IF clus \in DOMAIN v.dirs /\ k \in DOMAIN v.dirs[clus]
      THEN v.dirs[clus][k] ELSE ZeroEntry

ClusterBytes(v) == v.bpb.spc * SECTOR

\* The entries of directory cluster c that are in use: those before the end
\* marker that are neither deleted nor part of a long name.
InUse(v, c) ==
  {k \in DOMAIN v.dirs[c] :
     /\ k \in Nat \ {0} /\ (k - 1) * DIRENT < ClusterBytes(v)
     /\ v.dirs[c][k].kind \in {"file", "dir"}
     /\ \A j \in 1 .. k : j \in DOMAIN v.dirs[c] /\ v.dirs[c][j].kind # "end"}

\* A chain of the table, from its first cluster to the end mark.
IsChain(v, chain) ==
  /\ chain \in Seq(Nat)
  /\ \A i \in DOMAIN chain :
       /\ 2 <= chain[i] /\ chain[i] < EOC
       /\ IF i < Len(chain) THEN FatSuccessor(v, chain[i]) = chain[i + 1]
          ELSE FatSuccessor(v, chain[i]) >= EOC

\* The directory entry e says of a file or directory what the tree says.
Describes(v, e, p) ==
  /\ p \in DOMAIN v.tree
  /\ v.tree[p].dir = (e.kind = "dir")
  /\ e.clus = IF v.tree[p].chain = <<>> THEN 0 ELSE v.tree[p].chain[1]

\* The clusters of a directory that are on the disk and name the entry nm.
Naming(v, p, nm) ==
  {i \in DOMAIN v.tree[p].chain :
     /\ v.tree[p].chain[i] \in DOMAIN v.dirs
     /\ \E k \in InUse(v, v.tree[p].chain[i]) : v.dirs[v.tree[p].chain[i]][k].name = nm}

\* The volume holds the tree: the root is a directory that begins where the
\* boot sector says, chains are chains of the table, and the entries with
\* the given names that a directory's clusters have are what the tree has
\* under it.
Holds(v, names) ==
  /\ v.bpb.nfats > 0
  /\ <<>> \in DOMAIN v.tree /\ v.tree[<<>>].dir /\ v.tree[<<>>].chain # <<>>
  /\ v.tree[<<>>].chain[1] = v.bpb.root
  /\ \A p \in DOMAIN v.tree :
       /\ IsChain(v, v.tree[p].chain) /\ v.tree[p].dir \in BOOLEAN
       /\ \A n \in 0 .. Len(p) - 1 :
            /\ SubSeq(p, 1, n) \in DOMAIN v.tree /\ v.tree[SubSeq(p, 1, n)].dir
            /\ Naming(v, SubSeq(p, 1, n), p[n + 1]) # {}
       /\ v.tree[p].dir =>
            \A i \in DOMAIN v.tree[p].chain :
              v.tree[p].chain[i] \in DOMAIN v.dirs =>
                \A k \in InUse(v, v.tree[p].chain[i]) :
                  LET e == v.dirs[v.tree[p].chain[i]][k]
                  IN  e.name \in names => Describes(v, e, Append(p, e.name))
============================================================================
