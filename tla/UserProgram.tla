---------------------------- MODULE UserProgram ----------------------------
(***************************************************************************)
(* Loading a program and entering it: load_elf (Kernel/src/Core/elf.c)     *)
(* and jump_to_user_mode (jtum.asm), in the memory and with the registers  *)
(* and interrupts of Interrupts.  Nothing calls them yet: the caller here  *)
(* does what the comment in main.c prepares, load a file that has been     *)
(* read and jump to its entry with a stack of its own.                     *)
(*                                                                         *)
(* Memory is counted in the slots of Interrupts, and so are the offsets    *)
(* and sizes of a file.  The header fills a slot and so does each program  *)
(* header; load_elf reads them in memory, where the file is, so a segment  *)
(* that lies on them changes what it reads.  That the selectors of         *)
(* jump_to_user_mode have user descriptors is taken for granted            *)
(* (external): gdt_install, empty in the 64-bit build, sets none.          *)
(*                                                                         *)
(* A definition that stands directly before the one it is a variation of,  *)
(* and is used nowhere, is a mutant: the bug a property has to notice.     *)
(***************************************************************************)
EXTENDS Interrupts

CONSTANTS
  Images,    \* files in memory: [at |-> their slot, cells |-> what is there,
             \*                   header |-> the first cell, phdrs |-> the table]
  Stacks     \* the stacks of user programs: the slot above the first push

\* What the fields of a header and of a program header hold.
Elf64_Ehdr == [magic : BOOLEAN, bits : Nat, entry : Nat, phoff : Nat, phnum : Nat]
Elf64_Phdr == [type : Nat, offset : Nat, vaddr : Nat, filesz : Nat, memsz : Nat]
PT_LOAD == 1
ELF64 == 2
Zero == "zero"

InMemory(from, size) == from + size <= 64
ASSUME ImagesAssumption ==
  \A f \in Images :
    /\ f.at \in Slot /\ f.cells \in Seq(STRING) /\ InMemory(f.at, Len(f.cells))
    /\ f.header \in Elf64_Ehdr /\ f.header.phoff + f.header.phnum <= Len(f.cells)
    /\ DOMAIN f.phdrs = 1 .. f.header.phnum
    /\ \A k \in DOMAIN f.phdrs :
         LET p == f.phdrs[k]
         IN  p \in Elf64_Phdr /\ InMemory(f.at + p.offset, p.filesz)
               /\ InMemory(p.vaddr, p.filesz) /\ InMemory(p.vaddr, p.memsz)
ASSUME StacksAssumption == Stacks \subseteq 5 .. 63

VARIABLES
  image,    \* the file
  loader,   \* "idle", "loading", "failed", "loaded", "jumping" or "user"
  i,        \* of load_elf, from 0
  result    \* what load_elf has returned

uvars == <<image, loader, i, result>>

UserInit ==
  /\ InitCpu /\ image \in Images /\ loader = "idle" /\ i = 0 /\ result = 0
  /\ mem = [s \in Slot |-> IF s - image.at + 1 \in DOMAIN image.cells
                           THEN image.cells[s - image.at + 1] ELSE Junk]

\* Both copy upwards, one slot after the other: where the destination begins
\* inside the source, the beginning of the source repeats.
memset(m, dest, c, size) == [a \in Slot |-> IF a \in dest .. dest + size - 1 THEN c ELSE m[a]]
memcpy(m, dest, src, size) ==
  [a \in Slot |->
     IF a \notin dest .. dest + size - 1 THEN m[a]
     ELSE IF dest > src THEN m[src + ((a - dest) % (dest - src))]
     ELSE m[src + (a - dest)]]

\* Handlers may interrupt the kernel between any two steps of the loader.
Kernel == pc = "program" /\ UNCHANGED <<idt, pc, n, regs, before, image>>

\* load_elf returns 0 for a file that is not 64-bit ELF.
load_elf ==
  /\ loader = "idle" /\ Kernel /\ UNCHANGED <<mem, i, result>>
  /\ loader' = IF image.header.magic /\ image.header.bits = ELF64
               THEN "loading" ELSE "failed"

\* A segment may have overwritten the header, or the program header that is
\* next: then what the loop does is undefined.
Reads(cell) == mem[image.at + cell] = image.cells[cell + 1]
LoadedAll == i >= image.header.phnum
Intact == Reads(0) /\ (LoadedAll \/ Reads(image.header.phoff + i))

LoadOverwritten ==
  /\ loader = "loading" /\ ~Intact /\ Kernel /\ UNCHANGED <<mem, i, result>>
  /\ loader' = "failed"

Zeroed_all(m, ph) == memset(m, ph.vaddr, Zero, ph.memsz)
Zeroed(m, ph) ==
  IF ph.memsz > ph.filesz
  THEN memset(m, ph.vaddr + ph.filesz, Zero, ph.memsz - ph.filesz) ELSE m
LoadSegment ==
  /\ loader = "loading" /\ Intact /\ ~LoadedAll /\ Kernel /\ UNCHANGED <<loader, result>>
  /\ i' = i + 1
  /\ LET ph == image.phdrs[i + 1]
     IN  mem' = IF ph.type # PT_LOAD THEN mem
                ELSE Zeroed(memcpy(mem, ph.vaddr, image.at + ph.offset, ph.filesz), ph)

LoadReturns ==
  /\ loader = "loading" /\ Intact /\ LoadedAll /\ Kernel /\ UNCHANGED <<mem, i>>
  /\ loader' = "loaded" /\ result' = image.header.entry

\* jump_to_user_mode: interrupts off, the frame of an interrupted user
\* program pushed on its own stack, iretq.
Frame(stack) == <<result, "user code", "masked", stack, "user data">>
jump_to_user_mode(stack) ==
  /\ loader = "loaded" /\ result # 0 /\ pc = "program" /\ loader' = "jumping"
  /\ mem' = [s \in Slot |-> IF s \in stack - 5 .. stack - 1
                            THEN Frame(stack)[s - stack + 6] ELSE mem[s]]
  /\ regs' = [regs EXCEPT !.rax = "user data", !.rdi = result, !.rsi = stack, !.rsp = stack - 5,
                          !.rflags = "masked"]
  /\ before' = [regs EXCEPT !.rax = "user data", !.rdi = result, !.rsi = stack, !.rsp = stack,
                            !.rflags = "masked", !.rip = result, !.cs = "user code",
                            !.ss = "user data"]
  /\ pc' = "iret" /\ n' = 0 /\ UNCHANGED <<idt, image, i, result>>
EnterUser ==
  /\ loader = "jumping" /\ Iretq /\ loader' = "user"
  /\ UNCHANGED <<image, i, result>>

\* The program runs, with interrupts off, or the kernel stops.
Stays == loader = "user" /\ UNCHANGED <<vars, uvars>>

UserNext ==
  \/ load_elf \/ LoadOverwritten \/ LoadSegment \/ LoadReturns
  \/ \E stack \in Stacks : jump_to_user_mode(stack)
  \/ EnterUser \/ Stays
  \/ loader \notin {"jumping", "user"} /\ Next /\ UNCHANGED uvars

UserSpec == UserInit /\ [][UserNext]_<<vars, uvars>>
----------------------------------------------------------------------------
(***************************************************************************)
(* Properties.                                                             *)
(***************************************************************************)
Loadable(f) == {k \in DOMAIN f.phdrs : f.phdrs[k].type = PT_LOAD}
Extent(p) == p.vaddr .. p.vaddr + (IF p.memsz > p.filesz THEN p.memsz ELSE p.filesz) - 1
FileSlots(f) == f.at .. f.at + Len(f.cells) - 1
KernelStack == UNION {t - 21 .. t - 1 : t \in Tops}
UserStack == UNION {t - 5 .. t - 1 : t \in Stacks}

\* The segments are in the file, and neither they nor the file are on a
\* stack, or on each other.
Separate(f) ==
  /\ FileSlots(f) \intersect (KernelStack \union UserStack) = {}
  /\ \A k \in Loadable(f) :
       /\ f.phdrs[k].offset + f.phdrs[k].filesz <= Len(f.cells)
       /\ Extent(f.phdrs[k]) \intersect (FileSlots(f) \union KernelStack \union UserStack) = {}

\* What the file says of an address: the last segment that has it, its bytes
\* from the file and zeroes behind them.
Said(f, a) ==
  LET segs == {k \in Loadable(f) : a \in Extent(f.phdrs[k])}
      last == f.phdrs[CHOOSE k \in segs : \A j \in segs : j <= k]
  IN  IF segs = {} THEN Junk
      ELSE IF a - last.vaddr < last.filesz
           THEN f.cells[last.offset + (a - last.vaddr) + 1] ELSE Zero

\* When load_elf has returned an entry point, memory holds the program the
\* file describes and is otherwise as it was, but for the stacks, whatever
\* interrupted the loading; and so it is when the program starts.
ImageLoaded ==
  loader \in {"loaded", "jumping", "user"} /\ Separate(image) =>
    /\ result = image.header.entry
    /\ \A a \in Slot \ (FileSlots(image) \union KernelStack \union UserStack) :
         mem[a] = Said(image, a)
=============================================================================
