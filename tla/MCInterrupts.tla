---------------------------- MODULE MCInterrupts ----------------------------
(***************************************************************************)
(* Interrupts and the loader, with addresses of four parts of one bit; the *)
(* vectors of init_idt and the ones beside the table; both alignments of   *)
(* rsp.                                                                    *)
(***************************************************************************)
EXTENDS UserProgram, TLC

MCHandlers == {5, 10}
MCVectors == {-1, 128, 256}
MCTops == {40, 41}
MCStacks == {17}

\* Files at slot 44: a header, its program headers and six cells of contents.
File(magic, bits, phdrs) ==
  [at |-> 44, phdrs |-> phdrs,
   header |-> [magic |-> magic, bits |-> bits, entry |-> 1, phoff |-> 1,
               phnum |-> Len(phdrs)],
   cells |-> <<"ehdr">> \o [k \in DOMAIN phdrs |-> "phdr" \o ToString(k)]
             \o <<"a", "b", "c", "d", "e", "f">>]
Phdr(type, offset, vaddr, filesz, memsz) ==
  [type |-> type, offset |-> offset, vaddr |-> vaddr, filesz |-> filesz, memsz |-> memsz]

\* A segment with zeroes behind it, a note, and one that follows in the same
\* slots; two neighbours, and one that has less memory than file; no segment;
\* files load_elf refuses; segments that fall on the second program header
\* and on the header.
MCImages == {
  File(TRUE, ELF64, <<Phdr(PT_LOAD, 4, 1, 3, 6), Phdr(4, 4, 0, 6, 6), Phdr(PT_LOAD, 7, 5, 2, 4)>>),
  File(TRUE, ELF64, <<Phdr(PT_LOAD, 4, 3, 4, 2), Phdr(PT_LOAD, 3, 0, 2, 3)>>),
  File(TRUE, ELF64, <<>>),
  File(TRUE, 1, <<Phdr(PT_LOAD, 2, 1, 3, 3)>>),
  File(FALSE, ELF64, <<Phdr(PT_LOAD, 2, 1, 3, 3)>>),
  File(TRUE, ELF64, <<Phdr(PT_LOAD, 3, 46, 2, 3), Phdr(PT_LOAD, 4, 0, 2, 3)>>),
  File(TRUE, ELF64, <<Phdr(PT_LOAD, 2, 43, 0, 2)>>)}
============================================================================
