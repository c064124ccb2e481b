----------------------------- MODULE Allocation -----------------------------
(***************************************************************************)
(* Kernel/src/Drivers/allocation.c: the physical page allocator over a     *)
(* bitmap, and the bump allocator (malloc) over the pages heap_init takes  *)
(* from it.  Single-threaded library code: one action per call.            *)
(*                                                                         *)
(* bits is the set of the bits that are clear.  The bitmap itself lies at  *)
(* 1 MiB, in pages that are usable and are handed out like the others: a   *)
(* client that is given one is taken not to write to it.  Addresses are    *)
(* numbers of 0 .. WORD - 1; malloc's arithmetic wraps at WORD as size_t   *)
(* does.                                                                   *)
(*                                                                         *)
(* A definition that stands directly before the one it is a variation of,  *)
(* and is used nowhere, is a mutant: the bug a property has to notice.     *)
(***************************************************************************)
EXTENDS Integers, FiniteSets

CONSTANTS
  PAGE,         \* PAGE_SIZE (4096)
  HEAP_PAGES,   \* pages of the heap (16)
  HHDM,         \* hhdm_offset, virtual minus physical address
  WORD,         \* 2^64
  Memmaps,      \* memory maps: sets of entries [base, length, usable]
  Sizes         \* the sizes asked of malloc

NULL == 0

ASSUME SizeAssumption ==
  /\ PAGE \in Nat \ {0} /\ PAGE % 16 = 0 /\ HEAP_PAGES \in Nat \ {0}
  /\ HHDM \in Nat /\ HHDM % 16 = 0 /\ WORD \in Nat \ {0} /\ WORD % 16 = 0

\* What the boot protocol guarantees of a usable entry: whole pages, none
\* of them page 0.
ASSUME MemmapAssumption ==
  \A m \in Memmaps : \A e \in m :
    /\ e.base \in Nat /\ e.length \in Nat
    /\ e.usable => e.base % PAGE = 0 /\ e.length % PAGE = 0 /\ e.base >= PAGE

\* The ends of a map's entries, and that one of them is the highest, as in
\* every finite map.
Ends(m) == {0} \cup {e.base + e.length : e \in m}
ASSUME FiniteMapAssumption ==
  \A m \in Memmaps : \E h \in Ends(m) : \A x \in Ends(m) : x <= h

\* The heap and the sizes asked of it are far from the end of the address
\* space, so that malloc's sums do not wrap.
ASSUME NoWrapAssumption ==
  \A size \in Sizes : size \in Nat /\ size + 15 < WORD /\
    \A m \in Memmaps : \A e \in m :
      e.base + e.length + HHDM + HEAP_PAGES * PAGE + size + 15 < WORD

VARIABLES
  map,      \* the memory map
  ready,    \* pmm_init has run
  bits,     \* the bits of the bitmap that are clear
  total,    \* total_pages
  held,     \* history: pages that clients hold
  heap,     \* [start, end, ptr], 0 before heap_init
  taken,    \* history: the pages heap_init took
  blocks,   \* history: the blocks malloc returned, [at, size]
  ret       \* the address the last call of pmm_alloc_page returned; NULL after
            \*   a call of pmm_free_page

vars == <<map, ready, bits, total, held, heap, taken, blocks, ret>>
----------------------------------------------------------------------------
UsablePages(m) ==
  UNION {{(e.base \div PAGE) + n : n \in 0 .. (e.length \div PAGE) - 1} :
           e \in {x \in m : x.usable}}

Highest(m) == CHOOSE h \in Ends(m) : \A x \in Ends(m) : x <= h

\* The pages pmm_alloc_page can find.
Free == {p \in bits : p < total}

AlignDown(x) == x - (x % 16)
ALIGN16(x) == AlignDown((x + 15) % WORD)

NoHeap == [start |-> 0, end |-> 0, ptr |-> 0]

Init ==
  /\ map \in Memmaps /\ ready = FALSE
  /\ bits = {} /\ total = 0 /\ held = {} /\ heap = NoHeap /\ taken = {}
  /\ blocks = {} /\ ret = NULL

\* Every usable page is free, the ones the bitmap lies in among them.
pmm_init_short ==
  /\ ~ready /\ ready' = TRUE
  /\ total' = (Highest(map) \div PAGE) - 1
  /\ bits' = UsablePages(map)
  /\ UNCHANGED <<map, held, heap, taken, blocks, ret>>
pmm_init ==
  /\ ~ready /\ ready' = TRUE
  /\ total' = Highest(map) \div PAGE
  /\ bits' = UsablePages(map)
  /\ UNCHANGED <<map, held, heap, taken, blocks, ret>>

pmm_alloc_page_again ==
  /\ ready
  /\ \/ \E p \in Free :
          /\ \A q \in Free : p <= q
          /\ held' = held \cup {p} /\ ret' = p * PAGE
          /\ UNCHANGED bits
     \/ Free = {} /\ ret' = NULL /\ UNCHANGED <<bits, held>>
  /\ UNCHANGED <<map, ready, total, heap, taken, blocks>>
pmm_alloc_page_short ==
  /\ ready
  /\ \/ \E p \in Free \ {total - 1} :
          /\ \A q \in Free : p <= q
          /\ bits' = bits \ {p} /\ held' = held \cup {p} /\ ret' = p * PAGE
     \/ Free \ {total - 1} = {} /\ ret' = NULL /\ UNCHANGED <<bits, held>>
  /\ UNCHANGED <<map, ready, total, heap, taken, blocks>>
pmm_alloc_page ==
  /\ ready
  /\ \/ \E p \in Free :
          /\ \A q \in Free : p <= q
          /\ bits' = bits \ {p} /\ held' = held \cup {p} /\ ret' = p * PAGE
     \/ Free = {} /\ ret' = NULL /\ UNCHANGED <<bits, held>>
  /\ UNCHANGED <<map, ready, total, heap, taken, blocks>>

pmm_free_page_virt(addr) ==
  LET page == (addr - HHDM) \div PAGE
  IN  /\ ready
      /\ bits' = bits \cup {page} /\ held' = held \ {page} /\ ret' = NULL
      /\ UNCHANGED <<map, ready, total, heap, taken, blocks>>
pmm_free_page(addr) ==
  LET page == addr \div PAGE
  IN  /\ ready
      /\ bits' = bits \cup {page} /\ held' = held \ {page} /\ ret' = NULL
      /\ UNCHANGED <<map, ready, total, heap, taken, blocks>>

\* Clients free what they hold, by any address inside the page.
FreeHeld == \E p \in held, off \in {0, PAGE - 1} : pmm_free_page(p * PAGE + off)

\* HEAP_PAGES calls of pmm_alloc_page, of which only the first one's result
\* is looked at: the lowest free pages, as far as there are any.
IsHeap(S) == Cardinality(S) = HEAP_PAGES
Lowest(S) ==
  /\ IsHeap(S) \/ S = Free
  /\ Cardinality(S) <= HEAP_PAGES
  /\ \A p \in S, q \in Free \ S : p < q

HeapEnd(start) == start + HEAP_PAGES * PAGE

heap_init ==
  /\ ready /\ taken = {} /\ heap = NoHeap
  /\ \/ Free = {} /\ ret' = NULL /\ UNCHANGED <<bits, heap, taken>>
     \/ /\ Free # {}
        /\ \E S \in SUBSET Free : \E first \in S :
             /\ Lowest(S) /\ \A p \in S : first <= p
             /\ bits' = bits \ S /\ taken' = S
             /\ heap' = [start |-> first * PAGE + HHDM, ptr |-> first * PAGE + HHDM,
                         end |-> HeapEnd(first * PAGE + HHDM)]
             /\ ret' = first * PAGE
  /\ UNCHANGED <<map, ready, total, held, blocks>>

\* malloc; a block at NULL tells its caller that there is none.
mallocUnaligned(size) ==
  LET next == (heap.ptr + size) % WORD
  IN  /\ IF next > heap.end
         THEN UNCHANGED <<heap, blocks>>
         ELSE /\ heap' = [heap EXCEPT !.ptr = next]
              /\ blocks' = IF heap.ptr = NULL THEN blocks
                           ELSE blocks \cup {[at |-> heap.ptr, size |-> size]}
      /\ UNCHANGED <<map, ready, bits, total, held, taken, ret>>
malloc(size) ==
  LET next == (heap.ptr + ALIGN16(size)) % WORD
  IN  /\ IF next > heap.end
         THEN UNCHANGED <<heap, blocks>>
         ELSE /\ heap' = [heap EXCEPT !.ptr = next]
              /\ blocks' = IF heap.ptr = NULL THEN blocks
                           ELSE blocks \cup {[at |-> heap.ptr, size |-> size]}
      /\ UNCHANGED <<map, ready, bits, total, held, taken, ret>>

Next ==
  \/ pmm_init \/ pmm_alloc_page \/ FreeHeld \/ heap_init
  \/ \E size \in Sizes : malloc(size)

Spec == Init /\ [][Next]_vars
----------------------------------------------------------------------------
(***************************************************************************)
(* Properties.                                                             *)
(***************************************************************************)
\* Types of the allocator's variables.
TypeOK ==
  /\ map \in Memmaps /\ ready \in BOOLEAN
  /\ bits \subseteq Nat /\ total \in Nat /\ held \subseteq Nat /\ taken \subseteq Nat
  /\ heap \in [start : Nat, end : Nat, ptr : Nat] /\ ret \in Nat
  /\ \A b \in blocks : b.at \in Nat /\ b.size \in Sizes

\* Every usable page is free, held by a client or part of the heap, and only
\* one of these: no page is handed out twice by pmm_alloc_page or
\* heap_init, none is lost, and no page of an entry that is not usable is
\* handed out.  The pages of the bitmap are of a usable entry: they are
\* handed out like the others.
Conservation ==
  ready =>
    /\ bits \cup held \cup taken = UsablePages(map)
    /\ bits \cap held = {} /\ bits \cap taken = {} /\ held \cap taken = {}

\* pmm_alloc_page can hand out every usable page: its loop up to
\* total_pages leaves none of them out.
AllReachable == ready => Free = bits

\* The blocks of malloc are 16-byte aligned, inside the heap, and no two of
\* them overlap: free being a no-op, a block is its caller's for ever.
BlocksSound ==
  /\ \A b \in blocks :
       b.at % 16 = 0 /\ heap.start <= b.at /\ b.at + b.size <= heap.ptr /\ heap.ptr <= heap.end
  /\ \A b, c \in blocks : b.at < c.at => b.at + b.size <= c.at

\* "Allocate contiguous pages (simple version)" (allocation.c): every page
\* of the range that malloc hands out was taken from the page allocator.
HeapIsOwned ==
  taken # {} =>
    \A a \in heap.start .. heap.end - 1 : (a - HHDM) \div PAGE \in taken

\* The allocator implements PageAllocator; what is free before pmm_init is
\* what it will find.
PA == INSTANCE PageAllocator WITH
  Machines <- {UsablePages(m) : m \in Memmaps},
  NULL   <- 0,
  IsBatch <- IsHeap,
  free   <- IF ready THEN bits ELSE UsablePages(map),
  owned  <- held \cup taken,
  answer <- ret \div PAGE
ImplementsPageAllocator == PA!PASpec
============================================================================
