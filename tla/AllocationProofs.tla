------------------------- MODULE AllocationProofs -------------------------
(***************************************************************************)
(* For every machine, heap size and sequence of calls: the page allocator  *)
(* neither loses a page nor hands one out twice, and the blocks of malloc  *)
(* are aligned, inside the heap and disjoint.                              *)
(***************************************************************************)
EXTENDS Allocation, FiniteSetTheorems, TLAPS

\* Before pmm_init there is nothing to find and nothing is held.
Blank == ~ready => bits = {} /\ held = {} /\ taken = {}

\* Where heap_init put the heap; before it malloc returns no block.
HeapPlaced ==
  /\ heap = NoHeap => blocks = {}
  /\ heap # NoHeap =>
       /\ heap.start % 16 = 0 /\ heap.ptr % 16 = 0 /\ heap.start > 0
       /\ heap.start <= heap.ptr /\ heap.ptr <= heap.end
       /\ \A size \in Sizes : heap.end + size + 15 < WORD

PagesInv == TypeOK /\ Blank /\ Conservation
HeapInv  == HeapPlaced /\ BlocksSound
----------------------------------------------------------------------------
\* A usable page lies inside an entry of the memory map, and is not page 0.
LEMMA UsableInEntry ==
  ASSUME NEW m \in Memmaps, NEW p \in UsablePages(m)
  PROVE  p \in Nat \ {0} /\ \E e \in m : (p + 1) * PAGE <= e.base + e.length
<1>1. PICK e \in m : e.usable /\ p \in {(e.base \div PAGE) + n : n \in 0 .. (e.length \div PAGE) - 1}
  BY DEF UsablePages
<1>2. /\ e.base \in Nat /\ e.length \in Nat /\ e.base % PAGE = 0 /\ e.length % PAGE = 0
      /\ e.base >= PAGE /\ PAGE \in Int /\ PAGE > 0
  BY <1>1, MemmapAssumption, SizeAssumption
<1>3. PICK b \in Nat, l \in Nat : e.base = PAGE * b /\ e.length = PAGE * l
                              /\ b = e.base \div PAGE /\ l = e.length \div PAGE
  <2>1. \A x \in Nat : x % PAGE = 0 => x \div PAGE \in Nat /\ x = PAGE * (x \div PAGE)
    <3>1. \A x \in Nat, d \in Int : d > 0 => x \div d >= 0 /\ x = d * (x \div d) + (x % d)
      OBVIOUS
    <3> QED
      BY <3>1, <1>2
  <2> QED
    BY <1>2, <2>1
<1>4. PICK n \in 0 .. l - 1 : p = b + n
  BY <1>1, <1>3
<1>5. (p + 1) * PAGE <= e.base + e.length
  <2>1. b + n + 1 <= b + l
    BY <1>3, <1>4
  <2>2. \A x, y \in Nat : x <= y => x * PAGE <= y * PAGE
    BY <1>2
  <2>3. (b + n + 1) * PAGE <= (b + l) * PAGE
    BY <2>1, <2>2, <1>3, <1>4
  <2> QED
    BY <2>3, <1>2, <1>3, <1>4
<1>6. b # 0
  BY <1>2, <1>3
<1> QED
  BY <1>3, <1>4, <1>5, <1>6

\* An address inside a page names the page.
LEMMA PageOfAddress ==
  ASSUME NEW p \in Nat, NEW off \in {0, PAGE - 1}
  PROVE  (p * PAGE + off) \div PAGE = p
<1>1. PAGE \in Int /\ PAGE > 0 /\ off \in Int /\ 0 <= off /\ off < PAGE
  BY SizeAssumption
<1>2. \A d, r \in Int : d > 0 /\ 0 <= r /\ r < d => (p * d + r) \div d = p
  OBVIOUS
<1> QED
  BY <1>1, <1>2

\* Where a page is mapped, malloc has nothing to align.
LEMMA PageAligned ==
  ASSUME NEW p \in Nat
  PROVE  (p * PAGE + HHDM) % 16 = 0
<1>1. PICK q \in Int : PAGE = 16 * q
  BY SizeAssumption
<1>2. PICK h \in Int : HHDM = 16 * h
  BY SizeAssumption
<1>3. p * PAGE + HHDM = 16 * (p * q + h) /\ p * q + h \in Int
  BY <1>1, <1>2
<1>4. \A x \in Int : (16 * x) % 16 = 0
  OBVIOUS
<1> QED
  BY <1>3, <1>4
\* The loop of pmm_alloc_page up to total_pages reaches every usable page.
LEMMA UsableBelowTotal ==
  ASSUME NEW m \in Memmaps
  PROVE  /\ Highest(m) \div PAGE \in Nat
         /\ \A p \in UsablePages(m) : p < Highest(m) \div PAGE
<1>1. Highest(m) \in Ends(m) /\ \A x \in Ends(m) : x <= Highest(m)
  BY FiniteMapAssumption DEF Highest
<1>2. Highest(m) \in Nat /\ PAGE \in Int /\ PAGE > 0
  BY <1>1, MemmapAssumption, SizeAssumption DEF Ends
<1>3. /\ Highest(m) \div PAGE \in Nat
      /\ Highest(m) < PAGE * ((Highest(m) \div PAGE) + 1)
  <2>1. \A x \in Nat, d \in Int : d > 0 => x \div d >= 0 /\ x < d * ((x \div d) + 1)
    OBVIOUS
  <2> QED
    BY <1>2, <2>1
<1>4. ASSUME NEW p \in UsablePages(m) PROVE p < Highest(m) \div PAGE
  <2>1. PICK e \in m : (p + 1) * PAGE <= e.base + e.length
    BY UsableInEntry
  <2>2. p \in Nat /\ (p + 1) * PAGE <= Highest(m)
    <3>1. e.base + e.length \in Ends(m) /\ e.base + e.length \in Nat
      BY MemmapAssumption DEF Ends
    <3> QED
      BY <1>1, <1>2, <2>1, <3>1, UsableInEntry
  <2>3. PICK t \in Nat : t = Highest(m) \div PAGE
    BY <1>3
  <2>4. (p + 1) * PAGE < PAGE * (t + 1)
    BY <1>2, <1>3, <2>2, <2>3
  <2>5. SUFFICES ASSUME t <= p PROVE FALSE
    BY <2>2, <2>3
  <2>6. PAGE * (p - t) >= 0
    BY <1>2, <2>2, <2>5
  <2> QED
    BY <1>2, <2>2, <2>4, <2>6
<1> QED
  BY <1>3, <1>4
----------------------------------------------------------------------------

\* Before pmm_init nobody holds a page, and none is free.
LEMMA PagesInit == Init => PagesInv
<1> SUFFICES ASSUME Init PROVE PagesInv
  OBVIOUS
<1>1. ready = FALSE
  BY DEF Init
<1> QED
  BY <1>1 DEF Init, PagesInv, TypeOK, Blank, Conservation, NoHeap, NULL

\* What each call does to the pages, its arithmetic removed.
LEMMA AllocPage ==
  ASSUME TypeOK, pmm_alloc_page
  PROVE  /\ UNCHANGED <<map, ready, total, heap, taken, blocks>> /\ ready /\ ret' \in Nat
         /\ \/ \E p \in bits : bits' = bits \ {p} /\ held' = held \cup {p}
            \/ UNCHANGED <<bits, held>>
<1>1. \A p \in bits : p * PAGE \in Nat
  BY SizeAssumption DEF TypeOK
<1> QED
  BY <1>1 DEF pmm_alloc_page, Free, NULL

\* pmm_free_page gives back exactly the page it is called with.
LEMMA FreePage ==
  ASSUME TypeOK, FreeHeld
  PROVE  /\ UNCHANGED <<map, ready, total, heap, taken, blocks>> /\ ready /\ ret' = NULL
         /\ \E p \in held : bits' = bits \cup {p} /\ held' = held \ {p}
<1>1. PICK p \in held, off \in {0, PAGE - 1} : pmm_free_page(p * PAGE + off)
  BY DEF FreeHeld
<1>2. (p * PAGE + off) \div PAGE = p
  BY PageOfAddress DEF TypeOK
<1> QED
  BY <1>1, <1>2 DEF pmm_free_page

\* heap_init takes as many free pages as a heap has, or all there are.
LEMMA HeapInit ==
  ASSUME TypeOK, heap_init
  PROVE  /\ UNCHANGED <<map, ready, total, held, blocks>> /\ ready /\ taken = {} /\ heap = NoHeap
         /\ \/ ret' = NULL /\ Free = {} /\ UNCHANGED <<bits, heap, taken>>
            \/ \E S \in SUBSET Free : \E first \in S :
                 /\ IsHeap(S) \/ S = Free
                 /\ bits' = bits \ S /\ taken' = S /\ ret' = first * PAGE
                 /\ heap' = [start |-> first * PAGE + HHDM, ptr |-> first * PAGE + HHDM,
                             end |-> HeapEnd(first * PAGE + HHDM)]
BY DEF heap_init, Lowest

\* The ends of the heap are numbers.
LEMMA HeapAddress ==
  ASSUME NEW first \in Nat
  PROVE  first * PAGE \in Nat /\ first * PAGE + HHDM \in Nat /\ HEAP_PAGES * PAGE \in Nat
         /\ HeapEnd(first * PAGE + HHDM) \in Nat
<1>1. /\ PAGE \in Nat /\ HHDM \in Nat /\ HEAP_PAGES \in Nat
  BY SizeAssumption
<1>2. first * PAGE \in Nat /\ HEAP_PAGES * PAGE \in Nat
  BY <1>1
<1> QED
  BY <1>1, <1>2 DEF HeapEnd

\* ALIGN16 rounds up to a multiple of 16.
LEMMA AlignIn ==
  ASSUME NEW size \in Sizes
  PROVE  /\ size \in Nat /\ ALIGN16(size) \in Nat /\ ALIGN16(size) % 16 = 0
         /\ size <= ALIGN16(size) /\ ALIGN16(size) <= size + 15
<1>1. size \in Nat /\ size + 15 < WORD /\ WORD \in Int
  BY NoWrapAssumption, SizeAssumption
<1>2. (size + 15) % WORD = size + 15
  <2>1. \A x, y \in Nat : x < y => x % y = x
    OBVIOUS
  <2> QED
    BY <1>1, <2>1
<1>3. \A x \in Nat : AlignDown(x) \in Nat /\ AlignDown(x) % 16 = 0
                   /\ x - 15 <= AlignDown(x) /\ AlignDown(x) <= x
  BY DEF AlignDown
<1> QED
  BY <1>1, <1>2, <1>3 DEF ALIGN16

\* Every call keeps the invariant of the pages.
LEMMA PagesStep ==
  ASSUME PagesInv, [Next]_vars
  PROVE  PagesInv'
<1> USE DEF PagesInv
<1>1. CASE pmm_init
  <2>1. /\ UNCHANGED <<map, held, heap, taken, blocks, ret>> /\ ~ready /\ ready' = TRUE
        /\ total' = Highest(map) \div PAGE /\ bits' = UsablePages(map)
    BY <1>1 DEF pmm_init
  <2>2. bits' \subseteq Nat /\ total' \in Nat
    BY <2>1, UsableInEntry, UsableBelowTotal DEF TypeOK
  <2>3. held = {} /\ taken = {}
    BY <2>1 DEF Blank
  <2>4. TypeOK'
    BY <2>1, <2>2 DEF TypeOK
  <2> QED
    BY <2>1, <2>3, <2>4 DEF Blank, Conservation
<1>2. CASE pmm_alloc_page
  <2>1. TypeOK'
    <3>1. bits' \subseteq Nat /\ held' \subseteq Nat
      BY <1>2, AllocPage DEF TypeOK
    <3> QED
      BY <1>2, <3>1, AllocPage DEF TypeOK
  <2>2. Conservation'
    BY <1>2, AllocPage DEF Conservation
  <2> QED
    BY <1>2, <2>1, <2>2, AllocPage DEF Blank
<1>3. CASE FreeHeld
  <2>1. TypeOK'
    <3>1. PICK p \in held : bits' = bits \cup {p} /\ held' = held \ {p}
      BY <1>3, FreePage
    <3>2. bits' \subseteq Nat /\ held' \subseteq Nat
      BY <3>1 DEF TypeOK
    <3>3. ret' \in Nat
      BY <1>3, FreePage DEF NULL
    <3> QED
      BY <1>3, <3>2, <3>3, FreePage DEF TypeOK
  <2>2. Conservation'
    BY <1>3, FreePage DEF Conservation
  <2> QED
    BY <1>3, <2>1, <2>2, FreePage DEF Blank
<1>4. CASE heap_init
  <2>1. CASE UNCHANGED <<bits, heap, taken>> /\ ret' = NULL
    BY <1>4, <2>1, HeapInit DEF TypeOK, Blank, Conservation, NULL
  <2>2. CASE ~(UNCHANGED <<bits, heap, taken>> /\ ret' = NULL)
    <3>1. PICK S \in SUBSET Free : \E first \in S :
            /\ bits' = bits \ S /\ taken' = S /\ ret' = first * PAGE
            /\ heap' = [start |-> first * PAGE + HHDM, ptr |-> first * PAGE + HHDM,
                        end |-> HeapEnd(first * PAGE + HHDM)]
      BY <1>4, <2>2, HeapInit
    <3>7. PICK first \in S :
            /\ ret' = first * PAGE
            /\ heap' = [start |-> first * PAGE + HHDM, ptr |-> first * PAGE + HHDM,
                        end |-> HeapEnd(first * PAGE + HHDM)]
      BY <3>1
    <3>2. /\ UNCHANGED <<map, ready, total, held, blocks>> /\ ready /\ taken = {}
      BY <1>4, HeapInit
    <3>3. S \subseteq bits /\ bits \subseteq Nat
      BY DEF Free, TypeOK
    <3>4. ret' \in Nat /\ heap' \in [start : Nat, end : Nat, ptr : Nat]
      BY <3>7, <3>3, HeapAddress
    <3>5. TypeOK'
      BY <3>1, <3>2, <3>3, <3>4 DEF TypeOK
    <3>6. Conservation'
      BY <3>1, <3>2, <3>3 DEF Conservation
    <3> QED
      BY <3>2, <3>5, <3>6 DEF Blank
  <2> QED
    BY <2>1, <2>2
<1>5. ASSUME NEW size \in Sizes, malloc(size) PROVE PagesInv'
  <2>1. UNCHANGED <<map, ready, bits, total, held, taken, ret>>
    BY <1>5 DEF malloc
  <2>2. heap.ptr \in Nat /\ (heap.ptr + ALIGN16(size)) % WORD \in Nat
    BY AlignIn, SizeAssumption DEF TypeOK
  <2>3. heap' \in [start : Nat, end : Nat, ptr : Nat]
    BY <1>5, <2>2 DEF malloc, TypeOK
  <2>4. \A b \in blocks' : b.at \in Nat /\ b.size \in Sizes
    BY <1>5, <2>2 DEF malloc, TypeOK
  <2> QED
    BY <2>1, <2>3, <2>4 DEF TypeOK, Blank, Conservation
<1>6. CASE UNCHANGED vars
  BY <1>6 DEF vars, TypeOK, Blank, Conservation
<1> QED
  BY <1>1, <1>2, <1>3, <1>4, <1>5, <1>6 DEF Next

\* The invariant of the pages, for every memory map.
THEOREM PagesInvariant == Spec => []PagesInv
  BY PagesInit, PagesStep, PTL DEF Spec

\* The allocator's variables keep their types.
THEOREM AllocationTypes == Spec => []TypeOK
  BY PagesInvariant, PTL DEF PagesInv

\* No page is handed out twice, lost, or taken from an entry of the memory map
\* that is not usable.
THEOREM PagesConserved == Spec => []Conservation
  BY PagesInvariant, PTL DEF PagesInv

\* pmm_alloc_page can hand out every free page.
THEOREM PagesReachable == Spec => []AllReachable
<1> DEFINE Counted == ready => total = Highest(map) \div PAGE
<1>1. Init => Counted
  BY DEF Init
<1>2. PagesInv /\ Counted /\ [Next]_vars => Counted'
  <2> SUFFICES ASSUME PagesInv, Counted, [Next]_vars PROVE Counted'
    OBVIOUS
  <2>1. CASE pmm_init
    BY <2>1 DEF pmm_init
  <2>2. CASE ~pmm_init
    BY <2>2, AllocPage, FreePage, HeapInit DEF Next, malloc, vars, PagesInv
  <2> QED
    BY <2>1, <2>2
<1>3. PagesInv /\ Counted => AllReachable
  <2>1. PagesInv /\ ready => bits \subseteq UsablePages(map)
    BY DEF PagesInv, Conservation
  <2> QED
    BY <2>1, UsableBelowTotal DEF AllReachable, Free, PagesInv, TypeOK
<1> QED
  BY <1>1, <1>2, <1>3, PagesInvariant, PTL DEF Spec----------------------------------------------------------------------------
\* A call of malloc moves the heap pointer up by the aligned size and hands
\* out what lies between, or does nothing.
LEMMA Malloc ==
  ASSUME PagesInv, HeapInv, NEW size \in Sizes, malloc(size)
  PROVE  \/ UNCHANGED <<heap, blocks>>
         \/ /\ heap # NoHeap
            /\ heap' = [heap EXCEPT !.ptr = heap.ptr + ALIGN16(size)]
            /\ heap.ptr + ALIGN16(size) <= heap.end
            /\ blocks' = blocks \cup {[at |-> heap.ptr, size |-> size]}
<1>1. /\ heap \in [start : Nat, end : Nat, ptr : Nat] /\ WORD \in Int
      /\ ALIGN16(size) \in Nat /\ ALIGN16(size) <= size + 15 /\ size \in Nat
      /\ size <= ALIGN16(size) /\ size + 15 < WORD
  BY AlignIn, SizeAssumption, NoWrapAssumption DEF PagesInv, TypeOK
<1>2. CASE heap = NoHeap
  <2>1. heap.ptr = 0 /\ heap.end = 0 /\ heap.ptr = NULL
    BY <1>2 DEF NoHeap, NULL
  <2>2. (heap.ptr + ALIGN16(size)) % WORD = ALIGN16(size)
    <3>1. \A x, y \in Nat : x < y => x % y = x
      OBVIOUS
    <3> QED
      BY <1>1, <2>1, <3>1
  <2>3. ALIGN16(size) > 0 => UNCHANGED <<heap, blocks>>
    BY <1>1, <2>1, <2>2 DEF malloc
  <2>4. ALIGN16(size) = 0 => UNCHANGED <<heap, blocks>>
    BY <1>1, <1>2, <2>1, <2>2 DEF malloc, NoHeap
  <2> QED
    BY <1>1, <2>3, <2>4
<1>3. CASE heap # NoHeap
  <2>1. heap.ptr <= heap.end /\ heap.end + size + 15 < WORD /\ heap.ptr # NULL
    BY <1>1, <1>3 DEF HeapInv, HeapPlaced, NULL
  <2>2. (heap.ptr + ALIGN16(size)) % WORD = heap.ptr + ALIGN16(size)
    <3>1. \A x, y \in Nat : x < y => x % y = x
      OBVIOUS
    <3>2. heap.ptr + ALIGN16(size) \in Nat /\ heap.ptr + ALIGN16(size) < WORD /\ WORD \in Nat
      BY <1>1, <2>1
    <3> QED
      BY <3>1, <3>2
  <2> QED
    BY <1>1, <1>3, <2>1, <2>2 DEF malloc
<1> QED
  BY <1>2, <1>3

\* Every call keeps the invariant of the heap.
LEMMA HeapStep ==
  ASSUME PagesInv, HeapInv, [Next]_vars
  PROVE  HeapInv'
<1>1. CASE UNCHANGED <<heap, blocks>>
  BY <1>1 DEF HeapInv, HeapPlaced, BlocksSound
<1>2. CASE heap_init /\ ~UNCHANGED <<heap, blocks>>
  <2>1. PICK S \in SUBSET Free : \E first \in S :
          heap' = [start |-> first * PAGE + HHDM, ptr |-> first * PAGE + HHDM,
                   end |-> HeapEnd(first * PAGE + HHDM)]
    BY <1>2, HeapInit DEF PagesInv
  <2>2. PICK first \in S :
          heap' = [start |-> first * PAGE + HHDM, ptr |-> first * PAGE + HHDM,
                   end |-> HeapEnd(first * PAGE + HHDM)]
    BY <2>1
  <2>3. heap = NoHeap /\ blocks' = {} /\ ready
    BY <1>2, HeapInit DEF PagesInv, HeapInv, HeapPlaced
  <2>4. first \in UsablePages(map) /\ map \in Memmaps
    BY <2>3 DEF PagesInv, Conservation, TypeOK, Free
  <2>5. PICK e \in map : first \in Nat \ {0} /\ (first + 1) * PAGE <= e.base + e.length
    BY <2>4, UsableInEntry
  <2>6. /\ PAGE \in Nat /\ PAGE > 0 /\ HHDM \in Nat /\ HEAP_PAGES \in Nat
        /\ e.base \in Nat /\ e.length \in Nat
    BY <2>4, SizeAssumption, MemmapAssumption
  <2>7. first * PAGE \in Nat /\ HEAP_PAGES * PAGE \in Nat /\ first * PAGE <= e.base + e.length
        /\ first * PAGE > 0
    BY <2>5, <2>6
  <2>8. \A size \in Sizes : size \in Nat /\
          e.base + e.length + HHDM + HEAP_PAGES * PAGE + size + 15 < WORD
    BY <2>4, NoWrapAssumption
  <2>9. \A size \in Sizes : heap'.end + size + 15 < WORD
    BY <2>2, <2>6, <2>7, <2>8, SizeAssumption DEF HeapEnd
  <2>10. heap'.start % 16 = 0 /\ heap'.ptr % 16 = 0
    BY <2>2, <2>5, PageAligned
  <2>11. heap'.start > 0 /\ heap'.start <= heap'.ptr /\ heap'.ptr <= heap'.end
    BY <2>2, <2>6, <2>7 DEF HeapEnd
  <2>12. heap' # NoHeap
    BY <2>11 DEF NoHeap
  <2> QED
    BY <2>3, <2>9, <2>10, <2>11, <2>12 DEF HeapInv, HeapPlaced, BlocksSound
<1>3. ASSUME NEW size \in Sizes, malloc(size), ~UNCHANGED <<heap, blocks>> PROVE HeapInv'
  <2> DEFINE a == ALIGN16(size)
             b == [at |-> heap.ptr, size |-> size]
  <2>1. /\ heap # NoHeap /\ heap' = [heap EXCEPT !.ptr = heap.ptr + a]
        /\ heap.ptr + a <= heap.end /\ blocks' = blocks \cup {b}
    BY <1>3, Malloc
  <2>2. /\ a \in Nat /\ a % 16 = 0 /\ size \in Nat /\ size <= a
        /\ heap \in [start : Nat, end : Nat, ptr : Nat]
        /\ \A c \in blocks : c.at \in Nat /\ c.size \in Nat
    BY AlignIn DEF PagesInv, TypeOK
  <2>3. heap.ptr % 16 = 0 /\ heap.start <= heap.ptr
    BY <2>1 DEF HeapInv, HeapPlaced
  <2>4. /\ heap'.start = heap.start /\ heap'.end = heap.end /\ heap'.ptr = heap.ptr + a
        /\ heap' # NoHeap
    BY <2>1, <2>2 DEF HeapInv, HeapPlaced, NoHeap
  <2>5. (heap.ptr + a) % 16 = 0
    <3>1. \A x, y \in Nat : x % 16 = 0 /\ y % 16 = 0 => (x + y) % 16 = 0
      OBVIOUS
    <3> QED
      BY <2>2, <2>3, <3>1
  <2>6. HeapPlaced'
    BY <2>1, <2>2, <2>3, <2>4, <2>5 DEF HeapInv, HeapPlaced
  <2>7. \A c \in blocks' : c.at % 16 = 0 /\ heap'.start <= c.at /\ c.at + c.size <= heap'.ptr
                         /\ heap'.ptr <= heap'.end
    BY <2>1, <2>2, <2>3, <2>4 DEF HeapInv, BlocksSound
  <2>8. \A c, d \in blocks' : c.at < d.at => c.at + c.size <= d.at
    BY <2>1, <2>2, <2>4 DEF HeapInv, BlocksSound
  <2> QED
    BY <2>6, <2>7, <2>8 DEF HeapInv, BlocksSound
<1> QED
  BY <1>1, <1>2, <1>3, AllocPage, FreePage DEF Next, pmm_init, vars, PagesInv

\* The blocks of malloc are aligned, inside the heap and disjoint.
THEOREM MallocSound == Spec => []BlocksSound
<1>1. Init => HeapInv
  BY DEF Init, HeapInv, HeapPlaced, BlocksSound
<1>2. PagesInv /\ HeapInv /\ [Next]_vars => HeapInv'
  BY HeapStep
<1>3. HeapInv => BlocksSound
  BY DEF HeapInv
<1> QED
  BY <1>1, <1>2, <1>3, PagesInvariant, PTL DEF Spec----------------------------------------------------------------------------
\* The abstract allocator's answer, and that page 0 is no page.
LEMMA AnswerOf ==
  ASSUME NEW p \in Nat
  PROVE  (p * PAGE) \div PAGE = p
<1>1. (p * PAGE + 0) \div PAGE = p
  BY PageOfAddress
<1> QED
  BY <1>1, SizeAssumption

\* The page allocator of the kernel implements PageAllocator: every call
\* grants, refuses or gives back as PageAllocator does, or is a stutter.
THEOREM Refinement == Spec => ImplementsPageAllocator
<1> DEFINE Free0  == IF ready THEN bits ELSE UsablePages(map)
           Owned  == held \cup taken
           Answer == ret \div PAGE
           RInv   == PagesInv /\ AllReachable
<1>1. Init => PA!PAInit
  <2>1. 0 \div PAGE = 0
    BY SizeAssumption
  <2> QED
    BY <2>1 DEF Init, PA!PAInit, NULL
<1>2. RInv /\ [Next]_vars => [PA!PANext]_(PA!pavars)
  <2> SUFFICES ASSUME RInv, [Next]_vars PROVE PA!PANext \/ UNCHANGED <<Free0, Owned, Answer>>
    BY DEF PA!pavars
  <2>1. CASE pmm_init
    <3>1. UNCHANGED <<map, held, heap, taken, ret>> /\ ~ready /\ ready' /\ bits' = UsablePages(map)
      BY <2>1 DEF pmm_init
    <3> QED
      BY <3>1
  <2>2. CASE pmm_alloc_page
    <3>1. ready /\ ready' /\ Free = bits /\ UNCHANGED <<map, taken>> /\ bits \subseteq Nat
      BY <2>2, AllocPage DEF AllReachable, PagesInv, TypeOK
    <3>2. CASE Free = {}
      <4>1. ret' = 0 /\ UNCHANGED <<bits, held>> /\ 0 \div PAGE = 0
        BY <2>2, <3>2, SizeAssumption DEF pmm_alloc_page, NULL
      <4> QED
        BY <3>1, <3>2, <4>1 DEF PA!PANext, PA!RefuseAll
    <3>3. CASE Free # {}
      <4>1. PICK p \in Free : bits' = bits \ {p} /\ held' = held \cup {p} /\ ret' = p * PAGE
        BY <2>2, <3>3 DEF pmm_alloc_page
      <4>2. ret' \div PAGE = p
        BY <3>1, <4>1, AnswerOf
      <4>3. PA!Grant
        BY <3>1, <4>1, <4>2 DEF PA!Grant
      <4> QED
        BY <4>3 DEF PA!PANext
    <3> QED
      BY <3>2, <3>3
  <2>3. CASE FreeHeld
    <3>1. /\ UNCHANGED <<map, ready, taken>> /\ ready /\ ret' = 0
          /\ \E p \in held : bits' = bits \cup {p} /\ held' = held \ {p}
      BY <2>3, FreePage DEF PagesInv, NULL
    <3>2. PICK p \in held : bits' = bits \cup {p} /\ held' = held \ {p}
      BY <3>1
    <3>3. p \notin taken /\ 0 \div PAGE = 0
      BY <3>1, SizeAssumption DEF PagesInv, Conservation
    <3>4. PA!GiveBack
      BY <3>1, <3>2, <3>3 DEF PA!GiveBack
    <3> QED
      BY <3>4 DEF PA!PANext
  <2>4. CASE heap_init
    <3>1. ready /\ ready' /\ Free = bits /\ UNCHANGED <<map, held>> /\ taken = {} /\ bits \subseteq Nat
      BY <2>4, HeapInit DEF AllReachable, PagesInv, TypeOK
    <3>2. CASE Free = {} /\ ret' = NULL /\ UNCHANGED <<bits, taken>>
      <4>1. ret' = 0 /\ 0 \div PAGE = 0
        BY <3>2, SizeAssumption DEF NULL
      <4> QED
        BY <3>1, <3>2, <4>1 DEF PA!PANext, PA!RefuseAll
    <3>3. CASE ~(Free = {} /\ ret' = NULL /\ UNCHANGED <<bits, taken>>)
      <4>1. PICK S \in SUBSET bits : \E first \in S :
              /\ IsHeap(S) \/ S = bits
              /\ bits' = bits \ S /\ taken' = S /\ ret' = first * PAGE
        BY <2>4, <3>1, <3>3, HeapInit DEF PagesInv
      <4>2. PICK first \in S : ret' = first * PAGE
        BY <4>1
      <4>3. ret' \div PAGE = first
        BY <3>1, <4>2, AnswerOf
      <4>5. S \in (SUBSET Free0) \ {{}} /\ (IsHeap(S) \/ S = Free0)
        BY <3>1, <4>1, <4>2
      <4>6. Free0' = Free0 \ S /\ Owned' = Owned \cup S /\ Answer' \in S
        BY <3>1, <4>1, <4>2, <4>3
      <4>4. PA!GrantBatch
        BY <4>5, <4>6, Zenon DEF PA!GrantBatch
      <4> QED
        BY <4>4 DEF PA!PANext
    <3> QED
      BY <3>2, <3>3
  <2>5. CASE UNCHANGED <<map, ready, bits, held, taken, ret>>
    BY <2>5
  <2> QED
    BY <2>1, <2>2, <2>3, <2>4, <2>5 DEF Next, malloc, vars
<1> QED
  BY <1>1, <1>2, PagesInvariant, PagesReachable, PTL DEF Spec, PA!PASpec, ImplementsPageAllocator
============================================================================
