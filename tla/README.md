# LiveOS in TLA+

TLA+ models of the LiveOS kernel (`src/Kernel/src`), TLC configurations that check
them on small instances, and proofs that TLAPS checks for every instance. Paths below
are relative to `src/Kernel/src`.

## The system

LiveOS is a small x86-64 kernel booted by Limine: one thread, `kmain`, which is never
preempted by another thread, and two interrupt handlers. There are no locks, no
timeouts and no tests; devices are driven through ports by busy-waiting.

| component | state | operations | hard about it |
|---|---|---|---|
| FAT32 driver, `Drivers/fat32.c` | `struct FAT32`; per call: component, cluster, bytes copied | `fat32_init`, `fat32_find_file`, `fat32_next_cluster`, `fat32_read_file` | chains over several FAT sectors, directories over several clusters, a read that fails half way, fixed buffers |
| ATA driver, `Drivers/ata.c` | none of its own; the controller's registers, the drive's phase, the media | `ata_identify`, `ata_init`, `ata_read_sectors`, `ata_write_sectors`, `ata_wait_ready` | the drive works at its own pace, stores late, fails at any moment; polling without a timeout |
| Page allocator and heap, `Drivers/allocation.c` | bitmap, `total_pages`, `heap_start/ptr/end` | `pmm_init`, `pmm_alloc_page`, `pmm_free_page`, `heap_init`, `malloc`, `free` | any memory map, any order of calls, arithmetic that wraps |
| PS/2 mouse, `Drivers/mouse.c` | `mouse_cycle`, `mouse_packet`, `mouse_position` | `mouse_handler` on IRQ 12 | shares one port with the keyboard; lost bytes; the end of interrupt |
| Keyboard, `Drivers/keyboard.c` | `shift_active`, `caps_lock`; a line in the making | `get_key`, `scan_string` | polled port; shift keys, repeats and edits in any order; a full line |
| Serial console, `Core/serial.c` | one static buffer `buf`, its index `ptr`; the UART | `serial_init`, `serial_printf`, `ksprintf` | one buffer for `kmain` and two handlers; its end |
| Interrupts, `Core/Interrupts/*` | the descriptor table; the stack of a handler | `set_idt_gate`, `init_idt`, the two wrappers | registers across an interrupt at any point; which handler may interrupt which |
| Boot, `main.c` | how far it has come | `kmain` | goes on only when there is a screen and the mount succeeds; shows what a disk that may fail has given it |
| Screen, `Drivers/screen.c` | the framebuffer | `put_pixel`, `draw_rect`, `draw_container`, `print_char`, `print_string` | no clipping; rows longer than the screen is wide |
| ELF loader, user mode, `Core/elf.c`, `jtum.asm`, `gdt.c` | memory; the registers a program starts with | `load_elf`, `jump_to_user_mode` | segments that meet each other, the file, a stack; a frame made by hand. Nobody calls them yet |
| Strings, memory, ports | none | byte loops, one-instruction ports | - |

They interact by calls (`fat32.c` calls `ata.c`; everybody calls `serial.c`;
`scan_string` calls `get_key` and `print_char`; `kmain` calls them all), by shared state (`buf` and `ptr` of
`serial.c`; the output buffer of the PS/2 controller, read by `get_key` and by
`mouse_handler`; the drive, which outlives the call that started it) and by interrupts
(IRQ 12 and `int 0x80`, whose gates `init_idt` sets).

What makes each correct: a read delivers the file the path names and stays in the
caller's memory; the driver moves the sectors it was asked for and no others; a page
has one owner; blocks do not overlap; the cursor follows the mouse and both devices of
the port are served; a line fits and is what the screen shows; a message arrives
whole; what is drawn is where it belongs and nothing else is; a program in memory is
what its file describes; a program does not notice that it was interrupted.

## Modules

Names follow the source. A definition that stands directly before the one it varies,
and is used nowhere, is a mutant: a plausible bug that a property has to notice
(`PROJECT.json`, `mutants`). `PROJECT.json` also maps each definition to the lines it
models.

| module | what it models |
|---|---|
| `Words` | the 32-bit integers of the kernel: where `uint32_t` wraps, and what becomes of one that is returned as an `int` |
| `Path` | `split_path` and `pad_short_name`, as operators on sequences of characters |
| `Fat32Volume` | the on-disk format as `fat32.c` takes it for granted: boot sector, allocation table, directories (external) |
| `Fat32` | `fat32_init` and `fat32_read_file`: one action per iteration of a loop with the disk read it makes. The mount is `MountOk` or `MountFails`, the search `FindCluster`, `FindNext`, `FindStops`, the read `ReadCluster`, `ReadNext`, `ReadDone`. `copied` is the history of the `memcpy`s into the caller's buffer; `tree`, part of a volume, is what the properties compare with |
| `Screen` | the drawing functions, as operators: a call is a sequence of strokes (rectangles and glyphs), whose pixels end up at addresses computed as `put_pixel` does |
| `Boot` | `kmain` statement by statement: it composes `Fat32` and `Screen`, then leaves them to clients, which read any path or draw a container |
| `Fat32Proofs` | what `Path` computes, for every path; the inductive invariants and theorems of the driver |
| `BootProofs` | that these hold in the composition; what is on the screen at the end, and what a box looks like |
| `BlockDevice` | what the ATA driver promises: blocking calls that move sectors in order, a sector stored late, a failure that may lose it |
| `Ata` | the driver, one action per `outb` of the command block, per status read and per sector, and the channel it talks to. A drive is `ready`, `busy`, `drq` or `err` and moves by itself (`DriveAsks`, `DriveStores`, `DriveFailed`) |
| `AtaProofs` | its inductive invariant, theorems, and that it implements `BlockDevice` |
| `PageAllocator` | every page is free or owned; refused only when none is free |
| `Allocation` | the bitmap allocator, `heap_init` and `malloc`, one action per call |
| `AllocationProofs` | its inductive invariants, theorems and refinement |
| `Ps2` | `mouse_handler` (one action: it runs behind an interrupt gate) and the two port reads of `get_key`, with the controller, the mouse, the keyboard and the end of interrupt |
| `Ps2Proofs`, `KeyboardProofs` | their inductive invariants and theorems |
| `Keyboard` | `get_key` and `scan_string`, one action per code read, with a keyboard that repeats the held key and a row of character cells |
| `Serial` | `serial.c`: formatting one conversion at a time, sending one character at a time, with a stack of activations (`kmain`, IRQ 12, `int 0x80`) and the UART |
| `SerialProofs` | what a format stands for, the inductive invariant of the shared buffer, and the theorems |
| `Interrupts` | `set_idt_gate` and the wrappers, one action per push and pop over a memory of stack slots |
| `UserProgram` | `load_elf`, one action per segment, and `jump_to_user_mode`, in the memory of `Interrupts` and interrupted by its handlers |
| `InterruptsProofs` | the inductive invariants and theorems of both |

`MC...` modules hold the instances for TLC.

## Runs

| run | what it shows |
|---|---|
| `Fat32_volume` | `kmain` on three screens (one too small for the longer file, one absent) and six volumes (one and two sectors per cluster, fragmented chains, directories over two clusters, a file whose chain runs in a circle, clusters too large, unformatted, elsewhere); then a client that reads, over and over, any of thirteen paths into one of five buffers, or draws one of five boxes. Every disk read may fail. On a volume that holds what it is meant to, the copies are always a prefix of the named file's clusters (`DeliversPrefix`), and without disk errors the answer is exact (`ReadExact`); on each of them the driver's own buffers and the caller's are respected (`BuffersFit`, `WithinBuffer`, `TilesBuffer`), the chain is followed (`FollowsChain`), the screen shows the greeting and the file and nothing else (`ShowsFile`), boxes are framed (`BoxesFramed`), and boot and calls end (`CallsReturn`) |
| `Ata_channel` | a master of 8 sectors, alone or with a slave of 16; reads and writes across every register's carry, past the end, and of as many sectors as the count register has values; probes; drives fail at any moment. `ReadDelivers`, `WriteLands`, `OnlyWhatWasAsked`, `CallsReturn`, and the refinement `ImplementsBlockDevice` |
| `Allocation_clients` | four memory maps (a hole, usable to the end, a partial page at the end, nothing usable), pages taken and freed in every order, before and after `heap_init`, and blocks of three sizes. `Conservation`, `AllReachable`, `BlocksSound`, the refinement `ImplementsPageAllocator` |
| `Ps2_port` | two packets and two scancodes, interleaved with the interrupt and with a polling `get_key`, bytes lost or not. `Tracks`, `KeysKept`, `MouseServed`, `KeyboardServed` |
| `Keyboard_line` | five codes of six keys into lines of one to three bytes. `ShiftFollows`, `LineFits`, `LineIsShown`, `EndKeyEnds` |
| `Serial_messages` | up to two boot messages of six, from one character to three times the buffer, and two interrupts. `MessagesWhole`, `WithinReach`, `SendsBeginning`, `PrintsReturn` |
| `Interrupts_wrapper` | two handlers, a good vector and the two beside the table, both stack alignments, every subset of the registers a C function may change (of them `fpu` stands for the SSE and x87 state); and seven files to load and start: with zeroes behind a segment, one segment over another, notes, refused headers, segments on the program headers. `Restored`, `CallAligned`, `GatesLead`, `ImageLoaded` |

The instances are small where the code is uniform. A sector of 16 bytes holds four
FAT words or four directory entries, so a table spans sectors and a directory clusters;
address registers of one bit make 16 sectors need all four of them; a count register of
two bits makes a call for 4 sectors a count of 0; the serial buffer of 11 bytes is
passed by a number that starts at its last free byte; names of two characters and an
extension of one, a name buffer of 9 and three component pointers are filled and passed
by short paths; glyphs of two by two pixels on screens of 12 by 9 and 6 by 7 show every
offset and both edges, with padding behind the rows of one; memory has 64 slots, 22 of
them for the deepest stack of a handler. `WORD` is 2^29 in
`Fat32_volume`, as TLC's own integers are narrow; no sum of the instance comes near it.
Further packets, lines or calls start from the states the first ones end in. The bounds
are `MaxPackets`, `MaxKeys`, `MaxCodes`, `MaxCalls` and `MaxInterrupts`, in the guards of
the environment only; the proofs about `Ps2` and `Keyboard` hold for each value of theirs.

Five runs find what a comment of the source says violated by the code:

| run | finding |
|---|---|
| `Ata_lba28` | `Drivers/ata.c:47` "Select drive and set LBA bits": for the master, LBA bits 24-27 are never set |
| `Interrupts_frame` | `mouse.asm:1`, `syscalls_warpper.asm:1`, `registers_t *regs`: `rdi` and `rsi` are exchanged between the wrapper and the struct |
| `Allocation_contiguous` | `Drivers/allocation.c:118` "Allocate contiguous pages": the 16 pages taken need not be the 16 pages used |
| `Ps2_resync` | `Drivers/Headers/mouse.h:29` "Must be 1 - sync check": the check skips the end of interrupt, and one lost byte ends the mouse's service |
| `Keyboard_caps` | `Drivers/keyboard.c:48` "Caps lock only affects letters": it selects the whole shift table |

Deadlock checking is off where the system really may stop because its environment is
used up: the keys, packets and interrupts of `Ps2`, `Keyboard` and `Serial`.

## Fairness

- The kernel is one thread without preemption, so a step it can take it takes: weak
  fairness of the steps of `Boot` (with those of `Fat32` in it), of the driver in `Ata`, of
  `GetKey` and of `Run` in `Serial`. Nothing says that callers call, keys are pressed or
  interrupts come.
- A drive answers in the end (`WF_vars(DriveStep)`), with data or with an error; the UART
  sends what is in its register; the processor takes an interrupt that is requested and
  not masked by one in service. The code polls without a timeout, so without these it
  promises nothing.
- The kernel executes no `sti`, never enables the mouse, and never programs the interrupt
  controllers. That IRQ 12 comes through vector 0x2C at all is taken from the gate
  `init_idt` sets, as an assumption about the environment.

## Assumptions

Named in the modules; TLC evaluates the ones about constants in every run:

- `Fat32`: `uint32_t` sums wrap as in the code. Callers' buffers are below 2^31 bytes
  (`RequestsAssumption`): within one cluster of 2^32, `total_read + to_copy` wraps, the last
  cluster is not cut and `WithinBuffer` is false; and the count is returned as an `int`.
  `cluster_buf` is at most half of what a `uint32_t` counts (`SizesAssumption`). Volumes have
  fewer sectors than a `uint32_t` counts (`Counted`), they
  name only clusters that have a word in the table, and their sectors are
  the disk's (`VolumesAssumption`). `Means` says which short names a path means: the runs of
  characters between slashes, padded (`MeansAssumption`; `NamedBy` says it in terms of
  positions, `Path` computes it as the code does). `DeliversPrefix` and `ReadExact` compare
  with a volume's `tree` and claim nothing of a volume that can be mounted and does not hold
  it (`Consistent`: chains go to an end mark, and the entries in use of each directory, of
  the names a request can mean, are what the tree has under it). The other properties are
  about every volume; `DamageAssumption` says which volume of the run is not `Consistent`.
- `Screen`, `Boot`: a display has rows of whole pixels, at least as long as it is wide, and
  no more bytes than a `uint32_t` counts (`DisplaysAssumption`). The bytes of the file
  `kmain` reads have glyphs (`Font.c` has 128) or are line breaks or NUL, and fill its
  clusters (`ContentsAssumption`); nothing is assumed of other files. The greeting is one
  line and the file's text begins under it (`TextsAssumption`), as `kmain` places them.
  `Shape` says which pixels of a character's cell its glyph covers (`ShapesAssumption`), in
  the bit order of `print_char`.
- `Ata`: callers use drives that are present and wait after a write (`MayCall`): a read of
  an absent drive polls for ever, and a call made while a write is still being stored is
  ignored by the drive. A drive that fails clears DRQ. The first status, which is read before
  the loop that tests ERR, therefore never has ERR and DRQ together; with a drive that sets
  both, the driver would take what the data port holds for the sector.
  `RequestsAssumption` types the calls.
- `Allocation`: usable entries are whole pages and not page 0, as the boot protocol says
  (`MemmapAssumption`); sums do not wrap (`NoWrapAssumption`); clients free what they hold.
  The bitmap lies at 1 MiB in usable pages, which `pmm_init` marks free with the others: they
  are handed out, and `Conservation` counts them among the usable ones. A client that is
  given one is taken not to write to it.
- `Ps2`: `MaxKeys` is at most 255, so that each scancode of a run is one byte of its own.
- `Interrupts`, `UserProgram`: a stack has room for what is pushed (`TopsAssumption`,
  `StacksAssumption`); files lie in memory with their tables (`ImagesAssumption`);
  `ImageLoaded` speaks of files whose segments are apart from the file and the stacks
  (`Separate`). The selectors of `jump_to_user_mode` have user descriptors.
  Of a gate only the address is kept here, and its type in `Serial`; `ist` and `reserved` are
  0. Selector 0x08 is taken to be a segment of 64-bit kernel code: `gdt_install` is empty, so
  it is whatever the boot loader left there.
- `Restored` is about the general-purpose registers and what `iretq` loads. A dispatcher may
  change the SSE and x87 state, of the model as of the code: the wrappers do not save it
  and `Kernel/Makefile` does not keep the compiler from using it. Nothing is claimed of it.
- `Serial`: strings have no NUL inside (`CharactersAssumption`), and a percent sign in a
  format has its conversion after it and, if it needs one, an argument of its type
  (`CallsAssumption`). `IsCall` says so of each position of the format, which excludes a
  format that ends in a percent sign: `vkformat` would run past its end. A null pointer for `%s` is given as the `(null)` that the
  code takes for it. The ten bytes behind `buf` that a long text reaches are taken to be
  nobody's: `ptr` is declared next to `buf` (`Core/serial.c:54`), and where it lies is up to
  the linker. The UART's own interrupt stays masked: if the loader leaves the divisor latch
  set, the first statement of `serial_init` writes the divisor and not the interrupt enable
  register, which then keeps what it had (`Init` starts from both).

## What is proved

For every value of the constants that the assumptions above admit. No theorem is about
liveness, and none rests on fairness.

- `Fat32Proofs`, the path: every path, in the widths of any short name. `split_path` is a
  fold over the characters, so the proof needs an invariant of its states: buffer and
  pointers after any beginning of the path are those of the components it has
  (`SplitReads`), none is missed (`NoneMissed`), and there is one way to number them
  (`OneEnumeration`). `NamesRead`: the names `fat32_find_file` looks for are those
  `NamedBy` gives the path, and they take no more of the name buffer than the path is long
  and one byte.
- `Fat32Proofs`, the driver: every sector size, volume, set of requests and pattern of disk failures.
  That a copy comes from the right sectors needs what `fat32_init` computed (`Mounted`),
  that it follows the chain needs where the driver stands (`InPlace`), and that the cluster
  at hand has a word in the table needs the arithmetic of `WordIndex`: the sector and offset
  `fat32_next_cluster` computes from a cluster lead back to the cluster's word.
  That no sum of the read wraps follows from the bound on the buffer and from `cluster_buf`,
  which a cluster must fit to be copied (`CopyIs`, `TotalIs`), and that no sum of the mount or
  of an address does, from the volume's size (`VolumeCounted`, `LbaIs`).
  `IInv == TypeOK /\ Progress` is inductive; `TypeCorrect`, `BufferSafe`, `Tiles` and
  `ChainFollowed` follow.
  What the driver delivers compares it with the tree, and needs to know during a search
  which directory it is in and which of its clusters have been looked through in vain
  (`Searching`), during a read that the copies are the file's first clusters and the
  cluster at hand is the next (`Copying`), and that the search finds the entry the tree has
  or, on a volume that is `Consistent`, none. `Fitting` says of any volume that the arrays
  hold. `EInv` joins them and gives `PrefixDelivered`, `ReadsExactly` and `BuffersHold`.
  `PrefixDelivered` holds through failing reads because a failed read of the table ends the
  copies and never names a cluster.
- `BootProofs`, the composition: every step of `Boot` is a step of `Fat32` or leaves it
  alone (`BootImplementsFat32`), so all this holds of `kmain` and its clients as well:
  `BootExact`, and `BootBufferSafe`, which is what makes `test_str[bytes] = 0` safe. Both
  carry the bound on a request's size; `kmain`'s own is 200 bytes.
- `BootProofs`, the screen: every display, font, text and box. Where the coordinates are on
  the display, none of the sums and products of `put_pixel` wraps, and each address is one
  place (`AddressIs`); so an address shows the last stroke that covers its place, or what it
  showed before, and nothing is written elsewhere (`DrawnIs`). `BoxesDrawn` follows for the
  five rectangles of a container.
- `BootProofs`, from the disk to the screen: `FileShownWhole`. Three arguments meet. The bytes
  `kmain` is given are the copies `EInv` speaks of, put one behind the other and the last of
  them cut; they are the first bytes of the whole file (`CutPieces`), and its string is a
  beginning of the file's (`StringBegins`). This needs one more invariant, `Sized`: what is
  copied comes from clusters that fit their buffer. `print_string` puts the n-th character
  where its line breaks and the characters behind the last of them say (`CursorIs`), so the
  cells of two characters share no pixel (`CellsDiffer`) and each shows its own glyph
  (`TextDrawn`); what `print_char` sends is the characters but the line breaks, in order
  (`BothCarried`). And `Canvas` says what has been drawn at each statement of `kmain`: the
  greeting on a cleared screen, and the text over it.
- `AtaProofs`: all media, register widths, calls and failures, under two premises that
  the theorems state. `Expressible`: a call is for one sector up to as many as the count
  register has values, at an address the LBA bits reach, which for a master excludes those
  of the drive register (see `Ata_lba28`). `Media`: a disk is a function from sectors.
  The run's instance satisfies both. The invariant follows the command: the registers
  written so far are the parts of the address (`Written`), and `DivMod` and `NestedDiv`
  put them together again; once it is sent, the drive's sector and count and the
  driver's loop agree (`Reads`, `Writes`) although each moves at its own time; a sector
  still to be stored is the last one transferred (`LateSector`), which is what makes a
  store after the return harmless; all sectors before it are stored (`Stored`).
  `ReadsDelivered`, `WritesLand` and `NothingElseWritten` follow. For `Refinement`,
  `Settled` adds which drive is selected, and each action is mapped by a lemma of its own
  (`MapCommand`, `MapStatus`, `MapIn`, `MapOut`, `MapDrive`, `MapCall`).
- `AllocationProofs`: every page and heap size and every memory map. `PagesInv` (types,
  nothing held before `pmm_init`, conservation) is inductive and gives `AllocationTypes`,
  `PagesConserved` and, with the arithmetic of `UsableBelowTotal`, `PagesReachable`.
  `HeapInv` adds where the heap is and gives `MallocSound`. `Refinement` maps every step to
  a step of `PageAllocator`, or to none.
- `Ps2Proofs`: all movements and modes. `ScancodesKept` needs that the codes
  read are in order, that none is missing but one in the port, and that this one is the
  next (`Kept`). `CursorFollows` needs to
  know, between any two bytes of a packet, which part of a movement is in `mouse_packet`,
  in the port, and still in the mouse (`Resting`, `UnderWay`); two complements of nine
  bits cancel.
- `KeyboardProofs`: all keys, buffer sizes and numbers of codes. `Reading` ties the index
  to the bytes stored and the cells drawn, which gives `LineStaysInside` and `LineShown`.
  `ShiftKeysFollowed` speaks of codes nobody has read yet: `WillFollow` says what the last
  shift code among the waiting ones, or the present state if there is none, will make of
  shift.
- `SerialProofs`: every buffer size, set of formats with their arguments, calls of `kmain`
  and of the two handlers, and any number of interrupts. `parse_num` is shown to give the
  decimal digits of every value an `unsigned int` that comes from an `int` can have, one to
  ten of them (`Decimal` says which, by powers of ten); it is defined for the bases the code
  uses, since with base 0 or 1 the recursion of the C function has no end. The text of a
  call is defined from the end of its format backwards, so what one turn of the loop adds
  to the buffer is what one step of that definition takes off the front (`Follows`).
  `Formatting` says that the text of the call is the buffer followed by the text of the rest
  of the format, unless the buffer is full and holds a beginning of it; `Sending`, that what
  is on the line, in the transmit register and still to be sent make up the texts of the
  calls so far. Both need that never two activations are at work (`OneActive`), and this
  rests on both gates being interrupt gates. `Inv` is inductive, and `TextsInReach`,
  `WholeMessages` and `BeginningsSent` follow.
- `InterruptsProofs`: every address width, handler, vector and stack. `Inv` says for each
  instruction of the wrapper which slots hold which of the interrupted registers; it
  gives `RegistersRestored` and `StackAligned`, also with the loader's and
  `jump_to_user_mode`'s steps in between. `HandlersReached` is arithmetic: the three parts
  of a gate are the address again. For all files and stacks, `Contents` says that memory
  off the stacks is what the first `i` segments say, the latest over the others;
  `ProgramLoaded` follows, with the handlers running in between.

Functions defined by recursion (the components of a path, a number's digits, the text of a
format, `FlattenSeq`) are proved about through lemmas stated in `Fat32Proofs` and in `SerialProofs`: a set
of numbers that has a member has a least one (`Least`), which gives induction for a set in
place of a predicate (`Induction`), and with it that some function satisfies a definition
by recursion (`Recursion`), and no other does (`OneSolution`). Where the library's induction theorems would take an operator,
these take a set.

Only model-checked: liveness and all that rests on fairness (`CallsReturn`, `MouseServed`,
`KeyboardServed`, `EndKeyEnds`, `PrintsReturn`), which is beyond the provers. Every other
property of a passing run is a theorem.

## What is not modelled

- `open` (`Core/files.c`): an unfinished stub that allocates, splits its path and compares,
  and returns nothing.
- `gdt_install` is empty in the 64-bit build; its other branch is not built.
- The second ATA channel (same code, other ports), `ATA_CMD_FLUSH` (never sent), and
  calls for more sectors than the count register has values (no caller makes one).
- Ports, `delay`, `shutdown` and `reboot`: one instruction each, without state. Of
  `System/`, only what is called: `memcpy` and `memset` in `UserProgram`, `strchr` as
  part of `pad_short_name` in `Path`.
- `Font.c` (a constant) and `limine.h` (the boot protocol's declarations).
- What a program does once started, with interrupts off as `jump_to_user_mode` leaves
  them; the segments of an ELF file in bytes (they are counted in slots of 8).
- In `Keyboard`, what a mouse byte does to the key tables; in `Ps2`, which keys the codes
  are; keys whose codes have the prefix 0xE0, and what a full keyboard buffer loses (the
  codes wait without limit); the mouse's buttons, which are only printed, and its overflow bits, which are not
  read.

## Plan

Done: all the modules above, two abstract specifications with their refinements proved,
and every safety property of the passing runs proved. Left, in this order:

1. `Fat32` over `BlockDevice` instead of a disk read that succeeds or fails, so that
   what is proved of one rests on what `AtaProofs` shows of the other.
2. `Keyboard` over `Ps2`: mouse bytes in `get_key`, scancodes in the tables.
3. `open`, once it returns something.
