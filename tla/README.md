# H-OS: a TLA+ verification project

This directory models the kernel of H-OS (`src/kernel/src`, C and a little
assembly, x86-64, one processor, no user processes) in TLA+, checks the models
with TLC on small instances and proves the most important properties with
TLAPS for all values of the constants. `PROJECT.json` lists the components, the
runs, the mutants, the hazards and, for every definition, the lines it stands
for. Paths below are relative to `src/kernel/src/lib` unless they say more.

## 1. The system

The kernel is one thread: `kernel.c` calls `init()` and then `shell()`, for
ever. Two interrupts nest in it, the timer (vector 32) and the keyboard
(vector 33); exceptions end in reports or in a halt. All C files are one
translation unit. There are no processes, no disk writes and nothing that
survives a restart, so that crash recovery has no place here. What is hard is
the following.

* **Interleaving**: the handlers of `int-handler.c` and `interrupts.asm` run
  between any two instructions of the kernel thread and share the keyboard
  mailbox and `tick` with it.
* **Sequences of calls**: the heap, the page heap, vectors and strings keep
  pointers to each other's memory; what one call leaves behind (a stale
  `heap.end`, a moved vector) bites several calls later.
* **Locks**: `volatile_vector` has a spin lock and claims to be usable by
  several callers.
* **Boundaries**: sizes, indices and unsigned subtractions everywhere.

### Components

| component | state | operations | interacts with | correct when | modelled |
|---|---|---|---|---|---|
| kernel heap (`memory/heap/heap.h`, `src/memory/heap/heap.c`) | headers linked by `next`, `heap.end`, `heap.used_until` | `alloc`, `realloc`, `realloca`, `free`, the `align_` variants, `heap_reserve_memory` | every vector and string | blocks are disjoint, large enough, owned by one caller; the list tiles the heap; freed memory is found again | `HeapOps`, `Heap`, `AlignedHeap`; the reservation in `MemMap` |
| page heap (`page-heap.h`, `page-heap.c`) | `page_heap.segments` (a volatile vector), `used_until` | `page_alloc`, `page_realloc`, `page_free`, `page_find` | volatile vector, kernel heap | segments contiguous, search finds every block, callers' tables disjoint, the lock is returned | `PageHeap`; the reservation in `MemMap` |
| aligned pointers (`memory/aligned_ptr.h`, `.c`) | block, offset, alignment | `aptr`, `aptr_alloc`, `aptr_realloc(a)`, `aptr_free` | heap | the payload stays aligned, its header is found again | `AlignedHeap` |
| keyboard input (`hw/keyboard.h`, `src/int-handler.c`, `src/hw/kb-keys.c`, `src/hw/keyboard.c`) | key states, `keyboard.last`, `keyboard.hit`; the answers of the keyboard | the handler; `keyboard_hit`, `keyboard_char`; the polling loop; `keyboard_init` | shell, timer interrupt (it wakes `hlt`), interrupt controller | no press is forgotten, none is invented, states follow the keys, the loop wakes up; answers go with the bytes sent | `Keyboard`, `KeyboardInit` |
| clock (`time.h`, `src/time.c`, `src/interrupts.asm`) | `tick`, `timespec` | `time_init`, `time_update`, the timer handler | shell (`time`, `microfetch`) | counts every tick once, shows a valid time | `Clock`; of `format_time` the string it builds, in `Shell` |
| volatile vector (`vector/volatile-vector.h`, `.c`) | data, length, lock | push, pop, insert, resize, take over | page heap | locks are returned, no call waits for itself, no two vectors share a block | `VolatileVector`; the lock and push again in `PageHeap` |
| vectors (`vector/vector.h`, `vector.c`) | data, length, capacity | push, pop, insert, resize, construct, destruct | heap; strings, devices, memory map | the block holds length and capacity; an element is raw or dropped only where a known function leaves it so | `Vectors` in `Containers` |
| strings (`string.h`, `string.c`) | data, size | construct, push, set, pop, resize, clear, take over | heap, shell | a block each, large enough | `StringOps`, `Strings` in `Containers` |
| shell (`builtin-shell.h`, `kernel.c`) | the line, the tokens, the completion | line editing, `str_tokenize`, commands | keyboard, vectors, heap, output, clock | tokens are the words typed; nothing leaks per command; the cursor follows the line | `Shell`; the polling loop in `Keyboard` |
| memory map (`memory.c`) | `memmap`, `meminfo` | `memory_init`, `memmap_parse`, `memmap_analyze` | heap reservation, boot loader | entries say of each byte what the boot loader says; the heaps have entries of their own; totals add up | `MemMap` |
| interrupts (`interrupts.c`, `exceptions.c`, `pic.c`) | IDT, interrupt controller | set-up, exception handlers | all | no interrupt stays in service for ever | delivery in `Keyboard` and `Clock`, the controller in `KeyboardInit` |
| boot (`k_management.c`, `hardware.c`) | `vocality`, `kaslr` | `init`, `parse_cmd`, `panic` | all | the shell or `panic` is reached, switches hold | `CommandLine`; `Boot` puts the parts in order |
| PCI and devices (`pci.c`, `device.h`, `ahci.c`) | `devices`, `disks`, `ahci` | `pci_scan_bus`, `ahci_init` | vectors, shell | the lists are those of the bus and go with each other | `Pci` |
| output (`output.h`, `output.c`) | cursor, frame buffer | print, `endl`, `tab`, flush | shell | characters stay whole, begin in their row, nothing is left of what was erased | `Output` |
| conversions (`convert.c`, `utils.c`) | - | `to_string`, `to_stringi`, `to_hex`, `to_hexs`, `to_int`, `to_inti`, `strrev` | output, clock | the digits are those of the number; what is written outside the buffer | `Convert` |
| paging (`paging.c`) | `pages` | `page_init`, `physical` | page heap | - | the call of the reservation, in `MemMap`; the rest copies addresses |
| processor tables, ACPI, vendored headers | - | - | - | - | no: straight-line set-up, commented out, third-party |

`PROJECT.json` lists under "hazards", at their lines, what in this code can go
wrong and is hard to test, with the properties that watch it.

## 2. Modules

```
Allocator              what alloc()/free() and page_alloc()/page_free() promise
  ^       ^     ^         INSTANCE ... WITH, checked as KeepsPromise
Heap <- AlignedHeap  PageHeap <- PageHeapProofs
  ^       ^
MCHeap  HeapProofs

Keyboard <- MCKeyboard, KeyboardProofs
Clock, Output, VolatileVector <- LibraryProofs
Convert <- MCConvert

HeapOps  the functions of heap.c; Heap extends it, and so do
  ^        (HeapOpsProofs: what each function returns; used by
  ^         HeapProofs, ContainersProofs and ShellProofs)
StringOps, Vectors           Strings and Vectors on one heap: Containers
  ^       ^                                            <- ContainersProofs
Shell   Strings
  ^
MCShell, ShellProofs

Boot <- MCBoot, BootProofs   INSTANCE of CommandLine, MemMap, KeyboardInit, Pci
```

### Allocator

The abstract specification both heaps are held to: an owner has one interval of
bytes (or of page tables) or none; acquiring, resizing and releasing change
nobody else's interval and never make two overlap. `broken` gives the promise
up; the two implementations map to it the state after which the code is known
to break (below), so that the refinement says exactly how long the promise
holds.

### HeapOps and Heap

`alloc`, `realloc`, `realloca`, `free`, `heap_divide`, `heap_enlarge`,
`heap_expand` and `heap_init`. The heap state is one record and each C function
an operator from heap states to heap states, composed as the calls are. These
operators are `HeapOps`, which every other client of the heap extends. Memory
is flat: `heap.next`, `heap.size` are functions from header addresses; the
address arithmetic of the code is kept. The clients are data structures that
own one block each and call in any order. `want` is what a client may use: it is
what decides whether someone writes over someone else.

Calls are atomic, because only the kernel thread allocates: no handler calls
`alloc` or `free`.

Left out: the branches of `alloc()` that merge neighbouring free segments. They
are taken when `c_size > bytes`; `c_size` only ever receives the size of a
segment that has just failed `size >= bytes`. Copying the payload in `realloc`
is left out (contents are not modelled), `heap_debug` too (it prints).

`heap_divide()` does not move `heap.end` when it divides the last segment.
From then on `heap.end` may name a segment with a successor, and a
`heap_enlarge()` or an in-place `realloc` through it writes over or unlinks live
segments. `heap.misused` is a history field that remembers the segments this
happened to; the safety properties are stated for `heap.misused = {}`, and
`EndIsLast.cfg` shows that the condition is needed. The model stops when
client bytes and headers overlap (`Clobbered`): afterwards headers hold
arbitrary values.

### PageHeap

`page_alloc`, `page_realloc`, `page_free`, `page_find_index`, the division and
the expansion, for several callers. Nothing in this commit calls them yet; the
callers are those the lock is there for. A call is: wait for the lock (`Lock`,
`Spin`), work, unlock. `__page_alloc_locked()` is two steps, `Find` (up to the
division) and `Mark` (`segs[i].used = true` and what follows), because the
division pushes to the vector, which may move it while `segs` still points to
the old place: `stale` is the nondeterministic outcome of `realloca` in
`vvec_push`. A mark through a stale pointer is lost (`lost`), the tables are
handed out again, and the model goes no further. `page_find_index()` is
modelled turn by turn, with `low` and `high` as variables: `Lock` sets them, and
each turn is a `Hit` or a `Miss`. A table of other origin may lie above the heap
or below it. For one below, the unsigned `high` wraps to `SizeMax` in front of the
first segment and the loop reads behind the vector: what is there is unknown, so
that it goes on (`Stray`), perhaps back into the vector and round again, or takes
it for a segment or faults (`Derail`), of which nothing more is modelled: the
lock stays taken.

### Keyboard

The handler is one step (a keyboard interrupt is not interrupted by another
one: the controller sends the next after the end of interrupt; the timer
handler may nest in it and touches nothing of the mailbox). The main loop is
four: `Halt` (`hlt`), `Test` (`keyboard_hit()`), `Clear` and `Read` (the two
statements of `keyboard_char()`), with the handlers between any two: only an
interrupt that comes while the loop is asleep ends `hlt`, one between the test
and `hlt` does not. `wire` holds what the
keyboard has sent and the port has not delivered; it carries, beside the
scancode, which of the characters typed it stands for (`nth`), so that what was
typed can be compared with what the loop took. `Entry`, `Code` and `Shifted` stand for the tables of
`kb-keys.c`; several keys may lead to one entry and an extended key sends 0xE0
first, which the handler looks up like a key. `fresh` (the press handled last,
until the mailbox is read), `covered` (a release or a prefix was handled behind
it and took its place in `last`), `raced` and `typed` are histories. Scancodes
0x61 to 0x7F, which lie behind the key table and which no key of the table
sends, are not modelled. The loop is the one of `shell()`; `keyboard_getline()`, which
nothing calls, has the same shape.

### Clock

`time_init()` with both of its loops, `time_update()` in five steps, and the
timer handler between any two of them. Line 48 reads `tick`, line 49 reads it
again and writes it: these are separate steps, the rest is not shared with the
handler. The lengths of second, minute, hour and day are constants; the
calendar is the real one. The element behind `days_in_month[]`, which December
reads, is a constant of the build: any member of `Beyond`, chosen in `Init`.
The 32-bit fields are not given their width: the numbers stay small.

### AlignedHeap

`align_alloc`, `align_realloc`, `align_realloca`, `heap_align_enlarge` and
`heap_align_expand` on the heap state of `Heap`, called through `aligned_ptr`
next to plain clients. An owner keeps the offset of its payload behind the
header; when the padding is large enough it becomes a segment of its own, with
a new header right in front of the payload. That segment keeps the `used` flag
set before the division, so that nobody owns it (`PaddingIsFree.cfg`). The
size computed from a null `next` wraps, hence `Word`.

### StringOps, Strings, Vectors, Containers

`StringOps` has an operator for each function of `string.h`, from a heap and a
string to the outcomes. `Strings` lets several strings call them in any order.
`str_clear()` frees a block and keeps the pointer: `cleared` remembers such
strings, `reused` that one was used as it was. `Vectors` has the five families
of vectors, with elements that are raw or constructed; `resized`, `skipped`,
`wild` and `dropped` remember a `vec_resizecd()`, a push that left its elements as
the memory was (within the capacity no family but the multipurpose vector
constructs), a destructor on raw memory and an element that left without one. `Containers` runs one of them at a time on a heap of its
own, `kind` in `Init`.

### Shell

The line editor (`Type`, `Backspace`, `Tab`, `Enter`), `str_tokenize()` character
by character (`Scan`, `LastToken`, `Tokenized`), and the commands, by what
they do with tokens, line and heap: `Execute` for those that go to the end of
the loop, `EchoNothing` and `DevicesNothing` for the two `continue`s, `Exit`.
`time` and `microfetch` are two actions: `FormatTime` is one push of
`format_time()` to the string it returns, `ret`, as many as `TimeParts` has members (`parts` counts them; the
lengths are those of the default format), and `Execute` frees the string when it
was shown (`Shown`). `Chars` are the characters the keyboard can deliver. The line's
block was freed by `str_clear()` after the last command and is written to
again; `spoiled` says that the heap has given it to the token vector or a token
while the line is read, and the model stops there (`LineIsRead.cfg` reaches
it). `owned` says that the line that is read had a block in use when it began,
as every line has that was not typed after a command: no token and no vector may
be put there (`LineApart`). `Foreign` is the block the kernel holds already. The keys arrive as
`Keyboard` delivers them; what a command prints is left out.

### VolatileVector

Every function that locks, with several callers and vectors: waiting, working,
and for `vvec_take_over()` and `vvec_insert()` the second lock. The functions
are grouped by what they leave: `WorkUnlocking` returns the lock, `WorkKeeping`
leaves the vector locked for the caller, who unlocks it later. `vvec_resize()` to
0 keeps a block without elements. The elements themselves, and the destructors
`vvec_resizecd()` runs on them, are not modelled.

### MemMap

Both reservations, `memmap_parse()` with one step per turn of its loop, and
`memmap_analyze()`. The loader's maps are sorted and do not overlap, as the
Limine protocol promises; entries may be apart.

### CommandLine, KeyboardInit, Pci, Boot

`CommandLine` is `parse_cmd()`: a line is a sequence of hyphens, blanks and
words, the index moves as in the code. `KeyboardInit` is `keyboard_init()`
with the keyboard, its controller and the interrupt controller as external
actors: a byte is answered at once, a key pressed before the command ends
leaves bytes in front of the answers, and an interrupt before the gate is
present stays in service until `pic_remap()`. `Pci` is `pci_scan_bus()` with
`ahci_init()`: a function of each kind at each place. Memory that is not written
is as it was: the vectors' elements when the push did not construct them, and the
discovery of a disk in any case, as `disk_construct()` does not write it, may hold
a copy of what belongs to another disk. What a discovery found is named by the
function it was read from; a pointer is a block and an index in it, so that it
can be told when the vector has left the block. `Half` is 2 to the width of a register.

`Boot` is `init()`: the four run one after the other, the keyboard and its
interrupts beside them, also during the scan of the bus, which does not run
while the handler does. `stage` is the call `init()` is in. Of the four inputs
one at a time, `unusual`, takes all its values while the others are plain: what
the parts share is the thread, the order and the interrupts, not data. An input
that is never unusual together with another one hides only a dependence
between two of them that the code does not have.

### Convert

Each conversion turn by turn of its loop over words of `Bits` bits; memory is the
buffer with the bytes behind it and as many in front of it (`Reach`), and what was
written is read back. What is
checked is what the code does, some of which a caller must know:
`to_string()` drops the leading digits of a number with as many digits as the
buffer (20-digit numbers), `to_stringi(0)` makes `strrev()` of an empty string
change bytes in front of the buffer with those behind its beginning, one after
the other (`InBuffer` follows it up to `Reach`), the smallest number yields a sign only, `to_hexs()` leaves the digits
reversed, and `to_inti()` looks at the byte before the text.

### Output

The cursor, the pixels a character paints and the ones erasing blanks, and the
shell's hints, which keep the column (`kept`) and put it back. A character paints
`FontSize` pixels from 1, so that the glyph in the last column paints one pixel of
the next row; `paint` holds for each pixel who painted it. The width need not be
a multiple of the font size: the last column then `Crosses` the right edge.
Nothing in the code stops the cursor at the bottom, and nothing in the model does:
`Lines` are the lines of the screen, the pixels go on behind the frame buffer, and
only the bound `MaxLines` ends the printing. `astray` remembers that a cell across
or behind the right edge was painted or erased, `below` that a character was
printed behind the last line: what is still right after that, and what is not, is
what `ScreenShows` says.

## 3. Runs

| run | module | distinct states | what it shows |
|---|---|---|---|
| `heap` | MCHeap | 82 thousand | no client is overwritten; segments tile the heap and have one owner each; what is freed is found again; the heap implements `Allocator` - all until `heap.end` is misused |
| `aligned_heap` | AlignedHeap | 92 thousand | payloads stay aligned; the same for aligned and plain owners together |
| `page_heap` | PageHeap | 931 thousand | `Sound`: one caller at a time, contiguous segments, the search finds the block of its caller and no table above the heap, and leaves the vector only for one below; used flags and owners agree, and `Allocator` is implemented, until a mark is lost; the lock is returned but by a `page_realloc` that has to move or looks for a table below the heap |
| `keyboard` | MCKeyboard | 969 thousand | the last press stays flagged until it is read, and with its character unless a release or a prefix is handled behind it; nothing is delivered that was not typed; without a race everything arrives in order and with the right case; states follow the keys; a hit is always taken |
| `clock` | Clock | 79 thousand | no tick counted twice; none lost without a race; the month loop ends |
| `clock_time` | Clock | stops early | repeated carries, against "display current time" |
| `shell` | MCShell | 186 thousand | the tokens are the words typed, in blocks of their own, apart from the line's while that is in use; nothing leaks but the tokens of `devices` without devices; cursor and completion follow the line as long as it fits its row |
| `boot` | MCBoot | 312 thousand | the heaps are apart; the kernel's map is true; switches hold; no answer of the keyboard is taken for another; devices and disks are those of the bus; keys pressed later are handled; the shell or `panic` is reached |
| `containers` | Containers | 348 thousand | each vector's block holds length and capacity; in the families with constructors an element is raw only after a push that skipped its constructor and dropped only by the pop of `vector_type_cd`; strings have one block each; only `stre()` and `str_pushs()` write behind theirs |
| `volatile_vector` | VolatileVector | 218 thousand | a lock has one holder; vectors do not share blocks; a lock comes back unless its own holder waits for a second |
| `convert` | MCConvert | 4 thousand | what each conversion writes, in the buffer and outside it, and that it reads back |
| `output` | Output | 1.9 million | on the lines of the screen and behind them, the width no multiple of the font size: characters whole and nothing left behind until a cell crosses an edge, nothing painted behind the frame buffer before a character is printed there |

Type invariants of `Heap`, `Keyboard` and `VolatileVector` are proved
(section 4) and not run again; the others are conjuncts of the invariants above
(`Sound`, `AlignedSound`, `BlocksSound`, `MapIsTrue`, `DevicesListed`,
`BlockHolds`, `OneBlockEach`).

### Statements of the repository that do not hold

Besides `clock_time`, the following configurations check properties that a
comment or message of the repository states, and TLC finds each violated. They
need a few seconds (`tlc -config X.cfg M`; `MemMap.cfg` has three and
`Vectors.cfg` two, which `-continue` reports in one run) and, showing what the conditions in the
properties above are for, are kept with the project.

| cfg | module | statement | what the code does |
|---|---|---|---|
| `EndIsLast` | MCHeap | `heap.c:370` "is last block" | `heap_divide()` of the last segment leaves `heap.end` on its first half |
| `PaddingIsFree` | AlignedHeap | `heap.h:90` "create new block at the empty space" | the padding stays marked used and is lost |
| `NotAccessed` | PageHeap | `page-heap.c:164` "vector is already locked and not accessed" | the caller goes on with a pointer into the vector that was moved |
| `StateIsPressed` | MCKeyboard | `hw/keyboard.h:61` "pressed?" | two keys share an entry, and the prefix 0xE0 clears one |
| `CurrentDate` | Clock | `builtin-shell.h:187` "display current time" | the month indexes an array from 0 |
| `LineIsRead` | MCShell | `string.c:188` "copy data from cmdline" | the token vector is put into the line's freed block |
| `MemMap`: `HeapSeparate`, `Joined` | MemMap | `memory.c:120` "make heap entry not overlap other entries", `memory.c:66` "join entries of same type" | the first entry is neither compared with the heap nor joined |
| `MemMap`: `HeapsApart` | MemMap | `page-heap.c:54` "find usable memmap entry big enough" | the page heap may be put into a later entry of the kernel heap |
| `DataAcknowledged` | KeyboardInit | `keyboard.c:48` "returns true if the keyboard answers with ACK" | after a key the answer read is that to the command |
| `LastWordHolds` | MCBoot | `k_management.c:279` "disabling kernel address space randomization" | nothing is disabled |
| `PointersLive` | Pci | `device.h:61` "all devices are have the same header" | the pointer is into a block the vector has left |
| `BaseIs64Bit` | Pci | `ahci.c:71` "64-bit address" | the upper register is put into the lower half |
| `Vectors`: `ResizeConstructs` | Vectors | `vector.h:446` "constructs pushed elements or destructs popped elements" | the branches are swapped |
| `Vectors`: `InsertedAt` | Vectors | `vector.c:133` "returns pointer to the inserted entry" | it returns the one behind |
| `InsertReturns` | VolatileVector | `volatile-vector.c:65` "will not lock the vector" | `vvec_insert()` waits for its own lock |

### Bounds

* `heap`: three clients, sizes 8 and 41, the real header (24), slack (8) and
  initial block (32), 200 bytes. Size 41 does not fit the initial block,
  a 41-byte block is divisible for size 8 (41 > 8 + 24 + 8) and a freed one is
  not for 41: every branch of every function is taken, with up to six segments.
  Three clients give a block between two others. `MaxExtent` disables the calls
  that would go further. Clients are interchangeable, hence the symmetry; no
  liveness is checked there.
* `aligned_heap`: two aligned owners and a plain one, alignment 64, sizes 8 and
  100: padding too small for a header, large enough, and none.
* `page_heap`: two callers are enough for one to hold the lock and one to wait,
  and one to own while the other allocates; sizes 1 to 3 of at most 6 tables
  reach divisions, expansions and the reuse of the last segment. `Room` keeps
  calls that would go further from starting. One table of other origin lies below
  the heap and one above it; an index wraps at 12, twice the segments there can
  be, so that the search leaves the vector and gets back into it.
* `keyboard`: a letter, a shift, two keys with one scancode of which one is
  extended, and a key without an entry; three presses, three bytes on the wire.
  A lost, a doubled and a replaced key need two presses; shift adds the third.
* `clock`: two milliseconds per second, two seconds per minute and so on, so that
  all carries happen within eight ticks and three updates; five boot
  times: the ends of January and December, mid-March, a leap February.
* `shell`: the real sizes of headers, slack and elements; nine lines, two
  commands: what a command leaves behind is met by the next. The screen is nine
  columns wide, so that lines reach its edge.
* `boot`: memory maps of four entries of three types, two lengths and two gaps;
  the lengths are one too small and one large enough for a heap; 4208 command
  lines, those of up to three switches and every short one; three attempts for
  a command and two keys (the fewest for one before and one after the gate);
  three functions on the bus, each empty, a controller, one of two kinds of
  disk, or another device.
* `containers`: headers of two bytes, slack of one and elements of two bytes, so
  that blocks are divided, extended and moved within 16 bytes; five elements,
  two strings with literals of one and five characters. Proportions, not
  values, decide the branches; the real values are in `heap` and `shell`.
* `volatile_vector`: two callers and two vectors (the fewest for a take-over
  against a take-over), four blocks, up to two elements, and none.
* `convert`: 16-bit words with their number of digits; numbers around 0, around
  every power of ten and two, and the boundaries. What `strrev()` of an empty
  string does is followed for the buffers' length (`Reach`), where every further
  turn does the same one byte on.
* `output`: rows of five pixels for cells of two, a third line behind the frame
  buffer, four characters: a row can be filled, its third cell crosses the edge,
  and the next row is begun; or a character is printed on each line and one
  overwritten.

Deadlock is not checked where the system really stops (`output` when its
characters are used up, `convert` when the conversion is over).

Every property of every passing run has a mutant: a plausible bug in one mapped
definition (a flag not tested, a header not counted, a read before a clear) that
makes TLC report that property.

### Fairness

* `Keyboard`: `WF(TimerInterrupt)`: the timer chip interrupts every
  millisecond, with interrupts enabled throughout the loop. `WF(Loop)`: the only
  thread runs between interrupts. Nothing is assumed of the user.
* `PageHeap`, `VolatileVector`: `WF` of a caller that holds the lock, nothing for
  one that waits: the lock is a test-and-set loop and may starve a waiter.
  `InsertReturns.cfg` adds it (`FairSpec`) and still finds a caller that waits
  for itself.
* `Clock`: `WF` of the steps of `time_update()` after its start.
* `Boot`: `WF` of the thread, and of the keyboard's controller and the interrupt
  controller, which deliver what is there; nobody has to press a key.
* the others: none; all their properties are safety.

## 4. Proofs

All by TLAPS, for all values of the constants, from the named assumptions on them
and nothing else: `HeapOpsAssumption` (the heap does not start at 0, headers have
a size), `HeapAssumption`, `AlignedAssumption` (alignments are powers of two,
which is what `align()` masks for; the heap lies in the address space), `ContainersAssumption`, `PageHeapAssumption` (tables
of other origin lie below the page heap or above it), `VolatileVectorAssumption`,
`KeyboardAssumption`, `ShiftAssumption`, `ClockAssumption`, `ShellAssumption`
(lines are made of the keyboard's characters, the prompt leaves room in its row),
`OutputAssumption` (sizes are positive), `BootAssumption` (those
of its four parts). TLC evaluates each of them in a run.

* `HeapOpsProofs` has no variables. For each function of `heap.c` it proves that
  the result is a typed heap with at least the headers it was given (`DivideType`,
  `EnlargeType`, `AllocType`, ...) and that without misuse the segments still
  tile the heap (`...Tiled`). The last one rests on `EndIsTop`: a step that does not misuse
  `heap.end` found it without a successor, which in a tiling makes it the
  highest segment, so that what `heap_expand` writes lies behind everything.
  `Served` and `Obtained` are the contract between a function and its caller:
  the segment returned is marked, large enough and nobody else's, no other
  used segment changes, and the one the caller gave up is free.
* `HeapProofs`, on the heap with its plain clients
  * `TypeCorrect`: `Spec => []TypeOK`; a client's header always exists.
  * `HeapIntact`: `Spec => []Intact`. `Intact` is an implication: while
    `heap.misused = {}`, the segments tile the heap (`Tiled`) and owners and
    used flags correspond (`Owned`). It is inductive together with `TypeOK`
    because misuse is never taken back (`MisuseGrows`); without the condition
    neither conjunct is invariant.
  * `NobodyHarmed`: client bytes and headers do not overlap, from `Intact`.
  * `FreedReached`: `Spec => []FreedIsFound`. The walk of `alloc()` along
    `next` is a recursive function of the number of steps. That it gets from
    `used_until` to every header above it takes no induction theorem but the
    least number: were a header missed, there would be a lowest one, its
    predecessor in the tiling is reached, and one more step reaches it
    (`WalkReaches`). The walk has at most as many steps as there are headers,
    which are finitely many (`...Finite`, for each function). Where
    `used_until` stands is what the invariant adds.
  * `HeapKeepsPromise`: `Spec => Promise!AllocatorSpec`, step by step;
    `ClientsExclusive` then carries `OwnersExclusive`, which follows from
    `AllocatorSpec` alone, over to the heap.
* `HeapProofs`, on aligned and plain clients together. `AlignedInv` is
  `AlignedTypeOK`, `AlignedIntact`, and two facts neither of them says: plain
  clients start right at their payload (`PlainAtPayload`), and an aligned pointer
  is a multiple of the alignment its owner asked for (`AtMultiples`). `...Returned`
  says of each function that its result is typed and aligned, `...Granted` that
  without misuse it grants the caller a block with room for the offset and for
  what was asked; both are split by what becomes of the padding, which stays in
  front (`AlignReuseWhole`) or becomes a segment of its own (`PadGranted`). The size taken
  from a null `next` wraps at `Word`; that nothing else does needs
  `HeapStart + MaxExtent <= Word`.
  * `AlignedAlways`: `AlignedSpec => []StaysAligned`.
  * `AlignedIsSound`: `AlignedSpec => []AlignedSound`.
  * `AlignedKeepsPromise`: `AlignedSpec => KeepsPromiseAligned`.
* `ContainersProofs`. `Vectors` and `Strings` are instances, so that their heap
  is formally another one; `VectorsUseHeap` and `StringsUseHeap` show the
  functions equal to those of `HeapOps`, and the rest works with `Obtained`.
  The invariant is `ContainersInv`:
  * of a vector (`VectorKept`), its block is the only segment in use of a heap
    that is tiled (`Housed`), holds both length and capacity unless a
    `vec_resizecd()` went before (`Roomy`), and there are as many elements as
    the length says (`Contents`); of one with constructors, none is raw
    as long as no push skipped its constructor and nobody resized (`AllBuilt`). One lemma for each function of the five families. `Roomy`
    must be about the capacity as well: a push below it does not ask the heap.
  * of strings (`StringsKept`), the used segments are their blocks, one each
    and large enough (`BlocksOwned`), and a string without data has size 0,
    which the functions that append rely on without looking.
    That only `stre()` and `str_pushs()` overrun is shown without the condition
    on misuse: even a misused last segment has the size that was asked for.
  * `VectorsHold` (`BlockHolds`), `ElementsBuiltOnce` (`EachBuiltOnce`) and
    `StringsApart` (`OneBlockEach`) follow.
* `PageHeapProofs`. `IInv` has to say what a caller knows while it holds the lock.
  * `Row` is contiguity in a form that speaks of segments that are not
    neighbours, and keeps them within `MaxTables`; division, expansion and
    reuse of the last segment leave it (`...Shape`, `DivideRow`).
  * `Plan` says what a caller's call is at each place, and `Knows` what has been
    established there: during the search the caller's block lies between `low`
    and `high` (`Ahead`) - each turn halves the interval without losing it,
    because the segments are in ascending order -, and only the search for a table
    below the heap is not in the vector (`Below`, `StrayKeeps`), before the change `i` is the
    segment that was found (`FoundBy`), and before the mark the one chosen is
    free and large enough (`Settled`). It stays so because the lock is held
    (`Locked`).
  * `OwnedIsUsed` and `Distinct`: until a mark is lost, the segments marked are
    those that callers own, and no two own the same.
  * `PageHeapSound`, `OwnersMarked`, `PageHeapKeepsPromise` (the refinement of
    `Allocator`, where `lost` is `broken`) and `CallersExclusive` (from
    `OwnersApart`, the abstract invariant) follow.
* `ShellProofs`. The invariant is `ShellInv`, of six parts that need each other.
  * `Kept` is the contract of a call that takes a pointer and returns one: the
    old pointer's block may be given up, the new one's is nobody else's, the
    others stay. It is stated for a pointer whose block may be freed already,
    because that is how the line comes back to `str_push()` after a command.
  * `Phases` says what is empty when (no tokens at the prompt, no string of
    `format_time()` before its first push), `Pointed` that what is set names a
    header, `Edited` that the column is that of the line, modulo the width of the
    screen.
  * `Read`: `str_tokenize()` has found exactly the words that end before the one
    it is in (`WordsFound`). A blank either ends a word, which is then the next
    (`NewWord`, `WordPushed`), or follows a blank; the last word ends with the
    line.
  * `Owned`, as long as `heap.end` was not misused: tokens, line, string and the
    kernel have blocks of their own, a token's is as long as its text, and what
    is used belongs to one of them or was left by `devices`. `Apart`: the block of
    a line that had one when it was begun to be read is in use until it is given
    back, which keeps every allocation in between away from it.
  * `ShellTokensAreWords`, `ShellBlocksSound`, `ShellNothingLeaks` and
    `ShellEditorFollows` follow. They end where the model does, at the line
    that lost its block (`spoiled`) and at a misused `heap.end`.
* `KeyboardProofs`
  * `TypeCorrect`, with `Filled`: the mailbox holds a key whenever the loop is
    about to take one.
  * `NeverForgotten` (`LatestKept`) needs of the wire what `KeysArrive` needs, that
    a press on it carries the character that was typed (`Followed`), and `Waiting`:
    the press handled last is in the mailbox, with that character, unless it is
    covered.
  * `StateTracked` (`StateFollows`) speaks of an empty wire only. `Tracked`
    strengthens it: the last scancode of an entry on the wire, or the entry's
    state if there is none, says whether its key is down. Key events append
    such a scancode (`SendTracked`), the handler moves the first one into the
    state (`HandledTracked`).
  * `KeysArrive` (`Faithful`). `Followed` says of the wire that it carries the
    characters in their order (`Numbered`), of each press on it that the shift
    keys as they will be set when it is handled give the character that was
    typed (`AllMeant`, by `At`, as `Tracked` is), and of loop and mailbox that
    they are exactly in step as long as nothing raced (`InStep`). The shift
    keys must have entries of their own (`ShiftAssumption`), as they have in
    `kb-keys.c`: two keys on one shift entry would clear it for each other.
  * `NothingInvented` (`NeverMoreThanTyped`) also counts the presses on the
    wire (`Counted`); taking the first scancode away is a bijection of index
    sets (`HandledCounted`).
* `LibraryProofs`, on three components that stand alone
  * the clock. `ClockNeverAhead` and `ClockCountsAll` follow from one
    invariant, `Balanced`: seconds counted and the ticks that will be left when
    the update is over make up at most the ticks so far, and all of them if no
    interrupt fell into the window. `Rest` says what will be left at each point
    of `time_update()`.
  * the screen. `ScreenIsRight` (`ScreenShows`) and `CursorInRow` (`InRow`).
    A pixel has a line, a row in it and a column as a number has digits, so that
    cells that do not cross the right edge do not meet (`CellsApart`) although a
    character paints from pixel 1. `Shows` strengthens what is on the screen: each
    painted pixel belongs to the cell that shows its character, wherever the
    cursor has gone. Until a character is printed behind the last line, such a cell
    is on a line of the screen (`OnScreen`); `InFrame` then follows from the space
    between the lines. Of the width only this is used: a row has as many columns as
    begin in it (`RowWidth`), and none crosses the edge if the font size divides it
    (`WholeCells`). A hint goes back to a column the cursor was at (`KeptInRow`).
  * the volatile vector. `LockExclusive`, `BlocksOwned` and `VvecTypeCorrect`
    follow from one invariant, `IInv`: the three together with `Planned`, which
    says for each place of a caller what it is doing there. They need each other:
    a block stays one vector's because only the holder changes it (`WorkFits`), and
    what a caller does is what it locked the vector for only because nobody else
    holds it meanwhile (`WorkPlanned`). That `vvec_insert()` never gets past its second lock
    is part of the argument (`AcquireAgainKeeps`): its vector is locked, by itself.
* `BootProofs`. What a step of `init()` does to one part it does in a step of that
  part (`KeyboardSteps`, `MapSteps`, `CmdSteps`, `BusSteps`), so that each property has an
  invariant of its own.
  * `KeyboardAnswered` (`KeyboardReady`). `Answered`: until the gate is present the
    keyboard's buffer holds one byte for each early key and one for the answer
    that is awaited, nothing more; and an interrupt in service has its handler
    once the keyboard is ready.
  * `HeapsReserved` (`Reserved`). The loader's map is sorted by construction,
    which takes the least number again, as its bases are recursive (`Places`,
    `LoaderSorted`). `Taken`: the heaps begin at two different usable entries
    that are large enough. In a map without usable neighbours an entry is a run
    of its own (`RunAlone`), which is why what a reservation adds up over a run
    is the length of the entry it takes.
  * `SwitchesTaken` (`SwitchesHold`): randomization is on only if some switch
    enables it, and is if none disables it behind the last that does. `ReadTo(b)`: what the part of the line in
    front of b says has been done, and no switch in front of b has its value
    behind it (`Closed`). Between two switches that holds of the index, which
    stands at the beginning of the line or behind a blank; between a switch and
    its value, of the switch.
  * `DevicesFound` (`DevicesListed`). `BusInv` counts: the functions of a kind
    seen so far are a cardinality, and a push moves it by one (`CountNext`,
    `ListedAdds`, `PairedAdds`). Of the memory behind the disks' length nothing is
    known; that a disk has its own discovery all the same is because `ahci_init()`
    writes it for the one kind that uses it. The pointer to a disk is good until
    the vector of disks leaves the block it points into. That `a | b` is a number is shown
    by the least number, as it recurs on halves.

Only model-checked:

* liveness (`HitIsTaken`, `LockReturned`, `UpdateEnds`, `BootEnds`,
  `KeysHandled`): fairness and ENABLED are out of the prover's reach;
* `Converted` and `ReadBack`: the numerals they compare with are recursive, and
  what they are for every number is an induction over its digits;
* `MapIsTrue`: its totals are sums over the entries of a map, which the joining
  and the corrections regroup. The library's folds have no laws that could be
  cited for that, and it holds only of maps whose sums fit the word.

## 5. What is left out, and why

* Glyph tables, colours, wording; the contents of blocks, but for the tokens'.
* Port output of straight-line set-up code (processor, timer chip, screen,
  firmware), shutdown and reboot; code that is not built or commented out
  (`aligned-vector`, ACPI, `memmap_reclaim`).
* `physical()`, `device_init()`, `dev_destruct()`, `vec_take_over()` and, in
  `keyboard.c`, the self test, the scancode set functions and
  `keyboard_getline()`: nothing calls them.
* The exceptions other than the one an early key raises: they print and return
  or halt; the processor decides what follows.
* Printing from the keyboard handler while the main loop prints: `Output` is
  sequential.
* The limits of both heaps: nothing in the code enforces them, and the models'
  heaps end where exploration does.
* What `page_realloc()` does with memory behind the vector that its search took
  for a segment, or after the fault there.
* Vendored headers (`gnu-efi`, `limine.h`) are most of the lines under `src/` and
  hold declarations only; of `font.c` the tables are data.

Unsigned fields keep their width where they wrap in the code (`page_find`,
`align_alloc`, the memory map, the conversions).

## 6. Plan

1. `MapIsTrue` as a theorem: laws of sums over intervals of entries, by the least
   number as elsewhere, and the assumption that the map's end fits the word.
2. `Output` under the keyboard handler, once the handler's printing is split into
   steps.
3. The limits of both heaps, when the code looks at them.
