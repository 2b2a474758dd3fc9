# BrewOS-64 in TLA+

Specifications of BrewOS-64, a hobby operating system kernel for x86-64 with its
boot loader and C library, written from its source, with TLC configurations that
check them on small instances and proofs that TLAPS checks for all instances.

    tlc -config MCMemory.cfg MCMemory        model-check a configuration
    tlapm MemoryTreeProofs.tla               check the proofs of a module

## 1. The system

The loader (16-bit, then 64-bit assembly) reads the kernel from an ext2 volume,
collects the BIOS memory map, sets up temporary page tables and jumps to the
kernel. `KernelMain` calls, in this order, `Memory::Initialize`,
`Interrupts::Initialize`, `AddCallback(PF, Memory::PageFaultHandler)`, the global
constructors and `Syscalls::Initialize`, and idles. There is one processor and no
scheduler; the only concurrency is between the main flow and interrupt handlers.
The C library supplies a heap, string functions and stubs.

| component | state | operations | interacts with |
|---|---|---|---|
| memory manager (`kernel/arch/x86_64/memory.cpp`) | four-level page tables with a 9-bit count of present entries in each entry above P1; `frame_stack` | `Initialize`, `Allocate`, `Free`, `PageFaultHandler` | the loader's memory map; the processor's page walk and TLB |
| memory map walk (`PopMemMapFrame`) | `mmap_entry`, `mmap_addr`, `mmap_size` | next frame, or 0 | called by `Initialize` and, while the stack is being filled, by `MapPage` |
| heap (`lib/stdlib/heap.c`) | doubly linked list of blocks inside one region | `malloc`, `calloc`, `realloc`, `free` | `operator new`, `Vector`, `String`, callers' writes |
| interrupts (`interrupts.s`, `interrupts.cpp`) | IDT, PIC masks and in-service bits, a `Vector` of callbacks per vector | `Initialize`, `AddCallback`, `RemoveCallback`, dispatch | runs between any two instructions of the main flow once enabled |
| `Vector` (`vector.hpp`) | buffer, capacity, count | `Push`, `Pop`, `Insert`, `Remove` | heap, interrupts |
| `Pointer`, `Reference` | shared count, pointer | copy, assign, `Reset`, destroy | heap |
| `String` (`string.cpp`) and `lib/string` | buffer, length, capacity | construct, append, assign, store, clear, compare | heap |
| ext2 reader (`boot/.../ext2.s`) | super block, block sizes, block buffer | `open_volume`, `load_file`, `read_inode` | BIOS disk reads, stage 2 |
| stage 1, stage 2, BIOS calls | disk address, memory map, GDT, page tables | straight line | hands the map to the memory manager |
| system calls, stdio, mmap, C++ runtime | none or MSRs | stubs | |

What is hard about it, component by component:

* memory manager: a count that wraps (512 entries, 9 bits), tables that appear
  and disappear with the pages below them, running out of frames half-way through
  `MapPage`, a stack that is stored in pages it must map itself, flags inherited
  from the first page of a table, a page fault handler that returns without
  doing anything. Correct means: a frame has one owner, none is lost, counts agree
  with the tables, no table in use is given away, the stack's own pages stay mapped,
  and callers see an address space.
* memory map walk: three variables advanced independently. Correct means: no frame
  twice, none of the kernel's, only available memory, an end.
* heap: splits, merges in both directions, in-place growth and the moves of
  `realloc`. Correct means: the blocks tile the region, the list is doubly linked,
  live blocks keep their contents.
* interrupts: a dispatch loop over a list that callbacks and the main flow change,
  masks, end-of-interrupt on two PICs. Correct means: every callback in the list is
  called, no dead element is, and no line stays in service.
* `Pointer`: one delete per object, none while a reference is left.
* `String`: a buffer that is not terminated until something is written, copies that
  are bounded by the capacity and not by the room left, and a heap that may refuse.
  Correct means: the text it was given, in a buffer with room for it.
* loader: 16-bit segments and offsets, block lists in two parts, a directory and a
  file loaded over each other, memory that is not cleared, disk errors at any
  read. Correct means: files, segments and memory map arrive whole, and the boot ends.

`PROJECT.json` lists every hazard at its line, with the properties that watch it.

## 2. Modules

### Memory (`MCMemory`, `AddressSpace`; `MemoryProofs`, `MemoryTreeProofs`)

`Memory.tla` models `memory.cpp` but for the map walk. A virtual address is its page
number. The entry that translates page `v` at level `x` is the slot
`<<x, v \div Entries^(x-1)>>`: the pair of a table and an index that the recursive
mapping of P4 slot 510 reaches (`GetPxTable`, `GetPxEntryIndex`).

| state | code |
|---|---|
| `pte` | all page table entries: present, frame, write, user, no-execute, count in bits 52-60 |
| `stack` | the addresses between `ALIGN(kernel_end)` and `frame_stack` |
| `pool` | what `PopMemMapFrame` will still return; `ram` is the same at the start |
| `phase` | inside the last loop of `Initialize`, or after it |
| `stuck` | an instruction faults and the handler returns to it, for ever |
| `req`, `enomem` | history: the request a page was mapped under, and whether `MapPage` ever failed |

| action | code |
|---|---|
| `Init` | `Initialize` up to its last loop: kernel mapping, table frames, counts |
| `PushMapFrame`, `EndInitialize` | one round of that loop with `PushStackFrame` and the `MapPage` in it; its end |
| `Allocate` | `Allocate` and `MapPage` on `PopStackFrame`, ENOMEM at every level included |
| `AllocateFaultsOnTable` | the `memset` of a new table through a read-only entry (CR0.WP is set) |
| `AllocateFaults`, `FreeFaults` | an address whose window on the tables is not canonical, or a `Free` below a missing table |
| `Free` | `Free` and `UnmapPage`, all levels, with the push of each frame |

A call is one action: nothing runs between its steps (the kernel has one flow, and
no interrupt handler of the tree calls the memory manager). Garbage in entries that
are not present (`~PAGE_PRESENT`) is not told apart from zero, since `MapPage`
overwrites the whole entry. `AllocateFlags` drops the no-execute bit, as the `int`
does; `IncEntryCount` and `DecEntryCount` work modulo `Entries`, and decrementing 0
sets the no-execute bit, as the arithmetic on bits 52-63 does.

`AddressSpace.tla` is what `memory.hpp` promises: pages mapped to distinct frames,
one page changed by one call. `ImplementsAddressSpace` checks that `Memory`
implements it under the mapping that reads the P1 entries.

The frame stack lies in pages from `ALIGN(kernel_end)` on, mapped as it grows, and
shares their tables with callers who ask for pages near it. `StackAssumption` keeps callers
off the pages it can grow into, and no further: n frames on it have cost one frame of the
machine for each page they fill, so that `n + n \div Entries` of them reach no further than
page `n \div Entries`.

### MemMap (`MCMemMap`; `MemMapProofs`)

`MemMap.tla` models `PopMemMapFrame`: one action is one round of its loop. It
justifies what `Memory` assumes of the frames it is given (`MapAssumption`):
`FramesDistinct` says that they are different, and above the kernel's tables. That the map
ends with an entry of type zero is taken from memory.cpp:5 (`MemMapAssumption`); the loader
writes none (stage2.s:49-58), and `WalkEnds` says nothing of the walk over such a map.

### Heap (`MCHeap`, `Allocator`; `HeapProofs`)

`Heap.tla` models `heap.c` over cells of 16 bytes: a header takes two of them, and
a cell holds a part of a header, a mark that a caller left, or neither. Overlapping
headers, stale ones and data over headers are therefore what they are in memory. An
action is a step of a routine, at most one round of a loop; `todo` is the call
stack, whose first record says where the code is and holds its local variables.

| state | code |
|---|---|
| `mem` | the region from `heap_start` to `heap_end`, and two cells beyond it |
| `todo`, `ret` | call stack and return value |
| `live` | history: what callers own and how much of it holds their mark |
| `blocks` | history: headers that were made and not merged into another block |
| `corrupt` | history: a backward merge or an overrun of the copy has happened |

| actions | code |
|---|---|
| `MallocNothing`, `MallocBegins`, `FindNext`, `FindNothing`, `FindBest` | `malloc`, `find_best_fit`, `get_first_block` |
| `ShrinkNothing`, `Split`, `Cut` | `shrink_block`: no room; the new header; the old one cut after the merge |
| `MergeNext`, `MergePrev`, `DefragEnd` | `defrag_blocks` |
| `FreeNothing`, `FreeBlock` | `free` |
| `ReallocBegins`, `ExpandAppends`, `ExpandFits`, `ExpandMoves`, `MoveNothing`, `Move` | `realloc`, `expand_block` |
| `CallMalloc`, `CallRealloc`, `CallFree`, `Failed`, `Done` | callers, who pass what they own or NULL, and write into what they get or do not |

Every backward merge makes two blocks overlap, or a block pass the end of the
region, and what follows depends on what the caller of either block writes. A
behaviour is followed up to that step (`Sound`); the
properties of the passing run say that the heap is right until then, and
two further runs that the step itself is wrong. Tests of the checks made in C before
they can matter (`IS_VALID` of a block just found, `IS_FREE` in `shrink_block`) are
not repeated. `calloc` returns NULL in both of its branches and has no action.

`Allocator.tla` is what callers expect: ranges inside the heap that stay apart, and
a failed call that changes nothing. `ImplementsAllocator` maps an owner to the block
that carries its mark.

### Interrupts (`MCInterrupts`; `InterruptsProofs`)

`Interrupts.tla` models `interrupts.s`, `interrupts.cpp` and the parts of `Vector`
they use. Two flows run the same routines: `main`, which an interrupt stops between
any two steps, and `isr`, a callback called by the handler, with interrupts disabled.
A step of a routine is a store the other flow can see: Push counts an element, then
stores it (`m_data[m_cnt++] = item` in a build without optimisation, the Makefile's
default); Remove moves the elements down byte by byte, then uncounts.

| state | code |
|---|---|
| `irr`, `isr` | requests and lines in service of the two controllers |
| `list` | `callbacks[vector]`: none, or `m_data` (a buffer), `m_cap`, `m_cnt` |
| `mem`, `free` | buffers of the heap: contents, and whether they can be given away |
| `op` | the routine each flow is in, with its local variables |
| `h` | the interrupt being handled: position and end of the loop, read once |
| `registered` | history: per vector, the callbacks that were added and not removed |
| `lent` | history: per buffer, the vector whose list it was last given to, or none if the heap took it for something else |
| `h.due`, `h.risky`, `asked`, `wild` | histories: see the properties |

| actions | code |
|---|---|
| `MainAdds`, `CallbackAdds`, `HeapTakes`, `NewVector`, `NewFails` | `AddCallback`, `operator new`, the constructor |
| `ExpandInPlace`, `ExpandMoves`, `ExpandFails`, `Grow`, `CountElement`, `StoreElement` | `Push`, `Expand` |
| `MainRemoves`, `CallbackRemoves`, `CheckOther`, `RemoveBegins`, `TearCell`, `CopyCell`, `UncountElement`, `RemoveEnds` | `RemoveCallback`, `Remove`, `Shrink`, `memmove` |
| `Request`, `Accept`, `Fault` | a device; the stub of its line; a page fault of main |
| `CallNext`, `Leave` | the loop of `InterruptHandler`; `clear_irq` and the return |

Abstractions. Calls of the heap are atomic and succeed or fail at will; what
`realloc` copies is the old capacity. A new buffer holds junk, and so does a cell
beyond a buffer. Which free buffer a list gets is the heap's best fit (`Fit`, by vector), or
the one that `realloc` freed under a loop that still reads it; and that one may as well be
taken by a block that is no list's: the `Vector` object itself, or a neighbour that
grows over it (`HeapTakes`). What lies in a free buffer that nobody reads is forgotten.
The controllers are those of the manual, fully nested, as
`init_interrupts` sets them up; `Passes` and `EndFirst` are external. Callbacks do
not change a list that main is changing (the kernel has no such pair; both would
write one count without a lock). A behaviour is followed up to the first call of
something that is not registered, since it may then do anything.

The code has windows in which an interrupt finds a list that is not right: between
the count and the store of Push, while Remove copies a cell or has not yet uncounted
the last one, after a callback has removed from the list that runs, and when a
buffer that is run over was freed by `realloc` and given to another list, to a `Vector`
object or to another block. The
properties name these windows and say that there are no others; dropping any of
them makes TLC find a wild or a missed call. The last one is why there is `lent`: the
buffer stays unreliable after the list that got it has moved on and freed it again, which
takes two lists that grow to see: the proof met it, and not the run, in which one list does
not grow. The properties say nothing of a
dispatch that begins in a window: that it calls an element not yet stored, or half a pointer,
is in the model and violates none of them.

### Pointer (`MCPointer`; `PointerProofs`)

`Pointer.tla` models `pointer.hpp` with `reference.hpp`.

| state | code |
|---|---|
| `ptr` | the Pointers in scope: `m_data`, `m_ref` |
| `cnt` | the counters in memory: `m_cnt` |
| `objs` | the objects in memory |
| `dropped`, `shared`, `broken` | histories: given up without a delete; a copy of nothing was made; a deleted counter was used |

`Construct`, `Copy`, `Destroy`, `Assign`, `AssignNew` and `Reset` are the operations, with
the temporary that `operator=` takes by value and destroys. Two behaviours of the
code leave the properties' scope. A copy of a Pointer to nothing takes its counter and does
not count on it, so the counter goes to -1 and is deleted more than once (`assert`
expands to nothing in every build); after such a copy the properties say nothing, and
the first use of a deleted counter ends the behaviour. And `operator=` and `Reset`
never delete what they count down to zero: those objects are in `dropped`, and
`DeletedWithLastHolder` says that they are the only ones that leak: that they do violates nothing.

### String (`MCString`; `StringProofs`)

`String.tla` models `string.cpp` with the functions of `lib/string` it calls. A
buffer is held as the characters before its first zero; what `malloc` gives has it
anywhere, and a body that fills all `m_cap + 1` bytes has none.

| state | code |
|---|---|
| `str` | the Strings in scope: `m_str` (null, or the body), `m_cap`, `m_len` |
| `text` | history: the text a String was given, or `Unknown` |
| `refused` | history: the Strings made as a part of another that malloc gave nothing |
| `fault` | a call has touched address zero |
| `victim` | history: the String behind whose buffer a call has written |

| actions | code |
|---|---|
| `Reserve`, `Fill`, `FromText`, `FromPart`, `FromPartBeyond`, `Destroy` | the constructors, for positions in order and for a difference that wraps, and the destructor |
| `AppendText`, `AppendOwn`, `AssignText`, `Clear`, `Store` | `Append` and `+=`, of another text and of the String's own, `Assign` and `=`, `Clear`, `operator[]` |
| `Fault` | a constructor or a call that uses the buffer it did not get |

A capacity is given, refused or wraps, as the heap decides. `text` is `Unknown` once
nobody can tell what a String holds: after a constructor that writes nothing,
a refused `realloc`, or positions behind the text. The behaviour ends with `fault` or `victim`.
`Append` sets the length to what `strlen` finds, so that a String with a zero in front
becomes empty even if it appends itself.

### Loader (`MCLoader`; `LoaderProofs`)

`Loader.tla` models the boot: `stage1.s`, `stage2.s` with the one ext2 reader they
share (`ext2.s`), `read_disk`, and the clearing of `.bss` in `entry.s`. Memory is
a sequence of blocks from ES:0000 on, and `<<i, k>>` stands for what block `k` of inode `i`
holds, so that a block in the wrong place, left over or missing is seen.

| state | code |
|---|---|
| `vol` | the volume, chosen at the start: block size, inodes, directory, segments of the kernel |
| `stage`, `at` | the stage and the routine in it |
| `inode`, `todo`, `rest` | `read_inode`: pointers still to follow, blocks behind the direct ones |
| `es`, `dx` | segment and 16-bit offset of the next block |
| `mem` | memory from ES:0000 on: first the directory, then the file over it |
| `entry`, `eax`, `map`, `img` | directory entry; size returned; memory map; segments in place |

| actions | code |
|---|---|
| `OpenVolume`, `BadVolume`, `DiskFails` | `open_volume`; `error_bad_fsys`; `error_bad_disk`, in place of any read |
| `FindInode`, `LoadBlock`, `ReadIndirect`, `InodeLoaded` | `read_inode`, `read_direct_blocks`, `read_singly_indirect_blocks` |
| `Found`, `NextEntry`, `NotFound` | `load_file` |
| `FileMissing`, `EnterStage2` | end of stage 1 |
| `GetEntry`, `NoMoreEntries` | the BIOS's memory map, which it ends in either of two ways |
| `LongMode`, `Incompatible`, `CopySegment`, `ZeroBss` | stage 2 from `cpuid` on, `entry.s` |
| `FindJunk`, `ReadIndirectJunk`, `SearchJunk`, `NoElf` | what is read is not what ext2 put there: astray |

Where the reader looks is compared with where ext2 puts things, so the volumes it is
wrong about are part of the model, and most of them end astray: blocks of 2 KiB and more
(`SectorsRight`, `GroupsRight`), inodes beyond the first group (`TableRight`), empty
files, files whose count of blocks passes its 16 bits (`Counted`), holes, files of more than
268 blocks, directories of 32 KiB and more, whose size is compared as a signed number of 16
bits and is a small one again from 64 KiB on (`DirSize`), and a deleted entry of the name. The properties speak of the others (`Regular`, `RegularFor`), which
the image made by the Makefile is one of as long as its files have no block of zeros.

What a volume may be is assumed once, in `LoaderAssumption`: an inode's blocks and
the pointers beyond them (`InodesOf`), a directory that lies in the blocks of its inode
and names inodes there are (`DirectoryOf`), and segments that lie in the file of the kernel,
the last of which may go on with `.bss` (`SegmentsOf`). The memory of stage 2 is made fresh,
but a loader of more than `Room` blocks (79 from 0xC400 on, stage1.s:43) is overwritten by what it
loads: from then on the boot may be astray (`EnterStage2`), and `LoaderHasRoom` tells such
loaders apart.

### Not modelled, and why

* Of `String` and `lib/string`: comparison, search and the conversions of characters,
  functions of their arguments whose mistakes one call shows; `Shrink` and what
  is declared and not defined. `memmove` is in `Heap` and `Interrupts`.
* `Vector::Pop`, `Insert`, `Set` and the destructor: not used in the kernel.
* System calls, stdio, mmap and the C++ runtime: stubs without state.
* Stage 2's descriptor table and temporary page tables, the registers `isr_stub` saves, segment
  registers, stack and FPU of `entry.s`: written once, in a straight line.
* The TLB: `flush_page` flushes the window on the table and not the page that was
  unmapped. Interrupts inside calls of the heap or the memory manager: no handler
  of the tree calls them while main can be in one.
* A flag a table keeps from its first page: `WriteHonoured` checks the one for
  writing. The one for ring 3 has the same defect (memory.cpp:276): a page for ring 3
  below a table made for the kernel is out of its reach. No run states it.
* The width of sizes in the heap, and a restart that finds old headers in memory.

## 3. Runs

| run | instance | shows |
|---|---|---|
| `memory` | 2 entries per table; kernel of 3 pages; client pages 4, 8, 9, 16, 27; 0-11 frames | all properties of `Memory` below hold; 66,373 states |
| `memory_exec_kept` | the same | `ExecKept` fails: freeing a page of a full table sets no-execute for the others |
| `memory_map` | pages of 2 bytes; all maps of two regions in any order, all of three adjacent regions | no frame twice, none unavailable on the assumed machine, an end |
| `memory_map_reserved` | maps of three adjacent regions, kernel in the first | `ReservedUnused` fails: the base of the next region is not taken over |
| `heap` | 10 cells; sizes 0, 1, 3; three callers at a time | all properties of `Heap` below hold up to the first corruption; 153,939 states |
| `heap_overlap` | the same | `BlocksApart` fails: a freed block merges with the free one before it |
| `heap_copy` | 12 cells; sizes 0, 1, 2 | `CopyKeepsHeaders` fails: the copy of `realloc` overruns the new block |
| `interrupts` | lists of 3 and 1 callbacks, 3 buffers, lines 1 and 8, 3 interrupts, faults or changes by callbacks | all properties of `Interrupts` below but `IrqsServed`; 952,443 states |
| `interrupts_eoi` | lines 1, 4 and 8, no callbacks, 3 requests | `IrqsServed` fails: line 4 is never served after line 8 |
| `pointer` | 3 Pointers, 2 objects, 4 counters, with symmetry | all properties of `Pointer` below; 12,247 states |
| `string` | 2 Strings, texts of one and two characters, capacities and positions 0 and 2, with symmetry | all properties of `String` below; 1,685,044 states |
| `loader` | 27 volumes; 2 direct pointers, 3 in a block, segments of 2 blocks, counts below 8, room for a loader of 4 | all properties of `Loader` below; 965 states |

Properties of `memory`: `FramesExclusive` (one owner per frame over entries, stack
and map), `CountsExact` (counts agree with tables up to the width of the field),
`NoOrphans` (no entry below a table that was given away, although a full table and
an empty one both count 0), `StackIsMapped`, `FramesKept` (no
frame is lost unless memory has run out, and then four at most: the frame that
`Initialize` was pushing when the map came to its end, and the three tables added for
a page of the stack that never came, for which the stack has no room when a caller's
`Free` empties them), `NoEmptyTables`, `WriteHonoured`, `InitializeReturns`, `ImplementsAddressSpace`.

Properties of `heap`: `BlocksTile` (the list covers the region without gaps or
overlaps), `BlocksAreOwned` (blocks in use are those callers own, with room for what
they asked), `ContentsKept` (data survive everything but their owner's calls),
`CallsReturn`, `ImplementsAllocator`.

Properties of `interrupts`: `OnlyOwnLineInService` (each end of interrupt clears the
line it is for), `RegistryKept` (a list at rest holds what is registered, in order),
`OnlyRegisteredCalled` and `NobodyMissed` (a dispatch calls all that was registered
when it began and, outside the windows, nothing else), `RequestsServed` (a request on
a line before the cascade is served, whatever state the second controller is left in;
`IrqsServed` says it of all lines, and fails).

Properties of `pointer`: `CountsHolders`, `HeldIsAlive` (no object deleted while it
is held, no counter used after its delete), `DeletedWithLastHolder`.

Properties of `string`: `TextKept` (the text survives every operation, in a buffer with
room for it), `OverrunExplained` (a call writes behind a buffer only of a String whose text
is `Unknown`: `strncat` is bounded by the capacity and not by the room left, and is right
because `Expand` came first), `EndInBuffer` (`end()` lies in the buffer of a String that has
one; a String without one has length 0, but for the part of another that malloc refused,
which counts its characters before it asks: its `end()` is a small address in no buffer).

Properties of `loader`: `FileLoaded` (the file of the name, every block in its place,
over the directory that was there), `NeverAstray` (what is taken for an inode, pointers or a
directory is one, and stage 2 overwrites nothing of itself if the loader ends below the
kernel), `ImageRight` (segments as in the file, zero
in `.bss`), `MapHandedOver`, `BootEnds`.

Bounds. Two entries per table make a full table reachable with two pages, the case
that takes 512 pages in the code; three levels above make the cascade of `UnmapPage`
stop at each level. The five client pages share a P1 table with each other (8 and 9), a
P3 table with the kernel (16), a P2 table with the frame stack (27), or lie in the lower half (4). With 0 to 11 frames the
memory map runs out at every level of the stack's tables, and `Allocate` runs out at
every level of a client's; most states belong to the machine with 11. The clients of `memory` ask for
executable kernel pages, so that the divergences of the other runs do not hide
what holds. In `memory_map` pages are two bytes wide, so that bases
and sizes off the page boundary occur, and regions overlap, repeat and are out of order.

Ten cells hold three blocks in use, so that the middle one can be freed, expanded or
moved between two others, and one cell over, so that a block with slack exists; a
cut from three cells to one leaves a block that is a header only. A size larger than
what is left makes `malloc` and `realloc` fail at every fill level. The sizes stay far
below the width of `size_t`: overflow is not in the model.

Lists of three callbacks grow to four cells and shrink below a quarter of them, the
first size at which `Shrink` runs; two buffers are what a list that moves needs, and the
third is for the second list, so that the one that was left goes to either list or to the
heap's other blocks. Three interrupts or changes let a callback
change a list, and another interrupt find it. Line 1 is before the cascade, line 8
behind it. Texts of two characters on capacities of 0 to 2 fill a buffer to the last byte, fit
with room to spare, and outgrow it. Three Pointers are two that share and one to assign to or from; a fourth
counter is for the temporary. The kernels of 1 to 6 blocks on five pointers use the
direct pointers alone, both kinds, all of them, and one too many; three blocks cross a
segment; loaders of 4, 5 and 6 blocks do it in stage 1, the last two of which pass `Room`. Kernels of
8 and 9 blocks count 0 and 1 of them; directories of 7 blocks have the size of one.

Each property of a passing run has a mutant in the same module (a definition marked
`Mutant`), a plausible slip in the code that makes TLC find the property violated.

Deadlock is not checked: a stuck call, or a machine without memory and without a
page to free, really stops; so does the walk when the map is used up, the boot at its end, and
a flow that faults for ever.

Fairness. `Memory` assumes weak fairness of `Initialize`'s loop alone, which runs
on the boot processor before interrupts are enabled and waits for nothing. Callers
need not call. `MemMap` assumes it of the walk, which `Initialize` drives until it
returns 0. `Heap` assumes it of the routines: they run to their end and wait for
nothing; callers need not call. `Interrupts` assumes it of the handler and of what a
callback has begun, which the processor runs with interrupts disabled; main may be
held up for ever, and devices need not ask. (Requests are bounded by `MaxAsked`, so a
line is not starved by those before it.) `Loader` assumes it of every step: one
processor runs, and the BIOS answers. `Pointer` and `String` assume none.

## 4. Proofs

Every proof is for all values of the constants that satisfy the assumptions of the
module it is about: `KernelAssumption`, `PageAssumption`, `MapAssumption` and
`StackAssumption` of `Memory`; `MemMapAssumption`, `HeapAssumption`, `PointerAssumption`,
`InterruptsAssumption`, `StringAssumption` and `LoaderAssumption` of the others. They hold of the code's own constants and of the
instances, where TLC evaluates them.

**MemMap** (`MemMapProofs`): `TypeCorrect`, `FramesAreDistinct`, `FramesAreAvailable`. Distinctness
follows from an invariant that every returned frame ends at or below `addr`,
which only grows. Availability needs more: on a sorted map, `addr + size` never
passes the end of the current region and, once past the kernel, `addr` is not
below the base of an available one.

**Memory, types and owners** (`MemoryProofs`). `TypeCorrect` is
`Spec => [](TypeOK /\ RamBound)`. The work is in the `CHOOSE` operators (`Missing`, `Cleared`,
`Kept`): a lemma for each shows that its witness exists and what it satisfies.
`FramesAreExclusive` holds under the hypothesis `LowMemory` that all frames lie below
`FrameLimit` (2 GiB in the code). Without it the property is false: `UnmapPage` masks the
address, and a frame above comes back as another. The invariant `FrameInv` adds that all
frames in sight are below the limit. One lemma (`MapPageFrames`) covers `MapPage` on
any supply of frames, so that `Initialize` and `Allocate` share it.

**Memory, the tree** (`MemoryTreeProofs`). The other properties of `Memory` are not inductive, and
the invariants that imply them build on each other:

1. `TreeInv`: each present entry lies in a present table (`Rooted`); the count of an entry
   is the number of present entries below, modulo `Entries` (`Counted`); until a call
   has faulted, every table can be written; the kernel's entries stay. That a count of 0 may mean full is
   harmless since `UnmapPage` looks at it after it has removed an entry: then it means
   empty. From it follow `CountsAreExact`, `NothingOrphaned`, `TablesAreInUse` and
   `WritesAreHonoured`.
2. `StackInv`: for some n, the stack has n pages in a row, mapped writable at every level,
   and `Len(stack) <= Entries * n`; and the stack, its pages, the entries that neither they nor
   the kernel need, and what is left of the map are together no more than the frames of
   the machine, so that the stack never outgrows what `StackAssumption` reckons with. It gives `StackStaysMapped`: no push
   and no pop ever faults, whatever callers map and free.
3. `BudgetInv` (under `LowMemory`): lost frames, entries beyond the kernel's and the stack's, and
   the stack together are no more than `Entries * n`, plus four once memory has run out. So
   all a caller gives back fits on the stack: `FramesAreKept`.
4. `RamInv` (under `LowMemory`): every frame in sight that can move is one of the machine's. With
   `FramesExclusive` it gives `AddressSpaceImplemented`: `Init` maps to `Client!Init`, a call that
   succeeds maps to the abstract call of the same page, and every other step, a
   failed or a faulting call among them, to a stutter.

**Heap** (`HeapProofs`): `TypeCorrect`, `BlocksTiled`, `BlocksOwned`, `ContentsAreKept` and
`AllocatorImplemented`, for a region of any size, any sizes of requests and any number of
callers, up to the first corruption, as the properties are stated (behaviours go on to
findings 3 and 4, and end there). The properties speak of the states between calls; the
invariant `IInv` says what holds in the middle of one:

1. `Good` is the core: the headers tile the region and are linked in that order (`List`), or
   there is no list yet; the blocks in use are those of owners, save a block on its way to an owner (`fresh`)
   and owners whose block is freed already (`gone`); tags and sizes of owners are in order; every owner
   but the one in the middle of a realloc (`hot`) has its room and what it wrote.
2. `States` has one disjunct for each routine that can be innermost: its call stack, from there
   to the caller, what `Good` it finds, and what it hands on. `Split` writes the new
   header before the old block is cut, with a merge between the two: there the invariant speaks of the
   list as `Cut` will leave it (`CutAt`). `realloc` is why `fresh`, `gone` and `hot` are needed:
   after a move two blocks belong to one call.
3. A lemma for each change of the list (`GoodSplit`, `GoodMerge`, `GoodTake`, `GoodFree`,
   `GoodCopy`, `GoodGiveUp`, `GoodDone`), stated for any memory, so that a merge in `free`, in
   `realloc` and in a split is the same lemma; and one lemma for each action.
4. For `AllocatorImplemented`: a call that ends well maps to `Give` or `Resize`, one that gives up
   a block to `Take`, every other step to a stutter. That a range fits comes from the tiling
   after the step.

**Pointer** (`PointerProofs`): `TypeCorrect`, `CountsAreExact`, `HeldNotDeleted`, `NotLeaked`, for any finite
set of Pointers. The invariant is `Sound`, as long as no Pointer to nothing was copied: a counter is
the number of Pointers that hold it, an object has one counter and a counter one object, no
counter in use is deleted, and what is in memory is held or was dropped. The work is in how the set of holders changes when one Pointer becomes
another and its old value is destroyed.

**Interrupts** (`InterruptsProofs`): `TypeCorrect`, `LinesAreEnded` (`OnlyOwnLineInService`),
`RegistryIsKept` (`RegistryKept`), `DispatchIsExact` (`OnlyRegisteredCalled`) and `NobodyIsMissed`
(`NobodyMissed`), for any lines, vectors, callbacks and buffers, lists of any capacity and any number of
interrupts. `InterruptsAssumption` asks of the capacity `MaxCap` only that doubling for
`MaxAdds` callbacks does not pass it. The invariants build on each other:

1. `IInv`: types, controllers, and what a step may rely on. That the count of a list never
   passes its capacity needs that two flows never work on one list (`Apart`) and that each
   step finds the list as the step before it left it (`Working`); that an end of interrupt
   clears its own line needs to know which lines can be in service (`Serves`).
2. `KeepInv`: what the cells of a list hold in the middle of a routine (`Keeps`): all that is
   registered; or that but for the element about to be stored; or, in a removal, what is left of
   the elements before the position, then those moved down by one more than the others, with a
   torn cell between. And a buffer in use was last given to its list (`Placed`), so that a step
   at one list changes no other. What is left of a sequence is the recursive function `Kept`, of
   which `KeptStep` proves that it exists and what one more element adds.
3. `DispatchInv`: outside the windows the cells that the loop has yet to read hold registered callbacks,
   as long as the buffer has gone to no other list or block. A growth may free the buffer under the loop,
   whose contents stay until it is given away (`Stale`), or give it back to the same list. This
   is what showed that the window must be told by `lent` and not by who has the buffer now.
4. `DueInv`: every callback due is still to come: by position in the list if main was not at work on
   it, or anywhere in the rest of the buffer if it was. If the buffer went to another list or block,
   the loop meets what that holds, and stops there, before its end (`CallNextRelies`): that needs
   `CallbacksApart`, no callback written for two vectors, the hypothesis of `NobodyIsMissed`. With
   a shared one the loop could go on over another list and miss its own. The kernel
   registers one callback, for one vector (main.cpp:24), and the instances keep callbacks apart.

**String** (`StringProofs`): `TypeCorrect`, `TextsAreKept`, `OverrunsAreExplained`, `EndsAreInBuffers`,
for any Strings, characters, positions and texts of up to half the largest size. The invariant goes
String by String (`Fits`): besides the properties it says that `m_len` counts every character
there is, unless nothing was written since the buffer was reserved, or there is no zero in
it; and that without a buffer it is 0, unless the String is `refused`. `Append` makes room by `m_len` and `strncat` stores by what it finds; they agree
because of it.

**Loader** (`LoaderProofs`): `TypeCorrect`, `FilesAreLoaded`, `BootNeverAstray`, `ImageIsRight`, `MapIsHandedOver`,
for volumes of any size. The invariant says that what is loaded and what is still to load
fit in memory (`PlaceInv`), that blocks up to ES:DX are those of the inode, in order,
and the pointers to follow are the next ones (`Loading`), and, for each routine, what the file
or the directory in memory is (`LoadInv`), which segments are in place (`ImgInv`) and how much of
the map is read (`MapInv`).

**Only model-checked.** Liveness under fairness, which TLAPS does not do: `InitializeReturns`,
`WalkEnds`, `CallsReturn`, `RequestsServed` and `BootEnds`. Every other property of a passing run is
stated by a theorem.

## 5. Findings

1. A full table's count wraps; the first `Free` below it sets no-execute in
   the entry above (memory.cpp:533). The same wrap does *not* give the table away:
   `NoOrphans` holds.
2. `PopMemMapFrame` hands out reserved memory when an available region follows a
   reserved one (memory.cpp:237).
3. `free` of a block that follows a free one makes it reach into the block after it
   (heap.c:278).
4. `realloc` copies a header's length too much when it moves (heap.c:181).
5. The end of an interrupt of lines 8 to 15 is told to the second controller alone:
   lines 3 to 7 are dead from then on (interrupts.s:145).

Two remarks without a run. Pages are always executable, since `Allocate` keeps flags, and
with them no-execute, in an `int` (memory.cpp:184): `AllocateFlags` does the same. And when
the memory map ends while a frame is pushed, `Initialize` loses it, with up to three
tables added for its page (memory.cpp:177); `FramesKept` says that this is all that is lost.

## 6. Plan

1. `Memory`, `AddressSpace`, `MemMap` and their proofs (done).
2. `Heap`, `Allocator` (done).
3. `Interrupts` with the lists of callbacks, and the run on the end of interrupt (done).
4. `Pointer` with `Reference` (done).
5. `Loader`: ext2 reader, stages, `.bss` (done).
6. Proofs about `Pointer` and `Loader`, and the types and lines of `Interrupts` (done).
7. Proofs about `Memory`: all of its safety properties and the refinement (done).
8. `String` (done).
9. Proofs about `Heap`: all of its safety properties and the refinement (done).
   Proofs about the lists of `Interrupts`, and about `String` (done).
10. If there is room for more runs: the TLB, a restart of the heap over old headers, the
    flag for ring 3.
