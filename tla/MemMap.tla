------------------------------- MODULE MemMap -------------------------------
(***************************************************************************)
(* PopMemMapFrame of kernel/arch/x86_64/memory.cpp: the walk over the      *)
(* memory map of the BIOS that finds the frames of the machine. One action *)
(* is one round of its loop, and frames is what its calls return, whether  *)
(* Initialize makes them or MapPage does. Addresses are bytes.             *)
(***************************************************************************)
EXTENDS Naturals, Sequences

CONSTANTS
    PageBytes,   \* size of a page and of a frame (4096)
    KernelTop,   \* PADDR(kernel_page_table_end), the end of the kernel's tables
    MemoryMaps   \* memory maps that the loader may hand over

VARIABLES
    map,     \* the loader's memory map, which never changes
    entry,   \* mmap_entry: an index of map, 0 for nullptr
    addr,    \* mmap_addr
    size,    \* mmap_size
    frames   \* history: the frames returned so far

vars == <<map, entry, addr, size, frames>>

MAP_AVAILABLE == 1
MAP_RESERVED  == 2

MapEntry == [base : Nat, size : Nat, type : Nat]

(***************************************************************************)
(* The file's assumption: the last entry has a type of zero, and only it.  *)
(***************************************************************************)
ASSUME MemMapAssumption ==
    /\ PageBytes \in Nat /\ PageBytes > 0
    /\ KernelTop \in Nat /\ KernelTop > 0
    /\ MemoryMaps \subseteq Seq(MapEntry)
    /\ \A m \in MemoryMaps :
          /\ Len(m) > 0
          /\ \A i \in 1..Len(m) : m[i].type = 0 <=> i = Len(m)

ALIGN(x) == ((x + (PageBytes - 1)) \div PageBytes) * PageBytes

\* Initialize. addr starts in the first entry and is never set again.
Init == /\ map \in MemoryMaps
        /\ entry = 1
        /\ addr = ALIGN(map[1].base)
        /\ size = map[1].size
        /\ frames = << >>

InEntry == entry # 0 /\ map[entry].type # 0

\* Mutants: a frame is cut from less than a page; the type is not looked at.
HasBytes == map[entry].type = MAP_AVAILABLE /\ size > 0

HasFrameOfAnyType == size >= PageBytes

HasFrame == map[entry].type = MAP_AVAILABLE /\ size >= PageBytes

Advance == /\ addr' = addr + PageBytes
           /\ size' = size - PageBytes

\* Mutant: addr starts again at the base of the next entry.
SkipEntryAndReset == /\ InEntry /\ ~ HasFrame
                     /\ entry' = entry + 1
                     /\ size' = map[entry + 1].size
                     /\ addr' = ALIGN(map[entry + 1].base)
                     /\ UNCHANGED <<map, frames>>

\* An entry that is not available or is used up.
SkipEntry == /\ InEntry /\ ~ HasFrame
             /\ entry' = entry + 1
             /\ size' = map[entry + 1].size
             /\ UNCHANGED <<map, addr, frames>>

\* A frame below the end of the kernel and its page tables.
SkipFrame == /\ InEntry /\ HasFrame
             /\ addr < KernelTop
             /\ Advance
             /\ UNCHANGED <<map, entry, frames>>

ReturnFrame == /\ InEntry /\ HasFrame
               /\ addr >= KernelTop
               /\ Advance
               /\ frames' = Append(frames, addr)
               /\ UNCHANGED <<map, entry>>

\* Mutant: mmap_entry is not cleared.
ExhaustNothing == /\ entry # 0 /\ map[entry].type = 0
                  /\ UNCHANGED vars

\* The last entry: every call from now on returns 0.
Exhaust == /\ entry # 0 /\ map[entry].type = 0
           /\ entry' = 0
           /\ UNCHANGED <<map, addr, size, frames>>

Next == SkipEntry \/ SkipFrame \/ ReturnFrame \/ Exhaust

\* Initialize calls until it gets a 0.
Spec == Init /\ [][Next]_vars /\ WF_vars(Next)

-----------------------------------------------------------------------------
(***************************************************************************)
(* Properties.                                                             *)
(***************************************************************************)
\* Every variable holds a value of its kind.
TypeOK == /\ map \in MemoryMaps
          /\ entry \in 0..Len(map)
          /\ addr \in Nat
          /\ size \in Nat
          /\ frames \in Seq(Nat)

\* No frame is returned twice, none overlaps another, and none holds a part
\* of the kernel or its page tables, whatever the map looks like: entries
\* out of order, overlapping or listed twice (PopMemMapFrame).
FramesDistinct ==
    \A i \in 1..Len(frames) :
        /\ frames[i] >= KernelTop
        /\ \A j \in 1..Len(frames) : i < j => frames[i] + PageBytes <= frames[j]

End(e) == e.base + e.size

\* The regions are in ascending order and do not overlap.
Sorted(m) == \A i, j \in 1..(Len(m) - 1) : i < j => End(m[i]) <= m[j].base

\* A machine with no memory but the kernel's region and what is below it, as
\* the file assumes: every region that can be used starts below the kernel.
KernelRegionLast(m) ==
    \A i \in 1..Len(m) : m[i].type = MAP_AVAILABLE => m[i].base <= KernelTop

Inside(f, e) == e.base <= f /\ f + PageBytes <= End(e)

\* On such a machine every frame returned lies inside a region that is
\* available, although addr is not set to the base of a region when the walk
\* enters it: it lags behind instead, and the last frames are never used.
FramesAvailable ==
    /\ Sorted(map)
    /\ KernelRegionLast(map)
    /\ map[1].base % PageBytes = 0
    => \A i \in 1..Len(frames) : \E k \in 1..Len(map) :
          map[k].type = MAP_AVAILABLE /\ Inside(frames[i], map[k])

\* "Reserved (DO NOT USE)": no frame returned holds a reserved byte.
Overlap(f, e) == e.size > 0 /\ f < End(e) /\ e.base < f + PageBytes

ReservedUnused ==
    Sorted(map) /\ map[1].base % PageBytes = 0 =>
        \A i \in 1..Len(frames), k \in 1..Len(map) :
            map[k].type = MAP_RESERVED => ~ Overlap(frames[i], map[k])

\* The calls come to an end with the 0 that ends Initialize's loop, on a map that
\* ends with an entry of type zero, as the comment at memory.cpp:5 has it and
\* MemMapAssumption with it. The loader writes no such entry (stage2.s:49-58).
WalkEnds == <>(entry = 0)
=============================================================================
