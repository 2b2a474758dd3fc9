------------------------------- MODULE Loader -------------------------------
(***************************************************************************)
(* The boot loader: stage 1 loads the file "loader" with the ext2 reader   *)
(* (ext2.s) and jumps to it; stage 2 loads the file "kernel" with the same *)
(* code, fetches the memory map, copies the segments of the kernel and     *)
(* jumps to its entry, which clears the .bss section.                      *)
(*                                                                         *)
(* Sizes are in units, of which a block of the smallest size has BlockSize;*)
(* memory and files are sequences of blocks, and <<i, k>> is what block k  *)
(* of inode i holds. Where the code looks is compared with where ext2 puts *)
(* things: elsewhere it reads what nobody can tell.                        *)
(***************************************************************************)
EXTENDS Integers, Sequences, SequencesExt, FiniteSetsExt

CONSTANTS
    Volumes,    \* the volumes to boot from
    Entries,    \* the memory map of the BIOS
    BlockSize,  \* 1024 bytes
    Direct,     \* 12: pointers in an inode
    Pointers,   \* 256: pointers in a block
    Segment,    \* 64: blocks in 64 KiB
    Signed,     \* 32: blocks in 32 KiB, the least size that jl finds negative
    CountSize,  \* 65536: a count of blocks is kept in 16 bits
    Room,       \* 79: blocks from 0xC400, where stage 2 runs, to 2000:0000
    Hole,       \* a pointer that is zero
    Junk, Zero  \* contents of memory that is no block of a file

VARIABLES
    vol,     \* the volume
    stage,   \* "stage1", "stage2", "kernel", or how the boot has ended
    at,      \* the routine at work
    inode,   \* inode being loaded
    todo,    \* pointers of the blocks still to load
    rest,    \* number of blocks behind the direct ones
    es, dx,  \* where the next block goes: segment and offset
    mem,     \* what lies from ES:0000 on
    entry,   \* number of the directory entry being checked
    eax,     \* the size load_file returns
    map,     \* the memory map
    img      \* the segments in their places

vars == <<vol, stage, at, inode, todo, rest, es, dx, mem, entry, eax, map, img>>
loading == <<inode, todo, rest, es, dx, mem, entry, eax>>

Root == 2
MaxBlocks == Direct + Pointers

BlocksIn(v, i) == LET b == BlockSize * 2 ^ v.log
                  IN  (v.inodes[i].size + b - 1) \div b

\* An inode has the pointers of all its blocks, and maybe more.
InodesOf(v) ==
    /\ DOMAIN v.inodes \subseteq Nat \ {0} /\ Root \in DOMAIN v.inodes
    /\ \A i \in DOMAIN v.inodes :
          /\ v.inodes[i].size \in Nat
          /\ v.inodes[i].ptrs \in Seq({Hole} \cup ({i} \X Nat))
          /\ \A k \in 1..Len(v.inodes[i].ptrs) : v.inodes[i].ptrs[k] \in {Hole, <<i, k - 1>>}
          /\ BlocksIn(v, i) <= Len(v.inodes[i].ptrs)

\* An entry starts in a block of the directory. That of a file has its inode,
\* or zero if the file is deleted.
DirectoryOf(v) ==
    /\ v.dir \in Seq([name : STRING, ino : Nat, blk : Nat]) /\ v.dir # << >>
    /\ \A n \in 1..Len(v.dir) :
          /\ v.dir[n].blk < BlocksIn(v, Root)
          /\ v.dir[n].name \in {"loader", "kernel"} =>
                v.dir[n].ino \in {0} \cup (DOMAIN v.inodes \ {Root})

\* The segments of a kernel lie in its file; the .bss section ends the last one.
SegmentsOf(v) ==
    /\ v.segs \in Seq([off : Nat, filesz : Nat, memsz : Nat])
    /\ \A n \in 1..Len(v.segs) :
          /\ v.segs[n].filesz <= v.segs[n].memsz
          /\ n < Len(v.segs) => v.segs[n].filesz = v.segs[n].memsz
    /\ \A m \in 1..Len(v.dir) : LET i == v.dir[m].ino IN
          v.dir[m].name = "kernel" /\ i # 0 /\ BlocksIn(v, i) > 0 =>
            \A n \in 1..Len(v.segs) :
                v.segs[n].off + v.segs[n].filesz <= BlocksIn(v, i)

ASSUME LoaderAssumption ==
    /\ {BlockSize, Direct, Pointers, Segment, Signed} \subseteq Nat \ {0}
    /\ Room \in Nat /\ CountSize \in Nat /\ MaxBlocks < CountSize
    /\ Entries \in Seq(STRING) /\ Hole \notin Nat \X Nat
    /\ \A v \in Volumes :
          /\ v.log \in Nat /\ v.ipg \in Nat \ {0} /\ v.ipb \in Nat \ {0}
          /\ InodesOf(v) /\ DirectoryOf(v) /\ SegmentsOf(v)

Memory == 0..(2 * MaxBlocks)

File == IF stage = "stage1" THEN "loader" ELSE "kernel"

Init == /\ vol \in Volumes
        /\ stage = "stage1" /\ at = "open"
        /\ inode = Root /\ todo = << >> /\ rest = 0 /\ es = 0 /\ dx = 0
        /\ mem = [a \in Memory |-> Junk]
        /\ entry = 1 /\ eax = 0 /\ map = << >> /\ img = << >>

At(a) == stage \in {"stage1", "stage2"} /\ at = a

Ends(how) == stage' = how /\ UNCHANGED <<vol, at, loading, map, img>>

(***************************************************************************)
(* open_volume and the places it computes. bs is 16 bits of the block size.*)
(***************************************************************************)
bs == BlockSize * 2 ^ vol.log

spb == (vol.log + 1) * 2

OpenVolume == /\ At("open") /\ vol.magic
              /\ at' = "inode" /\ inode' = Root
              /\ UNCHANGED <<vol, stage, todo, rest, es, dx, mem, entry, eax, map, img>>

BadVolume == At("open") /\ ~ vol.magic /\ Ends("reboot")

\* ext2: a block has 2 ^ (log + 1) sectors; the group descriptors follow the
\* super block, which is block 1 if blocks have 1024 bytes, else block 0.
SectorsRight == spb = 2 ^ (vol.log + 1)

FirstDataBlock == IF vol.log = 0 THEN 1 ELSE 0

GroupsRight == (BlockSize \div bs) + FirstDataBlock = 1 + FirstDataBlock

\* The block of the inode table of its group: the reader does not take the
\* index within the group. ext2 does.
TableRight(i) == (i - 1) \div vol.ipb = ((i - 1) % vol.ipg) \div vol.ipb

Located(i) == i > 0 /\ SectorsRight /\ GroupsRight /\ TableRight(i)

(***************************************************************************)
(* read_inode, with read_direct_blocks and read_singly_indirect_blocks. A  *)
(* pointer that is zero leaves its block as it was.                        *)
(***************************************************************************)
Ptrs(i) == vol.inodes[i].ptrs

Blocks(i) == BlocksIn(vol, i)

Counted(i) == Blocks(i) % CountSize

\* Mutant: a file goes behind what was loaded before.
FindInodeAppends ==
    /\ At("inode") /\ Located(inode) /\ Counted(inode) > 0
    /\ LET n == Min({Counted(inode), Direct})
       IN  todo' = SubSeq(Ptrs(inode), 1, n) /\ rest' = Counted(inode) - n
    /\ at' = "blocks"
    /\ UNCHANGED <<vol, stage, inode, mem, es, dx, entry, eax, map, img>>

FindInode ==
    /\ At("inode") /\ Located(inode) /\ Counted(inode) > 0
    /\ LET n == Min({Counted(inode), Direct})
       IN  todo' = SubSeq(Ptrs(inode), 1, n) /\ rest' = Counted(inode) - n
    /\ es' = 0 /\ dx' = 0
    /\ at' = "blocks"
    /\ UNCHANGED <<vol, stage, inode, mem, entry, eax, map, img>>

\* The inode is looked for elsewhere, or its blocks are none or 65536: loop
\* counts down from zero.
FindJunk == /\ At("inode") /\ ~ (Located(inode) /\ Counted(inode) > 0)
            /\ Ends("astray")

\* Mutant: the offset is not kept to 16 bits.
LoadBlockFlat ==
    /\ At("blocks") /\ todo # << >>
    /\ todo' = Tail(todo)
    /\ mem' = IF Head(todo) = Hole THEN mem
              ELSE [mem EXCEPT ![es * Segment + dx] = Head(todo)]
    /\ dx' = dx + 1
    /\ es' = es
    /\ UNCHANGED <<vol, stage, at, inode, rest, entry, eax, map, img>>

\* Mutant: the segment does not advance.
LoadBlockSameSegment ==
    /\ At("blocks") /\ todo # << >>
    /\ todo' = Tail(todo)
    /\ mem' = IF Head(todo) = Hole THEN mem
              ELSE [mem EXCEPT ![es * Segment + dx] = Head(todo)]
    /\ dx' = (dx + 1) % Segment
    /\ es' = es
    /\ UNCHANGED <<vol, stage, at, inode, rest, entry, eax, map, img>>

LoadBlock ==
    /\ At("blocks") /\ todo # << >>
    /\ todo' = Tail(todo)
    /\ mem' = IF Head(todo) = Hole THEN mem
              ELSE [mem EXCEPT ![es * Segment + dx] = Head(todo)]
    /\ dx' = (dx + 1) % Segment
    /\ es' = IF dx' = 0 THEN es + 1 ELSE es
    /\ UNCHANGED <<vol, stage, at, inode, rest, entry, eax, map, img>>

\* The block of pointers behind the direct ones. Others are left out, and those
\* in it behind the last block of the file are not read.
Indirect(i) == SubSeq(Ptrs(i), Direct + 1, Min({Len(Ptrs(i)), MaxBlocks}))

IndirectIsHole(i) == \A p \in ToSet(Indirect(i)) : p = Hole

ReadIndirect ==
    /\ At("blocks") /\ todo = << >> /\ rest > 0
    /\ ~ IndirectIsHole(inode)
    /\ todo' = SubSeq(Ptrs(inode), Direct + 1, Direct + Min({Pointers, rest}))
    /\ rest' = 0
    /\ UNCHANGED <<vol, stage, at, inode, es, dx, mem, entry, eax, map, img>>

\* The block of pointers does not exist: block 0 is taken for it.
ReadIndirectJunk == /\ At("blocks") /\ todo = << >> /\ rest > 0
                    /\ IndirectIsHole(inode)
                    /\ Ends("astray")

InodeLoaded ==
    /\ At("blocks") /\ todo = << >> /\ rest = 0
    /\ eax' = vol.inodes[inode].size
    /\ at' = IF inode = Root THEN "search" ELSE "loaded"
    /\ entry' = 1
    /\ UNCHANGED <<vol, stage, inode, todo, rest, es, dx, mem, map, img>>

(***************************************************************************)
(* load_file walks the entries of the root directory, those of deleted     *)
(* files among them, and compares the position with 16 bits of the size,   *)
(* as signed numbers.                                                      *)
(***************************************************************************)
Entry == vol.dir[entry]

Readable == mem[Entry.blk] = <<Root, Entry.blk>>

Found == /\ At("search") /\ Readable /\ Entry.name = File
         /\ inode' = Entry.ino
         /\ at' = "inode"
         /\ UNCHANGED <<vol, stage, todo, rest, es, dx, mem, entry, eax, map, img>>

DirSize == Blocks(Root) % (2 * Signed)

GoesOn == entry < Len(vol.dir) /\ DirSize < Signed /\ vol.dir[entry + 1].blk < DirSize

\* Mutant: the size of the entry is not added.
NextEntryStays ==
    /\ At("search") /\ Readable /\ Entry.name # File
    /\ GoesOn
    /\ UNCHANGED vars

NextEntry == /\ At("search") /\ Readable /\ Entry.name # File
             /\ GoesOn
             /\ entry' = entry + 1
             /\ UNCHANGED <<vol, stage, at, inode, todo, rest, es, dx, mem, eax, map, img>>

NotFound == /\ At("search") /\ Readable /\ Entry.name # File
            /\ ~ GoesOn
            /\ eax' = 0 /\ inode' = 0
            /\ at' = "loaded"
            /\ UNCHANGED <<vol, stage, todo, rest, es, dx, mem, entry, map, img>>

SearchJunk == At("search") /\ ~ Readable /\ Ends("astray")

\* read_disk: the BIOS reports an error, in place of any of the reads.
Reads == \/ at \in {"open", "inode"}
         \/ at = "blocks" /\ IF todo = << >> THEN rest > 0 ELSE Head(todo) # Hole

DiskFails == stage \in {"stage1", "stage2"} /\ Reads /\ Ends("reboot")

(***************************************************************************)
(* The stages. Stage 2 has the memory from 2000:0000 on for the kernel,    *)
(* and what stage 1 has put there of a longer loader is overwritten.       *)
(***************************************************************************)
Intact(i) == \A k \in 1..Blocks(i) : mem[k - 1] = <<i, k - 1>>

FileMissing == At("loaded") /\ eax = 0 /\ Ends("reboot")

EnterStage2 ==
    /\ stage = "stage1" /\ At("loaded") /\ eax # 0
    /\ stage' \in {IF Intact(inode) THEN "stage2" ELSE "astray"}
                 \cup (IF Blocks(inode) > Room THEN {"astray"} ELSE {})
    /\ at' = "open" /\ mem' = [a \in Memory |-> Junk]
    /\ eax' = 0 /\ inode' = Root
    /\ UNCHANGED <<vol, todo, rest, es, dx, entry, map, img>>

\* Mutant: the last entry is not kept.
GetEntryButLast ==
    /\ stage = "stage2" /\ At("loaded") /\ eax # 0
    /\ Len(map) + 1 < Len(Entries)
    /\ map' = Append(map, Entries[Len(map) + 1])
    /\ at' \in {"loaded"} \cup (IF Len(map') + 1 = Len(Entries) THEN {"cpu"} ELSE {})
    /\ UNCHANGED <<vol, stage, loading, img>>

\* The BIOS gives an entry of the memory map; with the last one it says so, or
\* else it fails the call after it.
GetEntry == /\ stage = "stage2" /\ At("loaded") /\ eax # 0
            /\ Len(map) < Len(Entries)
            /\ map' = Append(map, Entries[Len(map) + 1])
            /\ at' \in {"loaded"} \cup (IF Len(map') = Len(Entries) THEN {"cpu"} ELSE {})
            /\ UNCHANGED <<vol, stage, loading, img>>

NoMoreEntries == /\ stage = "stage2" /\ At("loaded") /\ eax # 0
                 /\ Len(map) = Len(Entries)
                 /\ at' = "cpu"
                 /\ UNCHANGED <<vol, stage, loading, map, img>>

\* A processor without long mode: the message needs the BIOS, whose interrupts
\* are gone with the IDT.
LongMode == At("cpu") /\ at' = "segments" /\ UNCHANGED <<vol, stage, loading, map, img>>

Incompatible == At("cpu") /\ Ends("reset")

\* The size in memory is copied, which reaches behind what the file has of it.
CopySegment ==
    /\ At("segments") /\ mem[0] = <<inode, 0>> /\ Len(img) < Len(vol.segs)
    /\ LET s == vol.segs[Len(img) + 1]
       IN  img' = Append(img, [k \in 1..s.memsz |-> mem[s.off + k - 1]])
    /\ UNCHANGED <<vol, stage, at, loading, map>>

NoElf == At("segments") /\ mem[0] # <<inode, 0>> /\ Ends("astray")

\* Mutant: .bss stays as it is.
ZeroNothing ==
    /\ At("segments") /\ img # << >> /\ Len(img) = Len(vol.segs)
    /\ stage' = "kernel"
    /\ UNCHANGED <<vol, at, loading, map, img>>

\* entry.s: the .bss section ends the last segment.
ZeroBss ==
    /\ At("segments") /\ img # << >> /\ Len(img) = Len(vol.segs)
    /\ img' = [img EXCEPT ![Len(img)] =
                  [k \in DOMAIN @ |-> IF k > Last(vol.segs).filesz THEN Zero ELSE @[k]]]
    /\ stage' = "kernel"
    /\ UNCHANGED <<vol, at, loading, map>>

Next == \/ OpenVolume \/ BadVolume \/ DiskFails
        \/ FindInode \/ FindJunk \/ LoadBlock \/ ReadIndirect \/ ReadIndirectJunk
        \/ InodeLoaded
        \/ Found \/ NextEntry \/ NotFound \/ SearchJunk
        \/ FileMissing \/ EnterStage2
        \/ GetEntry \/ NoMoreEntries \/ LongMode \/ Incompatible
        \/ CopySegment \/ NoElf \/ ZeroBss

\* The processor goes on.
Spec == Init /\ [][Next]_vars /\ WF_vars(Next)

(***************************************************************************)
(* Properties. Volumes and files they speak of: blocks of 1024 bytes, what *)
(* is looked for in the first group, no hole, and no more than the reader  *)
(* loads; a directory of less than 32 KiB without a deleted file's name.   *)
(***************************************************************************)
\* Every variable has its type, and the blocks stay in the memory given.
TypeOK == /\ vol \in Volumes
          /\ stage \in {"stage1", "stage2", "kernel", "reboot", "reset", "astray"}
          /\ at \in {"open", "inode", "blocks", "search", "loaded", "cpu", "segments"}
          /\ rest \in Nat /\ dx \in 0..(Segment - 1) /\ es * Segment + dx \in Memory
          /\ DOMAIN mem = Memory
          /\ entry \in DOMAIN vol.dir
          /\ eax \in Nat

Regular(i) == /\ vol.log = 0 /\ i \in DOMAIN vol.inodes /\ i <= vol.ipg
              /\ Blocks(i) \in 1..MaxBlocks
              /\ Hole \notin ToSet(Ptrs(i))

Named(name) == {n \in DOMAIN vol.dir : vol.dir[n].name = name}

RegularFor(name) == /\ Regular(Root) /\ Blocks(Root) < Signed
                    /\ \A n \in Named(name) : Regular(vol.dir[n].ino)

\* load_file loads the whole file of the name, every block in its place across
\* the pointers, the indirect ones and the borders of the 64 KiB segments, over
\* the directory that was there, and returns its size; or there is no such file
\* and it returns zero.
FileLoaded ==
    At("loaded") /\ RegularFor(File) =>
        IF Named(File) = {} THEN eax = 0
        ELSE \E n \in Named(File) : /\ Intact(vol.dir[n].ino)
                                    /\ eax = vol.inodes[vol.dir[n].ino].size

LoaderHasRoom == \A n \in Named("loader") : Blocks(vol.dir[n].ino) <= Room

\* What the loader takes for an inode, for pointers or for a directory is one,
\* and stage 2 overwrites nothing of itself: the boot goes astray on none of
\* these volumes, if the loader ends below the kernel.
NeverAstray ==
    stage = "astray" =>
        ~ RegularFor("loader") \/ ~ RegularFor("kernel") \/ ~ LoaderHasRoom

\* The kernel runs with each segment as its file has it, and with zero in the
\* rest of the memory it asks for, whatever lay there before.
ImageRight ==
    stage = "kernel" /\ RegularFor("kernel") =>
        \A n \in DOMAIN vol.segs : LET s == vol.segs[n] IN
            img[n] = [k \in 1..s.memsz |->
                         IF k <= s.filesz THEN <<inode, s.off + k - 1>> ELSE Zero]

\* The kernel is handed the entries the BIOS gave, all of them and in order,
\* however the BIOS ends the list.
MapHandedOver == stage = "kernel" => map = Entries

\* The boot ends: in the kernel, with a message and a restart, or astray; the
\* loops over entries, blocks and segments come to an end.
BootEnds == <>(stage \in {"kernel", "reboot", "reset", "astray"})
=============================================================================
