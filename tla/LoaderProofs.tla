---------------------------- MODULE LoaderProofs ----------------------------
(***************************************************************************)
(* Proofs about module Loader: its types, and that on volumes of every     *)
(* size, of the kind the reader is right about, the files arrive whole,    *)
(* nothing else is taken for one, the kernel's segments are in their       *)
(* places and the memory map is handed over.                               *)
(***************************************************************************)
EXTENDS Loader, FiniteSetTheorems, TLAPS

(***************************************************************************)
(* The inductive invariant. The blocks that are loaded and those still to  *)
(* load fit in the memory given (PlaceInv); on a volume the reader is      *)
(* right about they are, in their order, those of the inode (LoadInv), and *)
(* so are what the search reads and what the segments are copied from.     *)
(***************************************************************************)
Place == es * Segment + dx

TypeInv == /\ vol \in Volumes
           /\ stage \in {"stage1", "stage2", "kernel", "reboot", "reset", "astray"}
           /\ at \in {"open", "inode", "blocks", "search", "loaded", "cpu", "segments"}
           /\ inode \in {0} \cup DOMAIN vol.inodes
           /\ at = "blocks" => inode # 0
           /\ todo \in Seq({Hole} \cup (Nat \X Nat))
           /\ rest \in Nat /\ es \in Nat /\ dx \in 0..(Segment - 1)
           /\ DOMAIN mem = Memory
           /\ entry \in 1..Len(vol.dir)
           /\ eax \in Nat
           /\ map \in Seq(STRING)

PlaceInv == /\ Place + Len(todo) + (IF rest > 0 THEN Pointers ELSE 0) <= MaxBlocks
            /\ at = "blocks" /\ rest > 0 => Direct + rest <= Blocks(inode)

\* The last two parts of stage 2, and the kernel after them.
StageInv == /\ at \in {"cpu", "segments"} => stage # "stage1"
            /\ stage = "kernel" => at = "segments"

MapInv == /\ Len(map) <= Len(Entries)
          /\ \A n \in 1..Len(map) : map[n] = Entries[n]
          /\ at \in {"cpu", "segments"} => Len(map) = Len(Entries)

IsFile(i) == \E n \in Named(File) : i = vol.dir[n].ino

Loading == /\ \A k \in 0..(Place - 1) : mem[k] = <<inode, k>>
           /\ \A j \in 1..Len(todo) : todo[j] = <<inode, Place + j - 1>>
           /\ IF rest > 0 THEN Place + Len(todo) = Direct /\ rest = Blocks(inode) - Direct
                          ELSE Place + Len(todo) >= Blocks(inode)

Loaded == IsFile(inode) /\ Intact(inode) /\ eax = vol.inodes[inode].size

LoadInv ==
    RegularFor(File) /\ stage \in {"stage1", "stage2"} =>
        /\ at = "inode"  => inode = Root \/ IsFile(inode)
        /\ at = "blocks" => (inode = Root \/ IsFile(inode)) /\ Loading
        /\ at = "search" => /\ Intact(Root)
                            /\ \A n \in 1..(entry - 1) : vol.dir[n].name # File
        /\ at = "loaded" => Loaded \/ (Named(File) = {} /\ eax = 0)
        /\ at \in {"cpu", "segments"} => Loaded

Copy(n) == [k \in 1..vol.segs[n].memsz |-> mem[vol.segs[n].off + k - 1]]

ImgInv ==
    stage \in {"stage1", "stage2"} =>
        IF at = "segments"
        THEN /\ img \in Seq({Copy(m) : m \in 1..Len(vol.segs)})
             /\ \A m \in 1..Len(img) : img[m] = Copy(m)
        ELSE img = << >>

IInv == TypeInv /\ PlaceInv /\ StageInv /\ MapInv /\ LoadInv /\ ImgInv
        /\ NeverAstray /\ ImageRight

-----------------------------------------------------------------------------
(***************************************************************************)
(* Numbers.                                                                *)
(***************************************************************************)
LEMMA PowerType == ASSUME NEW n \in Nat PROVE 2 ^ n \in Nat \ {0}
<1> DEFINE S == 1..n
<1>1. IsFiniteSet(S) /\ Cardinality(S) = n
  BY FS_Interval
<1>2. IsFiniteSet(SUBSET S) /\ Cardinality(SUBSET S) = 2 ^ n
  BY <1>1, FS_SUBSET
<1>3. SUBSET S # {}
  OBVIOUS
<1> QED BY <1>2, <1>3, FS_CardinalityType, FS_EmptySet

LEMMA MinTwo ==
    ASSUME NEW a \in Nat, NEW b \in Nat
    PROVE  Min({a, b}) = IF a <= b THEN a ELSE b
BY DEF Min

LEMMA Quotient ==
    ASSUME NEW a \in Nat, NEW b \in Nat \ {0}
    PROVE  /\ (a + b - 1) \div b \in Nat
           /\ (a + b - 1) \div b > 0 => a > 0
<1>1. a + b - 1 \in Nat
  OBVIOUS
<1>2. (a + b - 1) \div b \in Nat
  BY <1>1
<1>3. a = 0 => (a + b - 1) \div b = 0
  OBVIOUS
<1> QED BY <1>2, <1>3

LEMMA SmallRemainder ==
    ASSUME NEW a \in Nat, NEW b \in Nat, a < b PROVE a % b = a
OBVIOUS

\* A block further, over the border of a segment or not.
LEMMA NextPlace ==
    ASSUME NEW s \in Nat \ {0}, NEW e \in Nat, NEW d \in 0..(s - 1)
    PROVE  LET d1 == (d + 1) % s
               e1 == IF d1 = 0 THEN e + 1 ELSE e
           IN  d1 \in 0..(s - 1) /\ e1 \in Nat /\ e1 * s + d1 = e * s + d + 1
<1>1. CASE d + 1 < s
  <2>1. (d + 1) % s = d + 1
    BY <1>1
  <2> QED BY <2>1, <1>1
<1>2. CASE d + 1 = s
  <2>1. (d + 1) % s = 0
    BY <1>2
  <2>2. (e + 1) * s = e * s + s
    OBVIOUS
  <2> QED BY <2>1, <2>2, <1>2
<1> QED BY <1>1, <1>2

LEMMA ElementIn ==
    ASSUME NEW S, NEW q \in Seq(S), NEW n \in 1..Len(q) PROVE q[n] \in S
OBVIOUS

LEMMA Part ==
    ASSUME NEW S, NEW q \in Seq(S), NEW m \in Nat, NEW n \in Nat, n <= Len(q)
    PROVE  LET p == SubSeq(q, m + 1, n)
           IN  /\ p \in Seq(S)
               /\ m <= n => Len(p) = n - m
               /\ \A j \in 1..Len(p) : p[j] = q[m + j]
OBVIOUS

(***************************************************************************)
(* What the assumption says of the volume.                                 *)
(***************************************************************************)
LEMMA Sizes ==
    /\ BlockSize \in Nat \ {0} /\ Direct \in Nat \ {0} /\ Pointers \in Nat \ {0}
    /\ Segment \in Nat \ {0} /\ Signed \in Nat \ {0} /\ MaxBlocks \in Nat
    /\ CountSize \in Nat \ {0} /\ MaxBlocks < CountSize /\ Room \in Nat
BY LoaderAssumption DEF MaxBlocks

\* The place of the next block, after one.
LEMMA Advance ==
    ASSUME TypeInv, dx' = (dx + 1) % Segment, es' = IF dx' = 0 THEN es + 1 ELSE es
    PROVE  /\ dx' \in 0..(Segment - 1) /\ es' \in Nat
           /\ es' * Segment + dx' = es * Segment + dx + 1
<1>1. Segment \in Nat \ {0} /\ es \in Nat /\ dx \in 0..(Segment - 1)
  BY Sizes DEF TypeInv
<1>2. LET d1 == (dx + 1) % Segment
          e1 == IF d1 = 0 THEN es + 1 ELSE es
      IN  d1 \in 0..(Segment - 1) /\ e1 \in Nat /\ e1 * Segment + d1 = es * Segment + dx + 1
  BY <1>1, NextPlace, Zenon
<1> QED BY <1>2, Zenon

LEMMA HoleIsNoBlock == Hole \notin Nat \X Nat
BY LoaderAssumption

LEMMA InodeFacts ==
    ASSUME vol \in Volumes, NEW i \in DOMAIN vol.inodes
    PROVE  /\ i \in Nat \ {0}
           /\ vol.inodes[i].size \in Nat
           /\ Ptrs(i) \in Seq({Hole} \cup (Nat \X Nat))
           /\ \A k \in 1..Len(Ptrs(i)) : Ptrs(i)[k] \in {Hole, <<i, k - 1>>}
           /\ Blocks(i) \in Nat /\ Blocks(i) <= Len(Ptrs(i))
           /\ Blocks(i) > 0 => vol.inodes[i].size > 0
<1>1. InodesOf(vol) /\ vol.log \in Nat
  BY LoaderAssumption
<1>2. i \in Nat \ {0} /\ vol.inodes[i].size \in Nat
  BY <1>1 DEF InodesOf
<1>3. Ptrs(i) \in Seq({Hole} \cup ({i} \X Nat))
  BY <1>1 DEF InodesOf, Ptrs
<1>4. Ptrs(i) \in Seq({Hole} \cup (Nat \X Nat))
  BY <1>2, <1>3
<1>5. Blocks(i) <= Len(Ptrs(i)) /\ \A k \in 1..Len(Ptrs(i)) : Ptrs(i)[k] \in {Hole, <<i, k - 1>>}
  BY <1>1 DEF InodesOf, Ptrs, Blocks
<1>6. BlockSize * 2 ^ vol.log \in Nat \ {0}
  <2>1. 2 ^ vol.log \in Nat \ {0}
    BY <1>1, PowerType
  <2> QED BY <2>1, Sizes
<1>7. Blocks(i) \in Nat /\ (Blocks(i) > 0 => vol.inodes[i].size > 0)
  BY <1>2, <1>6, Quotient DEF Blocks, BlocksIn
<1> QED BY <1>2, <1>4, <1>5, <1>7

LEMMA CountedFacts ==
    ASSUME vol \in Volumes, NEW i \in DOMAIN vol.inodes
    PROVE  /\ Counted(i) \in Nat /\ Counted(i) <= Blocks(i)
           /\ Blocks(i) <= MaxBlocks => Counted(i) = Blocks(i)
<1>1. Blocks(i) \in Nat /\ CountSize \in Nat \ {0} /\ MaxBlocks \in Nat /\ MaxBlocks < CountSize
  BY InodeFacts, Sizes
<1>2. Blocks(i) < CountSize => Blocks(i) % CountSize = Blocks(i)
  BY <1>1, SmallRemainder
<1>3. Blocks(i) % CountSize \in 0..(CountSize - 1)
  BY <1>1
<1> QED BY <1>1, <1>2, <1>3 DEF Counted

LEMMA DirFacts ==
    ASSUME vol \in Volumes
    PROVE  /\ Root \in DOMAIN vol.inodes
           /\ vol.dir \in Seq([name : STRING, ino : Nat, blk : Nat])
           /\ Len(vol.dir) \in Nat /\ Len(vol.dir) > 0
           /\ DOMAIN vol.dir = 1..Len(vol.dir)
           /\ \A n \in 1..Len(vol.dir) :
                /\ vol.dir[n].blk \in Nat /\ vol.dir[n].blk < Blocks(Root)
                /\ vol.dir[n].name \in {"loader", "kernel"} =>
                     vol.dir[n].ino \in {0} \cup (DOMAIN vol.inodes \ {Root})
<1>1. InodesOf(vol) /\ DirectoryOf(vol)
  BY LoaderAssumption
<1>2. Root \in DOMAIN vol.inodes
  BY <1>1 DEF InodesOf
<1>3. vol.dir \in Seq([name : STRING, ino : Nat, blk : Nat]) /\ vol.dir # << >>
  BY <1>1 DEF DirectoryOf
<1>4. Len(vol.dir) \in Nat /\ Len(vol.dir) > 0 /\ DOMAIN vol.dir = 1..Len(vol.dir)
  BY <1>3
<1>5. \A n \in 1..Len(vol.dir) :
                /\ vol.dir[n].blk < Blocks(Root)
                /\ vol.dir[n].name \in {"loader", "kernel"} =>
                     vol.dir[n].ino \in {0} \cup (DOMAIN vol.inodes \ {Root})
  BY <1>1 DEF DirectoryOf, Blocks
<1>6. \A n \in 1..Len(vol.dir) : vol.dir[n].blk \in Nat
  <2>1. \A n \in 1..Len(vol.dir) : vol.dir[n] \in [name : STRING, ino : Nat, blk : Nat]
    BY <1>3, ElementIn
  <2> QED BY <2>1
<1> QED BY <1>2, <1>3, <1>4, <1>5, <1>6

LEMMA FileName == File \in {"loader", "kernel"}
BY DEF File

\* The pointers of a regular inode are the blocks of its file.
LEMMA RegularFacts ==
    ASSUME vol \in Volumes, NEW i, Regular(i)
    PROVE  /\ i \in DOMAIN vol.inodes /\ i \in Nat \ {0}
           /\ Blocks(i) \in 1..MaxBlocks /\ Blocks(i) <= Len(Ptrs(i))
           /\ Counted(i) = Blocks(i)
           /\ Len(Ptrs(i)) \in Nat
           /\ \A k \in 1..Len(Ptrs(i)) : Ptrs(i)[k] = <<i, k - 1>>
           /\ Located(i)
<1>1. /\ i \in DOMAIN vol.inodes /\ i <= vol.ipg /\ Blocks(i) \in 1..MaxBlocks
      /\ Hole \notin ToSet(Ptrs(i)) /\ vol.log = 0
  BY DEF Regular
<1>2. /\ i \in Nat \ {0} /\ Blocks(i) <= Len(Ptrs(i))
      /\ Ptrs(i) \in Seq({Hole} \cup (Nat \X Nat))
      /\ \A k \in 1..Len(Ptrs(i)) : Ptrs(i)[k] \in {Hole, <<i, k - 1>>}
  BY <1>1, InodeFacts
<1>3. \A k \in 1..Len(Ptrs(i)) : Ptrs(i)[k] # Hole
  BY <1>1, <1>2 DEF ToSet
<1>4. SectorsRight
  <2>1. 2 ^ 1 = 2
    OBVIOUS
  <2>2. vol.log + 1 = 1 /\ (vol.log + 1) * 2 = 2
    BY <1>1
  <2> QED BY <2>1, <2>2 DEF SectorsRight, spb
<1>5. GroupsRight
  <2>1. 2 ^ 0 = 1
    OBVIOUS
  <2>2. bs = BlockSize
    BY <2>1, <1>1, Sizes DEF bs
  <2>3. BlockSize \div BlockSize = 1
    BY Sizes
  <2> QED BY <2>2, <2>3 DEF GroupsRight, FirstDataBlock
<1>6. TableRight(i)
  <2>1. vol.ipg \in Nat \ {0}
    BY LoaderAssumption
  <2>2. (i - 1) % vol.ipg = i - 1
    <3>1. i - 1 \in Nat /\ vol.ipg \in Nat /\ i - 1 < vol.ipg
      BY <2>1, <1>1, <1>2
    <3> QED BY <3>1, SmallRemainder
  <2> QED BY <2>2 DEF TableRight
<1>7. Located(i)
  BY <1>2, <1>4, <1>5, <1>6 DEF Located
<1>8. Counted(i) = Blocks(i)
  BY <1>1, CountedFacts, Sizes
<1> QED BY <1>1, <1>2, <1>3, <1>7, <1>8

(***************************************************************************)
(* Types and places.                                                       *)
(***************************************************************************)
\* A step that ends the boot changes stage only.
LEMMA EndsStep ==
    ASSUME TypeInv, PlaceInv, NEW how \in {"reboot", "reset", "astray"}, Ends(how)
    PROVE  TypeInv' /\ PlaceInv'
BY DEF TypeInv, PlaceInv, Place, Ends, loading, Blocks

LEMMA NumbersType == TypeInv => /\ Len(todo) \in Nat /\ Place \in Nat
                                /\ vol \in Volumes /\ es * Segment \in Nat
<1>1. ASSUME NEW a \in Nat, NEW b \in Nat PROVE a * b \in Nat
  OBVIOUS
<1>2. ASSUME TypeInv PROVE es \in Nat /\ Segment \in Nat /\ dx \in Nat /\ Len(todo) \in Nat
                           /\ vol \in Volumes
  BY <1>2, Sizes DEF TypeInv
<1>3. ASSUME TypeInv PROVE es * Segment \in Nat
  BY <1>1, <1>2, <1>3
<1> QED BY <1>2, <1>3 DEF Place

LEMMA TypeStep ==
    ASSUME TypeInv, PlaceInv, [Next]_vars
    PROVE  TypeInv' /\ PlaceInv'
<1> USE Sizes
<1>1. CASE OpenVolume
  BY <1>1, DirFacts DEF OpenVolume, TypeInv, PlaceInv, Place
<1>2. CASE BadVolume \/ DiskFails \/ FindJunk \/ ReadIndirectJunk \/ SearchJunk
           \/ FileMissing \/ Incompatible \/ NoElf
  BY <1>2, EndsStep DEF BadVolume, DiskFails, FindJunk, ReadIndirectJunk, SearchJunk,
                        FileMissing, Incompatible, NoElf
<1>3. CASE FindInode
  <2>1. inode \in DOMAIN vol.inodes
    BY <1>3 DEF FindInode, Located, TypeInv
  <2>2. /\ Counted(inode) \in Nat /\ Blocks(inode) \in Nat /\ Counted(inode) <= Blocks(inode)
        /\ inode # 0
        /\ Ptrs(inode) \in Seq({Hole} \cup (Nat \X Nat)) /\ Blocks(inode) <= Len(Ptrs(inode))
    BY <1>3, <2>1, InodeFacts, CountedFacts DEF FindInode, TypeInv
  <2> DEFINE n == Min({Counted(inode), Direct})
  <2>3. n \in Nat /\ n <= Direct /\ n <= Counted(inode) /\ (Counted(inode) - n > 0 => n = Direct)
    BY <2>2, MinTwo
  <2>4. SubSeq(Ptrs(inode), 1, n) \in Seq({Hole} \cup (Nat \X Nat))
        /\ Len(SubSeq(Ptrs(inode), 1, n)) = n
    <3> HIDE DEF n
    <3>1. n <= Len(Ptrs(inode))
      BY <2>2, <2>3
    <3> QED BY <2>2, <2>3, <3>1, Part
  <2>5. todo' = SubSeq(Ptrs(inode), 1, n) /\ rest' = Counted(inode) - n
        /\ es' = 0 /\ dx' = 0 /\ at' = "blocks"
        /\ UNCHANGED <<vol, stage, inode, mem, entry, eax, map, img>>
    BY <1>3 DEF FindInode
  <2> HIDE DEF n
  <2>6. TypeInv'
    BY <2>2, <2>3, <2>4, <2>5 DEF TypeInv
  <2>7. PlaceInv'
    BY <2>2, <2>3, <2>4, <2>5 DEF PlaceInv, Place, MaxBlocks, Blocks
  <2> QED BY <2>6, <2>7
<1>4. CASE LoadBlock
  <2>1. /\ todo # << >> /\ todo' = Tail(todo) /\ dx' = (dx + 1) % Segment
        /\ es' = IF dx' = 0 THEN es + 1 ELSE es
        /\ DOMAIN mem' = DOMAIN mem
        /\ UNCHANGED <<vol, stage, at, inode, rest, entry, eax, map, img>>
    BY <1>4 DEF LoadBlock
  <2>2. dx' \in 0..(Segment - 1) /\ es' \in Nat /\ es' * Segment + dx' = es * Segment + dx + 1
    BY <2>1, Advance
  <2>3. /\ todo' \in Seq({Hole} \cup (Nat \X Nat)) /\ Len(todo') = Len(todo) - 1
    BY <2>1 DEF TypeInv
  <2>4. TypeInv'
    BY <2>1, <2>2, <2>3 DEF TypeInv
  <2>5. PlaceInv'
    BY <2>1, <2>2, <2>3, NumbersType DEF PlaceInv, Place, Blocks
  <2> QED BY <2>4, <2>5
<1>5. CASE ReadIndirect
  <2>1. inode \in DOMAIN vol.inodes
    BY <1>5 DEF ReadIndirect, At, TypeInv
  <2>2. /\ Ptrs(inode) \in Seq({Hole} \cup (Nat \X Nat)) /\ Len(Ptrs(inode)) \in Nat
        /\ Blocks(inode) \in Nat /\ Blocks(inode) <= Len(Ptrs(inode))
    BY <2>1, InodeFacts DEF TypeInv
  <2> DEFINE n == Min({Pointers, rest})
  <2>3. n \in Nat /\ n <= Pointers /\ n <= rest
    BY MinTwo DEF TypeInv
  <2>4. Direct + n <= Len(Ptrs(inode))
    <3>1. Direct + rest <= Blocks(inode) /\ rest \in Nat
      BY <1>5 DEF ReadIndirect, At, PlaceInv, TypeInv
    <3> HIDE DEF n
    <3> QED BY <2>2, <2>3, <3>1
  <2> HIDE DEF n
  <2>5. /\ SubSeq(Ptrs(inode), Direct + 1, Direct + n) \in Seq({Hole} \cup (Nat \X Nat))
        /\ Len(SubSeq(Ptrs(inode), Direct + 1, Direct + n)) = n
    <3>1. Direct + n \in Nat /\ Direct <= Direct + n /\ (Direct + n) - Direct = n
      BY <2>3
    <3> QED BY <2>2, <2>4, <3>1, Part
  <2>6. /\ todo' = SubSeq(Ptrs(inode), Direct + 1, Direct + n) /\ rest' = 0
        /\ rest > 0 /\ todo = << >>
        /\ UNCHANGED <<vol, stage, at, inode, es, dx, mem, entry, eax, map, img>>
    BY <1>5 DEF ReadIndirect, n
  <2>7. TypeInv'
    BY <2>5, <2>6 DEF TypeInv
  <2>8. PlaceInv'
    BY <2>3, <2>5, <2>6, NumbersType DEF PlaceInv, Place
  <2> QED BY <2>7, <2>8
<1>6. CASE InodeLoaded
  <2>1. inode \in DOMAIN vol.inodes
    BY <1>6 DEF InodeLoaded, At, TypeInv
  <2>2. vol.inodes[inode].size \in Nat
    BY <2>1, InodeFacts DEF TypeInv
  <2>3. Len(vol.dir) \in Nat /\ Len(vol.dir) > 0
    BY DirFacts DEF TypeInv
  <2>4. /\ eax' = vol.inodes[inode].size /\ at' \in {"search", "loaded"} /\ entry' = 1
        /\ UNCHANGED <<vol, stage, inode, todo, rest, es, dx, mem, map, img>>
    BY <1>6 DEF InodeLoaded
  <2> QED BY <2>2, <2>3, <2>4 DEF TypeInv, PlaceInv, Place
<1>7. CASE Found
  BY <1>7, DirFacts, FileName DEF Found, Entry, TypeInv, PlaceInv, Place
<1>8. CASE NextEntry
  BY <1>8, DirFacts DEF NextEntry, At, GoesOn, TypeInv, PlaceInv, Place
<1>9. CASE NotFound
  BY <1>9 DEF NotFound, TypeInv, PlaceInv, Place
<1>10. CASE EnterStage2
  BY <1>10, DirFacts DEF EnterStage2, TypeInv, PlaceInv, Place
<1>11. CASE GetEntry
  <2>1. Len(map) < Len(Entries) /\ Entries \in Seq(STRING) /\ map \in Seq(STRING)
    BY <1>11, LoaderAssumption DEF GetEntry, TypeInv
  <2>2. Entries[Len(map) + 1] \in STRING
    BY <2>1, ElementIn
  <2> QED BY <1>11, <2>1, <2>2 DEF GetEntry, loading, TypeInv, PlaceInv, Place
<1>12. CASE NoMoreEntries \/ LongMode \/ CopySegment
  BY <1>12 DEF NoMoreEntries, LongMode, CopySegment, At, loading, TypeInv, PlaceInv, Place
<1>13. CASE ZeroBss
  BY <1>13 DEF ZeroBss, At, loading, TypeInv, PlaceInv, Place
<1>14. CASE UNCHANGED vars
  BY <1>14 DEF vars, TypeInv, PlaceInv, Place, Blocks
<1> QED BY <1>1, <1>2, <1>3, <1>4, <1>5, <1>6, <1>7, <1>8, <1>9, <1>10, <1>11, <1>12,
           <1>13, <1>14 DEF Next

(***************************************************************************)
(* The memory map: entries are appended in their order, and stage 2 goes   *)
(* on to the processor with all of them.                                   *)
(***************************************************************************)
LEMMA MapStep ==
    ASSUME TypeInv, StageInv, MapInv, [Next]_vars
    PROVE  StageInv' /\ MapInv'
<1>1. CASE GetEntry
  <2>1. /\ Len(map) < Len(Entries) /\ Entries \in Seq(STRING) /\ map \in Seq(STRING)
        /\ Len(map) \in Nat /\ Len(Entries) \in Nat
        /\ stage = "stage2" /\ stage' = stage
        /\ map' = Append(map, Entries[Len(map) + 1])
        /\ at' \in {"loaded"} \cup (IF Len(map') = Len(Entries) THEN {"cpu"} ELSE {})
    BY <1>1, LoaderAssumption DEF GetEntry, TypeInv
  <2>2. Entries[Len(map) + 1] \in STRING
    BY <2>1, ElementIn
  <2>3. /\ Len(map') = Len(map) + 1
        /\ \A n \in 1..Len(map) : map'[n] = map[n]
        /\ map'[Len(map) + 1] = Entries[Len(map) + 1]
    BY <2>1, <2>2
  <2>4. \A n \in 1..Len(map') : map'[n] = Entries[n]
    <3>1. TAKE n \in 1..Len(map')
    <3>2. CASE n = Len(map) + 1
      BY <3>2, <2>3
    <3>3. CASE n \in 1..Len(map)
      BY <3>3, <2>3 DEF MapInv
    <3> QED BY <3>1, <3>2, <3>3, <2>1, <2>3
  <2> QED BY <2>1, <2>3, <2>4 DEF MapInv, StageInv
<1>2. CASE NoMoreEntries
  BY <1>2 DEF NoMoreEntries, At, loading, StageInv, MapInv
<1>3. CASE OpenVolume \/ FindInode \/ LoadBlock \/ ReadIndirect \/ InodeLoaded
           \/ Found \/ NextEntry \/ NotFound
  BY <1>3 DEF OpenVolume, FindInode, LoadBlock, ReadIndirect, InodeLoaded, Found, NextEntry,
              NotFound, At, StageInv, MapInv
<1>4. CASE BadVolume \/ DiskFails \/ FindJunk \/ ReadIndirectJunk \/ SearchJunk
           \/ FileMissing \/ Incompatible \/ NoElf
  BY <1>4 DEF BadVolume, DiskFails, FindJunk, ReadIndirectJunk, SearchJunk,
              FileMissing, Incompatible, NoElf, Ends, At, StageInv, MapInv
<1>5. CASE EnterStage2
  BY <1>5 DEF EnterStage2, At, StageInv, MapInv
<1>6. CASE LongMode \/ CopySegment
  BY <1>6 DEF LongMode, CopySegment, At, loading, StageInv, MapInv
<1>7. CASE ZeroBss
  BY <1>7 DEF ZeroBss, At, loading, StageInv, MapInv
<1>8. CASE UNCHANGED vars
  BY <1>8 DEF vars, StageInv, MapInv
<1> QED BY <1>1, <1>2, <1>3, <1>4, <1>5, <1>6, <1>7, <1>8 DEF Next

(***************************************************************************)
(* The files. What depends on the volume and the file looked for stays     *)
(* while they do.                                                          *)
(***************************************************************************)
LEMMA SameFile ==
    ASSUME vol' = vol, stage' = stage
    PROVE  /\ File' = File /\ Named(File)' = Named(File)
           /\ RegularFor(File)' <=> RegularFor(File)
           /\ \A i : IsFile(i)' <=> IsFile(i)
           /\ \A i : Blocks(i)' = Blocks(i)
<1>1. File' = File
  BY DEF File
<1>2. \A i : Blocks(i)' = Blocks(i)
  BY DEF Blocks
<1>3. \A i : Regular(i)' <=> Regular(i)
  BY <1>2 DEF Regular, Ptrs
<1>4. \A name : Named(name)' = Named(name)
  BY DEF Named
<1>5. Named(File)' = Named(File)
  BY <1>1, <1>4 DEF Named
<1>6. RegularFor(File)' <=> RegularFor(File)
  BY <1>1, <1>2, <1>3, <1>5 DEF RegularFor
<1> QED BY <1>1, <1>2, <1>5, <1>6 DEF IsFile

LEMMA Wanted ==
    ASSUME TypeInv, RegularFor(File), inode = Root \/ IsFile(inode)
    PROVE  Regular(inode)
BY DEF RegularFor, IsFile

LEMMA FindInodeStep ==
    ASSUME TypeInv, RegularFor(File), inode = Root \/ IsFile(inode), FindInode
    PROVE  Loading'
<1> USE Sizes
<1>1. vol \in Volumes /\ Regular(inode)
  BY Wanted DEF TypeInv
<1>2. /\ Blocks(inode) \in 1..MaxBlocks /\ Blocks(inode) <= Len(Ptrs(inode))
      /\ Len(Ptrs(inode)) \in Nat /\ inode \in DOMAIN vol.inodes /\ Counted(inode) = Blocks(inode)
      /\ \A k \in 1..Len(Ptrs(inode)) : Ptrs(inode)[k] = <<inode, k - 1>>
  BY <1>1, RegularFacts
<1>3. Ptrs(inode) \in Seq({Hole} \cup (Nat \X Nat))
  BY <1>1, <1>2, InodeFacts
<1> DEFINE n == Min({Blocks(inode), Direct})
<1>4. n \in Nat /\ n <= Direct /\ n <= Blocks(inode)
      /\ (Blocks(inode) - n > 0 => n = Direct) /\ (Blocks(inode) - n = 0 => n = Blocks(inode))
  <2>1. Blocks(inode) \in Nat
    BY <1>2
  <2> QED BY <2>1, MinTwo
<1>5. todo' = SubSeq(Ptrs(inode), 1, n) /\ rest' = Blocks(inode) - n
      /\ es' = 0 /\ dx' = 0 /\ inode' = inode /\ vol' = vol
  BY <1>2 DEF FindInode
<1> HIDE DEF n
<1>6. Len(todo') = n /\ \A j \in 1..Len(todo') : todo'[j] = <<inode, j - 1>>
  <2>1. n <= Len(Ptrs(inode)) /\ 0 \in Nat
    BY <1>2, <1>4
  <2>2. Len(todo') = n /\ \A j \in 1..Len(todo') : todo'[j] = Ptrs(inode)[j]
    BY <1>3, <1>4, <1>5, <2>1, Part
  <2>3. ASSUME NEW j \in 1..Len(todo') PROVE todo'[j] = <<inode, j - 1>>
    <3>1. j \in 1..Len(Ptrs(inode))
      BY <2>1, <2>2, <2>3, <1>2, <1>4
    <3> QED BY <3>1, <2>2, <2>3, <1>2
  <2> QED BY <2>2, <2>3
<1>7. Place' = 0
  BY <1>5 DEF Place
<1>8. Blocks(inode)' = Blocks(inode)
  BY <1>5 DEF Blocks
<1>9. /\ \A j \in 1..Len(todo') : todo'[j] = <<inode', Place' + j - 1>>
      /\ \A k \in 0..(Place' - 1) : mem'[k] = <<inode', k>>
  <2>1. 0..(Place' - 1) = {}
    BY <1>7
  <2>2. ASSUME NEW j \in 1..Len(todo') PROVE todo'[j] = <<inode', Place' + j - 1>>
    <3>1. Place' + j - 1 = j - 1
      BY <2>2, <1>7, <1>6, <1>4
    <3> QED BY <3>1, <2>2, <1>5, <1>6
  <2> QED BY <2>1, <2>2
<1>10. rest' > 0 => Place' + Len(todo') = Direct /\ rest' = Blocks(inode)' - Direct
  BY <1>2, <1>4, <1>5, <1>6, <1>7, <1>8
<1>11. ~ (rest' > 0) => Place' + Len(todo') >= Blocks(inode)'
  BY <1>2, <1>4, <1>5, <1>6, <1>7, <1>8
<1> QED BY <1>9, <1>10, <1>11 DEF Loading

LEMMA LoadBlockStep ==
    ASSUME TypeInv, PlaceInv, Loading, LoadBlock
    PROVE  Loading'
<1> USE Sizes
<1>1. /\ todo # << >> /\ todo' = Tail(todo) /\ dx' = (dx + 1) % Segment
      /\ es' = IF dx' = 0 THEN es + 1 ELSE es
      /\ mem' = IF Head(todo) = Hole THEN mem ELSE [mem EXCEPT ![Place] = Head(todo)]
      /\ UNCHANGED <<vol, inode, rest>>
  BY DEF LoadBlock, Place
<1>2. /\ Place \in Nat /\ Len(todo) \in Nat /\ todo \in Seq({Hole} \cup (Nat \X Nat))
      /\ inode \in Nat
  BY NumbersType, InodeFacts DEF TypeInv
<1>3. Place' = Place + 1
  BY <1>1, Advance DEF Place
<1>4. Len(todo) > 0 /\ Len(todo') = Len(todo) - 1 /\ Head(todo) = todo[1]
      /\ \A j \in 1..Len(todo') : todo'[j] = todo[j + 1]
  BY <1>1, <1>2
<1>5. Head(todo) = <<inode, Place>>
  <2>1. todo[1] = <<inode, Place + 1 - 1>>
    BY <1>4, <1>2 DEF Loading
  <2> QED BY <2>1, <1>2, <1>4
<1>6. Head(todo) # Hole
  <2>1. <<inode, Place>> \in Nat \X Nat
    BY <1>2
  <2> QED BY <2>1, <1>5, HoleIsNoBlock
<1>7. Place \in Memory
  BY <1>2, <1>4 DEF PlaceInv, Memory
<1>8. \A k \in 0..(Place' - 1) : mem'[k] = <<inode', k>>
  <2>1. TAKE k \in 0..(Place' - 1)
  <2>2. mem' = [mem EXCEPT ![Place] = Head(todo)] /\ DOMAIN mem = Memory
    BY <1>1, <1>6 DEF TypeInv
  <2>3. k \in Memory
    BY <2>1, <1>2, <1>3, <1>7 DEF Memory
  <2>4. CASE k = Place
    BY <2>2, <2>4, <1>1, <1>5, <1>7
  <2>5. CASE k \in 0..(Place - 1)
    BY <2>2, <2>3, <2>5, <1>1, <1>2 DEF Loading
  <2> QED BY <2>1, <2>4, <2>5, <1>2, <1>3
<1>9. \A j \in 1..Len(todo') : todo'[j] = <<inode', Place' + j - 1>>
  <2>1. TAKE j \in 1..Len(todo')
  <2>2. todo'[j] = todo[j + 1] /\ j + 1 \in 1..Len(todo)
    BY <2>1, <1>4, <1>2
  <2>3. todo[j + 1] = <<inode, Place + (j + 1) - 1>>
    BY <2>2 DEF Loading
  <2> QED BY <2>1, <2>2, <2>3, <1>1, <1>2, <1>3
<1>10. Blocks(inode)' = Blocks(inode) /\ Place' + Len(todo') = Place + Len(todo)
  BY <1>1, <1>2, <1>3, <1>4 DEF Blocks
<1> QED BY <1>1, <1>8, <1>9, <1>10 DEF Loading

LEMMA ReadIndirectStep ==
    ASSUME TypeInv, Regular(inode), Loading, ReadIndirect
    PROVE  Loading'
<1> USE Sizes
<1>1. /\ Blocks(inode) \in 1..MaxBlocks /\ Blocks(inode) <= Len(Ptrs(inode))
      /\ Len(Ptrs(inode)) \in Nat /\ inode \in DOMAIN vol.inodes
      /\ \A k \in 1..Len(Ptrs(inode)) : Ptrs(inode)[k] = <<inode, k - 1>>
  BY RegularFacts DEF TypeInv
<1>2. Ptrs(inode) \in Seq({Hole} \cup (Nat \X Nat))
  BY <1>1, InodeFacts DEF TypeInv
<1> DEFINE n == Blocks(inode)
<1>3. n \in Nat /\ n <= Len(Ptrs(inode)) /\ n - Direct <= Pointers
  BY <1>1 DEF MaxBlocks
<1>5. Place = Direct /\ n > Direct /\ rest = n - Direct
  BY <1>3, NumbersType DEF ReadIndirect, Loading, TypeInv
<1>4. /\ todo = << >> /\ rest > 0 /\ todo' = SubSeq(Ptrs(inode), Direct + 1, n) /\ rest' = 0
      /\ UNCHANGED <<vol, inode, es, dx, mem>>
  <2>1. Direct + Min({Pointers, rest}) = n
    <3> HIDE DEF n
    <3>1. Min({Pointers, rest}) = rest
      BY <1>3, <1>5, MinTwo
    <3> QED BY <1>3, <1>5, <3>1
  <2> QED BY <2>1 DEF ReadIndirect
<1> HIDE DEF n
<1>6. Len(todo') = n - Direct /\ \A j \in 1..Len(todo') : todo'[j] = Ptrs(inode)[Direct + j]
  BY <1>1, <1>2, <1>3, <1>4, <1>5, Part
<1>7. Place' = Place /\ Blocks(inode)' = Blocks(inode)
  BY <1>4 DEF Place, Blocks
<1>8. \A j \in 1..Len(todo') : todo'[j] = <<inode', Place' + j - 1>>
  <2>1. TAKE j \in 1..Len(todo')
  <2>2. Direct + j \in 1..Len(Ptrs(inode))
    BY <2>1, <1>1, <1>3, <1>5, <1>6
  <2>3. Ptrs(inode)[Direct + j] = <<inode, Direct + j - 1>>
    BY <1>1, <2>2
  <2> QED BY <2>1, <2>3, <1>4, <1>5, <1>6, <1>7
<1>9. \A k \in 0..(Place' - 1) : mem'[k] = <<inode', k>>
  BY <1>4, <1>7 DEF Loading
<1>10. ~ (rest' > 0) /\ Place' + Len(todo') >= Blocks(inode)'
  BY <1>1, <1>3, <1>4, <1>5, <1>6, <1>7 DEF n
<1> QED BY <1>8, <1>9, <1>10 DEF Loading

LEMMA LoadStep ==
    ASSUME TypeInv, PlaceInv, StageInv, LoadInv, [Next]_vars
    PROVE  LoadInv'
<1> SUFFICES ASSUME RegularFor(File)', stage' \in {"stage1", "stage2"}
             PROVE  /\ at' = "inode"  => inode' = Root \/ IsFile(inode)'
                    /\ at' = "blocks" => (inode' = Root \/ IsFile(inode)') /\ Loading'
                    /\ at' = "search" => /\ Intact(Root)'
                                         /\ \A n \in 1..(entry' - 1) : vol'.dir[n].name # File'
                    /\ at' = "loaded" => Loaded' \/ (Named(File)' = {} /\ eax' = 0)
                    /\ at' \in {"cpu", "segments"} => Loaded'
  BY DEF LoadInv
<1>1. CASE EnterStage2
  BY <1>1 DEF EnterStage2
<1>2. CASE BadVolume \/ DiskFails \/ FindJunk \/ ReadIndirectJunk \/ SearchJunk
           \/ FileMissing \/ Incompatible \/ NoElf \/ ZeroBss
  BY <1>2 DEF BadVolume, DiskFails, FindJunk, ReadIndirectJunk, SearchJunk,
              FileMissing, Incompatible, NoElf, Ends, ZeroBss
<1>3. ASSUME vol' = vol, stage' = stage
      PROVE  /\ RegularFor(File) /\ stage \in {"stage1", "stage2"}
             /\ File' = File /\ Named(File)' = Named(File)
             /\ \A i : IsFile(i)' <=> IsFile(i)
             /\ \A i : Blocks(i)' = Blocks(i)
  BY <1>3, SameFile
<1>4. CASE OpenVolume
  BY <1>4 DEF OpenVolume
<1>5. CASE FindInode
  <2>1. vol' = vol /\ stage' = stage /\ inode' = inode /\ at = "inode" /\ at' = "blocks"
    BY <1>5 DEF FindInode, At
  <2>2. RegularFor(File) /\ (inode = Root \/ IsFile(inode))
    BY <1>3, <2>1 DEF LoadInv
  <2>3. Loading'
    BY <1>5, <2>2, FindInodeStep
  <2>4. inode' = Root \/ IsFile(inode)'
    BY <1>3, <2>1, <2>2 DEF IsFile
  <2> QED BY <2>1, <2>3, <2>4
<1>6. CASE LoadBlock
  <2>1. vol' = vol /\ stage' = stage /\ inode' = inode /\ at = "blocks" /\ at' = "blocks"
    BY <1>6 DEF LoadBlock, At
  <2>2. (inode = Root \/ IsFile(inode)) /\ Loading
    BY <1>3, <2>1 DEF LoadInv
  <2>3. Loading'
    BY <1>6, <2>2, LoadBlockStep
  <2>4. inode' = Root \/ IsFile(inode)'
    BY <1>3, <2>1, <2>2 DEF IsFile
  <2> QED BY <2>1, <2>3, <2>4
<1>7. CASE ReadIndirect
  <2>1. vol' = vol /\ stage' = stage /\ inode' = inode /\ at = "blocks" /\ at' = "blocks"
    BY <1>7 DEF ReadIndirect, At
  <2>2. (inode = Root \/ IsFile(inode)) /\ Loading /\ RegularFor(File)
    BY <1>3, <2>1 DEF LoadInv
  <2>3. Loading'
    BY <1>7, <2>2, Wanted, ReadIndirectStep
  <2>4. inode' = Root \/ IsFile(inode)'
    BY <1>3, <2>1, <2>2 DEF IsFile
  <2> QED BY <2>1, <2>3, <2>4
<1>8. CASE InodeLoaded
  <2>1. /\ at = "blocks" /\ todo = << >> /\ rest = 0 /\ eax' = vol.inodes[inode].size
        /\ at' = (IF inode = Root THEN "search" ELSE "loaded") /\ entry' = 1
        /\ UNCHANGED <<vol, stage, inode, mem>>
    BY <1>8 DEF InodeLoaded, At
  <2>2. (inode = Root \/ IsFile(inode)) /\ Loading
    BY <1>3, <2>1 DEF LoadInv
  <2>3. Blocks(inode) <= Place /\ Place \in Nat
    BY <2>1, <2>2, NumbersType DEF Loading
  <2>4. Blocks(inode) \in Nat
    BY <2>1, <2>2, <1>3, Wanted, RegularFacts, InodeFacts DEF TypeInv
  <2>5. Intact(inode)
    <3>1. ASSUME NEW k \in 1..Blocks(inode) PROVE mem[k - 1] = <<inode, k - 1>>
      <4>1. k - 1 \in 0..(Place - 1)
        BY <2>3, <2>4, <3>1
      <4> QED BY <4>1, <2>2 DEF Loading
    <3> QED BY <3>1 DEF Intact
  <2>6. Intact(inode)'
    BY <2>1, <2>5, <1>3 DEF Intact
  <2>7. CASE inode = Root
    <3>1. at' = "search" /\ Intact(Root)'
      BY <2>1, <2>6, <2>7 DEF Intact
    <3>2. \A n \in 1..(entry' - 1) : vol'.dir[n].name # File'
      BY <2>1
    <3> QED BY <3>1, <3>2
  <2>8. CASE inode # Root
    <3>1. IsFile(inode)'
      BY <2>1, <2>2, <2>8, <1>3 DEF IsFile
    <3> QED BY <2>1, <2>6, <2>8, <3>1 DEF Loaded
  <2> QED BY <2>7, <2>8
<1>9. CASE Found
  <2>1. /\ Entry.name = File /\ inode' = Entry.ino /\ at' = "inode" /\ vol' = vol /\ stage' = stage
    BY <1>9 DEF Found
  <2>2. entry \in Named(File) /\ inode' = vol.dir[entry].ino
    BY <2>1, DirFacts DEF Named, Entry, TypeInv
  <2>3. IsFile(inode)'
    BY <2>1, <2>2, <1>3 DEF IsFile
  <2> QED BY <2>1, <2>3
<1>10. CASE NextEntry
  <2>1. /\ Entry.name # File /\ entry' = entry + 1 /\ at = "search" /\ at' = at
        /\ UNCHANGED <<vol, stage, mem>>
    BY <1>10 DEF NextEntry, At
  <2>2. Intact(Root) /\ \A n \in 1..(entry - 1) : vol.dir[n].name # File
    BY <1>3, <2>1 DEF LoadInv
  <2>3. Intact(Root)'
    BY <1>3, <2>1, <2>2 DEF Intact
  <2>4. \A n \in 1..(entry' - 1) : vol'.dir[n].name # File'
    <3>1. entry \in Nat
      BY DirFacts DEF TypeInv
    <3> QED BY <3>1, <2>1, <2>2, <1>3 DEF Entry
  <2> QED BY <2>1, <2>3, <2>4
<1>11. CASE NotFound
  <2>1. /\ Entry.name # File /\ ~ GoesOn /\ eax' = 0 /\ at = "search" /\ at' = "loaded"
        /\ vol' = vol /\ stage' = stage
    BY <1>11 DEF NotFound, At
  <2>2. \A n \in 1..(entry - 1) : vol.dir[n].name # File
    BY <1>3, <2>1 DEF LoadInv
  <2>3. Blocks(Root) < Signed
    BY <1>3, <2>1 DEF RegularFor
  <2>4. entry \in 1..Len(vol.dir) /\ Len(vol.dir) \in Nat /\ DOMAIN vol.dir = 1..Len(vol.dir)
    BY DirFacts DEF TypeInv
  <2>5. entry = Len(vol.dir)
    <3>1. DirSize = Blocks(Root)
      <4>1. Blocks(Root) \in Nat /\ 2 * Signed \in Nat /\ Blocks(Root) < 2 * Signed
        BY <2>3, DirFacts, InodeFacts, Sizes DEF TypeInv
      <4> QED BY <4>1, SmallRemainder DEF DirSize
    <3>2. entry < Len(vol.dir) => vol.dir[entry + 1].blk < Blocks(Root)
      <4>1. entry < Len(vol.dir) => entry + 1 \in 1..Len(vol.dir)
        BY <2>4
      <4> QED BY <4>1, DirFacts DEF TypeInv
    <3> QED BY <2>1, <2>3, <2>4, <3>1, <3>2 DEF GoesOn
  <2>6. \A n \in DOMAIN vol.dir : vol.dir[n].name # File
    BY <2>1, <2>2, <2>4, <2>5 DEF Entry
  <2>7. Named(File) = {}
    BY <2>6 DEF Named
  <2> QED BY <2>1, <2>7, <1>3
<1>12. CASE GetEntry \/ NoMoreEntries
  <2>1. /\ at = "loaded" /\ at' \in {"loaded", "cpu"} /\ eax # 0
        /\ UNCHANGED <<vol, stage, inode, mem, eax>>
    BY <1>12 DEF GetEntry, NoMoreEntries, At, loading
  <2>2. Loaded
    BY <1>3, <2>1 DEF LoadInv
  <2>3. Loaded'
    BY <1>3, <2>1, <2>2 DEF Loaded, Intact, IsFile
  <2> QED BY <2>1, <2>3
<1>13. CASE LongMode \/ CopySegment
  <2>1. /\ at \in {"cpu", "segments"} /\ at' = "segments"
        /\ UNCHANGED <<vol, stage, inode, mem, eax>>
    BY <1>13 DEF LongMode, CopySegment, At, loading
  <2>2. Loaded
    BY <1>3, <2>1 DEF LoadInv
  <2>3. Loaded'
    BY <1>3, <2>1, <2>2 DEF Loaded, Intact, IsFile
  <2> QED BY <2>1, <2>3
<1>14. CASE UNCHANGED vars
  <2>1. UNCHANGED <<vol, stage, at, inode, todo, rest, es, dx, mem, entry, eax>>
    BY <1>14 DEF vars
  <2>2. \A i : Intact(i)' <=> Intact(i)
    BY <1>3, <2>1 DEF Intact
  <2>3. Loading' <=> Loading
    BY <1>3, <2>1 DEF Loading, Place
  <2>4. Loaded' <=> Loaded
    BY <1>3, <2>1, <2>2 DEF Loaded, IsFile
  <2>5. IsFile(inode)' <=> IsFile(inode)
    BY <1>3, <2>1 DEF IsFile
  <2> QED BY <1>3, <2>1, <2>2, <2>3, <2>4, <2>5 DEF LoadInv
<1> QED BY <1>1, <1>2, <1>4, <1>5, <1>6, <1>7, <1>8, <1>9, <1>10, <1>11, <1>12,
           <1>13, <1>14 DEF Next

LEMMA SameVolume ==
    ASSUME [Next]_vars
    PROVE  /\ vol' = vol /\ \A name : RegularFor(name)' <=> RegularFor(name)
           /\ LoaderHasRoom' <=> LoaderHasRoom
<1>1. vol' = vol
  BY DEF Next, vars, OpenVolume, BadVolume, DiskFails, FindInode, FindJunk, LoadBlock,
         ReadIndirect, ReadIndirectJunk, InodeLoaded, Found, NextEntry, NotFound, SearchJunk,
         FileMissing, EnterStage2, GetEntry, NoMoreEntries, LongMode, Incompatible,
         CopySegment, NoElf, ZeroBss, Ends
<1>2. \A i : Blocks(i)' = Blocks(i)
  BY <1>1 DEF Blocks
<1>3. \A i : Regular(i)' <=> Regular(i)
  BY <1>1, <1>2 DEF Regular, Ptrs
<1>4. \A name : Named(name)' = Named(name)
  BY <1>1 DEF Named
<1> QED BY <1>1, <1>2, <1>3, <1>4 DEF RegularFor, LoaderHasRoom

LEMMA RegularLoaded ==
    ASSUME TypeInv, RegularFor(File), Loaded
    PROVE  Regular(inode) /\ Blocks(inode) \in Nat /\ Blocks(inode) > 0 /\ eax > 0
<1>1. Regular(inode)
  BY Wanted DEF Loaded
<1>2. Blocks(inode) \in 1..MaxBlocks /\ inode \in DOMAIN vol.inodes
  BY <1>1, RegularFacts DEF TypeInv
<1>3. vol.inodes[inode].size > 0
  BY <1>2, Sizes, InodeFacts DEF TypeInv
<1> QED BY <1>1, <1>2, <1>3, Sizes DEF Loaded

LEMMA NeverAstrayStep ==
    ASSUME TypeInv, LoadInv, NeverAstray, [Next]_vars
    PROVE  NeverAstray'
<1> USE Sizes
<1> SUFFICES ASSUME stage' = "astray", RegularFor("loader"), RegularFor("kernel"), LoaderHasRoom
             PROVE  FALSE
  BY SameVolume DEF NeverAstray
<1>1. RegularFor(File) /\ vol \in Volumes
  BY FileName DEF TypeInv
<1>2. stage # "astray"
  BY DEF NeverAstray
<1>3. CASE FindJunk
  <2>1. /\ at = "inode" /\ stage \in {"stage1", "stage2"}
        /\ ~ (Located(inode) /\ Counted(inode) > 0)
    BY <1>3 DEF FindJunk, At
  <2>2. Regular(inode)
    BY <1>1, <2>1, Wanted DEF LoadInv
  <2>3. Located(inode) /\ Counted(inode) \in 1..MaxBlocks
    BY <1>1, <2>2, RegularFacts
  <2> QED BY <2>1, <2>3
<1>4. CASE ReadIndirectJunk
  <2>1. /\ at = "blocks" /\ stage \in {"stage1", "stage2"} /\ todo = << >> /\ rest > 0
        /\ IndirectIsHole(inode)
    BY <1>4 DEF ReadIndirectJunk, At
  <2>2. Regular(inode) /\ Loading
    BY <1>1, <2>1, Wanted DEF LoadInv
  <2>4. /\ Blocks(inode) \in 1..MaxBlocks /\ Blocks(inode) <= Len(Ptrs(inode))
        /\ Len(Ptrs(inode)) \in Nat /\ inode \in DOMAIN vol.inodes /\ inode \in Nat
        /\ \A k \in 1..Len(Ptrs(inode)) : Ptrs(inode)[k] = <<inode, k - 1>>
    BY <1>1, <2>2, RegularFacts
  <2>3. Blocks(inode) > Direct
    BY <2>1, <2>2, <2>4 DEF Loading
  <2>5. Ptrs(inode) \in Seq({Hole} \cup (Nat \X Nat))
    BY <1>1, <2>4, InodeFacts
  <2> DEFINE n == Min({Len(Ptrs(inode)), MaxBlocks})
  <2>6. n \in Nat /\ n <= Len(Ptrs(inode)) /\ n > Direct
    <3>1. n = IF Len(Ptrs(inode)) <= MaxBlocks THEN Len(Ptrs(inode)) ELSE MaxBlocks
      BY <2>4, MinTwo
    <3>2. MaxBlocks > Direct
      BY DEF MaxBlocks
    <3> HIDE DEF n
    <3> QED BY <3>1, <3>2, <2>3, <2>4
  <2>7. Indirect(inode) = SubSeq(Ptrs(inode), Direct + 1, n)
    BY DEF Indirect
  <2> HIDE DEF n
  <2>8. /\ Indirect(inode) \in Seq({Hole} \cup (Nat \X Nat)) /\ Len(Indirect(inode)) = n - Direct
        /\ \A j \in 1..Len(Indirect(inode)) : Indirect(inode)[j] = Ptrs(inode)[Direct + j]
    BY <2>5, <2>6, <2>7, Part
  <2>9. 1 \in DOMAIN Indirect(inode) /\ Indirect(inode)[1] = <<inode, Direct>>
    <3>1. 1 \in 1..Len(Indirect(inode)) /\ Direct + 1 \in 1..Len(Ptrs(inode))
      BY <2>6, <2>8
    <3>2. Ptrs(inode)[Direct + 1] = <<inode, Direct + 1 - 1>>
      BY <3>1, <2>4
    <3> QED BY <3>1, <3>2, <2>8
  <2>10. <<inode, Direct>> = Hole
    BY <2>1, <2>9 DEF IndirectIsHole, ToSet
  <2>11. <<inode, Direct>> \in Nat \X Nat
    BY <2>4
  <2> QED BY <2>10, <2>11, HoleIsNoBlock
<1>5. CASE SearchJunk
  <2>1. at = "search" /\ stage \in {"stage1", "stage2"} /\ ~ Readable
    BY <1>5 DEF SearchJunk, At
  <2>2. Intact(Root)
    BY <1>1, <2>1 DEF LoadInv
  <2>3. vol.dir[entry].blk \in Nat /\ vol.dir[entry].blk < Blocks(Root) /\ Blocks(Root) \in Nat
    BY <1>1, DirFacts, InodeFacts DEF TypeInv
  <2>4. vol.dir[entry].blk + 1 \in 1..Blocks(Root)
    BY <2>3
  <2>5. mem[(vol.dir[entry].blk + 1) - 1] = <<Root, (vol.dir[entry].blk + 1) - 1>>
    BY <2>2, <2>4 DEF Intact
  <2>6. (vol.dir[entry].blk + 1) - 1 = vol.dir[entry].blk
    BY <2>3
  <2> QED BY <2>1, <2>5, <2>6 DEF Readable, Entry
<1>6. CASE NoElf
  <2>1. at = "segments" /\ stage \in {"stage1", "stage2"} /\ mem[0] # <<inode, 0>>
    BY <1>6 DEF NoElf, At
  <2>2. Loaded
    BY <1>1, <2>1 DEF LoadInv
  <2>3. 1 \in 1..Blocks(inode)
    BY <1>1, <2>2, RegularLoaded
  <2>4. mem[1 - 1] = <<inode, 1 - 1>>
    BY <2>2, <2>3 DEF Loaded, Intact
  <2> QED BY <2>1, <2>4
<1>7. CASE EnterStage2
  <2>1. /\ at = "loaded" /\ stage = "stage1" /\ eax # 0
        /\ ~ Intact(inode) \/ Blocks(inode) > Room
    BY <1>7 DEF EnterStage2, At
  <2>2. Loaded /\ File = "loader"
    BY <1>1, <2>1 DEF LoadInv, File
  <2>3. Blocks(inode) <= Room /\ Blocks(inode) \in Nat
    BY <1>1, <2>2, RegularLoaded DEF Loaded, IsFile, LoaderHasRoom
  <2> QED BY <2>1, <2>2, <2>3 DEF Loaded
<1>8. CASE BadVolume \/ DiskFails \/ FileMissing \/ Incompatible \/ ZeroBss
  BY <1>8 DEF BadVolume, DiskFails, FileMissing, Incompatible, ZeroBss, Ends
<1>9. CASE stage' = stage
  BY <1>2, <1>9
<1> QED BY <1>3, <1>4, <1>5, <1>6, <1>7, <1>8, <1>9
        DEF Next, vars, OpenVolume, FindInode, LoadBlock, ReadIndirect, InodeLoaded, Found,
            NextEntry, NotFound, GetEntry, NoMoreEntries, LongMode, CopySegment

(***************************************************************************)
(* The segments.                                                           *)
(***************************************************************************)
LEMMA SegmentFacts ==
    ASSUME vol \in Volumes
    PROVE  /\ vol.segs \in Seq([off : Nat, filesz : Nat, memsz : Nat])
           /\ Len(vol.segs) \in Nat /\ DOMAIN vol.segs = 1..Len(vol.segs)
           /\ \A n \in 1..Len(vol.segs) :
                 /\ vol.segs[n].off \in Nat /\ vol.segs[n].filesz \in Nat
                 /\ vol.segs[n].memsz \in Nat
                 /\ n < Len(vol.segs) => vol.segs[n].filesz = vol.segs[n].memsz
<1>1. SegmentsOf(vol)
  BY LoaderAssumption
<1>2. vol.segs \in Seq([off : Nat, filesz : Nat, memsz : Nat])
  BY <1>1 DEF SegmentsOf
<1>3. Len(vol.segs) \in Nat /\ DOMAIN vol.segs = 1..Len(vol.segs)
  BY <1>2
<1>4. \A n \in 1..Len(vol.segs) : vol.segs[n] \in [off : Nat, filesz : Nat, memsz : Nat]
  BY <1>2, ElementIn
<1>5. \A n \in 1..Len(vol.segs) : n < Len(vol.segs) => vol.segs[n].filesz = vol.segs[n].memsz
  BY <1>1 DEF SegmentsOf
<1> QED BY <1>2, <1>3, <1>4, <1>5

LEMMA SegmentInFile ==
    ASSUME TypeInv, RegularFor("kernel"), File = "kernel", Loaded,
           NEW n \in 1..Len(vol.segs), NEW k \in Nat \ {0}, k <= vol.segs[n].filesz
    PROVE  mem[vol.segs[n].off + k - 1] = <<inode, vol.segs[n].off + k - 1>>
<1>1. Regular(inode) /\ Blocks(inode) \in Nat /\ Blocks(inode) > 0
  BY RegularLoaded
<1>2. PICK m \in Named(File) : inode = vol.dir[m].ino
  BY DEF Loaded, IsFile
<1>3. m \in 1..Len(vol.dir) /\ vol.dir[m].name = "kernel" /\ inode # 0
  BY <1>1, <1>2, DirFacts, RegularFacts DEF Named, TypeInv
<1>4. SegmentsOf(vol)
  BY LoaderAssumption DEF TypeInv
<1>5. vol.segs[n].off + vol.segs[n].filesz <= Blocks(inode)
  BY <1>1, <1>2, <1>3, <1>4 DEF SegmentsOf, Blocks
<1>6. vol.segs[n].off \in Nat /\ vol.segs[n].filesz \in Nat
  BY SegmentFacts DEF TypeInv
<1>7. PICK o \in Nat : o = vol.segs[n].off
  BY <1>6
<1>8. o + k \in 1..Blocks(inode)
  <2> DEFINE f == vol.segs[n].filesz
             b == Blocks(inode)
  <2>1. f \in Nat /\ b \in Nat /\ k <= f /\ o + f <= b
    BY <1>1, <1>5, <1>6, <1>7
  <2> HIDE DEF f, b
  <2>2. o + k \in 1..b
    BY <2>1
  <2> QED BY <2>2 DEF b
<1>9. mem[o + k - 1] = <<inode, o + k - 1>>
  BY <1>8 DEF Loaded, Intact
<1> QED BY <1>7, <1>9

LEMMA ImgStep ==
    ASSUME TypeInv, StageInv, LoadInv, ImgInv, [Next]_vars
    PROVE  ImgInv'
<1>1. CASE OpenVolume \/ FindInode \/ LoadBlock \/ ReadIndirect \/ InodeLoaded
           \/ Found \/ NextEntry \/ NotFound \/ GetEntry \/ NoMoreEntries
  BY <1>1 DEF OpenVolume, FindInode, LoadBlock, ReadIndirect, InodeLoaded, Found, NextEntry,
              NotFound, GetEntry, NoMoreEntries, At, ImgInv
<1>2. CASE BadVolume \/ DiskFails \/ FindJunk \/ ReadIndirectJunk \/ SearchJunk
           \/ FileMissing \/ Incompatible \/ NoElf \/ ZeroBss
  BY <1>2 DEF BadVolume, DiskFails, FindJunk, ReadIndirectJunk, SearchJunk,
              FileMissing, Incompatible, NoElf, ZeroBss, Ends, ImgInv
<1>3. CASE EnterStage2
  BY <1>3 DEF EnterStage2, At, ImgInv
<1>4. CASE LongMode
  <2>1. img' = << >>
    BY <1>4 DEF LongMode, At, ImgInv
  <2> QED BY <2>1 DEF ImgInv
<1>5. CASE CopySegment
  <2>1. /\ at = "segments" /\ stage \in {"stage1", "stage2"} /\ Len(img) < Len(vol.segs)
        /\ img' = Append(img, Copy(Len(img) + 1)) /\ UNCHANGED <<vol, stage, at, mem>>
    BY <1>5 DEF CopySegment, At, loading, Copy
  <2> DEFINE S == {Copy(m) : m \in 1..Len(vol.segs)}
  <2>2. img \in Seq(S) /\ \A m \in 1..Len(img) : img[m] = Copy(m)
    BY <2>1 DEF ImgInv
  <2>3. Len(vol.segs) \in Nat /\ Len(img) \in Nat
    BY <2>2, SegmentFacts DEF TypeInv
  <2>4. Copy(Len(img) + 1) \in S
    BY <2>1, <2>3
  <2>5. \A m : Copy(m)' = Copy(m)
    BY <2>1 DEF Copy
  <2> HIDE DEF S
  <2>6. /\ img' \in Seq(S) /\ Len(img') = Len(img) + 1
        /\ \A m \in 1..Len(img) : img'[m] = img[m]
        /\ img'[Len(img) + 1] = Copy(Len(img) + 1)
    BY <2>1, <2>2, <2>4
  <2>7. \A m \in 1..Len(img') : img'[m] = Copy(m)
    BY <2>2, <2>3, <2>6
  <2>8. img' \in Seq({Copy(m)' : m \in 1..Len(vol'.segs)})
    BY <2>1, <2>5, <2>6 DEF S
  <2> QED BY <2>1, <2>5, <2>7, <2>8 DEF ImgInv
<1>6. CASE UNCHANGED vars
  <2>1. UNCHANGED <<vol, stage, at, mem, img>> /\ \A m : Copy(m)' = Copy(m)
    BY <1>6 DEF vars, Copy
  <2>2. {Copy(m)' : m \in 1..Len(vol'.segs)} = {Copy(m) : m \in 1..Len(vol.segs)}
    BY <2>1
  <2> QED BY <2>1, <2>2 DEF ImgInv
<1> QED BY <1>1, <1>2, <1>3, <1>4, <1>5, <1>6 DEF Next

LEMMA ImageStep ==
    ASSUME TypeInv, StageInv, LoadInv, ImgInv, ImageRight, [Next]_vars
    PROVE  ImageRight'
<1>1. CASE ZeroBss
  <2> SUFFICES ASSUME RegularFor("kernel")' PROVE ImageRight'
    BY DEF ImageRight
  <2>1. RegularFor("kernel") /\ vol' = vol
    BY SameVolume
  <2>2. /\ at = "segments" /\ stage \in {"stage1", "stage2"} /\ img # << >>
        /\ Len(img) = Len(vol.segs) /\ inode' = inode
        /\ img' = [img EXCEPT ![Len(img)] =
                      [k \in DOMAIN @ |-> IF k > Last(vol.segs).filesz THEN Zero ELSE @[k]]]
    BY <1>1 DEF ZeroBss, At, loading
  <2>3. File = "kernel" /\ Loaded
    BY <2>1, <2>2 DEF StageInv, LoadInv, File
  <2>4. /\ img \in Seq({Copy(m) : m \in 1..Len(vol.segs)})
        /\ \A m \in 1..Len(img) : img[m] = Copy(m)
    BY <2>2 DEF ImgInv
  <2>5. /\ Len(img) \in Nat /\ Len(img) > 0 /\ DOMAIN img = 1..Len(img)
        /\ Last(vol.segs) = vol.segs[Len(img)] /\ DOMAIN vol.segs = 1..Len(img)
    BY <2>2, <2>4, SegmentFacts DEF Last, TypeInv
  <2> DEFINE Want(o, f, z) == [k \in 1..z |-> IF k <= f THEN <<inode, o + k - 1>> ELSE Zero]
  <2>6. ASSUME NEW n \in 1..Len(img)
        PROVE  img'[n] = Want(vol.segs[n].off, vol.segs[n].filesz, vol.segs[n].memsz)
    <3>1. /\ vol.segs[n].memsz \in Nat /\ vol.segs[n].filesz \in Nat /\ vol.segs[n].off \in Nat
          /\ n < Len(img) => vol.segs[n].filesz = vol.segs[n].memsz
      BY <2>2, <2>6, SegmentFacts DEF TypeInv
    <3>2. PICK o \in Nat, f \in Nat, z \in Nat :
              o = vol.segs[n].off /\ f = vol.segs[n].filesz /\ z = vol.segs[n].memsz
      BY <3>1
    <3>3. ASSUME NEW k \in 1..z, k <= f
          PROVE  mem[o + k - 1] = <<inode, o + k - 1>>
      <4>1. k \in Nat \ {0} /\ n \in 1..Len(vol.segs) /\ k <= vol.segs[n].filesz
        BY <2>2, <2>6, <3>2, <3>3
      <4> QED BY <4>1, <2>1, <2>3, <3>2, SegmentInFile
    <3>4. Copy(n) = [k \in 1..z |-> mem[o + k - 1]]
      BY <3>2 DEF Copy
    <3>5. CASE n < Len(img)
      <4>0. img'[n] = img[n]
        BY <2>2, <2>5, <2>6, <3>5
      <4>1. img'[n] = [k \in 1..z |-> mem[o + k - 1]]
        BY <2>4, <2>6, <3>4, <4>0
      <4>2. f = z
        BY <3>1, <3>2, <3>5
      <4>3. \A k \in 1..z : k <= f /\ mem[o + k - 1] = <<inode, o + k - 1>>
        BY <3>3, <4>2
      <4>4. img'[n] = Want(o, f, z)
        BY <4>1, <4>3
      <4> HIDE DEF Want
      <4> QED BY <3>2, <4>4
    <3>6. CASE n = Len(img)
      <4>1. img[n] = [k \in 1..z |-> mem[o + k - 1]] /\ vol.segs[Len(img)].filesz = f
        BY <2>4, <2>6, <3>2, <3>4, <3>6
      <4>2. img'[n] = [k \in DOMAIN img[n] |-> IF k > f THEN Zero ELSE img[n][k]]
        BY <2>2, <2>5, <2>6, <3>6, <4>1
      <4>3. img'[n] = [k \in 1..z |-> IF k > f THEN Zero ELSE mem[o + k - 1]]
        BY <4>1, <4>2
      <4>4. ASSUME NEW k \in 1..z
            PROVE  (IF k > f THEN Zero ELSE mem[o + k - 1])
                     = (IF k <= f THEN <<inode, o + k - 1>> ELSE Zero)
        <5>1. CASE k <= f
          <6>1. mem[o + k - 1] = <<inode, o + k - 1>>
            BY <3>3, <5>1
          <6>2. ~ (k > f)
            BY <3>2, <5>1
          <6> QED BY <5>1, <6>1, <6>2, Zenon
        <5>2. CASE ~ (k <= f)
          BY <3>2, <5>2
        <5> QED BY <5>1, <5>2
      <4>5. img'[n] = Want(o, f, z)
        BY <4>3, <4>4
      <4> HIDE DEF Want
      <4> QED BY <3>2, <4>5
    <3> QED BY <2>5, <2>6, <3>5, <3>6
  <2> QED BY <2>1, <2>2, <2>5, <2>6 DEF ImageRight
<1>2. CASE stage' # "kernel"
  BY <1>2 DEF ImageRight
<1>3. CASE UNCHANGED <<stage, img, inode>>
  BY <1>3, SameVolume DEF ImageRight
<1> QED BY <1>1, <1>2, <1>3 DEF Next, vars, OpenVolume, BadVolume, DiskFails, FindInode,
         FindJunk, LoadBlock, ReadIndirect, ReadIndirectJunk, InodeLoaded, Found, NextEntry,
         NotFound, SearchJunk, FileMissing, EnterStage2, GetEntry, NoMoreEntries, LongMode,
         Incompatible, CopySegment, NoElf, Ends, At

(***************************************************************************)
(* The theorems.                                                           *)
(***************************************************************************)
LEMMA InitIInv == Init => IInv
<1> SUFFICES ASSUME Init PROVE IInv
  OBVIOUS
<1> USE Sizes
<1>1. vol \in Volumes
  BY DEF Init
<1>2. TypeInv
  BY <1>1, DirFacts DEF Init, TypeInv
<1>3. PlaceInv
  BY DEF Init, PlaceInv, Place, MaxBlocks
<1>4. MapInv
  BY LoaderAssumption DEF Init, MapInv
<1>5. StageInv /\ LoadInv /\ ImgInv /\ NeverAstray /\ ImageRight
  BY DEF Init, StageInv, LoadInv, ImgInv, NeverAstray, ImageRight
<1> QED BY <1>2, <1>3, <1>4, <1>5 DEF IInv

LEMMA NextIInv == IInv /\ [Next]_vars => IInv'
BY TypeStep, MapStep, LoadStep, NeverAstrayStep, ImgStep, ImageStep DEF IInv

LEMMA Inductive == Spec => []IInv
BY InitIInv, NextIInv, PTL DEF Spec

\* Every variable has its type, and the blocks stay in the memory given: the
\* longest file the reader loads fits, wherever segments end.
THEOREM TypeCorrect == Spec => []TypeOK
<1>1. IInv => TypeOK
  <2> SUFFICES ASSUME IInv PROVE TypeOK
    OBVIOUS
  <2>1. Place \in Nat /\ Len(todo) \in Nat
    BY NumbersType DEF IInv
  <2>2. Place \in Memory
    BY <2>1, Sizes DEF IInv, PlaceInv, Memory
  <2>3. entry \in DOMAIN vol.dir
    BY DirFacts DEF IInv, TypeInv
  <2> QED BY <2>2, <2>3 DEF IInv, TypeInv, TypeOK, Place
<1> QED BY <1>1, Inductive, PTL

\* load_file loads the whole of a regular file and returns its size, or zero
\* if there is no such file.
THEOREM FilesAreLoaded == Spec => []FileLoaded
<1>1. IInv => FileLoaded
  <2> SUFFICES ASSUME IInv, At("loaded"), RegularFor(File)
               PROVE  IF Named(File) = {} THEN eax = 0
                      ELSE \E n \in Named(File) : /\ Intact(vol.dir[n].ino)
                                                  /\ eax = vol.inodes[vol.dir[n].ino].size
    BY DEF FileLoaded
  <2>1. Loaded \/ (Named(File) = {} /\ eax = 0)
    BY DEF IInv, LoadInv, At
  <2>2. CASE Loaded
    BY <2>2 DEF Loaded, IsFile
  <2> QED BY <2>1, <2>2
<1> QED BY <1>1, Inductive, PTL

\* On a volume with regular files, and a loader that ends below the kernel, the
\* boot never goes astray.
THEOREM BootNeverAstray == Spec => []NeverAstray
<1>1. IInv => NeverAstray
  BY DEF IInv
<1> QED BY <1>1, Inductive, PTL

\* The kernel runs with its segments as its file has them, and zero behind.
THEOREM ImageIsRight == Spec => []ImageRight
<1>1. IInv => ImageRight
  BY DEF IInv
<1> QED BY <1>1, Inductive, PTL

\* The kernel is handed all entries of the memory map, in their order.
THEOREM MapIsHandedOver == Spec => []MapHandedOver
<1>1. IInv => MapHandedOver
  <2> SUFFICES ASSUME IInv, stage = "kernel" PROVE map = Entries
    BY DEF MapHandedOver
  <2>1. Len(map) = Len(Entries) /\ \A n \in 1..Len(map) : map[n] = Entries[n]
    BY DEF IInv, StageInv, MapInv
  <2>2. map \in Seq(STRING) /\ Entries \in Seq(STRING)
    BY LoaderAssumption DEF IInv, TypeInv
  <2> QED BY <2>1, <2>2
<1> QED BY <1>1, Inductive, PTL

=============================================================================
