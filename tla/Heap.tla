-------------------------------- MODULE Heap --------------------------------
(***************************************************************************)
(* The heap of the C library, lib/stdlib/heap.c: malloc, realloc and free  *)
(* over one region of memory and the list of its blocks.                   *)
(*                                                                         *)
(* A cell is 16 bytes. A block header takes two: its first cell holds the  *)
(* signature, the free attribute and the size of the block, header         *)
(* included, its second one the links. The region is the cells from First  *)
(* to Cells; the two cells after it are whatever lies beyond heap_end.     *)
(* An action is one step of a routine, one round of a loop at most; todo   *)
(* is the call stack, with the routine that runs first.                    *)
(***************************************************************************)
EXTENDS Naturals, Sequences

CONSTANTS
    Cells,    \* cells of the region between heap_start and heap_end
    Sizes,    \* bound: sizes that callers ask for besides 0
    Tags,     \* marks that callers leave in their memory; bounds their number
    NoTag

VARIABLES
    mem,      \* the cells
    todo,     \* the routines being executed, innermost first
    ret,      \* what the last malloc, shrink_block or expand_block returned
    live,     \* history: what callers own, by the address of its first cell
    blocks,   \* history: the headers that belong to the list
    corrupt   \* history: a step has written over what belongs to another block

vars == <<mem, todo, ret, live, blocks, corrupt>>

H     == 2           \* sizeof(block_header_t)
Null  == 0
First == 1           \* heap_start
End   == Cells + 1   \* heap_end

ASSUME HeapAssumption ==
    /\ Cells \in Nat /\ Cells >= H
    /\ Sizes \subseteq Nat
    /\ NoTag \notin Tags

Addr == First..(Cells + H)

Cell == [sign : BOOLEAN, free : BOOLEAN, size : Nat,
         next : Nat, prev : Nat, tag : Tags \cup {NoTag}]

Blank == [sign |-> FALSE, free |-> FALSE, size |-> 0,
          next |-> Null, prev |-> Null, tag |-> NoTag]

Routines == {"malloc", "find", "data", "shrink", "cut", "defrag",
             "free", "realloc", "expand", "move", "done"}

Call == [at : Routines, blk : Nat, size : Nat, aux : Nat]

NotOwned == [size |-> 0, tag |-> NoTag, kept |-> 0]

(***************************************************************************)
(* Headers.                                                                *)
(***************************************************************************)
IS_VALID(b) == b # Null /\ mem[b].sign

IS_FREE(b) == b # Null /\ mem[b].free

Next_(b) == mem[b + 1].next

Prev(b) == mem[b + 1].prev

WithHeader(b, size, next, prev) ==
    [mem EXCEPT ![b] = [Blank EXCEPT !.sign = TRUE, !.free = TRUE, !.size = size],
                ![b + 1] = [Blank EXCEPT !.next = next, !.prev = prev]]

\* b takes in the block after it.
WithNextMerged(b) ==
    [mem EXCEPT ![b].size = mem[b].size + mem[Next_(b)].size,
                ![b + 1].next = Next_(Next_(b))]

(***************************************************************************)
(* The call stack.                                                         *)
(***************************************************************************)
Do(at, blk, size, aux) == [at |-> at, blk |-> blk, size |-> size, aux |-> aux]

\* Bound: a behaviour is followed up to its first corruption.
Sound == ~ corrupt

Idle == todo = << >>

At(at) == Sound /\ ~ Idle /\ Head(todo).at = at

blk == Head(todo).blk

size == Head(todo).size

aux == Head(todo).aux

Continue(calls) == todo' = calls \o Tail(todo)

Return(r) == Continue(<< >>) /\ ret' = r

Init == /\ mem = [a \in Addr |-> Blank]
        /\ todo = << >>
        /\ ret = Null
        /\ live = [a \in Addr |-> NotOwned]
        /\ blocks = {}
        /\ corrupt = FALSE

(***************************************************************************)
(* malloc: find_best_fit walks the whole list, best in aux. The first call *)
(* makes one free block of the region (get_first_block).                   *)
(***************************************************************************)
MallocNothing == /\ At("malloc") /\ size = 0
                 /\ Return(Null)
                 /\ UNCHANGED <<mem, live, blocks, corrupt>>

MallocBegins ==
    /\ At("malloc") /\ size > 0
    /\ IF IS_VALID(First)
       THEN UNCHANGED <<mem, blocks>>
       ELSE /\ mem' = WithHeader(First, End - First, Null, Null)
            /\ blocks' = {First}
    /\ Continue(<<Do("find", First, size, Null)>>)
    /\ UNCHANGED <<ret, live, corrupt>>

\* Mutant: the header is not counted.
FitsBetterBare(b) == /\ IS_FREE(b)
                     /\ mem[b].size >= size
                     /\ aux = Null \/ mem[b].size < mem[aux].size

FitsBetter(b) == /\ IS_FREE(b)
                 /\ mem[b].size >= H + size
                 /\ aux = Null \/ mem[b].size < mem[aux].size

\* Mutant: a block in use is skipped before the step to the next one.
FindNextFree ==
    /\ At("find") /\ IS_VALID(blk)
    /\ Continue(<<Do("find", IF IS_FREE(blk) THEN Next_(blk) ELSE blk, size,
                     IF FitsBetter(blk) THEN blk ELSE aux)>>)
    /\ UNCHANGED <<mem, ret, live, blocks, corrupt>>

FindNext ==
    /\ At("find") /\ IS_VALID(blk)
    /\ Continue(<<Do("find", Next_(blk), size,
                     IF FitsBetter(blk) THEN blk ELSE aux)>>)
    /\ UNCHANGED <<mem, ret, live, blocks, corrupt>>

FindNothing == /\ At("find") /\ ~ IS_VALID(blk)
               /\ aux = Null
               /\ Return(Null)
               /\ UNCHANGED <<mem, live, blocks, corrupt>>

FindBest == /\ At("find") /\ ~ IS_VALID(blk)
            /\ aux # Null
            /\ mem' = [mem EXCEPT ![aux].free = FALSE]
            /\ Continue(<<Do("shrink", aux, size, Null), Do("data", Null, 0, Null)>>)
            /\ UNCHANGED <<ret, live, blocks, corrupt>>

\* get_block_data of what the routine before returned.
GetBlockData == /\ At("data")
                /\ Return(IF IS_VALID(ret) THEN ret + H ELSE Null)
                /\ UNCHANGED <<mem, live, blocks, corrupt>>

(***************************************************************************)
(* shrink_block, whose callers pass a block in use. The new block is       *)
(* merged with those around it before the old one is cut.                  *)
(***************************************************************************)
\* Mutant: a new block is cut with no room for its header.
CanSplitAnything == H + size < mem[blk].size

CanSplit == /\ H + size < mem[blk].size
            /\ mem[blk].size - (H + size) >= H

ShrinkNothing == /\ At("shrink") /\ ~ CanSplit
                 /\ Return(blk)
                 /\ UNCHANGED <<mem, live, blocks, corrupt>>

\* Mutant: the old header stays in the size of the new block.
SplitWhole ==
    /\ At("shrink") /\ CanSplit
    /\ LET new == blk + H + size
       IN  /\ mem' = WithHeader(new, mem[blk].size - size, Next_(blk), blk)
           /\ blocks' = blocks \cup {new}
           /\ Continue(<<Do("defrag", new, 0, Null), Do("cut", blk, size, new)>>)
    /\ UNCHANGED <<ret, live, corrupt>>

Split == /\ At("shrink") /\ CanSplit
         /\ LET new == blk + H + size
            IN  /\ mem' = WithHeader(new, mem[blk].size - (H + size), Next_(blk), blk)
                /\ blocks' = blocks \cup {new}
                /\ Continue(<<Do("defrag", new, 0, Null), Do("cut", blk, size, new)>>)
         /\ UNCHANGED <<ret, live, corrupt>>

Cut == /\ At("cut")
       /\ mem' = [mem EXCEPT ![blk].size = H + size, ![blk + 1].next = aux]
       /\ Return(blk)
       /\ UNCHANGED <<live, blocks, corrupt>>

(***************************************************************************)
(* defrag_blocks, whose callers pass a free block. A block before it adds  *)
(* its size, and that is all: the list is as it was and the block now      *)
(* reaches into the ones after it.                                         *)
(***************************************************************************)
NextIsFree == IS_VALID(Next_(blk)) /\ IS_FREE(Next_(blk))

PrevIsFree == IS_VALID(Prev(blk)) /\ IS_FREE(Prev(blk))

MergeNext == /\ At("defrag") /\ NextIsFree
             /\ mem' = WithNextMerged(blk)
             /\ blocks' = blocks \ {Next_(blk)}
             /\ UNCHANGED <<todo, ret, live, corrupt>>

MergePrev == /\ At("defrag") /\ ~ NextIsFree /\ PrevIsFree
             /\ mem' = [mem EXCEPT ![blk].size = mem[blk].size + mem[Prev(blk)].size,
                                   ![blk + 1].prev = Prev(Prev(blk))]
             /\ corrupt' = TRUE
             /\ UNCHANGED <<todo, ret, live, blocks>>

DefragEnd == /\ At("defrag") /\ ~ NextIsFree /\ ~ PrevIsFree
             /\ Continue(<< >>)
             /\ UNCHANGED <<mem, ret, live, blocks, corrupt>>

(***************************************************************************)
(* free.                                                                   *)
(***************************************************************************)
CanFree == blk # Null /\ IS_VALID(blk - H) /\ ~ IS_FREE(blk - H)

FreeNothing == /\ At("free") /\ ~ CanFree
               /\ Continue(<< >>)
               /\ UNCHANGED <<mem, ret, live, blocks, corrupt>>

FreeBlock == /\ At("free") /\ CanFree
             /\ mem' = [mem EXCEPT ![blk - H].free = TRUE]
             /\ Continue(<<Do("defrag", blk - H, 0, Null)>>)
             /\ UNCHANGED <<ret, live, blocks, corrupt>>

(***************************************************************************)
(* realloc and expand_block, with old_size in aux.                         *)
(***************************************************************************)
ReallocBegins ==
    /\ At("realloc")
    /\ Continue(CASE blk = Null -> <<Do("malloc", Null, size, Null)>>
                  [] blk # Null /\ size = 0 -> <<Do("free", blk, 0, Null)>>
                  [] OTHER ->
                       <<Do(IF mem[blk - H].size > size + H THEN "shrink" ELSE "expand",
                            blk - H, size, mem[blk - H].size),
                         Do("data", Null, 0, Null)>>)
    /\ ret' = Null
    /\ UNCHANGED <<mem, live, blocks, corrupt>>

CanAppend == IS_FREE(Next_(blk)) /\ H + size > mem[blk].size

ExpandAppends == /\ At("expand") /\ CanAppend
                 /\ mem' = WithNextMerged(blk)
                 /\ blocks' = blocks \ {Next_(blk)}
                 /\ UNCHANGED <<todo, ret, live, corrupt>>

ExpandFits == /\ At("expand") /\ ~ CanAppend
              /\ mem[blk].size >= H + size
              /\ Continue(<<Do("shrink", blk, size, Null)>>)
              /\ UNCHANGED <<mem, ret, live, blocks, corrupt>>

ExpandMoves == /\ At("expand") /\ ~ CanAppend
               /\ mem[blk].size < H + size
               /\ Continue(<<Do("malloc", Null, size, Null), Do("move", blk, size, aux)>>)
               /\ UNCHANGED <<mem, ret, live, blocks, corrupt>>

Copied(to, from, n) == [a \in Addr |-> IF a \in to..(to + n - 1)
                                       THEN mem[from + (a - to)]
                                       ELSE mem[a]]

MoveNothing == /\ At("move") /\ ret = Null
               /\ Return(Null)
               /\ UNCHANGED <<mem, live, blocks, corrupt>>

\* Mutants: the old block is not freed; the copy starts at the old header.
MoveOnly == /\ At("move") /\ ret # Null
            /\ mem' = Copied(ret, blk + H, aux)
            /\ corrupt' = (aux > mem[ret - H].size - H)
            /\ Continue(<< >>)
            /\ ret' = ret - H
            /\ UNCHANGED <<live, blocks>>

MoveWithHeader == /\ At("move") /\ ret # Null
                  /\ mem' = Copied(ret, blk, aux)
                  /\ corrupt' = (aux > mem[ret - H].size - H)
                  /\ Continue(<<Do("free", blk + H, 0, Null)>>)
                  /\ ret' = ret - H
                  /\ UNCHANGED <<live, blocks>>

\* memmove of old_size bytes, which counts the old header too.
Move == /\ At("move") /\ ret # Null
        /\ mem' = Copied(ret, blk + H, aux)
        /\ corrupt' = (aux > mem[ret - H].size - H)
        /\ Continue(<<Do("free", blk + H, 0, Null)>>)
        /\ ret' = ret - H
        /\ UNCHANGED <<live, blocks>>

(***************************************************************************)
(* Callers own what malloc and realloc gave them until they pass it to     *)
(* free or realloc. They may leave a mark in every cell of it: kept counts *)
(* the cells that must hold it. What is left of the mark anywhere else     *)
(* matters to nobody and is dropped.                                       *)
(***************************************************************************)
Owned == {a \in Addr : live[a].size > 0}

FreeTags == Tags \ {live[a].tag : a \in Owned}

Marked(a, n, t) ==
    [c \in Addr |-> CASE c \in a..(a + n - 1) -> [Blank EXCEPT !.tag = t]
                      [] c \notin a..(a + n - 1) /\ mem[c].tag = t -> Blank
                      [] OTHER -> mem[c]]

GiveUp(a) == /\ live' = [live EXCEPT ![a] = NotOwned]
             /\ mem' = Marked(a, 0, live[a].tag)

CallMalloc(n) == /\ Idle /\ Sound /\ FreeTags # {}
                 /\ todo' = <<Do("malloc", Null, n, Null), Do("done", Null, n, Null)>>
                 /\ UNCHANGED <<mem, ret, live, blocks, corrupt>>

CallRealloc(a, n) ==
    /\ Idle /\ Sound /\ (a = Null => FreeTags # {})
    /\ todo' = <<Do("realloc", a, n, Null), Do("done", a, n, Null)>>
    /\ IF a # Null /\ n = 0 THEN GiveUp(a) ELSE UNCHANGED <<mem, live>>
    /\ UNCHANGED <<ret, blocks, corrupt>>

CallFree(a) == /\ Idle /\ Sound
               /\ todo' = <<Do("free", a, 0, Null)>>
               /\ IF a # Null THEN GiveUp(a) ELSE UNCHANGED <<mem, live>>
               /\ UNCHANGED <<ret, blocks, corrupt>>

Failed == /\ At("done") /\ ret = Null
          /\ Continue(<< >>)
          /\ UNCHANGED <<mem, ret, live, blocks, corrupt>>

Done(mark) ==
    /\ At("done") /\ ret # Null
    /\ LET old  == IF blk = Null THEN NotOwned ELSE live[blk]
           t    == IF blk = Null THEN CHOOSE t \in FreeTags : TRUE ELSE old.tag
           kept == IF mark THEN size ELSE IF old.kept < size THEN old.kept ELSE size
           rest == IF blk = Null THEN live ELSE [live EXCEPT ![blk] = NotOwned]
       IN  /\ live' = [rest EXCEPT ![ret] = [size |-> size, tag |-> t, kept |-> kept]]
           /\ mem' = IF mark THEN Marked(ret, size, t) ELSE mem
    /\ Continue(<< >>)
    /\ ret' = Null
    /\ UNCHANGED <<blocks, corrupt>>

Client == \/ \E n \in Sizes \cup {0} : CallMalloc(n)
          \/ \E a \in Owned \cup {Null}, n \in Sizes \cup {0} : CallRealloc(a, n)
          \/ \E a \in Owned \cup {Null} : CallFree(a)

Routine == \/ MallocNothing \/ MallocBegins
           \/ FindNext \/ FindNothing \/ FindBest \/ GetBlockData
           \/ ShrinkNothing \/ Split \/ Cut
           \/ MergeNext \/ MergePrev \/ DefragEnd
           \/ FreeNothing \/ FreeBlock
           \/ ReallocBegins
           \/ ExpandAppends \/ ExpandFits \/ ExpandMoves
           \/ MoveNothing \/ Move
           \/ Failed
           \/ \E mark \in BOOLEAN : Done(mark)

Next == Client \/ Routine

\* A routine runs to its end: it waits for nothing.
Spec == Init /\ [][Next]_vars /\ WF_vars(Routine)

(***************************************************************************)
(* Properties. Those of the passing run speak of behaviours up to the      *)
(* first corruption, the last two of every behaviour.                      *)
(***************************************************************************)
\* Every variable has its type, and no block is larger than the region.
TypeOK == /\ mem \in [Addr -> Cell]
          /\ todo \in Seq(Call)
          /\ ret \in Addr \cup {Null}
          /\ live \in [Addr -> [size : Sizes \cup {0}, tag : Tags \cup {NoTag},
                               kept : Sizes \cup {0}]]
          /\ blocks \subseteq Addr
          /\ corrupt \in BOOLEAN
          /\ Sound => \A b \in blocks : mem[b].size =< Cells

\* Between calls the blocks of the list tile the region: the list starts at
\* its first cell, and a block ends where the next one of the list begins or,
\* for the last one, at the end of the region (the merges of free,
\* shrink_block and expand_block keep it so, the one backwards excepted).
BlocksTile ==
    Idle /\ Sound /\ IS_VALID(First) =>
        /\ First \in blocks
        /\ \A b \in blocks :
              /\ IS_VALID(b) /\ mem[b].size >= H
              /\ \/ Next_(b) = Null /\ b + mem[b].size = End
                 \/ Next_(b) \in blocks /\ b + mem[b].size = Next_(b)
        /\ \A b \in blocks \ {First} : \E c \in blocks : Next_(c) = b

\* Between calls the blocks in use are those that callers own, and each has
\* room for the size that was asked for: no block is lost, given away while
\* in use, or cut short (malloc, realloc and free; the failing ones too).
BlocksAreOwned ==
    Idle /\ Sound =>
        /\ {b \in blocks : ~ IS_FREE(b)} = {a - H : a \in Owned}
        /\ \A a \in Owned : mem[a - H].size >= H + live[a].size

\* What a caller wrote stays as it is until the caller frees it or cuts it
\* off, through splits and merges around it, growth in place, moves and
\* failed calls (the memmove and the headers of heap.c).
Holds(a) == \A i \in 0..(live[a].kept - 1) : mem[a + i].tag = live[a].tag

ContentsKept == Idle /\ Sound => \A a \in Owned : Holds(a)

\* Every call comes to its end: the walk of find_best_fit and the loops of
\* defrag_blocks and expand_block meet no cycle.
CallsReturn == ~ Idle ~> Idle \/ corrupt

\* Callers see ranges that stay apart and change only by their own calls; a
\* call that fails leaves the caller what it had (malloc, realloc, free).
RangeOf(t) == LET at == {a \in Addr : live[a].tag = t}
              IN  IF at = {} THEN << >>
                  ELSE LET a == CHOOSE a \in at : TRUE IN <<a, live[a].size>>

Ranges == INSTANCE Allocator WITH Region <- First..Cells,
                                  Owners <- Tags,
                                  owned <- [t \in Tags |-> RangeOf(t)]

ImplementsAllocator == Ranges!Spec

\* A merge adds up blocks that lie side by side: no free block reaches into
\* another one ("Merge free block preceding current block", heap.c:276).
BlocksApart ==
    \A b, c \in blocks : b < c /\ IS_FREE(b) /\ IS_VALID(c) => b + mem[b].size <= c

\* A move writes to the new block and to nothing else: the headers of the list
\* stay as they are ("Copy old block data to new block", heap.c:180).
CopyKeepsHeaders ==
    [][At("move") => \A b \in blocks : mem'[b] = mem[b] /\ mem'[b + 1] = mem[b + 1]]_vars
=============================================================================
