------------------------------ MODULE MCLoader ------------------------------
(***************************************************************************)
(* Two direct pointers and three in a block of them, segments of two       *)
(* blocks: a kernel of three blocks uses both kinds and crosses a border,  *)
(* one of five is the longest the reader loads, one of eight counts none.  *)
(* A loader of five blocks is one too long for stage 2; a directory of     *)
(* seven has the size of one. Sizes are in half blocks.                    *)
(***************************************************************************)
EXTENDS Loader

\* Inode i, of n blocks and a size that fills the last of them or half of it.
Whole(i, n, size) == [size |-> size, ptrs |-> [k \in 1..n |-> <<i, k - 1>>]]

Name(n, i, b) == [name |-> n, ino |-> i, blk |-> b]

\* A kernel of n blocks at inode i, its last block followed by .bss in memory.
Plain(i, n) ==
    [log |-> 0, magic |-> TRUE, ipg |-> 8, ipb |-> 2,
     inodes |-> [j \in {Root, 3, i} |->
                    CASE j = Root -> Whole(Root, 1, 2)
                      [] j = 3    -> Whole(3, 1, 1)
                      [] OTHER    -> Whole(i, n, 2 * n - 1)],
     dir  |-> <<Name("other", 5, 0), Name("loader", 3, 0), Name("kernel", i, 0)>>,
     segs |-> <<[off |-> 0, filesz |-> 1, memsz |-> 1],
                [off |-> n - 1, filesz |-> 1, memsz |-> 2]>>]

WithHole(k) == [Plain(4, 5) EXCEPT !.inodes[4].ptrs[k] = Hole]

LongDir(n, b) == [Plain(4, 3) EXCEPT !.inodes[Root] = Whole(Root, n, 2 * n),
                                      !.dir[3].blk = b]

MCVolumes ==
    {Plain(4, n) : n \in 1..6 \cup {8, 9}}                  \* 6: cut off
        \cup {Plain(10, 2)}                                \* in the second group
        \cup {WithHole(k) : k \in {1, 2, 4}}
        \cup {[Plain(4, 4) EXCEPT !.inodes[4].ptrs[3] = Hole, !.inodes[4].ptrs[4] = Hole],
              [Plain(4, 1) EXCEPT !.inodes[4].size = 0],
              [Plain(4, 3) EXCEPT !.inodes[3] = Whole(3, 4, 8)],
              [Plain(4, 3) EXCEPT !.inodes[3] = Whole(3, 5, 10)],
              [Plain(4, 3) EXCEPT !.inodes[3] = Whole(3, 6, 12)],
              [Plain(4, 2) EXCEPT !.log = 1, !.inodes[4].size = 7],
              [Plain(4, 2) EXCEPT !.magic = FALSE],
              [Plain(4, 2) EXCEPT !.dir[1] = Name("kernel", 0, 0)],  \* deleted
              [Plain(4, 2) EXCEPT !.dir[3].name = "other"],
              LongDir(2, 1), LongDir(3, 2), LongDir(3, 0),
              LongDir(7, 0), LongDir(7, 1),
              [LongDir(2, 1) EXCEPT !.inodes[Root].ptrs[2] = Hole]}

MCEntries == <<"low", "hole", "high">>
=============================================================================
