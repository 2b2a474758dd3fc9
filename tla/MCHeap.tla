------------------------------- MODULE MCHeap -------------------------------
(***************************************************************************)
(* A heap of ten cells: three blocks of one cell of data leave one over, a *)
(* block of three cells leaves room for one more, and a block cut from     *)
(* three cells to one leaves a block that is a header and nothing else.    *)
(***************************************************************************)
EXTENDS Heap

CONSTANTS t1, t2, t3

MCTags == {t1, t2, t3}
MCSizes == {1, 3}

\* A block that grows by one cell and finds no room to do so.
MCCopySizes == {1, 2}
=============================================================================
