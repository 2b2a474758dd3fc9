------------------------------ MODULE MCMemory ------------------------------
(***************************************************************************)
(* Memory with tables of two entries, so that a full table is two pages    *)
(* away. The pages 8-15 are below one P4 entry, 16-23 below the next,      *)
(* which holds the kernel (20-22) and the first page of its stack, and the *)
(* stack goes on below a third. Client pages 8 and 9 fill a P1 table, 16   *)
(* shares the kernel's P3 table, 27 shares the P2 table of the stack, and  *)
(* page 4 is in the lower half of the address space. The machine has 0 to  *)
(* 11 frames above the kernel, fewer than the stack and all client pages   *)
(* and their tables take: memory runs out at every point.                  *)
(***************************************************************************)
EXTENDS Memory

MCClientPages == {4, 8, 9, 16, 27}
MCPage == MCClientPages \cup 20..30
MCCodePages == {21}
MCMaps == {[i \in 1..n |-> 7 + i] : n \in 0..11}

\* Callers that ask for executable kernel pages, and all callers.
MCRequests == {[exec |-> TRUE, write |-> w, user |-> FALSE] : w \in BOOLEAN}
MCAllRequests == Request
=============================================================================
