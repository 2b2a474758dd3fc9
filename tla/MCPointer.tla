------------------------------ MODULE MCPointer ------------------------------
(***************************************************************************)
(* Three Pointers: two that share an object and one to assign from or to.  *)
(* Two objects, and a counter for each Pointer and a temporary.            *)
(***************************************************************************)
EXTENDS Pointer, TLC

CONSTANTS p1, p2, p3, d1, d2, r1, r2, r3, r4

MCPointers == {p1, p2, p3}
MCObjects == {d1, d2}
MCRefs == {r1, r2, r3, r4}

\* Nothing tells one Pointer, object or counter from another.
Symmetry == Permutations(MCPointers) \cup Permutations(MCObjects) \cup Permutations(MCRefs)
=============================================================================
