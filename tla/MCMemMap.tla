------------------------------ MODULE MCMemMap ------------------------------
(***************************************************************************)
(* MemMap with pages of two bytes and a kernel that ends at byte 4. The    *)
(* maps are all those of two regions, in any order and overlapping, and    *)
(* all those of three adjacent regions.                                    *)
(***************************************************************************)
EXTENDS MemMap

Region(b, s, t) == [base |-> b, size |-> s, type |-> t]

LastEntry == Region(0, 0, 0)

Regions == {Region(b, s, t) : b \in 0..7, s \in 0..5, t \in 1..2}

Pairs == {<<r, q, LastEntry>> : r, q \in Regions}

Adjacent ==
    {<<Region(b, s1, t1), Region(b + s1, s2, t2), Region(b + s1 + s2, s3, t3),
       LastEntry>> :
        b \in 0..1, s1, s2, s3 \in 0..6, t1, t2, t3 \in 1..2}

MCMemoryMaps == Pairs \cup Adjacent

\* The kernel in the first region, which is available and starts at 0.
MCKernelFirst == {m \in Adjacent : /\ m[1].base = 0 /\ m[1].size >= KernelTop
                                   /\ m[1].type = MAP_AVAILABLE}
=============================================================================
