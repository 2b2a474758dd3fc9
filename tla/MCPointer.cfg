SPECIFICATION Spec
CONSTANTS
    p1 = p1
    p2 = p2
    p3 = p3
    d1 = d1
    d2 = d2
    r1 = r1
    r2 = r2
    r3 = r3
    r4 = r4
    Nil = Nil
    Gone = Gone
    Pointers <- MCPointers
    Objects <- MCObjects
    Refs <- MCRefs
SYMMETRY Symmetry
INVARIANTS
    TypeOK
    CountsHolders
    HeldIsAlive
    DeletedWithLastHolder
CHECK_DEADLOCK FALSE
