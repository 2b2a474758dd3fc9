SPECIFICATION Spec
CONSTANTS
    Strings = {s1, s2}
    None = None
    Char = {"a", "b"}
    Junk = Junk
    Nul = Nul
    Literals <- MCLiterals
    Counts = {0, 2}
    SizeMax = 100
    MaxLen = 2
    Unknown = Unknown
SYMMETRY Symmetry
INVARIANTS
    TypeOK
    TextKept
    OverrunExplained
    EndInBuffer
CHECK_DEADLOCK FALSE
