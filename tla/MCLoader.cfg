SPECIFICATION Spec
CONSTANTS
    Volumes <- MCVolumes
    Entries <- MCEntries
    BlockSize = 2
    Direct = 2
    Pointers = 3
    Segment = 2
    Signed = 3
    CountSize = 8
    Room = 4
    Hole = Hole
    Junk = Junk
    Zero = Zero
INVARIANTS
    TypeOK
    FileLoaded
    NeverAstray
    ImageRight
    MapHandedOver
PROPERTIES
    BootEnds
CHECK_DEADLOCK FALSE
