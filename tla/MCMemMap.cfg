SPECIFICATION Spec
CONSTANTS
    PageBytes = 2
    KernelTop = 4
    MemoryMaps <- MCMemoryMaps
INVARIANTS
    TypeOK
    FramesDistinct
    FramesAvailable
PROPERTY
    WalkEnds
CHECK_DEADLOCK FALSE
