SPECIFICATION Spec
CONSTANTS
    Entries = 2
    Page <- MCPage
    LowerHalfEnd = 8
    KernelBase = 20
    KernelPages = 3
    CodePages <- MCCodePages
    ClientPages <- MCClientPages
    Requests <- MCRequests
    FrameLimit = 100
    Maps <- MCMaps
INVARIANTS
    TypeOK
    FramesExclusive
    CountsExact
    NoOrphans
    StackIsMapped
    FramesKept
    NoEmptyTables
    WriteHonoured
PROPERTIES
    InitializeReturns
    ImplementsAddressSpace
CHECK_DEADLOCK FALSE
