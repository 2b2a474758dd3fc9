SPECIFICATION Spec
CONSTANTS
    Entries = 2
    Page <- MCPage
    LowerHalfEnd = 8
    KernelBase = 20
    KernelPages = 3
    CodePages <- MCCodePages
    ClientPages <- MCClientPages
    Requests <- MCAllRequests
    FrameLimit = 100
    Maps <- MCMaps
INVARIANT
    ExecKept
CHECK_DEADLOCK FALSE
