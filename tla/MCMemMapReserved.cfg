SPECIFICATION Spec
CONSTANTS
    PageBytes = 2
    KernelTop = 4
    MemoryMaps <- MCKernelFirst
INVARIANT
    ReservedUnused
CHECK_DEADLOCK FALSE
