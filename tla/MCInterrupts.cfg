SPECIFICATION Spec
CONSTANTS
    c1 = c1
    c2 = c2
    c3 = c3
    None = None
    Callbacks <- MCCallbacks
    Buffers <- MCBuffers
    Lines <- MCLines
    Hooked <- MCHooked
    Fit <- MCFit
    MaxAdds <- MCMaxAdds
    MaxCap = 4
    MaxAsked = 3
INVARIANTS
    TypeOK
    OnlyOwnLineInService
    RegistryKept
    OnlyRegisteredCalled
PROPERTIES
    NobodyMissed
    RequestsServed
CHECK_DEADLOCK FALSE
