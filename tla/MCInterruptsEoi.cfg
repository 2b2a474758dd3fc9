SPECIFICATION Spec
CONSTANTS
    c1 = c1
    c2 = c2
    c3 = c3
    None = None
    Hooked <- EoiHooked
    Callbacks <- EoiCallbacks
    Fit <- EoiCallbacks
    MaxAdds <- EoiCallbacks
    Buffers <- MCBuffers
    Lines <- EoiLines
    MaxCap = 4
    MaxAsked = 3
PROPERTIES
    IrqsServed
CHECK_DEADLOCK FALSE
