SPECIFICATION Spec
CONSTANTS
    Cells = 10
    Sizes <- MCSizes
    t1 = t1
    t2 = t2
    t3 = t3
    NoTag = NoTag
    Tags <- MCTags
INVARIANTS
    TypeOK
    BlocksTile
    BlocksAreOwned
    ContentsKept
PROPERTIES
    CallsReturn
    ImplementsAllocator
CHECK_DEADLOCK FALSE
