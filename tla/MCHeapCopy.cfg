SPECIFICATION Spec
CONSTANTS
    Cells = 12
    Sizes <- MCCopySizes
    t1 = t1
    t2 = t2
    t3 = t3
    NoTag = NoTag
    Tags <- MCTags
PROPERTY CopyKeepsHeaders
CHECK_DEADLOCK FALSE
