SPECIFICATION Spec
CONSTANTS
    BS = 3
    NDirect = 2
    NIndirect = 1
    Bytes = {0, 1, 2, 3, 4, 5, 6, 7, 8}
    Free = Free
    ISize = 2
    ModeAt = 1
    NumInodes = 5
    Images <- MCImages
CONSTRAINT NoGap
INVARIANTS
    TypeOK
    NamedStored
PROPERTY ImplementsInodeTable
