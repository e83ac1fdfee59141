SPECIFICATION Spec
CONSTANTS
    BS = 5
    NDirect = 2
    NIndirect = 1
    Bytes = {0, 1, 2, 3, 4, 5, 6, 7, 8}
    Free = Free
    ISize = 3
    ModeAt = 1
    NumInodes = 5
    Images <- MCImages
PROPERTY FlushLands
