SPECIFICATION Spec
CONSTANTS
    BS = 2
    NDirect = 3
    NIndirect = 1
    Bytes = {0, 1}
    MaxLen = 4
    Free = Free
INVARIANT TypeOK
PROPERTY ImplementsByteFile
VIEW InodeView
