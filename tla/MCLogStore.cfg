SPECIFICATION Spec
CONSTANTS
    NumSegs = 4
    BksPerSeg = 3
    MinAvail = 2
    WearLimit = 3
    f1 = f1
    f2 = f2
    Files = {f1, f2}
    IFILE = IFILE
    IfBlks = {0, 1}
    IfBlkOf <- MCTwoBlocks
    Vals = {v1, v2}
    Blank = Blank
    Null = Null
    Garbage = Garbage
CONSTRAINT StillPromised
PROPERTY ImplementsStore
SYMMETRY AnyValue
