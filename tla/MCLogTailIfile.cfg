SPECIFICATION Spec
CONSTANTS
    NumSegs = 5
    BksPerSeg = 3
    MinAvail = 3
    WearLimit = 2
    f1 = f1
    f2 = f2
    Files = {f1}
    IFILE = IFILE
    IfBlks = {0}
    IfBlkOf <- MCOneBlock
    Vals = {v1}
    Blank = Blank
    Null = Null
    Garbage = Garbage
INVARIANT TailNotOnLiveIfile
