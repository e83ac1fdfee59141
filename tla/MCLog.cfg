SPECIFICATION Spec
CONSTANTS
    NumSegs = 5
    BksPerSeg = 3
    MinAvail = 4
    WearLimit = 2
    f1 = f1
    f2 = f2
    Files = {f1, f2}
    IFILE = IFILE
    IfBlks = {0}
    IfBlkOf <- MCOneBlock
    Vals = {v1}
    Blank = Blank
    Null = Null
    Garbage = Garbage
CONSTRAINT ToEndOfSession
SYMMETRY AnyFile
INVARIANTS
    TypeOK
    TailSegmentLoaded
    DataInv
    LiveDataIntact
    CheckpointedDataIntact
    IfileIntactBeforeWrap
    CheckpointedIfileIntactBeforeWrap
    IfileInv
