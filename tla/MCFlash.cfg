SPECIFICATION FairSpec
CONSTANTS
    NumSegs = 3
    BlocksPerSeg = 2
    SectorsPerBlock = 2
    BkSize = 1
    WearLimit = 2
    Vals = {v1}
    Blank = Blank
INVARIANTS
    TypeOK
    FirstBlockWearsMost
PROPERTIES
    OnlyErasedWritten
    ImplementsSegmentFlash
    RewriteLands
