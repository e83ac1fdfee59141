SPECIFICATION Spec
CONSTANTS
    NumSegs = 2
    BlocksPerSeg = 2
    SectorsPerBlock = 2
    BkSize = 1
    WearLimit = 2
    Vals = {v1, v2}
    Blank = Blank
INVARIANT CheckpointWhole
