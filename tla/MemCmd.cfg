SPECIFICATION FairSpec
CONSTANTS
    Chunk = 3
    GsMax = 2
    Quad = 2
    MemSize = 7
    FileLen = 4
    RegSet = 2
    Offsets <- MCOffsets
    Sizes <- MCSizes
    GsSizes <- MCGsSizes
    MaxCmds = 2
    MaxFds = 2
    MaxLinks = 2
INVARIANTS TypeOK ChunkInside TransferExact OthersUntouched LeakOnlyOnFailure
PROPERTIES OutsideUntouched CommandEnds
CHECK_DEADLOCK FALSE
