SPECIFICATION FairSpec
CONSTANTS
    FinalityDepth = 2
    ChunkSize = 2
    NodeLag = 1
    MaxBlocks = 4
    MaxReorgs = 2
    MaxFaults = 1
INVARIANTS JournalSound FinalizedCanonical
PROPERTIES CatchesUp
