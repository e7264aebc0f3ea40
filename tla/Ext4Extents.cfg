SPECIFICATION FileSpec
CONSTANTS
    NumGroups = 2
    BlocksPerGroup = 6
    InodesPerGroup = 1
    UsedDirsMod = 2
    MaxInline = 2
    LeafMax = 3
    MaxLog = 7
    MaxBack = 2
    MaxOthers = 3
    MaxTwice = 1
    UsedBlocks <- MCUsedBlocks
    UsedInodes <- MCUsedInodes
INVARIANTS
    TypeOK
    ExclusiveOwners
    GroupCountsExact
    SuperblockCountsExact
    FullIsFull
    ReadsBack
