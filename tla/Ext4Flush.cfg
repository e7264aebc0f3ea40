SPECIFICATION FairSpec
CONSTANTS
    MetaBlocks <- MCMetaBlocks
    TableBlock = 2
    DataBlocks <- MCDataBlocks
    InodeCells <- MCInodeCells
    MaxUpdates = 3
    UsedAfterFailure = FALSE
INVARIANT
PROPERTIES
    ImplementsWriteBack
    UnmountReturns
