SPECIFICATION Spec
CONSTANTS
    SectorSize = 512
    DiskSizes <- MCDiskSizes
    Sizes <- MCSizes
    MaxParts = 4
    NumEntries = 3
    OpensUncommitted = FALSE
INVARIANTS
    TypeOK
    CommittedDisjoint
    TableSurvives
PROPERTY
    CommittedNeverMoves
