SPECIFICATION Spec
CONSTANTS
    NumGroups = 1
    BlocksPerGroup = 5
    InodesPerGroup = 5
    UsedDirsMod = 65536
    n1 = n1
    n2 = n2
    Names = {n1, n2}
    DirCap = 3
    MaxBlk = 3
    MaxFollow = 3
    MaxHandles = 2
    Callers <- MCCallers
SYMMETRY NameSymmetry
INVARIANTS
    NoSharedBlock
    LinksCoverNames
PROPERTIES
    OthersUntouched
    WriteFileStores
