SPECIFICATION Spec
CONSTANTS
    n1 = n1
    n2 = n2
    n3 = n3
    Names = {n1, n2, n3}
    Third = n3
    NumClusters = 6
    MaxRec = 16
    BlockCap = 1
    MaxRuns = 1
    Contents <- MCContents
    MaxHandles = 2
    Callers <- MCCallers
SYMMETRY NameSymmetry
INVARIANTS
    NoSharedCluster
    NamesResolve
    CleanMeansSaved
PROPERTIES
    OthersUntouched
    WriteFileStores
