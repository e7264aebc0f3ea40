SPECIFICATION Spec
CONSTANTS
    NumClusters = 5
    n1 = n1
    n2 = n2
    n3 = n3
    Names = {n1, n2, n3}
    LongNames = {n3}
    Slots = 3
    FixedRoot = FALSE
    MaxSize = 2
    MaxHandles = 2
    Callers <- MCCallers
SYMMETRY NameSymmetry
INVARIANTS
    NoCrossLink
    ChainsCoverSize
PROPERTIES
    OthersUntouched
