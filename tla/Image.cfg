SPECIFICATION Spec
CONSTANTS
    NumParts = 3
    Kind <- OneOfEach
    OutPaths = {"", "new"}
    MaxVols = 3
    MaxWrites = 2
INVARIANTS
    NothingLost
    DetachFlushesRecorded
