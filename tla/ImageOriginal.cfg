SPECIFICATION Spec
CONSTANTS
    NumParts = 2
    Kind <- AllCached
    OutPaths = {"", "new"}
    MaxVols = 2
    MaxWrites = 2
PROPERTY
    OriginalUntouched
