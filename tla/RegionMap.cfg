SPECIFICATION Spec
CONSTANTS
    SectorSize = 2
    Inputs <- MCInputs
INVARIANTS
    TypeOK
    CopiesEveryByte
    Tiling
