SPECIFICATION Spec
CONSTANTS
    AgCount = 2
    AgBlocks = 6
    Files = {2, 3}
    MaxLen = 6
    MaxHandles = 2
    Callers <- MCCallers
INVARIANTS
    
    
    NoSharedBlock
