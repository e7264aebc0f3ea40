SPECIFICATION Spec
CONSTANTS
    n1 = 1
    n2 = 2
    Names = {1, 2, 3}
    InlineMax = 1
    MaxLen = 3
    MaxFollow = 2
    MaxHandles = 2
    MaxAddr = 16
    Callers <- MCCallers
INVARIANTS
    ContentsRead
    LinksCoverNames
PROPERTIES
    OthersUntouched
    ReopenFaithful
