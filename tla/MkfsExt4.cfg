SPECIFICATION Spec
CONSTANTS
    Inputs <- MCInputs
INVARIANTS
    FormatsWhatFits
    UsedExactly
    OpensConsistent
    SparseBackups
CHECK_DEADLOCK FALSE
