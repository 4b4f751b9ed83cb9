SPECIFICATION Spec
CONSTANTS
    Rows = 3
    Cols = 2
    Limit = 3
    MaxCount = 2
    MaxOps = 5
INVARIANT
    MirrorIsFaithful
PROPERTY
    FrozenViewIsStill
CHECK_DEADLOCK FALSE
