SPECIFICATION Spec
CONSTANTS
    Rows = 3
    Cols = 2
    Limit = 1
    MaxCount = 1
    MaxOps = 3
INVARIANT
    ScrolledFrameIsFaithful
CHECK_DEADLOCK FALSE
