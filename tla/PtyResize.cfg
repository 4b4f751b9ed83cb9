SPECIFICATION ResizeSpec
CONSTANTS
    Callers = {c1, c2}
    Sizes = {1, 2, 3}
    MinSize = 2
    MaxCalls = 4
    Buffered = 1
    CloseWaits = FALSE
INVARIANT
    ChildIsTold
PROPERTIES
    SignalsAreDue
    NobodyHangs
CHECK_DEADLOCK FALSE
