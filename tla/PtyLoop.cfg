SPECIFICATION Spec
CONSTANTS
    MaxOut = 2
    Queries = {1}
    PipeCap = 1
    MaxWrites = 1
    MaxEdits = 1
    Decodes = TRUE
    ReadFails = TRUE
INVARIANTS
    TypeOK
    InputInOrder
    OutputArrives
    SinkIsCurrent
PROPERTY
    ExitIsFinal
