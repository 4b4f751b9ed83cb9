SPECIFICATION Spec
CONSTANTS
    MaxOut = 1
    Queries = {1}
    PipeCap = 1
    MaxWrites = 0
    MaxEdits = 1
    Decodes = FALSE
    ReadFails = TRUE
PROPERTIES
    SessionsEnd
