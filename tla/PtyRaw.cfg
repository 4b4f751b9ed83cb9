SPECIFICATION Spec
CONSTANTS
    Os = {"linux", "macos", "windows"}
    MaxOut = 3
    PipeCap = 2
    MaxResumes = 2
INVARIANT
    NothingLost
PROPERTIES
    SessionsEnd
