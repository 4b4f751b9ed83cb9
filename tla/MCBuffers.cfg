SPECIFICATION Spec
CONSTANTS
  Rows = 3
  Cols = 3
  ClusterTail = 2
  Modes <- Sessions
  MaxOps = 5
  Chars <- CellChars
  Payloads <- CellColors
  FlagInputs <- CellFlags
  MaxSteps = 3
  PaneRows = 2
  Halves = 2
  Bottom = 1
  Masks <- Asked
  MaxActs = 5
INVARIANTS PairsAreWhole CellsAreTold FramesArrive AttributesAreIndependent InputIsTold SplitsAreUnseen ReaderIsTold
PROPERTY PointerIsFollowed
CHECK_DEADLOCK FALSE
