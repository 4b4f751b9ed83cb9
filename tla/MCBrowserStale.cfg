SPECIFICATION Spec
CONSTANTS
  Buffers <- SearchBuffers
  MaxUser = 2
  Rows = 2
  MaxWrites = 3
  MaxMoves = 3
  MaxSteps = 5
  MaxChanges = 2
  Keys = {"mono", "serif"}
  Densities = {1, 2}
  MaxGrids = 2
  MaxLosses = 2
  MaxActs = 5
  Prefills <- ImePrefills
  MaxKeystrokes = 4
INVARIANT CountIsOfTheLastSet
CHECK_DEADLOCK FALSE
