SPECIFICATION Spec
CONSTANTS
  Screens <- ModeScreens
  Counts = {2}
  Places = {0, 1}
  TabWidth = 2
  KittyCap = 1
  MaxOps = 4
INVARIANTS CursorIsSound EveryLineGetsItsPaint CopyIsTheHighlight SearchFindsTheText
PROPERTIES AltIsTransparent ResizeKeepsAll PaintedAsTold
CHECK_DEADLOCK FALSE
