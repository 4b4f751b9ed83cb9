SPECIFICATION Spec
CONSTANTS
  Ids = {0}
  Lines = {0, 1}
  Totals = {0, 1}
  Epochs = {0, 1}
  MaxFeeds = 3
  MaxFrames = 1
  MaxRefusals = 1
  MaxTroubles = 1
INVARIANT AnswersAreTrue
PROPERTY Settles
