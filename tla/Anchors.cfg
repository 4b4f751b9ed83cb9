SPECIFICATION Spec
CONSTANTS
  MaxRows = 3
  Limit = 1
  MaxMarkers = 2
  MaxHolders = 2
  MaxCount = 60
VIEW Undated
INVARIANT HoldersFollow
PROPERTY KeepsTheFeed
