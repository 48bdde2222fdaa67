SPECIFICATION SessionSpec
CONSTANTS
  up1 = up1
  down1 = down1
  name = name
  NoTask = NoTask
  Task <- MCTask
  Download <- MCDownload
  Name <- MCName
  MaxDepth = 1
  MaxTicks = 1
  MaxRetries = 1
  MaxSubmits = 4
  Extents <- MCExtents
  MaxRequests = 1
INVARIANTS
  SessionTypeOK
  CompletedShowsItsOwn
  OneTransferAtATime
  NoTaskForgotten
  EntriesAreOfCurrentPath
  SpinnerAwaitsListing
  ConnectedMeansOnline
  ConnectionHasExplorer
  StatusFollowsTransfer
PROPERTIES
  EveryTaskIsSettled
CHECK_DEADLOCK FALSE
