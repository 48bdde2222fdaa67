SPECIFICATION Spec
CONSTANTS
  up1 = up1
  down1 = down1
  name = name
  NoTask = NoTask
  Task <- MCTask
  Download <- MCDownload
  Name <- MCName
  MaxDepth = 1
  MaxTicks = 1
  MaxRetries = 0
  MaxRequests = 2
PROPERTIES
  DialogActsOnItsEntry
