SPECIFICATION FairSpec
CONSTANTS
  Shells = {s1}
  Workspace = ws
  MaxEventId = 5
  MaxRevision = 0
  MaxGeneration = 1
  OutputBound = 2
  MaxCrashes = 0
  LocalCreates = FALSE
PROPERTIES QueuedIsPublished OperationEnds
CHECK_DEADLOCK FALSE
