SPECIFICATION Spec
CONSTANTS
  Shells = {s1}
  Workspace = ws
  MaxEventId = 5
  MaxRevision = 1
  MaxGeneration = 2
  OutputBound = 2
  MaxCrashes = 1
  LocalCreates = TRUE
INVARIANTS
  PersistBeforePublish
  QueueReleased
  PublishedCut
PROPERTIES ImplementsLedger
CHECK_DEADLOCK FALSE
