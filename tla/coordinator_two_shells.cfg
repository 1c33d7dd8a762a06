SPECIFICATION Spec
CONSTANTS
  Shells = {s1, s2}
  Workspace = ws
  MaxEventId = 6
  MaxRevision = 0
  MaxGeneration = 1
  OutputBound = 3
  MaxCrashes = 0
  LocalCreates = FALSE
INVARIANTS
  CapacityReserved
  PublishedOnce
  RunOrder
CHECK_DEADLOCK FALSE
