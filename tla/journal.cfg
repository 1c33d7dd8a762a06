SPECIFICATION Spec
CONSTANTS
  Shells = {s1, s2}
  MaxRun = 2
  MaxRecords = 4
  MaxCrashes = 2
INVARIANTS
  AckedSurvives
  RefusedStaysOut
  BuildsOnKept
CHECK_DEADLOCK FALSE
