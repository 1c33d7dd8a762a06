SPECIFICATION FairSpec
CONSTANTS
  Shells = {s1, s2}
  MaxHistory = 2
INVARIANTS
  EligibleOutsideWindows
PROPERTIES
  HistorySaved
