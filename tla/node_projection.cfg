SPECIFICATION Spec
CONSTANTS
  Nodes = {n1}
  Targets = {t1}
  Operations = {}
  Editors = {e1}
  Upgraders = {u1}
  NoOne = none
  MaxRevision = 2
  MaxTombstone = 1
  MaxEpoch = 1
  MaxRestarts = 1
  MaxGeneration = 3
  MaxEvents = 2
INVARIANTS NotifiedOnce
PROPERTIES NothingCrosses DismissedStaysHidden
CHECK_DEADLOCK FALSE
