SPECIFICATION RegistrationSpec
CONSTANTS
  Nodes = {n1}
  Targets = {t1, t2}
  Operations = {o1, o2}
  Editors = {e1, e2}
  Upgraders = {u1, u2}
  NoOne = none
  MaxRevision = 3
  MaxTombstone = 1
  MaxEpoch = 2
  MaxRestarts = 1
INVARIANTS RouteDrained UpgradeExclusive
PROPERTIES LeaseKept
SYMMETRY Interchangeable
CHECK_DEADLOCK FALSE
