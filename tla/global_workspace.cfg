SPECIFICATION Spec
CONSTANTS
  Workspaces = {g1}
  Nodes = {home, away}
  Home = home
  Creates = {c1}
  Projects = {p1}
  Moves = {}
  Foreign = {}
  Closers = {k1}
  Cwds = {d1, d2}
  Cwd0 = d1
  None = none
  Gone = gone
  MaxEvents = 2
INVARIANTS NothingOrphaned OwnerShared LinkedOnce
PROPERTIES ClosedIsGone
SYMMETRY Interchangeable
CHECK_DEADLOCK FALSE
