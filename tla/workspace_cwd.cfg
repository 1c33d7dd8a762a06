SPECIFICATION MoveSpec
CONSTANTS
  Workspaces = {}
  Nodes = {home}
  Home = home
  Creates = {c1}
  Projects = {p1, p2}
  Moves = {m1}
  Foreign = {}
  Closers = {k1}
  Cwds = {d1, d2}
  Cwd0 = d1
  None = none
  Gone = gone
  MaxEvents = 2
INVARIANTS MoveAccounted  ClosingIsQuiet MirrorHonest
SYMMETRY Interchangeable
CHECK_DEADLOCK FALSE
