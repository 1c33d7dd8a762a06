SPECIFICATION Spec
CONSTANTS
  Clients = {c1, c2}
  Queue = 1
  MaxGuests = 1
  MaxRequests = 3
  MaxOutput = 2
  None = none
INVARIANTS Contiguous NoCircularWait DisplacedIsSilent QuietAtHandoff PauseHolds PauseEnds
SYMMETRY Interchangeable
VIEW View
CHECK_DEADLOCK FALSE
