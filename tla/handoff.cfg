SPECIFICATION FairSpec
CONSTANTS
  Shells = {s1, s2}
  StartedCreates = {s2}
  MaxOutput = 2
  MaxAttempts = 2
  FinalTimeout = FALSE
INVARIANTS
  AtMostOneOwner
  NeverOrphaned
  OneReader
  NothingLost
PROPERTIES
  RestartEnds
  OutputIsRead
CHECK_DEADLOCK FALSE
