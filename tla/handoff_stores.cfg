SPECIFICATION StoresSpec
CONSTANTS
  Shells = {s1, s2, s3}
  MaxAttempts = 2
  FinalTimeout = TRUE
INVARIANTS
  AckedDurable
CHECK_DEADLOCK FALSE
