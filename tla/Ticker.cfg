SPECIFICATION FairSpec
CONSTANTS
  s1 = s1
  s2 = s2
  s3 = s3
  Closers = {s1, s2, s3}
  Overlapping = FALSE
  MaxStarts = 3
CHECK_DEADLOCK FALSE
INVARIANTS
  RunningIsOwned
  NeverPanics
PROPERTY ShutdownEnds
