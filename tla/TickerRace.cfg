SPECIFICATION Spec
CONSTANTS
  s1 = s1
  s2 = s2
  s3 = s3
  Closers = {s1, s2}
  Overlapping = TRUE
  MaxStarts = 2
CHECK_DEADLOCK FALSE
INVARIANT StopClearedAfterExit
