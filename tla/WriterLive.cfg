SPECIFICATION FairSpec
CONSTANTS
  a = a
  b = b
  c = c
  d = d
  k1 = k1
  k2 = k2
  Calls = {a, b}
  Rows = {1, 2, 3, 4, 5, 6, 7, 8, 9}
  Keys = {k1, k2}
  RowsOf <- EightAndOne
  KeysOf <- KeysOfRows
  BatchSize = 2
  TickerEnabled = TRUE
  QueueDepth = 1
  Cancellable = {}
  CloseCancellable = FALSE
  CloseOverlaps = TRUE
  LosesReplies = TRUE
  MaxFailures = 1
INVARIANTS
  NeverPanics
  CloseNilMeansDrained
PROPERTIES
  KeptUnlessShared
  WriteReturns
  CloseReturns
  BufferedEventuallyStored
