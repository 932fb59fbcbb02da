SPECIFICATION FairSpec
CONSTANTS
  a = a
  b = b
  c = c
  d = d
  k1 = k1
  k2 = k2
  Calls = {a, b}
  Rows = {1, 2, 3, 4, 5, 6, 7, 8}
  Keys = {k1, k2}
  RowsOf <- Fours
  KeysOf <- KeysOfRows
  BatchSize = 1
  TickerEnabled = TRUE
  QueueDepth = 4
  Cancellable = {}
  CloseCancellable = FALSE
  CloseOverlaps = FALSE
  LosesReplies = FALSE
  MaxFailures = 2
PROPERTY AtCapRefuses
