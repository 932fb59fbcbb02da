SPECIFICATION Spec
CONSTANTS
  a = a
  b = b
  c = c
  d = d
  k1 = k1
  k2 = k2
  Calls = {a, b, c}
  Rows = {1, 2, 3, 4, 5, 6, 7, 8, 9, 10}
  Keys = {k1, k2}
  RowsOf <- BigAndSmall
  KeysOf <- KeysOfRows
  BatchSize = 2
  TickerEnabled = TRUE
  QueueDepth = 4
  Cancellable = {}
  CloseCancellable = FALSE
  CloseOverlaps = FALSE
  LosesReplies = FALSE
  MaxFailures = 0
INVARIANT FullMeansLeftover
