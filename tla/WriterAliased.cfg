SPECIFICATION Spec
CONSTANTS
  a = a
  b = b
  c = c
  d = d
  k1 = k1
  k2 = k2
  Calls = {a, b, c, d}
  Rows = {1, 2, 3, 4, 5}
  Keys = {k1, k2}
  RowsOf <- PairAndOnes
  KeysOf <- KeysOfRows
  BatchSize = 3
  TickerEnabled = TRUE
  QueueDepth = 4
  Cancellable = {}
  CloseCancellable = FALSE
  CloseOverlaps = TRUE
  LosesReplies = FALSE
  MaxFailures = 0
INVARIANT AcceptedKept
