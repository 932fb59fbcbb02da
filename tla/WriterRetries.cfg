SPECIFICATION Spec
CONSTANTS
  a = a
  b = b
  c = c
  d = d
  k1 = k1
  k2 = k2
  Calls = {a, b, c}
  Rows = {1, 2, 3, 4, 5, 6}
  Keys = {k1, k2}
  RowsOf <- FourAndOnes
  KeysOf <- KeysOfRows
  BatchSize = 1
  TickerEnabled = TRUE
  QueueDepth = 1
  Cancellable = {b}
  CloseCancellable = TRUE
  CloseOverlaps = FALSE
  LosesReplies = FALSE
  MaxFailures = 2
INVARIANTS
  TypeOK
  StoredOnce
  AllOrNothing
  FullMeansRefused
PROPERTIES
  ColumnsBeforeRows
  ImplementsRowStore
