SPECIFICATION ProcessorSpec
CONSTANTS
  a = a
  b = b
  c1 = c1
  c2 = c2
  c3 = c3
  TraceIDs = {a, b}
  SpanIDs = {0, 1, 2, 3, 4}
  NoSpanID = 0
  SignBit = 8
  MsInNs = 1
  Lower <- LowerCase
  Kinds <- AllKinds
  KeepKinds <- PolicyKinds
  Raws <- SnapshotRaws
  Batches <- Conversions
  Deliveries <- OverlappingDeliveries
  DecisionWait = 1
  MaxTraces = 0
  MaxSpansPerTrace = 0
  Overlapping = FALSE
  MaxGen = 2
  MaxTime = 2
  Calls = {c1, c2}
INVARIANT ForwardedAsCounted
