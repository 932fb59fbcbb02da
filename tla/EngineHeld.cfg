SPECIFICATION RetrySpec
CONSTANTS
  a = a
  b = b
  c = c
  s0 = s0
  s1 = s1
  s2 = s2
  TraceIDs = {a, b, c}
  SpanIDs = {s0, s1, s2}
  NoSpanID = s0
  Kinds = {"ok", "error"}
  KeepKinds = {"error"}
  Raws = {"payload"}
  Batches <- QuietBatches
  DecisionWait = 1
  MaxTraces = 2
  MaxSpansPerTrace = 0
  MaxGen = 2
  MaxTime = 2
PROPERTY HeldEventuallyForwarded
