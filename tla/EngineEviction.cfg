SPECIFICATION Spec
CONSTANTS
  a = a
  b = b
  c = c
  s0 = s0
  s1 = s1
  s2 = s2
  TraceIDs = {a, b, c}
  SpanIDs = {s0, s1, s2}
  NoSpanID = s0
  Kinds = {"ok", "error"}
  KeepKinds = {"error"}
  Raws = {"payload"}
  Batches <- LateErrorBatches
  DecisionWait = 1
  MaxTraces = 2
  MaxSpansPerTrace = 0
  MaxGen = 3
  MaxTime = 2
INVARIANT KeepWorthyNeverDropped
