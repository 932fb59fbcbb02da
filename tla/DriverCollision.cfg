SPECIFICATION Spec
CONSTANTS
  e1 = e1
  e2 = e2
  k1 = k1
  k2 = k2
  k3 = k3
  Exporters = {e1, e2}
  Keys = {k1, k2}
  attrColumn <- CollidingNames
  Batches <- BothKeys
  HasDatabase = TRUE
  MaxFaults = 0
  MaxStarts = 1
INVARIANT KnownKeysOwnColumns
