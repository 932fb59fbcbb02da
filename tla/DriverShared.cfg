SPECIFICATION Spec
CONSTANTS
  e1 = e1
  e2 = e2
  k1 = k1
  k2 = k2
  k3 = k3
  Exporters = {e1, e2}
  Keys = {k1, k2, k3}
  attrColumn <- CollidingNames
  Batches <- KeySets
  HasDatabase = TRUE
  MaxFaults = 2
  MaxStarts = 3
SYMMETRY AnyExporter
INVARIANTS
  KnownKeysSearchable
  ConnectionsBalanced
  NeverRejected
PROPERTY ImplementsSchemaStore
