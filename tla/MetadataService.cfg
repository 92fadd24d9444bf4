CONSTANTS
  Ids = {i1}
  EmptyId = e
  Values = {v1, v2}
  Replicas = {r1, r2}
  Callers = {c1, c2}
  None = None
SPECIFICATION Spec
INVARIANTS TypeOK CacheCoherent AckedIsStored SeenIsStored ReadYourWrites
PROPERTY ImplementsWriteOnceStore
SYMMETRY Symmetric
