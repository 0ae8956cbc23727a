SPECIFICATION Spec
CONSTANTS
  Fingerprints = {f1}
  Handlers = {h1, h2}
  Maintenance = m
  None = none
  PoolSize = 2
  ResolveAfter = 1
  MaxTime = 3
  MaxLag = 1
  MaxCount = 2
INVARIANTS
  LastSeenIsLatestOccurrence
SYMMETRY Symmetry
