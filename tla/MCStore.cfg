SPECIFICATION Spec
CONSTANTS
  Fingerprints = {f1, f2}
  Handlers = {h1, h2}
  Maintenance = m
  None = none
  PoolSize = 2
  ResolveAfter = 1
  MaxTime = 3
  MaxLag = 1
  MaxCount = 2
CONSTRAINT OneGroupOrOneHandler
INVARIANTS
  CommitsSeeTheTruth
  EachChangeToldOnce
  LastSeenTrails
PROPERTIES
  NoFreshAutoResolve
  ImplementsLifecycle
SYMMETRY Symmetry
