SPECIFICATION Spec
CONSTANTS
  Commands = {c1, c2}
  Fingerprints <- MCFingerprints
  FullLength = 2
  Orphans <- MCOrphans
  Invocations <- MCInvocations
  None = None
  MaxEras = 2
CONSTRAINT OneCommandOrOneEra
SYMMETRY Symmetry
INVARIANTS
  OutcomeTold
  RefusalsAreTrue
  OneTarget
