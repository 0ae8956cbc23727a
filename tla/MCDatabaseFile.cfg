SPECIFICATION FairSpec
CONSTANTS
  Restorers = {r1}
  Servers = {s1, s2}
  Inputs <- FewInputs
  None = none
  MaxMishaps = 2
INVARIANTS
  RestoreIsSound
  OpenIsComplete
PROPERTIES
  NeverReplaced
  UpgradesComplete
