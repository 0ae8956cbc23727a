SPECIFICATION Spec
CONSTANTS
  Restorers = {r1}
  Servers = {s1}
  Inputs <- MCInputs
  None = none
  MaxMishaps = 0
INVARIANTS
  MissingColumnsMigrated
