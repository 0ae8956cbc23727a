SPECIFICATION Spec
CONSTANTS
  Fingerprints = {f1}
  Handlers = {h1, h2}
  None = none
  MaxOwed = 1
  MaxChanges = 2
  MaxTime = 1
PROPERTIES
  SilencingSuppressesMails
