SPECIFICATION Spec
CONSTANTS
  Fingerprints = {f1, f2}
  Cooldown = 2
  Digest = 0
  Attempts = 2
  MaxTime = 5
  MaxWorkers = 3
INVARIANTS
  MarkedWasMailed
PROPERTIES
  MailsSpaced
  QuietAfterClose
SYMMETRY Symmetry
CHECK_DEADLOCK FALSE
