SPECIFICATION FairSpec
CONSTANTS
  Fingerprints = {f1, f2}
  Cooldown = 2
  Digest = 1
  Attempts = 2
  MaxTime = 4
  MaxWorkers = 2
INVARIANTS
  TimerServesBuffer
  CooldownRemembered
  NothingOwedAfterClose
PROPERTIES
  ImplementsMailer
  CloseCompletes
  NotificationsSettle
CHECK_DEADLOCK FALSE
