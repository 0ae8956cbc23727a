SPECIFICATION Spec
CONSTANTS
  None = None
  Groups = {1, 2, 3}
  Queries <- MCQuerySet
  MaxTime = 2
  MaxCount = 2
  MaxLag = 1
  Metrics = {m1, m2}
  Budget = 5
  WaitDelay = 1
  Deadline = 10
  MaxLocal = 3
  Urls <- MCUrls
  BadUrls <- MCBadUrls
  Addresses = {"a", "0.0.0.0:8300"}
  Wildcard = "0.0.0.0:8300"
  Files = {"f"}
CHECK_DEADLOCK FALSE
INVARIANTS
  ReadsAreCoherent
  AnsweredInFull
  TargetsAreMeant
PROPERTIES
  CorrelationEnds
