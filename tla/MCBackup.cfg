SPECIFICATION FairSpec
CONSTANTS
  Requests = {r1, r2}
  Connections = 2
  PageCount = 2
  None = none
  Bad = bad
  Foreign = foreign
  MaxVersion = 1
INVARIANTS
  SlotMatchesWork
  SavedIsSnapshot
PROPERTIES
  ImplementsSnapshot
  SlotFreed
