SPECIFICATION FairSpec
CONSTANTS
  Fingerprints = {f1}
  Handlers = {h1, h2}
  None = none
  MaxOwed = 2
  MaxChanges = 2
  MaxTime = 2
INVARIANTS
  SummariesNameTheHeardOf
  DatabaseClosesLast
  DropsOnlyOverstayed
  SilencedNotLetThrough
PROPERTIES
  SilencesEndOnlyOnRequest
  ShutdownCompletes
