SPECIFICATION Spec
CONSTANTS
  None = None
  Occurrences = {o1}
  Texts <- MCTexts
  Settings <- MCSettings
  Default = 3
  Hours <- MCHours
  Second = 2
  Hour = 2
  Word = 16
  MaxAge = 7
  Ahead = {0, 1}
  MaxFlight = 1
  MaxRestarts = 1
  Bodies <- MCBodies
  MaxReports = 2
  MaxText = 2
  MaxFrames = 2
  MaxValues = 1
  Levels = {"fatal", "error", "info"}
  Stamps = {"s1", "s2"}
  Characters <- MCCharacters
CHECK_DEADLOCK FALSE
INVARIANTS
  AnswerIsTrue
  GroupsMatchRows
PROPERTIES
  RequestAnswered
  OnlyOldDeleted
  OldGoes
