SPECIFICATION Spec
CONSTANTS
  Migrators = {m1, m2}
  Apps = {a1}
  Rows = {ra}
  Latest = 3
  OldVersion = 1
  NoOne = nobody
  MaxTries = 1
  MaxCrashes = 0
  MaxFailures = 0
  MaxMistakes = 0
INVARIANT AckedRowsSurvive
CHECK_DEADLOCK FALSE
