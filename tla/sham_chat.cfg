SPECIFICATION LiveSpec
CONSTANTS
  Scripts <- MCScripts
  FilesOpen = FALSE
  Piped = TRUE
  MaxLost = 1
  MaxLate = 1
INVARIANTS LastWords OneLinePerFin
PROPERTIES QuitEndsClient WaitsAreAnswered
CHECK_DEADLOCK FALSE
