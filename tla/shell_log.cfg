SPECIFICATION Spec
CONSTANTS
  Dirs <- MCDirs
  shell_home <- MCHome
  LogSize = 3
  Programs <- MCPrograms
  Lines <- MCLines
  Beginnings <- MCBeginnings
  MaxDeaths = 2
  ls = ls
INVARIANTS PromptTellsDirectory RevealsAgain
PROPERTIES ReplaysTheOneAsked ImplementsHistory
CHECK_DEADLOCK FALSE
