SPECIFICATION LiveSpec
CONSTANTS
  MaxPids = 3
  NoPid = NoPid
  ShellPid = ShellPid
  JobsMax = 2
  Names = {1, 2}
  Commands = {"start", "run", "pipe", "fg", "fg_last", "bg", "ping", "activities", "eof"}
  MayStop = {"program"}
  MaxLines = 4
  MaxKeys = 2
INVARIANTS TableExact RunningJobsRun
PROPERTY PromptAgain
CHECK_DEADLOCK FALSE
