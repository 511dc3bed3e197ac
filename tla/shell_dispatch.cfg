SPECIFICATION Spec
CONSTANTS
  ArrayMax = 4
  MaxTokens = 4
  Lines <- MCLines
  LaterLines <- MCLaterLines
  MaxDispatches = 3
  MaxChildren = 2
INVARIANTS ParsesGrammar InTheOrderTyped JobNamesWhatRuns EachOnce ReplaysEndFirst
CHECK_DEADLOCK FALSE
