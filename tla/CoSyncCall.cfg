SPECIFICATION FairSpec
CONSTANTS
  MaxCalls = 2
  MaxConns = 3
  MaySilent = TRUE
INVARIANTS OneWakeUp OkMeansReplied
PROPERTY AnsweredCallReturns
CHECK_DEADLOCK FALSE
