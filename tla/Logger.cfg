SPECIFICATION LoggerSpec
CONSTANTS
  NodeCnt = 3
  NodeSize = 3
  Sizes <- MCSizes
  MaxCalls = 4
  LineSize = 2
  Longest = 1
  LineHead <- MCHead
  Level = 1
  Statements <- MCStatements
  RollSize = 2
  NameRoom = 2
  MaxDays = 1
  MaxRuns = 2
  MaxFaults = 1
  MaxLater = 1
INVARIANTS WrittenInOrder NothingLost LogsKept
PROPERTIES WrittenUndisturbed Flushed
CHECK_DEADLOCK FALSE
