SPECIFICATION CoFairSpec
CONSTANTS
  NoJob = NoJob
  Dangling = Dangling
  Tasks = {t1, t2, t3}
  Routines = {r1}
  DefaultCap = 1
  RingCap = 2
  VecCap = 1
  MaxWaits = 3
  Addresses = {1, 2, 3}
INVARIANTS CoroutinesAccounted QueuedOnce
PROPERTIES KeepsSchedule WokenRuns
CHECK_DEADLOCK FALSE
