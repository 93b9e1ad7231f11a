SPECIFICATION Spec
CONSTANTS
  Base = 3
  PackSize = 2
  ReadSize = 5
  Bodies <- MCBodies
  MaxSent = 3
INVARIANTS ReceivedAsSent NothingHeldBack
CHECK_DEADLOCK FALSE
