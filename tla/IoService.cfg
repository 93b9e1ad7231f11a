SPECIFICATION FairSpec
CONSTANTS
  Threads = {t1, t2}
  Sockets = {s1, s2}
  Handles = {h1, h2, h3}
  None = None
INVARIANT OneRequest
PROPERTIES StartAndStopReturn CloseServed
CHECK_DEADLOCK FALSE
