SPECIFICATION HeartSpec
CONSTANTS
  s1 = s1
  c1 = c1
  Socks <- MCSocks
  Conns <- MCConns
  BucketOf <- MCBucketOf
  Buckets = 2
  Beat = 5
  Idle = 1
  Delay = 1
INVARIANTS
  OnlySilentClosed
  SilentIsClosed
  AnsweredStaysOpen
CHECK_DEADLOCK FALSE
