SPECIFICATION FairSpec
CONSTANTS
  Dials = {d1, d2}
  Waits = {d2}
  Peers = {d1, d2}
  NoPeer = NoPeer
  Sessions = {s1, s2, s3}
  NoSession = NoSession
  MaxFaults = 1
  Backlog = 1
INVARIANTS
  OneSessionEach
  ListenerArmed
  NoticesInOrder
PROPERTIES
  DialAnswered
  ConnectedIsServed
CHECK_DEADLOCK FALSE
