SPECIFICATION Spec
CONSTANTS
  Clients = {c1}
  MaxCalls = 3
  MaxConns = 4
INVARIANTS OkMeansDealt OneOutstanding
CHECK_DEADLOCK FALSE
