CONSTANTS
  g1 = g1
  g2 = g2
  None = None
  Gateways = {g1, g2}
  Strategies = {"fixed", "log", "token", "leaky", "semaphore"}
  Limit = 1
  Period = 3
  Rate = 1
  Scale = 2
  MaxLag = 1
  MaxTime = 5
  MaxCalls = 4
  MaxFailures = 1
SYMMETRY Symmetry
SPECIFICATION Spec
INVARIANTS TypeOK GrantsBounded StuckOnlyIfFailed
CHECK_DEADLOCK FALSE
