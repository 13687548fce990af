CONSTANTS
  None = None
  alice = alice
  ip1 = ip1
  ip2 = ip2
  Callers <- MCCallers
  MaxRequests = 2
  WindowMs = 1000
  Steps = {500}
  MaxTime = 4000
  MaxGrants = 3
SPECIFICATION Spec
INVARIANTS TypeOK WindowBound PromiseKept FootprintBound
PROPERTY ImplementsSlidingWindow
CHECK_DEADLOCK FALSE
