CONSTANTS
  None = None
  Undefined = Undefined
  NaN = NaN
  Infinity = Infinity
  w1 = w1
  w2 = w2
  Workflows <- MCWorkflows
  Costs <- MCCosts
  MaxToolCalls = 2
  MaxWorkflowCost = 2
  MaxDurationMs = 2
  Steps = {1, 2}
  MaxTime = 8
  MaxCounted = 2
SPECIFICATION Spec
INVARIANT ExpiredStaysDenied
