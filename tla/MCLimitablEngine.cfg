CONSTANTS
  None = None
  Undefined = Undefined
  NaN = NaN
  Infinity = Infinity
  alice = alice
  t1 = t1
  t2 = t2
  w1 = w1
  r1 = r1
  r2 = r2
  Callers <- MCCallers
  Requests <- MCRequests
  WorkflowIds <- MCWorkflowIds
  Configs <- MCConfigs
  Costs <- MCCosts
  HighestCost = 2
  MaxRequests = 2
  WindowMs = 2
  MaxSpend = 1
  PeriodMs = 3
  MaxToolCalls = 1
  MaxWorkflowCost = 2
  MaxDurationMs = 2
  Steps = {1}
  MaxTime = 3
  MaxRecorded = 5
SPECIFICATION Spec
SYMMETRY RequestsAreAlike
INVARIANTS TypeOK GuardOvershoot BudgetOvershoot RunawayRate
