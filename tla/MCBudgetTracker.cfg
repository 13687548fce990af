CONSTANTS
  None = None
  Undefined = Undefined
  NaN = NaN
  Infinity = Infinity
  alice = alice
  ip1 = ip1
  Callers <- MCCallers
  Costs <- MCCosts
  Estimates <- MCEstimates
  MaxSpend = 3
  PeriodMs = 20
  Steps = {10}
  MaxTime = 30
  MaxRecords = 2
SPECIFICATION Spec
INVARIANTS TypeOK FootprintBound
PROPERTIES NoRefund ImplementsLedger
CHECK_DEADLOCK FALSE
