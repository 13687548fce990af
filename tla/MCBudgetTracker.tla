--------------------------- MODULE MCBudgetTracker ---------------------------
(* A signed-in user and an address of its own.  Costs and estimates take  *)
(* in a refund, an infinite cost and a NaN.                                *)
EXTENDS BudgetTracker

CONSTANTS alice, ip1

MCCallers ==
  { [tenantId |-> None, sub |-> alice, orgId |-> None, ip |-> ip1],
    [tenantId |-> None, sub |-> None,  orgId |-> None, ip |-> ip1] }

MCCosts == {-1, 2, Infinity}

MCEstimates == {Undefined, 2, NaN}
==============================================================================
