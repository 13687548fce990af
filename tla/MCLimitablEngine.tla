-------------------------- MODULE MCLimitablEngine --------------------------
(* One user in two tenants: two limit keys that share a workflow key.      *)
EXTENDS LimitablEngine, TLC

CONSTANTS alice, t1, t2, w1, r1, r2

MCCallers ==
  { [tenantId |-> t, sub |-> alice, orgId |-> None, ip |-> None] : t \in {t1, t2} }

MCRequests == {r1, r2}

MCWorkflowIds == {w1}

MCConfigs == { {"rateLimit", "budget", "agentGuard"}, {"agentGuard"},
               {"budget"} }

MCCosts == {1, 2}

RequestsAreAlike == Permutations(MCRequests)
=============================================================================
