---------------------------- MODULE MCRateLimiter ----------------------------
(* Two sessions of one signed-in user behind different addresses, and an   *)
(* unauthenticated caller keyed by its address.                            *)
EXTENDS RateLimiter

CONSTANTS alice, ip1, ip2

MCCallers ==
  { [tenantId |-> None, sub |-> alice, orgId |-> None, ip |-> ip1],
    [tenantId |-> None, sub |-> alice, orgId |-> None, ip |-> ip2],
    [tenantId |-> None, sub |-> None,  orgId |-> None, ip |-> ip2] }
==============================================================================
