---------------------------- MODULE MCAgentGuard ----------------------------
(* Two workflow ids, that a client may rotate, and costs among which are a *)
(* refund and a NaN.                                                       *)
EXTENDS AgentGuard

CONSTANTS w1, w2

MCWorkflows == {w1, w2}

MCCosts == {-1, 1, NaN}
==============================================================================
