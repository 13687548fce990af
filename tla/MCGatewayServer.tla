--------------------------- MODULE MCGatewayServer ---------------------------
(* Two requests at once, of two users of whom one is entitled.             *)
EXTENDS GatewayServer

CONSTANTS r1, r2, alice, bob

MCRequests == {r1, r2}

MCUsers == {alice, bob}

MCEntitled == {alice}
==============================================================================
