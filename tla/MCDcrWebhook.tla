---------------------------- MODULE MCDcrWebhook ----------------------------
(* Two clients and deliveries that name them, name none of them, or carry  *)
(* something else; two handlers at once and a repeated delivery.           *)
EXTENDS DcrWebhook, TLC

CONSTANTS c1, c2, s1, s2

MCClients == {c1, c2}

MCSlots == {s1, s2}

MCBatches == { <<c1>>, <<c1, c2>>, <<Other, Unnamed, c2>>, <<Other>> }

MCSettings == { {"secret", "mgmt", "grants"}, {"secret", "mgmt"}, {"secret"}, {} }

(* A slot is a place for a handler to run in; no code tells them apart.     *)
SlotsAreAlike == Permutations(MCSlots)
=============================================================================
