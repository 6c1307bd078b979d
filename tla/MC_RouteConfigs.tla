--------------------------- MODULE MC_RouteConfigs ---------------------------
(* Model-checking instance of RouteConfigs: two concurrent clients, one    *)
(* ordinary route name beside the default gateway route, two payloads.    *)
EXTENDS RouteConfigs, TLC

CONSTANTS c1, c2, r1, gw, p1, p2

MCClients == {c1, c2}
MCNames == {r1, gw}
MCConfigs == {p1, p2}

\* Clients are interchangeable: no property names a particular client.
ClientSymmetry == Permutations(MCClients)
=============================================================================
