--------------------------- MODULE MCBridgeServer ---------------------------
(* BridgeServer for TLC. *)
EXTENDS BridgeServer, TLC

CONSTANTS c1, c2, t1, t2

TwoClients == {c1, c2}
OneTopic   == {t1}
TwoTopics  == {t1, t2}

(* Clients are interchangeable, and so are topics (both whitelisted). *)
Symmetry == Permutations(Clients) \cup Permutations(Topics)
=============================================================================
