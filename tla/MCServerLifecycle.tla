------------------------- MODULE MCServerLifecycle -------------------------
(* Two connections: one can be in its callback while the other opens.      *)
EXTENDS ServerLifecycle

CONSTANTS c1, c2
=============================================================================
