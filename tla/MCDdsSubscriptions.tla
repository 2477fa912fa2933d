------------------------- MODULE MCDdsSubscriptions -------------------------
(* Two domains, so that a topic can be discovered twice, and an entity     *)
(* name more than there are topics, so that a new subscription can meet    *)
(* one that is being closed.                                               *)
EXTENDS DdsSubscriptions

CONSTANTS d1, d2, e1, e2, e3, t1, t2, w1, w2
=============================================================================
