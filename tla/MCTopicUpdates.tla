--------------------------- MODULE MCTopicUpdates ---------------------------
(* One topic that is whitelisted and one that is not; two types, one of    *)
(* them without a definition.                                              *)
EXTENDS TopicUpdates

CONSTANTS c1, c2, t1, t2, a, b
=============================================================================
