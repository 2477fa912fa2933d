-------------------------- MODULE MCRos2Subscribe --------------------------
(* Numbers of four bits: two publishers of depth 9, or one of 15 and any   *)
(* other, add up to more than a number can hold.  A message has up to two  *)
(* fields of message types, the header one.  Any type graph meets one      *)
(* publisher, any publishers meet one type graph: the two parts share no   *)
(* state but their order.                                                  *)
EXTENDS Ros2Subscribe

CONSTANTS a, b, bad

MCContents == [t \in Types |-> IF t = Header THEN BoundedSeq(Types, 1) ELSE BoundedSeq(Types, 2)]
MCInit ==
  /\ \/ publishers = <<[reliability |-> "reliable", durability |-> "volatile", depth |-> 1]>>
     \/ files = [t \in Types |-> <<>>]
  /\ Ros2Init
MCSpec == MCInit /\ [][Ros2Next]_ros2Vars
=============================================================================
