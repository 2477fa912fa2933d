--------------------------- MODULE QosAdaptation ----------------------------
(***************************************************************************)
(* GenericSubscriptionManager::adapt_qos (ros2/src/generic_subscription_   *)
(* manager.cpp): the QoS of a new ROS 2 subscription, from the QoS that    *)
(* the publishers discovered so far offer.  One step per publisher, with   *)
(* the arithmetic of size_t.                                               *)
(***************************************************************************)
EXTENDS Integers, Sequences, SequencesExt, FiniteSetsExt

CONSTANTS
  Depths,          \* history depths that publishers report, 0 if unknown
  kFallbackDepth,
  min_qos_depth,
  max_qos_depth,
  SizeModulus,     \* size_t holds the numbers below it
  MaxPublishers    \* bound: publishers of the topic

ASSUME DepthsAssumption   == Depths \subseteq 0 .. SizeModulus - 1
ASSUME ModulusAssumption  == SizeModulus \in Nat
ASSUME FallbackAssumption == kFallbackDepth \in 0 .. SizeModulus - 1
ASSUME MinMaxAssumption   == /\ min_qos_depth \in Nat /\ max_qos_depth \in 0 .. SizeModulus - 1
                             /\ min_qos_depth <= max_qos_depth

Profiles == [reliability : {"reliable", "best_effort"}, durability : {"volatile", "transient_local"},
             depth : Depths]

VARIABLES
  publishers,      \* the profiles, in the order they are listed
  i,               \* publishers seen
  any_best_effort,
  all_transient_local,
  total_depth,
  qos,
  done             \* adapt_qos has returned qos

vars == <<publishers, i, any_best_effort, all_transient_local, total_depth, qos, done>>

Init ==
  /\ publishers \in BoundedSeq(Profiles, MaxPublishers)
  /\ i = 0
  /\ any_best_effort = FALSE
  /\ all_transient_local = TRUE
  /\ total_depth = 0
  /\ qos = [reliability |-> "reliable", durability |-> "volatile", depth |-> kFallbackDepth]
  /\ done = FALSE

-----------------------------------------------------------------------------
SmallerOf(a, b) == IF a < b THEN a ELSE b
LargerOf(a, b)  == IF a > b THEN a ELSE b

(* Without publishers: the default QoS.                                    *)
NoPublishers ==
  /\ publishers = <<>>
  /\ ~ done /\ done' = TRUE
  /\ qos' = [qos EXCEPT !.depth = SmallerOf(kFallbackDepth, max_qos_depth)]
  /\ UNCHANGED <<publishers, i, any_best_effort, all_transient_local, total_depth>>

publisher_depth(p) == IF p.depth > 0 THEN p.depth ELSE kFallbackDepth

(* Faulty: the sum may wrap. *)
AddDepthWrapping(total, depth) == (total + depth) % SizeModulus

(* A contribution is capped at the headroom that is left.                  *)
AddDepth(total, depth) ==
  LET headroom == (max_qos_depth - total) % SizeModulus
  IN  (total + SmallerOf(depth, headroom)) % SizeModulus

Examine ==
  /\ i < Len(publishers)
  /\ LET p == publishers[i + 1]
     IN  /\ any_best_effort' = (any_best_effort \/ p.reliability = "best_effort")
         /\ all_transient_local' = (all_transient_local /\ p.durability = "transient_local")
         /\ total_depth' = AddDepth(total_depth, publisher_depth(p))
  /\ i' = i + 1
  /\ UNCHANGED <<publishers, qos, done>>

(* Faulty: transient local if any publisher offers it. *)
DecideAnyTransientLocal ==
  /\ i = Len(publishers) /\ i > 0
  /\ ~ done /\ done' = TRUE
  /\ qos' = [reliability |-> IF any_best_effort THEN "best_effort" ELSE "reliable",
             durability  |-> IF \E k \in 1..i : publishers[k].durability = "transient_local"
                             THEN "transient_local" ELSE "volatile",
             depth       |-> LargerOf(min_qos_depth, SmallerOf(total_depth, max_qos_depth))]
  /\ UNCHANGED <<publishers, i, any_best_effort, all_transient_local, total_depth>>

Decide ==
  /\ i = Len(publishers) /\ i > 0
  /\ ~ done /\ done' = TRUE
  /\ qos' = [reliability |-> IF any_best_effort THEN "best_effort" ELSE "reliable",
             durability  |-> IF all_transient_local THEN "transient_local" ELSE "volatile",
             depth       |-> LargerOf(min_qos_depth, SmallerOf(total_depth, max_qos_depth))]
  /\ UNCHANGED <<publishers, i, any_best_effort, all_transient_local, total_depth>>

Next == NoPublishers \/ Examine \/ Decide

Spec == Init /\ [][Next]_vars

-----------------------------------------------------------------------------
(* Properties.                                                             *)

(* Types: every number adapt_qos computes is a size_t.                     *)
TypeOK ==
  /\ publishers \in Seq(Profiles)
  /\ i \in 0..Len(publishers)
  /\ any_best_effort \in BOOLEAN
  /\ all_transient_local \in BOOLEAN
  /\ total_depth \in 0 .. SizeModulus - 1
  /\ qos \in [reliability : {"reliable", "best_effort"}, durability : {"volatile", "transient_local"},
              depth : 0 .. SizeModulus - 1]
  /\ done \in BOOLEAN

(* adapt_qos: "total_depth <= max_qos_depth_ is a loop invariant", on      *)
(* which it depends that the addition never wraps.                         *)
TotalDepthBounded == total_depth <= max_qos_depth

(* DDS matches a subscription with a publisher that offers at least what   *)
(* it requests.                                                            *)
Matches(request, offer) ==
  /\ request.reliability = "reliable" => offer.reliability = "reliable"
  /\ request.durability = "transient_local" => offer.durability = "transient_local"

(* adapt_qos: "Match the QoS the publishers actually offer": the new       *)
(* subscription hears every publisher that was found.                      *)
HearsEveryPublisher ==
  done => \A k \in 1..Len(publishers) : Matches(qos, publishers[k])

(* No QoS that requests more would hear them all: reliability and the      *)
(* samples of latched topics are not given away.  Where no publisher was   *)
(* found yet, adapt_qos requests VOLATILE: a publisher that comes later is *)
(* heard, its latched samples from before are not, and nothing is said.    *)
NothingGivenAway ==
  (done /\ publishers # <<>>) =>
    /\ qos.reliability = "best_effort" =>
         \E k \in 1..Len(publishers) : publishers[k].reliability = "best_effort"
    /\ qos.durability = "volatile" =>
         \E k \in 1..Len(publishers) : publishers[k].durability = "volatile"

(* Both: if any publisher was found, then of the QoS that hear every one   *)
(* of them adapt_qos returns the one that requests most.                   *)
QosIsExact == HearsEveryPublisher /\ NothingGivenAway

(* docs/API.md: the depth is the sum of the publishers' depths, an unknown *)
(* one counting kFallbackDepth, clamped to the configured range, for every *)
(* number of publishers and any depths.                                    *)
DepthIsClampedSum ==
  (done /\ publishers # <<>>) =>
    qos.depth =
      LET sum == FoldLeft(LAMBDA acc, p : acc + (IF p.depth = 0 THEN kFallbackDepth ELSE p.depth),
                          0, publishers)
      IN  Max({min_qos_depth, Min({sum, max_qos_depth})})
=============================================================================
