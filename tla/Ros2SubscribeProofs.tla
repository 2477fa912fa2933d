------------------------ MODULE Ros2SubscribeProofs -------------------------
(***************************************************************************)
(* The ROS 2 backend on the way to a subscription.                         *)
(*                                                                         *)
(* adapt_qos is proved for every number of publishers, all depths and      *)
(* every width of size_t; the inductive invariant says what the two flags  *)
(* and the sum mean for the publishers seen so far.  The composition keeps *)
(* what its parts promise: every behaviour of Ros2Subscribe is one of      *)
(* QosAdaptation and one of SchemaExtractor, and the schema comes before   *)
(* the subscription.  The definitions it hands out are complete for any    *)
(* graph of types: the invariant of the search says what has been visited  *)
(* and what the stack still owes (SearchIsSound).                          *)
(***************************************************************************)
EXTENDS Ros2Subscribe, WellFoundedInduction, TLAPS

-----------------------------------------------------------------------------
(* adapt_qos.                                                              *)

(* What the flags say of the publishers examined so far.                   *)
FlagsAreExact ==
  /\ any_best_effort <=> \E k \in 1..i : publishers[k].reliability = "best_effort"
  /\ all_transient_local <=> \A k \in 1..i : publishers[k].durability = "transient_local"

(* qos keeps its default until adapt_qos decides, and follows the flags of *)
(* all publishers afterwards.                                              *)
ResultFollowsFlags ==
  /\ ~ done => qos.reliability = "reliable" /\ qos.durability = "volatile"
  /\ done => \/ /\ publishers = <<>>
                /\ qos.reliability = "reliable" /\ qos.durability = "volatile"
             \/ /\ publishers # <<>>
                /\ i = Len(publishers)
                /\ qos.reliability = IF any_best_effort THEN "best_effort" ELSE "reliable"
                /\ qos.durability = IF all_transient_local THEN "transient_local" ELSE "volatile"

QosInv == TypeOK /\ TotalDepthBounded /\ FlagsAreExact /\ ResultFollowsFlags

(* A contribution capped at the headroom keeps the sum within              *)
(* max_qos_depth, so neither the subtraction nor the addition wraps.       *)
LEMMA AddDepthExact ==
  ASSUME NEW total \in Nat, total <= max_qos_depth, NEW depth \in Nat
  PROVE  /\ AddDepth(total, depth) = total + SmallerOf(depth, max_qos_depth - total)
         /\ AddDepth(total, depth) \in Nat /\ AddDepth(total, depth) <= max_qos_depth
<1> DEFINE headroom == max_qos_depth - total
           share == SmallerOf(depth, headroom)
<1>1. headroom \in 0 .. SizeModulus - 1
  BY MinMaxAssumption, ModulusAssumption
<1>2. headroom % SizeModulus = headroom
  BY <1>1, ModulusAssumption
<1>3. share \in Nat /\ share <= headroom
  BY <1>1, ModulusAssumption DEF SmallerOf
<1>4. total + share \in 0 .. SizeModulus - 1 /\ total + share <= max_qos_depth
  <2> HIDE DEF share
  <2> QED BY <1>3, MinMaxAssumption, ModulusAssumption DEF headroom
<1>5. (total + share) % SizeModulus = total + share
  <2> HIDE DEF share
  <2> QED BY <1>4, ModulusAssumption
<1>6. AddDepth(total, depth) = total + share
  BY <1>2, <1>5 DEF AddDepth
<1> QED BY <1>4, <1>6, ModulusAssumption

(* What a publisher contributes is a number, also when its depth is 0.     *)
LEMMA DepthsAreNat ==
  ASSUME NEW p \in Profiles
  PROVE  publisher_depth(p) \in Nat
<1>1. p.depth \in Depths
  BY DEF Profiles
<1>2. \A d \in 0 .. SizeModulus - 1 : d \in Nat
  BY ModulusAssumption
<1>3. p.depth \in 0 .. SizeModulus - 1
  BY <1>1, DepthsAssumption
<1>4. p.depth \in Nat /\ kFallbackDepth \in Nat
  BY <1>2, <1>3, FallbackAssumption
<1> QED BY <1>4 DEF publisher_depth

(* adapt_qos starts with flags that hold of no publishers.                 *)
LEMMA QosInit == Init => QosInv
<1> SUFFICES ASSUME Init PROVE QosInv OBVIOUS
<1>1. publishers \in Seq(Profiles)
  <2>1. PICK m \in 0..MaxPublishers : publishers \in [1..m -> Profiles]
    BY DEF Init, BoundedSeq, SeqOf
  <2> QED BY <2>1
<1>2. kFallbackDepth \in 0 .. SizeModulus - 1 /\ max_qos_depth \in Nat /\ 0 \in 0 .. SizeModulus - 1
  BY FallbackAssumption, MinMaxAssumption, ModulusAssumption
<1>3. TypeOK
  <2>1. i \in 0..Len(publishers)
    BY <1>1 DEF Init
  <2>2. total_depth \in 0 .. SizeModulus - 1
    BY <1>2 DEF Init
  <2>3. any_best_effort \in BOOLEAN /\ all_transient_local \in BOOLEAN /\ done \in BOOLEAN
    BY DEF Init
  <2>4. qos \in [reliability : {"reliable", "best_effort"}, durability : {"volatile", "transient_local"},
                 depth : 0 .. SizeModulus - 1]
    BY <1>2 DEF Init
  <2> QED BY <1>1, <2>1, <2>2, <2>3, <2>4 DEF TypeOK
<1>4. TotalDepthBounded
  BY <1>2 DEF Init, TotalDepthBounded
<1>5. FlagsAreExact
  BY DEF Init, FlagsAreExact
<1>6. ResultFollowsFlags
  BY DEF Init, ResultFollowsFlags
<1> QED BY <1>3, <1>4, <1>5, <1>6 DEF QosInv

(* Every step of adapt_qos preserves the invariant.                        *)
LEMMA QosStep == QosInv /\ [Next]_vars => QosInv'
<1> SUFFICES ASSUME QosInv, [Next]_vars PROVE QosInv'
  OBVIOUS
<1>a. /\ publishers \in Seq(Profiles) /\ Len(publishers) \in Nat /\ i \in 0..Len(publishers)
      /\ SizeModulus \in Nat /\ min_qos_depth \in Nat /\ max_qos_depth \in 0 .. SizeModulus - 1
      /\ min_qos_depth <= max_qos_depth /\ kFallbackDepth \in 0 .. SizeModulus - 1
      /\ total_depth \in Nat /\ total_depth <= max_qos_depth
  BY MinMaxAssumption, ModulusAssumption, FallbackAssumption DEF QosInv, TypeOK, TotalDepthBounded
<1>1. CASE NoPublishers
  <2>1. SmallerOf(kFallbackDepth, max_qos_depth) \in 0 .. SizeModulus - 1
    BY <1>a DEF SmallerOf
  <2>2. TypeOK'
    BY <1>1, <2>1 DEF NoPublishers, QosInv, TypeOK
  <2>3. qos'.reliability = "reliable" /\ qos'.durability = "volatile"
    BY <1>1 DEF NoPublishers, QosInv, ResultFollowsFlags, TypeOK
  <2>4. TotalDepthBounded' /\ FlagsAreExact'
    BY <1>1 DEF NoPublishers, QosInv, TotalDepthBounded, FlagsAreExact
  <2>5. ResultFollowsFlags'
    BY <1>1, <2>3 DEF NoPublishers, ResultFollowsFlags
  <2> QED BY <2>2, <2>4, <2>5 DEF QosInv
<1>2. CASE Examine
  <2> DEFINE p == publishers[i + 1]
  <2>1. p \in Profiles /\ i' = i + 1 /\ i' \in 1..Len(publishers) /\ publishers' = publishers
    BY <1>2, <1>a DEF Examine
  <2>2. AddDepth(total_depth, publisher_depth(p)) \in Nat
        /\ AddDepth(total_depth, publisher_depth(p)) <= max_qos_depth
    BY <2>1, <1>a, DepthsAreNat, AddDepthExact
  <2>3. total_depth' \in Nat /\ total_depth' <= max_qos_depth
    BY <1>2, <2>2 DEF Examine
  <2>4. TypeOK'
    <3>1. total_depth' \in 0 .. SizeModulus - 1
      BY <2>3, <1>a
    <3>2. any_best_effort' \in BOOLEAN /\ all_transient_local' \in BOOLEAN
      BY <1>2 DEF Examine
    <3>3. UNCHANGED <<qos, done>>
      BY <1>2 DEF Examine
    <3>4. i' \in 0..Len(publishers')
      BY <2>1, <1>a
    <3> QED BY <2>1, <3>1, <3>2, <3>3, <3>4 DEF QosInv, TypeOK
  <2>5. FlagsAreExact'
    <3>1. 1..i' = (1..i) \cup {i + 1}
      BY <2>1, <1>a
    <3>2. /\ any_best_effort' <=> (any_best_effort \/ p.reliability = "best_effort")
          /\ all_transient_local' <=> (all_transient_local /\ p.durability = "transient_local")
      BY <1>2 DEF Examine
    <3>3. /\ any_best_effort <=> \E k \in 1..i : publishers[k].reliability = "best_effort"
          /\ all_transient_local <=> \A k \in 1..i : publishers[k].durability = "transient_local"
      BY DEF QosInv, FlagsAreExact
    <3>4. any_best_effort' <=> \E k \in 1..i' : publishers'[k].reliability = "best_effort"
      BY <2>1, <3>1, <3>2, <3>3
    <3>5. all_transient_local' <=> \A k \in 1..i' : publishers'[k].durability = "transient_local"
      BY <2>1, <3>1, <3>2, <3>3
    <3> QED BY <3>4, <3>5 DEF FlagsAreExact
  <2>6. ~ done /\ UNCHANGED <<qos, done>>
    <3>1. i # Len(publishers) /\ publishers # <<>>
      BY <1>2, <1>a DEF Examine
    <3> QED BY <1>2, <3>1 DEF Examine, QosInv, ResultFollowsFlags
  <2>7. ResultFollowsFlags'
    BY <2>6 DEF QosInv, ResultFollowsFlags
  <2> QED BY <2>3, <2>4, <2>5, <2>7 DEF QosInv, TotalDepthBounded
<1>3. CASE Decide
  <2>1. LargerOf(min_qos_depth, SmallerOf(total_depth, max_qos_depth)) \in 0 .. SizeModulus - 1
    BY <1>a DEF LargerOf, SmallerOf
  <2>2. TypeOK'
    BY <1>3, <2>1 DEF Decide, QosInv, TypeOK
  <2>3. publishers # <<>>
    BY <1>3, <1>a DEF Decide
  <2>4. TotalDepthBounded' /\ FlagsAreExact'
    BY <1>3 DEF Decide, QosInv, TotalDepthBounded, FlagsAreExact
  <2>5. ResultFollowsFlags'
    BY <1>3, <2>3 DEF Decide, ResultFollowsFlags
  <2> QED BY <2>2, <2>4, <2>5 DEF QosInv
<1>4. CASE UNCHANGED vars
  BY <1>4 DEF vars, QosInv, TypeOK, TotalDepthBounded, FlagsAreExact, ResultFollowsFlags
<1> QED BY <1>1, <1>2, <1>3, <1>4 DEF Next

(* The invariant holds throughout adapt_qos.                               *)
LEMMA QosInvariant == Spec => []QosInv
BY QosInit, QosStep, PTL DEF Spec

(* Every number adapt_qos computes is a size_t.                            *)
THEOREM QosTypeCorrect == Spec => []TypeOK
<1>1. QosInv => TypeOK
  BY DEF QosInv
<1> QED BY <1>1, QosInvariant, PTL

(* The loop invariant stated in adapt_qos: for every number of publishers, *)
(* all depths and every width of size_t, the sum neither passes            *)
(* max_qos_depth_ nor wraps.                                               *)
THEOREM DepthNeverWraps == Spec => []TotalDepthBounded
<1>1. QosInv => TotalDepthBounded
  BY DEF QosInv
<1> QED BY <1>1, QosInvariant, PTL

(* The QoS adapt_qos returns is compatible with every publisher it found.  *)
THEOREM EveryPublisherIsHeard == Spec => []HearsEveryPublisher
<1>1. QosInv => HearsEveryPublisher
  <2> SUFFICES ASSUME QosInv, done, NEW k \in 1..Len(publishers)
               PROVE  Matches(qos, publishers[k])
    BY DEF HearsEveryPublisher
  <2>1. publishers \in Seq(Profiles) /\ publishers # <<>>
    BY DEF QosInv, TypeOK
  <2>2. publishers[k] \in Profiles
    BY <2>1
  <2>3. /\ i = Len(publishers)
        /\ qos.reliability = "reliable" => ~ any_best_effort
        /\ qos.durability = "transient_local" => all_transient_local
    BY <2>1 DEF QosInv, ResultFollowsFlags
  <2>4. qos.reliability = "reliable" => publishers[k].reliability = "reliable"
    BY <2>2, <2>3 DEF QosInv, FlagsAreExact, Profiles
  <2>5. qos.durability = "transient_local" => publishers[k].durability = "transient_local"
    BY <2>2, <2>3 DEF QosInv, FlagsAreExact, Profiles
  <2> QED BY <2>4, <2>5 DEF Matches
<1> QED BY <1>1, QosInvariant, PTL

(* adapt_qos asks for best effort, or forgoes latched samples, only if     *)
(* some publisher makes it necessary.                                      *)
THEOREM NoQosIsGivenAway == Spec => []NothingGivenAway
<1>1. QosInv => NothingGivenAway
  <2> SUFFICES ASSUME QosInv, done, publishers # <<>>
               PROVE  /\ qos.reliability = "best_effort" =>
                           \E k \in 1..Len(publishers) : publishers[k].reliability = "best_effort"
                      /\ qos.durability = "volatile" =>
                           \E k \in 1..Len(publishers) : publishers[k].durability = "volatile"
    BY DEF NothingGivenAway
  <2>1. /\ i = Len(publishers)
        /\ qos.reliability = "best_effort" => any_best_effort
        /\ qos.durability = "volatile" => ~ all_transient_local
    BY DEF QosInv, ResultFollowsFlags
  <2>2. qos.reliability = "best_effort" =>
          \E k \in 1..Len(publishers) : publishers[k].reliability = "best_effort"
    BY <2>1 DEF QosInv, FlagsAreExact
  <2>3. \A k \in 1..Len(publishers) : publishers[k].durability \in {"volatile", "transient_local"}
    <3>1. publishers \in Seq(Profiles)
      BY DEF QosInv, TypeOK
    <3>2. \A k \in 1..Len(publishers) : publishers[k] \in Profiles
      BY <3>1
    <3> QED BY <3>2 DEF Profiles
  <2>4. qos.durability = "volatile" =>
          \E k \in 1..Len(publishers) : publishers[k].durability = "volatile"
    BY <2>1, <2>3 DEF QosInv, FlagsAreExact
  <2> QED BY <2>2, <2>4
<1> QED BY <1>1, QosInvariant, PTL

(* If there is a publisher, adapt_qos returns the most demanding QoS that  *)
(* hears every one.                                                        *)
THEOREM QosExact == Spec => []QosIsExact
<1>1. HearsEveryPublisher /\ NothingGivenAway => QosIsExact
  BY DEF QosIsExact
<1> QED BY <1>1, EveryPublisherIsHeard, NoQosIsGivenAway, PTL

-----------------------------------------------------------------------------
(* What the loop adds up.  The reference sums with a fold, a recursive     *)
(* function over the sets of positions that takes the last position off.   *)

(* Induction over the natural numbers, for a set of them.                  *)
LEMMA NatSetInduction ==
  ASSUME NEW S \in SUBSET Nat, 0 \in S, \A n \in S : n + 1 \in S
  PROVE  S = Nat
<1>. DEFINE R == OpToRel(<, Nat)
            T == Nat \ S
<1>1. R = {ss \in Nat \X Nat : ss[1] < ss[2]}
  BY DEF OpToRel
<1>2. IsWellFoundedOn(R, Nat)
  BY NatLessThanWellFounded
<1>. HIDE DEF R
<1>3. SUFFICES ASSUME T # {} PROVE FALSE
  OBVIOUS
<1>4. PICK x \in T : \A y \in T : ~(<<y, x>> \in R)
  BY <1>2, <1>3, WFMin
<1>5. x \in Nat /\ x # 0 /\ x - 1 \in Nat /\ (x - 1) + 1 = x
  BY <1>4
<1>6. <<x - 1, x>> \in R
  BY <1>1, <1>5
<1>7. x - 1 \in S
  BY <1>4, <1>5, <1>6
<1>. QED  BY <1>4, <1>5, <1>7

(* The largest of the first k numbers in a set.                            *)
LEMMA MaxFacts ==
  ASSUME NEW k \in Nat, NEW s \in SUBSET (1..k), s # {}
  PROVE  /\ Max(s) \in s /\ \A y \in s : y <= Max(s)
         /\ Max(s) \in 1..k
         /\ s \ {Max(s)} \in SUBSET (1..(k - 1))
<1>. DEFINE HasMax(r) == \E x \in r : \A y \in r : x >= y
            N == {n \in Nat : \A r \in SUBSET (1..n) : r # {} => HasMax(r)}
<1>1. 0 \in N
  <2>1. \A r \in SUBSET (1..0) : r = {}
    OBVIOUS
  <2>. QED  BY <2>1
<1>2. ASSUME NEW n \in N PROVE n + 1 \in N
  <2>. SUFFICES ASSUME NEW r \in SUBSET (1..(n + 1)), r # {} PROVE HasMax(r)
    OBVIOUS
  <2>1. CASE n + 1 \in r
    <3>1. \A y \in r : n + 1 >= y
      OBVIOUS
    <3>. QED  BY <2>1, <3>1
  <2>2. CASE n + 1 \notin r
    <3>1. r \in SUBSET (1..n)
      BY <2>2
    <3>. HIDE DEF HasMax
    <3>. QED  BY <3>1
  <2>. QED  BY <2>1, <2>2
<1>3. N = Nat
  <2>. HIDE DEF HasMax
  <2>. QED  BY <1>1, <1>2, NatSetInduction
<1>4. HasMax(s)
  <2>. HIDE DEF HasMax
  <2>. QED  BY <1>3
<1>5. Max(s) \in s /\ \A y \in s : Max(s) >= y
  BY <1>4 DEF Max
<1>. HIDE DEF N, HasMax
<1>6. Max(s) \in 1..k /\ \A y \in s : y <= Max(s)
  BY <1>5
<1>7. ASSUME NEW y \in s, y # Max(s) PROVE y \in 1..(k - 1)
  <2>1. y \in 1..k /\ y <= Max(s)
    BY <1>6
  <2>. QED  BY <1>6, <1>7, <2>1
<1>. QED  BY <1>5, <1>6, <1>7

contribution(p) == IF p.depth = 0 THEN kFallbackDepth ELSE p.depth

(* g sums the contributions of the publishers at every set of positions.   *)
DepthSums(g, ps) ==
  g = [s \in SUBSET DOMAIN ps |->
         IF s = {} THEN 0 ELSE g[s \ {Max(s)}] + contribution(ps[Max(s)])]

(* The recursive function behind the fold exists: the sums over sets of    *)
(* the first n positions make those over the first n + 1.                  *)
LEMMA DepthSumsExist ==
  ASSUME NEW K \in Nat, NEW ps, DOMAIN ps = 1..K
  PROVE  \E g : DepthSums(g, ps)
<1>. DEFINE Rest(g, s) == IF s = {} THEN 0 ELSE g[s \ {Max(s)}] + contribution(ps[Max(s)])
            Sums(n) == \E g : g = [s \in SUBSET (1..n) |-> Rest(g, s)]
            N == {n \in Nat : Sums(n)}
<1>1. 0 \in N
  <2>. DEFINE g == [s \in SUBSET (1..0) |-> 0]
  <2>1. \A s \in SUBSET (1..0) : s = {}
    OBVIOUS
  <2>2. g = [s \in SUBSET (1..0) |-> Rest(g, s)]
    BY <2>1
  <2>. QED  BY <2>2
<1>2. ASSUME NEW n \in N PROVE n + 1 \in N
  <2>1. PICK g : g = [s \in SUBSET (1..n) |-> Rest(g, s)]
    OBVIOUS
  <2>. DEFINE h == [s \in SUBSET (1..(n + 1)) |-> Rest(g, s)]
  <2>2. ASSUME NEW s \in SUBSET (1..(n + 1)), s # {} PROVE s \ {Max(s)} \in SUBSET (1..n)
    <3>1. n + 1 \in Nat /\ (n + 1) - 1 = n
      OBVIOUS
    <3>. HIDE DEF N
    <3>. QED  BY <2>2, <3>1, MaxFacts
  <2>3. \A s \in SUBSET (1..n) : g[s] = Rest(g, s) /\ s \in SUBSET (1..(n + 1))
    <3>1. \A y \in 1..n : y \in 1..(n + 1)
      OBVIOUS
    <3>. HIDE DEF Rest
    <3>. QED  BY <2>1, <3>1
  <2>4. \A s \in SUBSET (1..n) : h[s] = g[s]
    <3>. HIDE DEF Rest
    <3>. QED  BY <2>3
  <2>5. \A s \in SUBSET (1..(n + 1)) : Rest(h, s) = Rest(g, s)
    <3>. HIDE DEF h
    <3>. QED  BY <2>2, <2>4
  <2>6. h = [s \in SUBSET (1..(n + 1)) |-> Rest(h, s)]
    <3>. HIDE DEF Rest
    <3>. QED  BY <2>5
  <2>7. Sums(n + 1)
    <3>. HIDE DEF h
    <3>. QED  BY <2>6
  <2>. HIDE DEF Sums
  <2>. QED  BY <2>7
<1>3. N = Nat
  <2>. HIDE DEF Sums
  <2>. QED  BY <1>1, <1>2, NatSetInduction
<1>4. Sums(K)
  <2>. HIDE DEF Sums
  <2>. QED  BY <1>3
<1>. QED  BY <1>4 DEF DepthSums

(* The contributions of the first k publishers.                            *)
PartialSum(k) == (CHOOSE g : DepthSums(g, publishers))[1..k]

(* The sum grows by one publisher at a time, up to the fold of the property. *)
LEMMA PartialSums ==
  ASSUME TypeOK
  PROVE  /\ PartialSum(0) = 0
         /\ \A k \in 0..(Len(publishers) - 1) :
              PartialSum(k + 1) = PartialSum(k) + publisher_depth(publishers[k + 1])
         /\ PartialSum(Len(publishers)) =
              FoldLeft(LAMBDA acc, p : acc + (IF p.depth = 0 THEN kFallbackDepth ELSE p.depth),
                       0, publishers)
<1>. DEFINE G == CHOOSE g : DepthSums(g, publishers)
            L == Len(publishers)
<1>1. publishers \in Seq(Profiles) /\ L \in Nat /\ DOMAIN publishers = 1..L
  BY DEF TypeOK
<1>2. DepthSums(G, publishers)
  <2>1. \E g : DepthSums(g, publishers)
    BY <1>1, DepthSumsExist
  <2>. QED  BY <2>1
<1>3. \A k : PartialSum(k) = G[1..k]
  BY DEF PartialSum
<1>4. PartialSum(L) = FoldLeft(LAMBDA acc, p : acc + (IF p.depth = 0 THEN kFallbackDepth ELSE p.depth),
                               0, publishers)
  <2>1. FoldLeft(LAMBDA acc, p : acc + (IF p.depth = 0 THEN kFallbackDepth ELSE p.depth), 0, publishers)
          = G[DOMAIN publishers]
    BY DEF FoldLeft, MapThenFoldSet, DepthSums, contribution
  <2>. HIDE DEF G, L
  <2>2. PartialSum(L) = G[DOMAIN publishers]
    BY <1>1, <1>3
  <2>. QED  BY <2>1, <2>2
<1>. HIDE DEF G, L
<1>5. PartialSum(0) = 0
  <2>1. 1..0 = {} /\ {} \in SUBSET DOMAIN publishers
    OBVIOUS
  <2>2. G[{}] = 0
    BY <1>2, <2>1 DEF DepthSums
  <2>. QED  BY <1>3, <2>1, <2>2
<1>6. ASSUME NEW k \in 0..(L - 1)
      PROVE  PartialSum(k + 1) = PartialSum(k) + publisher_depth(publishers[k + 1])
  <2>. DEFINE s == 1..(k + 1)
  <2>1. k + 1 \in Nat /\ s \in SUBSET (1..(k + 1)) /\ k + 1 \in s /\ k + 1 \in 1..L
    BY <1>1
  <2>2. s \in SUBSET DOMAIN publishers
    BY <1>1
  <2>3. Max(s) = k + 1
    <3>1. Max(s) \in 1..(k + 1) /\ \A y \in s : y <= Max(s)
      BY <2>1, MaxFacts
    <3>. QED  BY <2>1, <3>1
  <2>4. s \ {k + 1} = 1..k
    BY <1>1
  <2>. HIDE DEF s
  <2>5. G[s] = G[s \ {Max(s)}] + contribution(publishers[Max(s)])
    BY <1>2, <2>1, <2>2 DEF DepthSums
  <2>6. G[s] = G[1..k] + contribution(publishers[k + 1])
    BY <2>3, <2>4, <2>5
  <2>7. contribution(publishers[k + 1]) = publisher_depth(publishers[k + 1])
    <3>1. publishers[k + 1] \in Profiles
      BY <1>1, <2>1
    <3>2. publishers[k + 1].depth \in Nat
      <4>1. publishers[k + 1].depth \in Depths
        BY <3>1 DEF Profiles
      <4>2. publishers[k + 1].depth \in 0 .. SizeModulus - 1
        BY <4>1, DepthsAssumption
      <4>. QED  BY <4>2, ModulusAssumption
    <3>. QED  BY <3>2 DEF contribution, publisher_depth
  <2>. QED  BY <1>3, <2>6, <2>7 DEF s
<1>. QED  BY <1>4, <1>5, <1>6 DEF L

(* The largest and the smallest of two numbers.                            *)
LEMMA PairFacts ==
  ASSUME NEW a \in Nat, NEW b \in Nat
  PROVE  Max({a, b}) = LargerOf(a, b) /\ Min({a, b}) = SmallerOf(a, b)
<1>1. /\ LargerOf(a, b) \in {a, b} /\ \A y \in {a, b} : LargerOf(a, b) >= y
      /\ SmallerOf(a, b) \in {a, b} /\ \A y \in {a, b} : SmallerOf(a, b) <= y
  BY DEF LargerOf, SmallerOf
<1>2. Max({a, b}) \in {a, b} /\ \A y \in {a, b} : Max({a, b}) >= y
  BY <1>1 DEF Max
<1>3. Min({a, b}) \in {a, b} /\ \A y \in {a, b} : Min({a, b}) <= y
  BY <1>1 DEF Min
<1>. QED  BY <1>2, <1>3 DEF LargerOf, SmallerOf

(* Before and after the cap the sum so far is the same up to the limit.    *)
DepthSoFar ==
  /\ PartialSum(i) \in Nat
  /\ total_depth = SmallerOf(PartialSum(i), max_qos_depth)
  /\ done /\ publishers # <<>> => qos.depth = LargerOf(min_qos_depth, total_depth)

(* adapt_qos requests the sum of the depths, clamped to the configured     *)
(* range, although it never computes that sum: each contribution is cut at *)
(* the headroom that is left.                                              *)
THEOREM DepthIsExact == Spec => []DepthIsClampedSum
<1>1. Init => DepthSoFar
  <2>. SUFFICES ASSUME Init PROVE DepthSoFar
    OBVIOUS
  <2>1. PartialSum(0) = 0
    BY QosInit, PartialSums DEF QosInv
  <2>2. max_qos_depth \in Nat
    BY MinMaxAssumption, ModulusAssumption
  <2>. QED  BY <2>1, <2>2 DEF Init, DepthSoFar, SmallerOf
<1>2. QosInv /\ DepthSoFar /\ [Next]_vars => DepthSoFar'
  <2>. SUFFICES ASSUME QosInv, DepthSoFar, [Next]_vars PROVE DepthSoFar'
    OBVIOUS
  <2>a. /\ publishers \in Seq(Profiles) /\ Len(publishers) \in Nat /\ i \in 0..Len(publishers)
        /\ min_qos_depth \in Nat /\ max_qos_depth \in Nat
        /\ total_depth \in Nat /\ total_depth <= max_qos_depth
    BY MinMaxAssumption, ModulusAssumption DEF QosInv, TypeOK, TotalDepthBounded
  <2>b. publishers' = publishers
    BY DEF Next, NoPublishers, Examine, Decide, vars
  <2>c. \A k : PartialSum(k)' = PartialSum(k)
    BY <2>b DEF PartialSum
  <2>1. CASE NoPublishers \/ UNCHANGED vars
    BY <2>1, <2>c DEF NoPublishers, vars, DepthSoFar
  <2>2. CASE Examine
    <3>. DEFINE d == publisher_depth(publishers[i + 1])
                S == PartialSum(i)
    <3>1. publishers[i + 1] \in Profiles /\ i' = i + 1 /\ i \in 0..(Len(publishers) - 1)
      BY <2>2, <2>a DEF Examine
    <3>2. d \in Nat /\ S \in Nat /\ total_depth = SmallerOf(S, max_qos_depth)
      BY <3>1, DepthsAreNat DEF DepthSoFar
    <3>3. PartialSum(i + 1) = S + d
      BY <3>1, PartialSums DEF QosInv
    <3>4. total_depth' = total_depth + SmallerOf(d, max_qos_depth - total_depth)
      BY <2>2, <2>a, <3>2, AddDepthExact DEF Examine
    <3>5. ~ done' \/ publishers = <<>>
      <4>1. i # Len(publishers)
        BY <2>2, <2>a DEF Examine
      <4>. QED  BY <2>2, <4>1 DEF Examine, QosInv, ResultFollowsFlags
    <3>. HIDE DEF d, S
    <3>6. total_depth' = SmallerOf(S + d, max_qos_depth) /\ S + d \in Nat
      BY <2>a, <3>2, <3>4 DEF SmallerOf
    <3>7. PartialSum(i)' = S + d
      BY <2>b, <3>1, <3>3 DEF PartialSum
    <3>. QED  BY <2>b, <3>5, <3>6, <3>7 DEF DepthSoFar
  <2>3. CASE Decide
    <3>1. qos'.depth = LargerOf(min_qos_depth, total_depth)
      <4>1. SmallerOf(total_depth, max_qos_depth) = total_depth
        BY <2>a DEF SmallerOf
      <4>. QED  BY <2>3, <4>1 DEF Decide
    <3>. QED  BY <2>3, <2>c, <3>1 DEF Decide, DepthSoFar
  <2>. QED  BY <2>1, <2>2, <2>3 DEF Next
<1>3. QosInv /\ DepthSoFar => DepthIsClampedSum
  <2>. SUFFICES ASSUME QosInv, DepthSoFar, done, publishers # <<>>
                PROVE  qos.depth =
                         LET sum == FoldLeft(LAMBDA acc, p : acc + (IF p.depth = 0 THEN kFallbackDepth
                                                                    ELSE p.depth), 0, publishers)
                         IN  Max({min_qos_depth, Min({sum, max_qos_depth})})
    BY DEF DepthIsClampedSum
  <2>. DEFINE S == PartialSum(Len(publishers))
  <2>1. S = FoldLeft(LAMBDA acc, p : acc + (IF p.depth = 0 THEN kFallbackDepth ELSE p.depth),
                     0, publishers)
    BY PartialSums DEF QosInv
  <2>2. i = Len(publishers)
    BY DEF QosInv, ResultFollowsFlags
  <2>3. /\ S \in Nat /\ total_depth = SmallerOf(S, max_qos_depth)
        /\ qos.depth = LargerOf(min_qos_depth, total_depth)
    BY <2>2 DEF DepthSoFar
  <2>4. min_qos_depth \in Nat /\ max_qos_depth \in Nat
    BY MinMaxAssumption, ModulusAssumption
  <2>. HIDE DEF S
  <2>5. total_depth = Min({S, max_qos_depth}) /\ total_depth \in Nat
    BY <2>3, <2>4, PairFacts DEF SmallerOf
  <2>6. qos.depth = Max({min_qos_depth, total_depth})
    BY <2>3, <2>4, <2>5, PairFacts
  <2>. QED  BY <2>1, <2>5, <2>6
<1>. QED  BY <1>1, <1>2, <1>3, QosInvariant, PTL DEF Spec

-----------------------------------------------------------------------------
(* The composition.                                                        *)

(* Requests and extractions leave the variables of adapt_qos alone, so     *)
(* Ros2Subscribe implements QosAdaptation.                                 *)
THEOREM Ros2ImplementsQos == Ros2Spec => Spec
<1>1. Ros2Init => Init
  BY DEF Ros2Init
<1>2. [Ros2Next]_ros2Vars => [Next]_vars
  BY DEF Ros2Next, List, Request, Extract, Pause, Resume, Adapt, ros2Vars
<1> QED BY <1>1, <1>2, PTL DEF Ros2Spec, Spec

(* The subscription that follows a request hears every publisher that was  *)
(* found and gives away nothing.                                           *)
THEOREM Ros2QosExact == Ros2Spec => []QosIsExact
BY Ros2ImplementsQos, QosExact, PTL

(* Its depth is the clamped sum of the publishers' depths.                 *)
THEOREM Ros2DepthExact == Ros2Spec => []DepthIsClampedSum
BY Ros2ImplementsQos, DepthIsExact, PTL

(* Every step on the schema is one of SchemaExtractor: requests never mix  *)
(* two extractions.                                                        *)
THEOREM Ros2ImplementsSchema == Ros2Spec => SchemaSpec
<1>1. Ros2Init => SchemaInit
  BY DEF Ros2Init
<1>2. [Ros2Next]_ros2Vars => [SchemaNext]_schemaVars
  BY DEF Ros2Next, List, Request, Extract, Pause, Resume, Adapt, SchemaNext, ros2Vars
<1> QED BY <1>1, <1>2, PTL DEF Ros2Spec, SchemaSpec

-----------------------------------------------------------------------------
(* While adapt_qos runs there is a definition, of this request or sent by  *)
(* an earlier one, and one was sent when it is done.                       *)
SchemaFirst ==
  /\ request = "subscribe" => definition # Missing /\ root = Missing
  /\ request = "resume" => InSession
  /\ request \in {"none", "subscribe", "resume", "list", "extract"}
  /\ request \in {"extract", "subscribe"} => ~InSession
  /\ done => InSession

(* handle_subscribe, handle_resume: no subscription without a schema.      *)
THEOREM SchemaBeforeSubscription == Ros2Spec => []SchemaFirst
<1>1. Ros2Init => SchemaFirst
  BY DEF Ros2Init, Init, SchemaFirst, None
<1>2. SchemaFirst /\ [Ros2Next]_ros2Vars => SchemaFirst'
  <2> SUFFICES ASSUME SchemaFirst, [Ros2Next]_ros2Vars PROVE SchemaFirst'
    OBVIOUS
  <2>1. CASE UNCHANGED ros2Vars
    BY <2>1 DEF SchemaFirst, InSession, ros2Vars, vars, schemaVars, buildVars, sessionVars
  <2>2. ASSUME NEW t \in Types, Install(t), UNCHANGED <<vars, request, sessionVars>>
        PROVE  SchemaFirst'
    BY <2>2 DEF Install, SchemaFirst, InSession, vars, buildVars, sessionVars
  <2>3. ASSUME NEW type \in Types \cup Malformed, List(type)
        PROVE  SchemaFirst'
    BY <2>3 DEF List, SchemaFirst, InSession, None, vars, sessionVars
  <2>4. ASSUME NEW type \in Types \cup Malformed, Request(type)
        PROVE  SchemaFirst'
    BY <2>4 DEF Request, AfterExtract, SchemaFirst, InSession, None, vars
  <2>5. CASE Extract
    BY <2>5 DEF Extract, AfterExtract, SchemaFirst, InSession, None, vars
  <2>6. CASE Pause \/ Resume
    BY <2>6 DEF Pause, Resume, SchemaFirst, InSession, None, vars, schemaVars, buildVars
  <2>7. CASE Adapt
    BY <2>7 DEF Adapt, SchemaFirst, InSession, None, schemaVars, buildVars
  <2> QED BY <2>1, <2>2, <2>3, <2>4, <2>5, <2>6, <2>7 DEF Ros2Next
<1> QED BY <1>1, <1>2, PTL DEF Ros2Spec
-----------------------------------------------------------------------------
(* The definition of a type.                                               *)

(* What is cached of a file is what is on disk, for files do not change    *)
(* once they are there.                                                    *)
CacheIsTrue == \A t \in Types : msg_file_cache[t] # Missing => msg_file_cache[t] = files[t]

(* The search so far: what is written and what is still to visit make up   *)
(* the types met, each once; all that is nested in what is written was     *)
(* met, and whatever was met is nested in something written.               *)
SearchIsSound ==
  /\ output = <<>> => todo = <<root>> /\ processed_types = {}
  /\ output # <<>> =>
       /\ output[1] = root
       /\ \A k \in 2..Len(output) : output[k] \in processed_types
       /\ \A k \in 1..Len(todo) : todo[k] \in processed_types
       /\ \A k \in 1..Len(todo) : \E m \in 1..Len(output) : todo[k] \in ToSet(files[output[m]])
  /\ \A x \in processed_types :
       (\E k \in 2..Len(output) : output[k] = x) \/ (\E k \in 1..Len(todo) : todo[k] = x)
  /\ \A k \in 1..Len(output) :
       files[output[k]] # Missing /\ ToSet(files[output[k]]) \subseteq processed_types
  /\ \A k \in 2..Len(output) : \E m \in 1..(k - 1) : output[k] \in ToSet(files[output[m]])
  /\ \A k, m \in 2..Len(output) : output[k] = output[m] => k = m
  /\ \A k, m \in 1..Len(todo) : todo[k] = todo[m] => k = m
  /\ \A k \in 2..Len(output), m \in 1..Len(todo) : output[k] # todo[m]

SchemaInv ==
  /\ SchemaTypeOK
  /\ CacheIsTrue
  /\ root # Missing => SearchIsSound
  /\ DefinitionIsClosed
  /\ definition # Missing => IsClosed(definition[1], definition)

(* NestedTypes is a fold that adds one field after the other.              *)
NestedSoFar(acc, t) == IF t \in processed_types \cup ToSet(acc) THEN acc ELSE Append(acc, t)

(* g collects the nested types of the fields at every set of positions.    *)
NestedFold(g, q) ==
  g = [s \in SUBSET DOMAIN q |-> IF s = {} THEN <<>> ELSE NestedSoFar(g[s \ {Max(s)}], q[Max(s)])]

(* The fold is defined: it grows position by position.                     *)
LEMMA NestedFoldExists ==
  ASSUME NEW K \in Nat, NEW q, DOMAIN q = 1..K
  PROVE  \E g : NestedFold(g, q)
<1>. DEFINE Rest(g, s) == IF s = {} THEN <<>> ELSE NestedSoFar(g[s \ {Max(s)}], q[Max(s)])
            Folds(n) == \E g : g = [s \in SUBSET (1..n) |-> Rest(g, s)]
            N == {n \in Nat : Folds(n)}
<1>1. 0 \in N
  <2>. DEFINE g == [s \in SUBSET (1..0) |-> <<>>]
  <2>1. \A s \in SUBSET (1..0) : s = {}
    OBVIOUS
  <2>2. g = [s \in SUBSET (1..0) |-> Rest(g, s)]
    BY <2>1
  <2>. QED  BY <2>2
<1>2. ASSUME NEW n \in N PROVE n + 1 \in N
  <2>1. PICK g : g = [s \in SUBSET (1..n) |-> Rest(g, s)]
    OBVIOUS
  <2>. DEFINE h == [s \in SUBSET (1..(n + 1)) |-> Rest(g, s)]
  <2>2. ASSUME NEW s \in SUBSET (1..(n + 1)), s # {} PROVE s \ {Max(s)} \in SUBSET (1..n)
    <3>1. n + 1 \in Nat /\ (n + 1) - 1 = n
      OBVIOUS
    <3>. HIDE DEF N
    <3>. QED  BY <2>2, <3>1, MaxFacts
  <2>3. \A s \in SUBSET (1..n) : g[s] = Rest(g, s) /\ s \in SUBSET (1..(n + 1))
    <3>1. \A y \in 1..n : y \in 1..(n + 1)
      OBVIOUS
    <3>. HIDE DEF Rest
    <3>. QED  BY <2>1, <3>1
  <2>4. \A s \in SUBSET (1..n) : h[s] = g[s]
    <3>. HIDE DEF Rest
    <3>. QED  BY <2>3
  <2>5. \A s \in SUBSET (1..(n + 1)) : Rest(h, s) = Rest(g, s)
    <3>. HIDE DEF h
    <3>. QED  BY <2>2, <2>4
  <2>6. h = [s \in SUBSET (1..(n + 1)) |-> Rest(h, s)]
    <3>. HIDE DEF Rest
    <3>. QED  BY <2>5
  <2>7. Folds(n + 1)
    <3>. HIDE DEF h
    <3>. QED  BY <2>6
  <2>. HIDE DEF Folds
  <2>. QED  BY <2>7
<1>3. N = Nat
  <2>. HIDE DEF Folds
  <2>. QED  BY <1>1, <1>2, NatSetInduction
<1>4. Folds(K)
  <2>. HIDE DEF Folds
  <2>. QED  BY <1>3
<1>. QED  BY <1>4 DEF NestedFold

(* The nested types of a file: those of its fields not met before, once.   *)
LEMMA NestedFacts ==
  ASSUME NEW q \in Seq(Types)
  PROVE  /\ NestedTypes(q) \in Seq(Types)
         /\ ToSet(NestedTypes(q)) = ToSet(q) \ processed_types
         /\ \A k, m \in 1..Len(NestedTypes(q)) : NestedTypes(q)[k] = NestedTypes(q)[m] => k = m
<1>. DEFINE G == CHOOSE g : NestedFold(g, q)
            L == Len(q)
            Right(a, k) == /\ a \in Seq(Types)
                           /\ \A x : x \in ToSet(a) <=> x \notin processed_types /\ \E m \in 1..k : q[m] = x
                           /\ \A n, m \in 1..Len(a) : a[n] = a[m] => n = m
            N == {k \in Nat : k <= L => Right(G[1..k], k)}
<1>1. L \in Nat /\ DOMAIN q = 1..L
  OBVIOUS
<1>2. NestedFold(G, q)
  <2>1. \E g : NestedFold(g, q)
    BY <1>1, NestedFoldExists
  <2>. QED  BY <2>1
<1>3. NestedTypes(q) = G[DOMAIN q]
  BY DEF NestedTypes, FoldLeft, MapThenFoldSet, NestedFold, NestedSoFar
<1>. HIDE DEF G, L
<1>4. G[{}] = <<>>
  BY <1>2 DEF NestedFold
<1>5. ASSUME NEW k \in Nat, k + 1 <= L PROVE G[1..(k + 1)] = NestedSoFar(G[1..k], q[k + 1])
  <2>. DEFINE s == 1..(k + 1)
  <2>1. k + 1 \in Nat /\ s \in SUBSET (1..(k + 1)) /\ k + 1 \in s /\ k + 1 \in 1..L
    BY <1>1, <1>5
  <2>2. s \in SUBSET DOMAIN q
    BY <1>1, <1>5
  <2>3. Max(s) = k + 1
    <3>1. Max(s) \in 1..(k + 1) /\ \A y \in s : y <= Max(s)
      BY <2>1, MaxFacts
    <3>. QED  BY <2>1, <3>1
  <2>4. s \ {k + 1} = 1..k
    BY <1>1
  <2>. HIDE DEF s
  <2>5. G[s] = NestedSoFar(G[s \ {Max(s)}], q[Max(s)])
    BY <1>2, <2>1, <2>2 DEF NestedFold
  <2>6. G[s] = NestedSoFar(G[1..k], q[k + 1])
    BY <2>3, <2>4, <2>5
  <2>. QED  BY <2>6 DEF s
<1>6. 0 \in N
  <2>1. 1..0 = {} /\ ToSet(<<>>) = {} /\ <<>> \in Seq(Types) /\ 1..Len(<<>>) = {}
    BY DEF ToSet
  <2>2. Right(<<>>, 0)
    BY <2>1
  <2>. HIDE DEF Right
  <2>. QED  BY <1>4, <2>1, <2>2
<1>7. ASSUME NEW k \in N PROVE k + 1 \in N
  <2>. SUFFICES ASSUME k + 1 <= L PROVE Right(G[1..(k + 1)], k + 1)
    OBVIOUS
  <2>. DEFINE a == G[1..k]
              t == q[k + 1]
  <2>1. k \in Nat /\ k <= L /\ k + 1 \in 1..L
    BY <1>1
  <2>2. Right(a, k)
    BY <2>1
  <2>3. t \in Types
    BY <1>1, <2>1
  <2>4. G[1..(k + 1)] = NestedSoFar(a, t)
    BY <1>5, <2>1
  <2>5. \A x : (\E m \in 1..(k + 1) : q[m] = x) <=> (x = t \/ \E m \in 1..k : q[m] = x)
    <3>1. \A m \in 1..(k + 1) : m = k + 1 \/ m \in 1..k
      BY <2>1
    <3>2. k + 1 \in 1..(k + 1) /\ \A m \in 1..k : m \in 1..(k + 1)
      BY <2>1
    <3>. QED  BY <3>1, <3>2
  <2>. HIDE DEF a, t
  <2>6. CASE t \in processed_types \cup ToSet(a)
    <3>1. G[1..(k + 1)] = a
      BY <2>4, <2>6 DEF NestedSoFar
    <3>2. \A x : x \in ToSet(a) <=> x \notin processed_types /\ \E m \in 1..(k + 1) : q[m] = x
      BY <2>2, <2>5, <2>6
    <3>. QED  BY <2>2, <3>1, <3>2
  <2>7. CASE t \notin processed_types \cup ToSet(a)
    <3>1. G[1..(k + 1)] = Append(a, t)
      BY <2>4, <2>7 DEF NestedSoFar
    <3>2. /\ Append(a, t) \in Seq(Types) /\ Len(a) \in Nat /\ Len(Append(a, t)) = Len(a) + 1
          /\ Append(a, t)[Len(a) + 1] = t /\ \A n \in 1..Len(a) : Append(a, t)[n] = a[n]
      BY <2>2, <2>3
    <3>. DEFINE b == Append(a, t)
    <3>3. \A n \in 1..Len(a) : a[n] \in ToSet(a)
      BY <2>2 DEF ToSet
    <3>. HIDE DEF b
    <3>4. \A n \in 1..Len(b) : n = Len(a) + 1 \/ n \in 1..Len(a)
      BY <3>2 DEF b
    <3>5. ToSet(b) = ToSet(a) \cup {t}
      <4>1. DOMAIN b = 1..Len(b) /\ DOMAIN a = 1..Len(a)
        BY <2>2, <3>2 DEF b
      <4>2. ToSet(b) \subseteq ToSet(a) \cup {t}
        BY <3>2, <3>3, <3>4, <4>1 DEF ToSet, b
      <4>3. \A n \in 1..Len(a) : n \in 1..Len(b)
        BY <3>2 DEF b
      <4>4. Len(a) + 1 \in 1..Len(b)
        BY <3>2 DEF b
      <4>5. ToSet(a) \cup {t} \subseteq ToSet(b)
        BY <3>2, <4>1, <4>3, <4>4 DEF ToSet, b
      <4>. QED  BY <4>2, <4>5
    <3>6. \A x : x \in ToSet(b) <=> x \notin processed_types /\ \E m \in 1..(k + 1) : q[m] = x
      BY <2>2, <2>5, <2>7, <3>5
    <3>7. \A n, m \in 1..Len(b) : b[n] = b[m] => n = m
      BY <2>2, <2>7, <3>2, <3>3, <3>4 DEF b
    <3>. QED  BY <3>1, <3>2, <3>6, <3>7 DEF b
  <2>. QED  BY <2>6, <2>7
<1>8. N = Nat
  <2>. HIDE DEF Right
  <2>. QED  BY <1>6, <1>7, NatSetInduction
<1>9. Right(NestedTypes(q), L)
  <2>. HIDE DEF Right
  <2>1. L <= L
    BY <1>1
  <2>. QED  BY <1>1, <1>3, <1>8, <2>1
<1>10. \A x : x \in ToSet(q) <=> \E m \in 1..L : q[m] = x
  BY <1>1 DEF ToSet
<1>. QED  BY <1>9, <1>10

(* Moving the header to the end changes the order only.                    *)
LEMMA HeaderLastFacts ==
  ASSUME NEW q \in Seq(Types), \A k, m \in 1..Len(q) : q[k] = q[m] => k = m
  PROVE  /\ HeaderLast(q) \in Seq(Types) /\ ToSet(HeaderLast(q)) = ToSet(q)
         /\ \A k, m \in 1..Len(HeaderLast(q)) : HeaderLast(q)[k] = HeaderLast(q)[m] => k = m
<1>1. CASE ~(Len(q) >= 2 /\ q[1] = Header)
  BY <1>1 DEF HeaderLast
<1>2. CASE Len(q) >= 2 /\ q[1] = Header
  <2>. DEFINE h == Append(Tail(q), Header)
              L == Len(q)
  <2>1. HeaderLast(q) = h
    BY <1>2 DEF HeaderLast
  <2>2. Tail(q) \in Seq(Types) /\ Len(Tail(q)) = L - 1 /\ \A k \in 1..(L - 1) : Tail(q)[k] = q[k + 1]
    BY <1>2
  <2>3. h \in Seq(Types) /\ Len(h) = L /\ h[L] = q[1] /\ \A k \in 1..(L - 1) : h[k] = q[k + 1]
    BY <1>2, <2>2, TypesAssumption
  <2>4. L \in Nat /\ DOMAIN q = 1..L /\ DOMAIN h = 1..L
    BY <2>3
  <2>. HIDE DEF h, L
  <2>5. /\ \A k \in 1..L : k = L \/ (k \in 1..(L - 1) /\ k + 1 \in 1..L)
        /\ \A k \in 1..L : k = 1 \/ (k - 1 \in 1..(L - 1) /\ (k - 1) + 1 = k /\ k - 1 \in 1..L)
        /\ 1 \in 1..L /\ L \in 1..L
    <3>1. L \in Nat /\ L >= 2
      BY <1>2, <2>4 DEF L
    <3>. QED  BY <3>1
  <2>6. ToSet(h) \subseteq ToSet(q)
    BY <2>3, <2>4, <2>5 DEF ToSet
  <2>7. ToSet(q) \subseteq ToSet(h)
    <3>1. ASSUME NEW k \in 1..L PROVE \E m \in 1..L : h[m] = q[k]
      <4>1. CASE k = 1
        BY <2>3, <2>5, <4>1
      <4>2. CASE k # 1
        <5>1. k - 1 \in 1..L /\ h[k - 1] = q[(k - 1) + 1] /\ (k - 1) + 1 = k
          BY <2>3, <2>5, <4>2
        <5>. QED  BY <5>1
      <4>. QED  BY <4>1, <4>2
    <3>2. ASSUME NEW x \in ToSet(q) PROVE x \in ToSet(h)
      <4>1. PICK k \in 1..L : x = q[k]
        BY <2>4 DEF ToSet
      <4>2. PICK m \in 1..L : h[m] = q[k]
        BY <3>1
      <4>. QED  BY <2>4, <4>1, <4>2 DEF ToSet
    <3>. QED  BY <3>2
  <2>8. ASSUME NEW k \in 1..L, NEW m \in 1..L, h[k] = h[m] PROVE k = m
    <3>1. k + 1 # 1 /\ m + 1 # 1 /\ (k + 1 = m + 1 => k = m)
      BY <2>4
    <3>2. \A x, y \in 1..L : q[x] = q[y] => x = y
      BY DEF L
    <3>3. CASE k = L /\ m = L
      BY <3>3
    <3>4. CASE k = L /\ m \in 1..(L - 1)
      BY <2>3, <2>5, <2>8, <3>1, <3>2, <3>4
    <3>5. CASE k \in 1..(L - 1) /\ m = L
      BY <2>3, <2>5, <2>8, <3>1, <3>2, <3>5
    <3>6. CASE k \in 1..(L - 1) /\ m \in 1..(L - 1)
      <4>1. q[k + 1] = q[m + 1] /\ k + 1 \in 1..L /\ m + 1 \in 1..L
        BY <2>3, <2>4, <2>8, <3>6
      <4>. QED  BY <3>1, <3>2, <4>1
    <3>. QED  BY <2>5, <3>3, <3>4, <3>5, <3>6
  <2>. QED  BY <2>1, <2>3, <2>6, <2>7, <2>8 DEF L
<1>. QED  BY <1>1, <1>2

(* What a definition is closed under, for given files.                     *)
ClosedIn(fs, type, d) ==
  /\ d # <<>> /\ d[1] = type
  /\ \A k \in 1..Len(d) : fs[d[k]] # Missing
  /\ \A k \in 2..Len(d) : \E m \in 1..(k - 1) : d[k] \in ToSet(fs[d[m]])
  /\ \A k \in 1..Len(d) : ToSet(fs[d[k]]) \subseteq {d[m] : m \in 2..Len(d)}
  /\ \A k, m \in 2..Len(d) : d[k] = d[m] => k = m

(* A definition stays closed when further files are installed.             *)
LEMMA ClosedFacts ==
  ASSUME NEW fs, NEW gs, NEW type, NEW d \in Seq(Types), ClosedIn(fs, type, d),
         \A t \in Types : fs[t] # Missing => gs[t] = fs[t]
  PROVE  ClosedIn(gs, type, d)
<1>1. \A k \in 1..Len(d) : gs[d[k]] = fs[d[k]]
  <2>1. \A k \in 1..Len(d) : d[k] \in Types
    OBVIOUS
  <2>. QED  BY <2>1 DEF ClosedIn
<1>2. Len(d) \in Nat
  OBVIOUS
<1>3. \A k \in 2..Len(d) : \E m \in 1..(k - 1) : d[k] \in ToSet(gs[d[m]])
  <2>. SUFFICES ASSUME NEW k \in 2..Len(d) PROVE \E m \in 1..(k - 1) : d[k] \in ToSet(gs[d[m]])
    OBVIOUS
  <2>1. PICK m \in 1..(k - 1) : d[k] \in ToSet(fs[d[m]])
    BY DEF ClosedIn
  <2>2. m \in 1..Len(d)
    BY <1>2
  <2>. QED  BY <1>1, <2>1, <2>2
<1>. QED  BY <1>1, <1>3 DEF ClosedIn

(* The two forms of closure are the same.                                  *)
LEMMA ClosedForms ==
  /\ \A type, d : d \in Seq(Types) => (IsClosed(type, d) <=> ClosedIn(files, type, d))
  /\ (\A type, d : d \in Seq(Types) => (IsClosed(type, d) <=> ClosedIn(files, type, d)))'
<1>1. \A type, d : d \in Seq(Types) => (IsClosed(type, d) <=> ClosedIn(files, type, d))
  <2>. SUFFICES ASSUME NEW type, NEW d \in Seq(Types)
                PROVE  IsClosed(type, d) <=> ClosedIn(files, type, d)
    OBVIOUS
  <2>1. DOMAIN d = 1..Len(d)
    OBVIOUS
  <2>2. IsClosed(type, d) => ClosedIn(files, type, d)
    BY <2>1 DEF IsClosed, ClosedIn
  <2>3. ClosedIn(files, type, d) => IsClosed(type, d)
    BY <2>1 DEF IsClosed, ClosedIn
  <2>. QED  BY <2>2, <2>3
<1>. QED  BY <1>1, PTL

(* Files are only added: what was closed remains so.                       *)
LEMMA FilesOnlyAppear ==
  ASSUME SchemaTypeOK, SchemaNext \/ UNCHANGED schemaVars
  PROVE  /\ files' \in [Types -> Seq(Types) \cup {Missing}]
         /\ \A t \in Types : files[t] # Missing => files'[t] = files[t]
<1>1. ASSUME NEW t \in Types, Install(t)
      PROVE  /\ files' \in [Types -> Seq(Types) \cup {Missing}]
             /\ \A u \in Types : files[u] # Missing => files'[u] = files[u]
  <2>1. PICK content \in Contents[t] : files' = [files EXCEPT ![t] = content]
    BY <1>1 DEF Install
  <2>2. content \in Seq(Types)
    BY TypesAssumption
  <2>3. files' \in [Types -> Seq(Types) \cup {Missing}]
    BY <2>1, <2>2 DEF SchemaTypeOK
  <2>4. \A u \in Types : files[u] # Missing => files'[u] = files[u]
    BY <1>1, <2>1 DEF SchemaTypeOK, Install
  <2>. QED  BY <2>3, <2>4
<1>2. CASE UNCHANGED files
  BY <1>2 DEF SchemaTypeOK
<1>3. (\E t \in Types : Install(t)) \/ UNCHANGED files
  BY DEF SchemaNext, GetDefinition, BuildStep, VisitType, VisitMissing, FinishDefinition, schemaVars
<1>. QED  BY <1>1, <1>2, <1>3

(* Whatever the cache holds of a file, it is the content that is used.     *)
LEMMA ContentIsFile ==
  ASSUME SchemaTypeOK, CacheIsTrue, NEW t \in Types
  PROVE  MsgContent(t) = files[t]
BY DEF CacheIsTrue, MsgContent

(* The elements of a concatenation.                                        *)
LEMMA ConcatFacts ==
  ASSUME NEW S, NEW u \in Seq(S), NEW v \in Seq(S)
  PROVE  /\ u \o v \in Seq(S) /\ Len(u \o v) = Len(u) + Len(v) /\ Len(u) \in Nat
         /\ \A k \in 1..Len(u) : (u \o v)[k] = u[k]
         /\ \A k \in (Len(u) + 1)..(Len(u) + Len(v)) : (u \o v)[k] = v[k - Len(u)]
OBVIOUS

(* One more type is visited.                                               *)
LEMMA VisitKeepsSearch ==
  ASSUME SchemaTypeOK, CacheIsTrue, SearchIsSound, VisitType
  PROVE  /\ SearchIsSound' /\ CacheIsTrue'
         /\ output' \in Seq(Types) /\ todo' \in Seq(Types) /\ processed_types' \in SUBSET Types
         /\ msg_file_cache' \in [Types -> Seq(Types) \cup {Missing}]
<1>. DEFINE t == Head(todo)
            C == files[t]
            N == NestedTypes(C)
            H == HeaderLast(N)
            O == Len(output)
            h == Len(H)
            r == Len(todo) - 1
<1>1. /\ output \in Seq(Types) /\ O \in Nat /\ todo \in Seq(Types) /\ todo # <<>>
      /\ processed_types \in SUBSET Types
  BY DEF SchemaTypeOK, VisitType
<1>2. t \in Types /\ t = todo[1] /\ r \in Nat /\ 1 \in 1..Len(todo) /\ Len(todo) \in Nat
  BY <1>1
<1>3. MsgContent(t) = C
  BY <1>2, ContentIsFile
<1>4. C # Missing /\ C \in Seq(Types)
  BY <1>2, <1>3 DEF VisitType, SchemaTypeOK
<1>5. /\ N \in Seq(Types) /\ ToSet(N) = ToSet(C) \ processed_types
      /\ \A k, m \in 1..Len(N) : N[k] = N[m] => k = m
  BY <1>4, NestedFacts
<1>6. /\ H \in Seq(Types) /\ ToSet(H) = ToSet(C) \ processed_types
      /\ \A k, m \in 1..h : H[k] = H[m] => k = m
  BY <1>5, HeaderLastFacts
<1>7. /\ output' = Append(output, t)
      /\ todo' = H \o Tail(todo)
      /\ processed_types' = processed_types \cup ToSet(N)
      /\ UNCHANGED <<files, root>>
      /\ msg_file_cache' = [msg_file_cache EXCEPT ![t] = C]
  BY <1>3 DEF VisitType
<1>8. processed_types' = processed_types \cup ToSet(C)
  BY <1>5, <1>7
<1>9. ToSet(C) \subseteq Types
  BY <1>4 DEF ToSet
<1>. HIDE DEF N, H
<1>10. /\ output' \in Seq(Types) /\ Len(output') = O + 1 /\ output'[O + 1] = t
       /\ \A k \in 1..O : output'[k] = output[k]
  BY <1>1, <1>2, <1>7
<1>11. /\ todo' \in Seq(Types) /\ Len(todo') = h + r /\ h \in Nat
       /\ \A k \in 1..h : todo'[k] = H[k]
       /\ \A k \in 1..(h + r) : k \in 1..h \/ (k - h + 1 \in 2..Len(todo) /\ todo'[k] = todo[k - h + 1])
  <2>1. Tail(todo) \in Seq(Types) /\ Len(Tail(todo)) = r /\ \A k \in 1..r : Tail(todo)[k] = todo[k + 1]
    BY <1>1
  <2>. DEFINE T == Tail(todo)
  <2>. HIDE DEF T
  <2>2. T \in Seq(Types) /\ Len(T) = r /\ \A k \in 1..r : T[k] = todo[k + 1]
    BY <2>1 DEF T
  <2>3. todo' = H \o T
    BY <1>7 DEF T
  <2>4. /\ H \o T \in Seq(Types) /\ Len(H \o T) = h + r /\ h \in Nat
        /\ \A k \in 1..h : (H \o T)[k] = H[k]
        /\ \A k \in (h + 1)..(h + r) : (H \o T)[k] = T[k - h]
    <3>1. /\ H \o T \in Seq(Types) /\ Len(H \o T) = Len(H) + Len(T) /\ Len(H) \in Nat
          /\ \A k \in 1..Len(H) : (H \o T)[k] = H[k]
          /\ \A k \in (Len(H) + 1)..(Len(H) + Len(T)) : (H \o T)[k] = T[k - Len(H)]
      BY <1>6, <2>2, ConcatFacts, Zenon
    <3>. HIDE DEF h, r
    <3>2. Len(H) = h /\ Len(T) = r
      BY <2>2 DEF h
    <3>. QED  BY <3>1, <3>2, Zenon
  <2>5. ASSUME NEW k \in 1..(h + r), k \notin 1..h
        PROVE  k - h + 1 \in 2..Len(todo) /\ todo'[k] = todo[k - h + 1]
    <3>1. k \in (h + 1)..(h + r) /\ k - h \in 1..r /\ k - h + 1 \in 2..Len(todo)
      BY <1>2, <2>4, <2>5
    <3>. QED  BY <2>2, <2>3, <2>4, <3>1
  <2>. QED  BY <2>3, <2>4, <2>5
<1>12. \A k \in 1..h : H[k] \in ToSet(C) /\ H[k] \notin processed_types
  <2>1. \A k \in 1..h : H[k] \in ToSet(H)
    BY <1>6 DEF ToSet
  <2>. QED  BY <1>6, <2>1
<1>13. output = <<>> => O = 0 /\ r = 0 /\ Len(todo) = 1 /\ t = root
  BY <1>2 DEF SearchIsSound
<1>14. output # <<>> => O >= 1 /\ 1 \in 1..O
  BY <1>1
<1>15. /\ output # <<>> => t \in processed_types
       /\ \A k \in 2..Len(todo) : output # <<>> /\ todo[k] \in processed_types /\ k \in 1..Len(todo)
  <2>1. \A k \in 2..Len(todo) : output # <<>> /\ k \in 1..Len(todo)
    <3>. DEFINE L == Len(todo)
    <3>0. L \in Nat
      BY <1>2
    <3>. HIDE DEF L
    <3>1. \A k \in 2..L : L # 1 /\ k \in 1..L
      BY <3>0
    <3>. USE DEF L
    <3>. QED  BY <1>13, <3>1
  <2>. QED  BY <1>2, <2>1 DEF SearchIsSound
<1>16. \A k \in 1..(O + 1) : k = O + 1 \/ k \in 1..O
  BY <1>1
<1>17. \A k \in 2..(O + 1) : (k = O + 1 \/ k \in 2..O) /\ output # <<>>
  BY <1>1, <1>13
<1>. HIDE DEF t, C, O, h, r
<1>18. output' # <<>> /\ output'[1] = root'
  <2>1. CASE output = <<>>
    BY <1>7, <1>10, <1>13, <2>1
  <2>2. CASE output # <<>>
    BY <1>7, <1>10, <1>14, <2>2 DEF SearchIsSound
  <2>3. output' # <<>>
    BY <1>1, <1>10
  <2>. QED  BY <2>1, <2>2, <2>3
<1>19. \A k \in 2..Len(output') : output'[k] \in processed_types'
  <2>. SUFFICES ASSUME NEW k \in 2..(O + 1) PROVE output'[k] \in processed_types
    BY <1>8, <1>10
  <2>1. CASE k = O + 1
    BY <1>10, <1>15, <1>17, <2>1
  <2>2. CASE k \in 2..O
    <3>1. k \in 1..O
      BY <1>1, <2>2
    <3>. QED  BY <1>10, <1>17, <2>2, <3>1 DEF SearchIsSound, O
  <2>. QED  BY <1>17, <2>1, <2>2
<1>20. \A k \in 1..Len(todo') : todo'[k] \in processed_types'
  BY <1>8, <1>11, <1>12, <1>15
<1>21. \A k \in 1..Len(todo') : \E m \in 1..Len(output') : todo'[k] \in ToSet(files'[output'[m]])
  <2>. SUFFICES ASSUME NEW k \in 1..(h + r)
                PROVE  \E m \in 1..(O + 1) : todo'[k] \in ToSet(files[output'[m]])
    BY <1>7, <1>10, <1>11
  <2>1. CASE k \in 1..h
    <3>1. O + 1 \in 1..(O + 1) /\ output'[O + 1] = t /\ todo'[k] \in ToSet(files[t])
      BY <1>1, <1>10, <1>11, <1>12, <2>1 DEF C
    <3>. QED  BY <3>1
  <2>2. CASE k \notin 1..h
    <3>1. k - h + 1 \in 2..Len(todo) /\ todo'[k] = todo[k - h + 1]
      BY <1>11, <2>2
    <3>2. PICK m \in 1..O : todo[k - h + 1] \in ToSet(files[output[m]])
      BY <1>15, <3>1 DEF SearchIsSound, O
    <3>3. m \in 1..(O + 1)
      BY <1>1
    <3>. QED  BY <1>10, <3>1, <3>2, <3>3
  <2>. QED  BY <2>1, <2>2
<1>22. ASSUME NEW x \in processed_types'
       PROVE  (\E k \in 2..Len(output') : output'[k] = x) \/ (\E k \in 1..Len(todo') : todo'[k] = x)
  <2>1. CASE x \notin processed_types
    <3>1. PICK k \in 1..h : H[k] = x
      <4>1. x \in ToSet(H)
        BY <1>6, <1>8, <1>22, <2>1
      <4>. QED  BY <1>6, <4>1 DEF ToSet, h
    <3>2. k \in 1..Len(todo')
      BY <1>2, <1>11
    <3>. QED  BY <1>11, <3>1, <3>2
  <2>2. CASE \E k \in 2..O : output[k] = x
    <3>1. PICK k \in 2..O : output[k] = x
      BY <2>2
    <3>2. k \in 1..O /\ k \in 2..Len(output')
      BY <1>1, <1>10
    <3>. QED  BY <1>10, <3>1, <3>2
  <2>3. CASE \E k \in 1..Len(todo) : todo[k] = x /\ k # 1
    <3>1. PICK k \in 1..Len(todo) : todo[k] = x /\ k # 1
      BY <2>3
    <3>2. k - 1 + h \in 1..(h + r) /\ k - 1 + h \notin 1..h /\ (k - 1 + h) - h + 1 = k
      BY <1>2, <1>11, <3>1 DEF r
    <3>3. todo'[k - 1 + h] = x
      BY <1>11, <3>1, <3>2
    <3>. QED  BY <1>11, <3>2, <3>3
  <2>4. CASE x \in processed_types /\ x = t
    <3>1. output # <<>>
      BY <2>4 DEF SearchIsSound
    <3>2. O + 1 \in 2..Len(output')
      BY <1>1, <1>10, <1>14, <3>1
    <3>. QED  BY <1>10, <2>4, <3>2
  <2>. QED  BY <1>2, <2>1, <2>2, <2>3, <2>4 DEF SearchIsSound, O
<1>23. \A k \in 1..Len(output') :
         files'[output'[k]] # Missing /\ ToSet(files'[output'[k]]) \subseteq processed_types'
  <2>. SUFFICES ASSUME NEW k \in 1..(O + 1)
                PROVE  files[output'[k]] # Missing /\ ToSet(files[output'[k]]) \subseteq processed_types'
    BY <1>7, <1>10
  <2>1. CASE k = O + 1
    BY <1>4, <1>8, <1>10, <2>1 DEF C
  <2>2. CASE k \in 1..O
    BY <1>8, <1>10, <2>2 DEF SearchIsSound, O
  <2>. QED  BY <1>16, <2>1, <2>2
<1>24. \A k \in 2..Len(output') : \E m \in 1..(k - 1) : output'[k] \in ToSet(files'[output'[m]])
  <2>. SUFFICES ASSUME NEW k \in 2..(O + 1)
                PROVE  \E m \in 1..(k - 1) : output'[k] \in ToSet(files[output'[m]])
    BY <1>7, <1>10
  <2>1. CASE k = O + 1
    <3>1. PICK m \in 1..O : t \in ToSet(files[output[m]])
      BY <1>2, <1>17 DEF SearchIsSound, O
    <3>2. m \in 1..(k - 1)
      BY <1>1, <2>1
    <3>. QED  BY <1>10, <2>1, <3>1, <3>2
  <2>2. CASE k \in 2..O
    <3>1. PICK m \in 1..(k - 1) : output[k] \in ToSet(files[output[m]])
      BY <2>2 DEF SearchIsSound, O
    <3>2. m \in 1..O /\ k \in 1..O
      BY <1>1, <2>2
    <3>. QED  BY <1>10, <3>1, <3>2
  <2>. QED  BY <1>17, <2>1, <2>2
<1>25. ASSUME NEW k \in 2..Len(output'), NEW m \in 2..Len(output'), output'[k] = output'[m] PROVE k = m
  <2>1. k \in 2..(O + 1) /\ m \in 2..(O + 1)
    BY <1>10
  <2>2. \A x \in 2..O : output'[x] = output[x] /\ output[x] # t
    <3>1. \A x \in 2..O : x \in 1..O
      BY <1>1
    <3>. QED  BY <1>2, <1>10, <3>1 DEF SearchIsSound, O
  <2>3. CASE k = O + 1
    BY <1>10, <1>17, <1>25, <2>1, <2>2, <2>3
  <2>4. CASE m = O + 1
    BY <1>10, <1>17, <1>25, <2>1, <2>2, <2>4
  <2>5. CASE k \in 2..O /\ m \in 2..O
    BY <1>25, <2>2, <2>5 DEF SearchIsSound, O
  <2>. QED  BY <1>17, <2>1, <2>3, <2>4, <2>5
<1>26. ASSUME NEW k \in 1..Len(todo'), NEW m \in 1..Len(todo'), todo'[k] = todo'[m] PROVE k = m
  <2>. DEFINE Old(x) == x - h + 1 \in 2..Len(todo) /\ todo'[x] = todo[x - h + 1]
  <2>1. \A x \in 1..Len(todo') : x \in 1..h \/ Old(x)
    BY <1>11
  <2>2. CASE k \in 1..h /\ m \in 1..h
    BY <1>6, <1>11, <1>26, <2>2 DEF h
  <2>3. CASE k \in 1..h /\ Old(m)
    BY <1>11, <1>12, <1>15, <1>26, <2>3
  <2>4. CASE Old(k) /\ m \in 1..h
    BY <1>11, <1>12, <1>15, <1>26, <2>4
  <2>5. CASE Old(k) /\ Old(m)
    <3>1. k - h + 1 \in 1..Len(todo) /\ m - h + 1 \in 1..Len(todo)
      BY <1>15, <2>5
    <3>2. k - h + 1 = m - h + 1
      <4>1. \A x, y \in 1..Len(todo) : todo[x] = todo[y] => x = y
        BY DEF SearchIsSound
      <4>. QED  BY <1>26, <2>5, <3>1, <4>1
    <3>. QED  BY <1>11, <3>2
  <2>. QED  BY <2>1, <2>2, <2>3, <2>4, <2>5
<1>27. ASSUME NEW k \in 2..Len(output'), NEW m \in 1..Len(todo') PROVE output'[k] # todo'[m]
  <2>1. (k = O + 1 \/ k \in 2..O) /\ output # <<>>
    BY <1>10, <1>17
  <2>2. output'[k] \in processed_types /\ \A x \in 2..Len(todo) : output'[k] # todo[x]
    <3>1. CASE k = O + 1
      <4>1. \A x \in 2..Len(todo) : x # 1
        BY <1>2
      <4>2. output'[k] = todo[1]
        BY <1>2, <1>10, <3>1
      <4>3. \A x \in 2..Len(todo) : todo[1] # todo[x]
        BY <1>2, <1>15, <4>1 DEF SearchIsSound
      <4>. QED  BY <1>2, <1>15, <2>1, <4>2, <4>3
    <3>2. CASE k \in 2..O
      <4>1. k \in 1..O
        BY <1>1, <3>2
      <4>2. output'[k] = output[k] /\ k \in 2..Len(output)
        BY <1>10, <3>2, <4>1 DEF O
      <4>. QED  BY <1>15, <2>1, <4>2 DEF SearchIsSound
    <3>. QED  BY <2>1, <3>1, <3>2
  <2>3. CASE m \in 1..h
    BY <1>11, <1>12, <2>2, <2>3
  <2>4. CASE m \notin 1..h
    BY <1>11, <2>2, <2>4
  <2>. QED  BY <2>3, <2>4
<1>28. SearchIsSound'
  BY <1>18, <1>19, <1>20, <1>21, <1>22, <1>23, <1>24, <1>25, <1>26, <1>27 DEF SearchIsSound
<1>29. processed_types' \in SUBSET Types
  BY <1>1, <1>8, <1>9
<1>30. CacheIsTrue' /\ msg_file_cache' \in [Types -> Seq(Types) \cup {Missing}]
  BY <1>2, <1>4, <1>7 DEF CacheIsTrue, SchemaTypeOK, C
<1>. QED  BY <1>10, <1>11, <1>28, <1>29, <1>30
(* A search that has visited everything leaves a closed definition.        *)
LEMMA SearchEndsClosed ==
  ASSUME SchemaTypeOK, SearchIsSound, todo = <<>>
  PROVE  output \in Seq(Types) /\ ClosedIn(files, root, output) /\ output[1] = root
<1>1. output # <<>>
  BY DEF SearchIsSound
<1>2. 1..Len(todo) = {}
  OBVIOUS
<1>3. \A x \in processed_types : \E k \in 2..Len(output) : output[k] = x
  BY <1>2 DEF SearchIsSound
<1>4. \A k \in 1..Len(output) : ToSet(files[output[k]]) \subseteq {output[m] : m \in 2..Len(output)}
  BY <1>3 DEF SearchIsSound
<1>. QED  BY <1>1, <1>4 DEF SchemaTypeOK, SearchIsSound, ClosedIn

(* The types of the extractor's state.                                     *)
LEMMA SchemaTypesStep ==
  ASSUME SchemaInv, SchemaNext \/ UNCHANGED schemaVars
  PROVE  SchemaTypeOK'
<1>1. files' \in [Types -> Seq(Types) \cup {Missing}]
  BY FilesOnlyAppear DEF SchemaInv
<1>. USE DEF SchemaInv, SchemaTypeOK
<1>2. CASE (\E t \in Types : Install(t)) \/ UNCHANGED schemaVars
  BY <1>1, <1>2 DEF Install, cacheVars, buildVars, schemaVars
<1>3. ASSUME NEW type \in Types \cup Malformed, GetDefinition(type) PROVE SchemaTypeOK'
  <2>1. UNCHANGED <<files, msg_file_cache, definition_cache>>
    BY <1>3 DEF GetDefinition, cacheVars
  <2>2. CASE type \in Malformed
    BY <1>3, <2>1, <2>2, TypesAssumption DEF GetDefinition, buildVars
  <2>3. CASE type \in Types /\ definition_cache[type] # Missing
    BY <1>3, <2>1, <2>3, TypesAssumption DEF GetDefinition, buildVars
  <2>4. CASE type \in Types /\ definition_cache[type] = Missing
    <3>1. /\ root' = type /\ todo' = <<type>> /\ output' = <<>> /\ processed_types' = {}
          /\ UNCHANGED definition
      BY <1>3, <2>4, TypesAssumption DEF GetDefinition
    <3>2. <<type>> \in Seq(Types) /\ <<>> \in Seq(Types)
      BY <2>4
    <3>. QED  BY <2>1, <2>4, <3>1, <3>2
  <2>. QED  BY <1>3, <2>2, <2>3, <2>4 DEF GetDefinition
<1>4. CASE VisitType
  <2>1. SearchIsSound
    BY <1>4 DEF VisitType
  <2>. QED  BY <1>1, <1>4, <2>1, VisitKeepsSearch DEF VisitType
<1>5. CASE VisitMissing \/ FinishDefinition
  <2>1. <<>> \in Seq(Types)
    OBVIOUS
  <2>. QED  BY <1>1, <1>5, <2>1 DEF VisitMissing, FinishDefinition, EndBuild, cacheVars
<1>. QED  BY <1>2, <1>3, <1>4, <1>5 DEF SchemaNext, BuildStep

(* The search and what is cached of files.                                 *)
LEMMA SchemaSearchStep ==
  ASSUME SchemaInv, SchemaNext \/ UNCHANGED schemaVars
  PROVE  CacheIsTrue' /\ (root' # Missing => SearchIsSound')
<1>1. \A t \in Types : files[t] # Missing => files'[t] = files[t]
  BY FilesOnlyAppear DEF SchemaInv
<1>2. ASSUME UNCHANGED msg_file_cache PROVE CacheIsTrue'
  BY <1>1, <1>2 DEF SchemaInv, CacheIsTrue
<1>3. ASSUME UNCHANGED buildVars PROVE root' # Missing => SearchIsSound'
  <2>. SUFFICES ASSUME root # Missing PROVE SearchIsSound'
    BY <1>3 DEF buildVars
  <2>1. SearchIsSound /\ UNCHANGED <<root, todo, output, processed_types>>
    BY <1>3 DEF SchemaInv, buildVars
  <2>2. \A k \in 1..Len(output) : files'[output[k]] = files[output[k]]
    <3>1. \A k \in 1..Len(output) : output[k] \in Types
      BY DEF SchemaInv, SchemaTypeOK
    <3>. QED  BY <1>1, <2>1, <3>1 DEF SearchIsSound
  <2>3. \A k \in 2..Len(output) : \E m \in 1..(k - 1) : output[k] \in ToSet(files'[output[m]])
    <3>. SUFFICES ASSUME NEW k \in 2..Len(output)
                  PROVE  \E m \in 1..(k - 1) : output[k] \in ToSet(files'[output[m]])
      OBVIOUS
    <3>1. PICK m \in 1..(k - 1) : output[k] \in ToSet(files[output[m]])
      BY <2>1 DEF SearchIsSound
    <3>2. Len(output) \in Nat
      BY DEF SchemaInv, SchemaTypeOK
    <3>3. m \in 1..Len(output)
      BY <3>2
    <3>. QED  BY <2>2, <3>1, <3>3
  <2>. QED  BY <2>1, <2>2, <2>3 DEF SearchIsSound
<1>4. CASE (\E t \in Types : Install(t)) \/ UNCHANGED schemaVars
  BY <1>2, <1>3, <1>4 DEF Install, cacheVars, schemaVars
<1>5. ASSUME NEW type \in Types \cup Malformed, GetDefinition(type)
      PROVE  CacheIsTrue' /\ (root' # Missing => SearchIsSound')
  <2>1. CacheIsTrue'
    BY <1>2, <1>5 DEF GetDefinition, cacheVars
  <2>2. ASSUME root' = type, todo' = <<type>>, output' = <<>>, processed_types' = {}
        PROVE  SearchIsSound'
    <3>1. /\ 1..Len(output') = {} /\ 2..Len(output') = {}
          /\ \A k \in 1..Len(todo') : k = 1
      BY <2>2
    <3>2. todo' = <<root'>>
      BY <2>2
    <3>. QED  BY <2>2, <3>1, <3>2 DEF SearchIsSound
  <2>. QED  BY <1>3, <1>5, <2>1, <2>2 DEF GetDefinition
<1>6. CASE VisitType
  BY <1>6, VisitKeepsSearch DEF SchemaInv, VisitType
<1>7. CASE VisitMissing \/ FinishDefinition
  BY <1>2, <1>7 DEF VisitMissing, FinishDefinition, EndBuild, cacheVars
<1>. QED  BY <1>4, <1>5, <1>6, <1>7 DEF SchemaNext, BuildStep

(* What is cached and returned is closed.                                  *)
LEMMA SchemaClosedStep ==
  ASSUME SchemaInv, SchemaNext \/ UNCHANGED schemaVars
  PROVE  /\ DefinitionIsClosed'
         /\ definition' # Missing => IsClosed(definition[1], definition)'
<1>1. \A t \in Types : files[t] # Missing => files'[t] = files[t]
  BY FilesOnlyAppear DEF SchemaInv
<1>2. /\ definition_cache \in [Types -> Seq(Types) \cup {Missing}]
      /\ definition \in Seq(Types) \cup {Missing}
      /\ definition_cache' \in [Types -> Seq(Types) \cup {Missing}]
      /\ definition' \in Seq(Types) \cup {Missing}
  BY SchemaTypesStep DEF SchemaInv, SchemaTypeOK
<1>3. /\ \A t \in Types : definition_cache[t] # Missing =>
           /\ definition_cache[t] \in Seq(Types)
           /\ ClosedIn(files', t, definition_cache[t])
           /\ definition_cache[t][1] = t
      /\ definition # Missing => ClosedIn(files', definition[1], definition)
  <2>1. \A t \in Types : definition_cache[t] # Missing =>
           definition_cache[t] \in Seq(Types) /\ ClosedIn(files, t, definition_cache[t])
    BY <1>2, ClosedForms DEF SchemaInv, DefinitionIsClosed
  <2>2. definition # Missing => definition \in Seq(Types) /\ ClosedIn(files, definition[1], definition)
    BY <1>2, ClosedForms DEF SchemaInv
  <2>3. ASSUME NEW t, NEW d \in Seq(Types), ClosedIn(files, t, d)
        PROVE  ClosedIn(files', t, d) /\ d[1] = t
    <3>1. ClosedIn(files', t, d)
      BY <1>1, <2>3, ClosedFacts
    <3>. QED  BY <2>3, <3>1 DEF ClosedIn
  <2>. QED  BY <2>1, <2>2, <2>3
<1>4. ASSUME FinishDefinition
      PROVE  output \in Seq(Types) /\ ClosedIn(files', root, output) /\ output[1] = root /\ root \in Types
  <2>1. SearchIsSound /\ todo = <<>> /\ root \in Types
    BY <1>4 DEF FinishDefinition, SchemaInv, SchemaTypeOK
  <2>2. output \in Seq(Types) /\ ClosedIn(files, root, output) /\ output[1] = root
    BY <2>1, SearchEndsClosed DEF SchemaInv
  <2>. QED  BY <1>1, <2>1, <2>2, ClosedFacts
<1>5. ASSUME NEW t \in Types, definition_cache'[t] # Missing
      PROVE  definition_cache'[t] \in Seq(Types) /\ ClosedIn(files', t, definition_cache'[t])
  <2>1. CASE FinishDefinition
    <3>1. definition_cache' = [definition_cache EXCEPT ![root] = output]
      BY <2>1 DEF FinishDefinition
    <3>2. CASE t = root
      BY <1>2, <1>4, <2>1, <3>1, <3>2
    <3>3. CASE t # root
      BY <1>2, <1>3, <1>5, <3>1, <3>3
    <3>. QED  BY <3>2, <3>3
  <2>2. CASE ~FinishDefinition
    <3>1. UNCHANGED definition_cache
      BY <2>2 DEF SchemaNext, Install, GetDefinition, BuildStep, VisitType, VisitMissing, cacheVars,
         schemaVars
    <3>. QED  BY <1>3, <1>5, <3>1
  <2>. QED  BY <2>1, <2>2
<1>6. ASSUME definition' # Missing
      PROVE  ClosedIn(files', definition'[1], definition')
  <2>1. CASE FinishDefinition
    <3>1. definition' = output
      BY <2>1 DEF FinishDefinition
    <3>. QED  BY <1>4, <2>1, <3>1
  <2>2. ASSUME NEW type \in Types \cup Malformed, GetDefinition(type)
        PROVE  ClosedIn(files', definition'[1], definition')
    <3>1. \/ definition' = definition
          \/ type \in Types /\ definition_cache[type] # Missing /\ definition' = definition_cache[type]
      BY <1>6, <2>2 DEF GetDefinition
    <3>. QED  BY <1>3, <1>6, <3>1
  <2>3. CASE ~FinishDefinition /\ ~ \E type \in Types \cup Malformed : GetDefinition(type)
    <3>1. UNCHANGED definition
      BY <1>6, <2>3 DEF SchemaNext, Install, BuildStep, VisitType, VisitMissing, schemaVars
    <3>. QED  BY <1>3, <1>6, <3>1
  <2>. QED  BY <2>1, <2>2, <2>3
<1>7. DefinitionIsClosed'
  BY <1>5, ClosedForms DEF DefinitionIsClosed
<1>8. definition' # Missing => IsClosed(definition[1], definition)'
  BY <1>2, <1>6, ClosedForms
<1>. QED  BY <1>7, <1>8

(* The invariant of the search is inductive.                               *)
LEMMA SchemaInvariant == SchemaSpec => []SchemaInv
<1>1. SchemaInit => SchemaInv
  <2>. SUFFICES ASSUME SchemaInit PROVE SchemaInv
    OBVIOUS
  <2>1. files \in [Types -> Seq(Types) \cup {Missing}]
    <3>1. files \in [Types -> UNION {Contents[t] : t \in Types} \cup {Missing}]
      BY DEF SchemaInit
    <3>2. \A t \in Types : Contents[t] \subseteq Seq(Types)
      BY TypesAssumption
    <3>. DEFINE D == UNION {Contents[t] : t \in Types} \cup {Missing}
    <3>3. \A t \in Types : files[t] \in Seq(Types) \cup {Missing}
      BY <3>2 DEF SchemaInit
    <3>4. files \in [Types -> D]
      BY <3>1
    <3>. HIDE DEF D
    <3>. QED  BY <3>3, <3>4
  <2>2. SchemaTypeOK
    BY <2>1 DEF SchemaInit, SchemaTypeOK
  <2>. QED  BY <2>2 DEF SchemaInit, SchemaInv, CacheIsTrue, DefinitionIsClosed
<1>2. SchemaInv /\ [SchemaNext]_schemaVars => SchemaInv'
  BY SchemaTypesStep, SchemaSearchStep, SchemaClosedStep DEF SchemaInv
<1>. QED  BY <1>1, <1>2, PTL DEF SchemaSpec

(* Every definition the extractor caches is closed: a client can decode    *)
(* the type from it alone, whatever types nest what.                       *)
THEOREM DefinitionsAreClosed == SchemaSpec => []DefinitionIsClosed
<1>1. SchemaInv => DefinitionIsClosed
  BY DEF SchemaInv
<1>. QED  BY <1>1, SchemaInvariant, PTL

(* d, if there is one, is the definition of the topic's type.              *)
DefinesTopic(d) == d # Missing => d \in Seq(Types) /\ IsClosed(topic_type, d)

(* The topic's type is the one whose definition is searched, and what is   *)
(* found and what is sent are definitions of it.                           *)
SentIsClosed ==
  /\ request = "extract" => root = topic_type
  /\ request = "subscribe" => DefinesTopic(definition)
  /\ DefinesTopic(sent_schema)

(* A definition stays the topic's definition while files are added.        *)
LEMMA DefinesTopicStays ==
  ASSUME \A t \in Types : files[t] # Missing => files'[t] = files[t],
         UNCHANGED topic_type, NEW d, DefinesTopic(d)
  PROVE  d # Missing => d \in Seq(Types) /\ ClosedIn(files', topic_type', d)
<1>. SUFFICES ASSUME d # Missing PROVE d \in Seq(Types) /\ ClosedIn(files', topic_type', d)
  OBVIOUS
<1>1. d \in Seq(Types) /\ ClosedIn(files, topic_type, d)
  BY ClosedForms DEF DefinesTopic
<1>2. ClosedIn(files', topic_type, d)
  BY <1>1, ClosedFacts
<1>. QED  BY <1>1, <1>2

(* What a search or a cache returns is the definition of the type that     *)
(* was asked for, and so defines the topic if that type is the topic's.    *)
LEMMA ReturnedIsClosed ==
  ASSUME SchemaInv, SchemaInv', NEW type, definition' # Missing,
         \/ GetDefinition(type) /\ root' = Missing
         \/ BuildStep /\ root' = Missing /\ root = type
  PROVE  definition' \in Seq(Types) /\ ClosedIn(files', type, definition')
<1>1. type \in Types /\ definition' = definition_cache'[type]
  <2>1. CASE GetDefinition(type) /\ root' = Missing
    BY <2>1, TypesAssumption DEF GetDefinition, cacheVars
  <2>2. CASE BuildStep /\ root' = Missing /\ root = type
    <3>1. FinishDefinition
      BY <2>2 DEF BuildStep, VisitType, VisitMissing, FinishDefinition
    <3>. QED  BY <2>2, <3>1 DEF FinishDefinition, SchemaInv, SchemaTypeOK
  <2>. QED  BY <2>1, <2>2
<1>2. definition' \in Seq(Types)
  BY DEF SchemaInv, SchemaTypeOK
<1>3. IsClosed(type, definition_cache[type])'
  BY <1>1 DEF SchemaInv, DefinitionIsClosed
<1>. QED  BY <1>1, <1>2, <1>3, ClosedForms

(* With every subscription the client is sent the definition of the        *)
(* topic's type, and it can decode the topic from it.                      *)
THEOREM SubscribersCanDecode == Ros2Spec => []ClientsCanDecode
<1>1. Ros2Init => SentIsClosed
  BY DEF Ros2Init, SentIsClosed, DefinesTopic, None
<1>2. SchemaInv /\ SchemaInv' /\ SchemaFirst /\ SentIsClosed /\ [Ros2Next]_ros2Vars => SentIsClosed'
  <2>. SUFFICES ASSUME SchemaInv, SchemaInv', SchemaFirst, SentIsClosed, [Ros2Next]_ros2Vars
                PROVE  SentIsClosed'
    OBVIOUS
  <2>. DEFINE Defines(d) == d # Missing => d \in Seq(Types) /\ ClosedIn(files', topic_type', d)
  <2>0. SchemaNext \/ UNCHANGED schemaVars
    BY DEF Ros2Next, List, Request, Extract, Pause, Resume, Adapt, SchemaNext, ros2Vars
  <2>1. \A t \in Types : files[t] # Missing => files'[t] = files[t]
    BY <2>0, FilesOnlyAppear DEF SchemaInv
  <2>2. SUFFICES /\ request' = "extract" => root' = topic_type'
                 /\ request' = "subscribe" => Defines(definition')
                 /\ Defines(sent_schema')
    BY ClosedForms DEF SentIsClosed, DefinesTopic
  <2>3. UNCHANGED topic_type => Defines(sent_schema)
    BY <2>1, DefinesTopicStays DEF SentIsClosed
  <2>4. UNCHANGED topic_type /\ request = "subscribe" => Defines(definition)
    BY <2>1, DefinesTopicStays DEF SentIsClosed
  <2>5. ASSUME NEW type, AfterExtract(type), sent_schema = Missing, definition' # Missing =>
                 definition' \in Seq(Types) /\ ClosedIn(files', type, definition')
        PROVE  /\ request' # "extract"
               /\ request' = "subscribe" => Defines(definition')
               /\ Defines(sent_schema')
    BY <2>5 DEF AfterExtract, None
  <2>. HIDE DEF Defines
  <2>6. CASE UNCHANGED <<request, topic_type, sent_schema, root, definition>>
    BY <2>3, <2>4, <2>6 DEF SentIsClosed
  <2>7. ASSUME NEW type \in Types \cup Malformed, List(type)
        PROVE  /\ request' \notin {"extract", "subscribe"}
               /\ Defines(sent_schema')
    BY <2>3, <2>7 DEF List, None, sessionVars
  <2>8. ASSUME NEW type \in Types \cup Malformed, Request(type)
        PROVE  /\ request' = "extract" => root' = topic_type'
               /\ request' = "subscribe" => Defines(definition')
               /\ Defines(sent_schema')
    <3>1. sent_schema = Missing /\ GetDefinition(type)
      BY <2>8 DEF Request, InSession
    <3>2. CASE root' = Missing
      <4>1. AfterExtract(type)
        BY <2>8, <3>2 DEF Request
      <4>2. definition' # Missing => definition' \in Seq(Types) /\ ClosedIn(files', type, definition')
        BY <3>1, <3>2, ReturnedIsClosed
      <4>. QED  BY <2>5, <3>1, <4>1, <4>2
    <3>3. CASE root' # Missing
      <4>1. request' = "extract" /\ topic_type' = type /\ sent_schema' = Missing /\ root' = type
        BY <2>8, <3>1, <3>3 DEF Request, GetDefinition, buildVars
      <4>. QED  BY <4>1 DEF Defines
    <3>. QED  BY <3>2, <3>3
  <2>9. CASE Extract
    <3>1. CASE root' # Missing
      <4>1. UNCHANGED <<request, topic_type, sent_schema>> /\ root' = root /\ request # "subscribe"
        BY <2>9, <3>1 DEF Extract, BuildStep, VisitType, VisitMissing, FinishDefinition, EndBuild
      <4>. QED  BY <2>3, <4>1 DEF SentIsClosed
    <3>2. CASE root' = Missing /\ request = "list"
      <4>1. request' = None /\ UNCHANGED <<topic_type, sent_schema>>
        BY <2>9, <3>2 DEF Extract
      <4>. QED  BY <2>3, <4>1 DEF None
    <3>3. CASE root' = Missing /\ request = "extract"
      <4>1. AfterExtract(topic_type) /\ BuildStep /\ root = topic_type /\ sent_schema = Missing
        BY <2>9, <3>3 DEF Extract, SentIsClosed, SchemaFirst, InSession
      <4>2. definition' # Missing =>
              definition' \in Seq(Types) /\ ClosedIn(files', topic_type, definition')
        BY <3>3, <4>1, ReturnedIsClosed
      <4>. QED  BY <2>5, <4>1, <4>2
    <3>. QED  BY <2>9, <3>1, <3>2, <3>3 DEF Extract
  <2>10. CASE Pause \/ Resume
    <3>1. UNCHANGED <<topic_type, sent_schema>> /\ request' \notin {"extract", "subscribe"}
      BY <2>10 DEF Pause, Resume, None
    <3>. QED  BY <2>3, <3>1
  <2>11. CASE Adapt
    <3>1. /\ UNCHANGED <<topic_type, definition>> /\ request' # "extract"
          /\ request' = "subscribe" => request = "subscribe"
          /\ sent_schema' = sent_schema \/ (request = "subscribe" /\ sent_schema' = definition)
      BY <2>11 DEF Adapt, schemaVars, None
    <3>. QED  BY <2>3, <2>4, <3>1
  <2>12. (\E t \in Types : Install(t) /\ UNCHANGED <<vars, request, sessionVars>>) \/ UNCHANGED ros2Vars
           => UNCHANGED <<request, topic_type, sent_schema, root, definition>>
    BY DEF Install, ros2Vars, schemaVars, sessionVars, buildVars
  <2>. QED  BY <2>6, <2>7, <2>8, <2>9, <2>10, <2>11, <2>12 DEF Ros2Next
<1>3. SchemaInv /\ SchemaFirst /\ SentIsClosed => ClientsCanDecode
  BY DEF SchemaInv, SchemaFirst, SentIsClosed, DefinesTopic, InSession, ClientsCanDecode
<1>. QED  BY <1>1, <1>2, <1>3, SchemaInvariant, Ros2ImplementsSchema, SchemaBeforeSubscription, PTL
          DEF Ros2Spec
=============================================================================
