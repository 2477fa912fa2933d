------------------------- MODULE PublishCycleProofs -------------------------
(***************************************************************************)
(* The publish cycle for any clients, topics, rates and messages, however  *)
(* requests and disconnects fall between its steps: an unlimited topic is  *)
(* complete, as long as groups stay what they are the rate limit holds and *)
(* withholds nothing without need, and the frames decode to what was       *)
(* routed and keep the order of each topic.                                *)
(***************************************************************************)
EXTENDS PublishCycle, FiniteSetTheorems, TLAPS

(* The group of a client and its representative, for given sessions and    *)
(* subscriptions.                                                          *)
GroupIn(ss, cs, c) ==
  {d \in ToSet(ss) : \A t \in Topics :
     \/ cs[c][t] = NoRate /\ cs[d][t] = NoRate
     \/ /\ cs[c][t] # NoRate /\ cs[d][t] # NoRate
        /\ rate_mhz(cs[c][t]) = rate_mhz(cs[d][t])}

RepIn(ss, cs, c) == ss[Min({i \in DOMAIN ss : ss[i] \in GroupIn(ss, cs, c)})]

(* The messages of topic t in the frames fs for client c.                  *)
InFrames(fs, c, t) ==
  {p[2] : p \in {q \in UNION {ToSet(f.msgs) : f \in {g \in ToSet(fs) : c \in g.clients}} : q[1] = t}}

(* Routed messages, and the frames that can hold them.                     *)
Routed == Topics \X Messages
AllFrames == {Frame(q, cl, h) : q \in Seq(Routed), cl \in SUBSET Clients, h \in BOOLEAN}

(* The types, with what the library's SetToSeqs says of finite sets.       *)
CycleTypes ==
  /\ sessions \in Seq(Clients) /\ sessions \in SetToSeqs(ToSet(sessions))
  /\ active \in Seq(Clients) /\ active \in SetToSeqs(ToSet(active))
  /\ subs \in [Clients -> [Topics -> Rates \cup {NoRate}]]
  /\ paused \in SUBSET Clients
  /\ last_sent_times \in [Clients -> [Topics -> {0} \cup Stamps]]
  /\ buffer \in [Topics -> Seq(Messages)]
  /\ received \in 0..MaxMessages
  /\ pc \in {"idle", "publish", "send"}
  /\ messages \in [Topics -> Seq(Messages)]
  /\ client_subs \in [Clients -> [Topics -> Rates \cup {NoRate}]]
  /\ frames \in Seq(AllFrames)
  /\ offered \in [Clients -> [Topics -> SUBSET Messages]]
  /\ handed \in [Clients -> [Topics -> SUBSET Messages]]
  /\ groups \in {"forming", "fixed", "changed"}

(* Only a session has subscriptions, and a cycle knows those of all        *)
(* sessions that are left.                                                 *)
SnapshotCovers ==
  /\ \A c \in Clients : c \notin ToSet(sessions) => subs[c] = NoSubs
  /\ pc # "idle" => \A c \in ToSet(sessions) : c \in ToSet(active) /\ client_subs[c] = subs[c]

(* The frames of an unlimited topic have every message of the cycle.       *)
FramesAreComplete ==
  pc = "send" => \A c \in ToSet(active), t \in Topics :
    client_subs[c][t] = 0 => InFrames(frames, c, t) = ToSet(messages[t])

(* Messages are numbered as they come, and a later cycle finds later ones. *)
Increasing(q) == \A i, j \in 1..Len(q) : i < j => q[i].n < q[j].n

NumbersGrow ==
  \A t \in Topics :
    /\ Increasing(buffer[t]) /\ Increasing(messages[t])
    /\ \A k \in ToSet(buffer[t]) : k.n <= received
    /\ \A m \in ToSet(messages[t]) :
         m.n <= received /\ \A k \in ToSet(buffer[t]) : m.n < k.n
    /\ \A c \in Clients : \A m \in offered[c][t] \cup handed[c][t] :
         /\ m.n <= received
         /\ \A k \in ToSet(buffer[t]) : m.n < k.n
         /\ \A k \in ToSet(messages[t]) : m.n < k.n

(* A cycle sends messages that it found.                                   *)
FramesAreOfCycle ==
  pc = "send" => \A c \in Clients, t \in Topics : InFrames(frames, c, t) \subseteq ToSet(messages[t])

(* What the rate gate has let through so far, of what it found; last is    *)
(* last_sent.                                                              *)
Paced(reached, found, last, interval) ==
  /\ reached \subseteq found
  /\ (reached = {} /\ last = 0) \/ \E m \in reached : last = m.stamp
  /\ \A m \in reached : m.stamp <= last
  /\ \A m, k \in reached : m.n < k.n => k.stamp >= m.stamp + interval
  /\ \A k \in found \ reached : \E m \in reached : m.n < k.n /\ k.stamp < m.stamp + interval

(* With the messages of the frames that are about to be sent.              *)
Reached(c, t) == handed[c][t] \cup (IF pc = "send" THEN InFrames(frames, c, t) ELSE {})
Found(c, t)   == offered[c][t] \cup (IF pc = "send" THEN ToSet(messages[t]) ELSE {})

(* While the groups are fixed, a client is paced by the state of its       *)
(* representative.                                                         *)
FixedGroups ==
  groups # "changed" =>
    /\ pc # "idle" => active = sessions /\ client_subs = subs
    /\ groups = "forming" => \A c \in Clients, t \in Topics :
         /\ handed[c][t] = {} /\ offered[c][t] = {}
         /\ pc # "send" => last_sent_times[c][t] = 0
    /\ \A c \in Clients, t \in Topics :
         c \in paused \/ c \notin ToSet(sessions) => handed[c][t] = {} /\ offered[c][t] = {}
    /\ \A c \in ToSet(sessions) \ paused, t \in Topics : subs[c][t] \notin {0, NoRate} =>
         Paced(Reached(c, t), Found(c, t), last_sent_times[RepIn(sessions, subs, c)][t],
               min_interval(subs[c][t]))

(* The inductive invariant.                                                *)
CycleInv ==
  /\ CycleTypes /\ SnapshotCovers /\ NumbersGrow
  /\ FramesAreOfCycle /\ FramesAreComplete
  /\ UnlimitedIsComplete /\ FixedGroups

-----------------------------------------------------------------------------
(* Sequences, sets and folds.                                              *)

(* Induction over the natural numbers, for a set of them.                  *)
LEMMA NatSetInduction ==
  ASSUME NEW S \in SUBSET Nat, 0 \in S, \A n \in S : n + 1 \in S
  PROVE  S = Nat
<1>. DEFINE R == OpToRel(<, Nat)
            T == Nat \ S
<1>1. R = {ss \in Nat \X Nat : ss[1] < ss[2]}
  BY DEF OpToRel
<1>2. IsWellFoundedOn(R, Nat)
  BY NatLessThanWellFounded
<1>. HIDE DEF R
<1>3. SUFFICES ASSUME T # {} PROVE FALSE
  OBVIOUS
<1>4. PICK x \in T : \A y \in T : ~(<<y, x>> \in R)
  BY <1>2, <1>3, WFMin
<1>5. x \in Nat /\ x # 0 /\ x - 1 \in Nat /\ (x - 1) + 1 = x
  BY <1>4
<1>6. <<x - 1, x>> \in R
  BY <1>1, <1>5
<1>7. x - 1 \in S
  BY <1>4, <1>5, <1>6
<1>. QED  BY <1>4, <1>5, <1>7

(* The largest of the first k numbers in a set.                            *)
LEMMA MaxFacts ==
  ASSUME NEW k \in Nat, NEW s \in SUBSET (1..k), s # {}
  PROVE  /\ Max(s) \in s /\ \A y \in s : y <= Max(s)
         /\ Max(s) \in 1..k
         /\ s \ {Max(s)} \in SUBSET (1..(k - 1))
<1>. DEFINE HasMax(r) == \E x \in r : \A y \in r : x >= y
            N == {n \in Nat : \A r \in SUBSET (1..n) : r # {} => HasMax(r)}
<1>1. 0 \in N
  <2>1. \A r \in SUBSET (1..0) : r = {}
    OBVIOUS
  <2>. QED  BY <2>1
<1>2. ASSUME NEW n \in N PROVE n + 1 \in N
  <2>. SUFFICES ASSUME NEW r \in SUBSET (1..(n + 1)), r # {} PROVE HasMax(r)
    OBVIOUS
  <2>1. CASE n + 1 \in r
    <3>1. \A y \in r : n + 1 >= y
      OBVIOUS
    <3>. QED  BY <2>1, <3>1
  <2>2. CASE n + 1 \notin r
    <3>1. r \in SUBSET (1..n)
      BY <2>2
    <3>. HIDE DEF HasMax
    <3>. QED  BY <3>1
  <2>. QED  BY <2>1, <2>2
<1>3. N = Nat
  <2>. HIDE DEF HasMax
  <2>. QED  BY <1>1, <1>2, NatSetInduction
<1>4. HasMax(s)
  <2>. HIDE DEF HasMax
  <2>. QED  BY <1>3
<1>5. Max(s) \in s /\ \A y \in s : Max(s) >= y
  BY <1>4 DEF Max
<1>. HIDE DEF N, HasMax
<1>6. Max(s) \in 1..k /\ \A y \in s : y <= Max(s)
  BY <1>5
<1>7. ASSUME NEW y \in s, y # Max(s) PROVE y \in 1..(k - 1)
  <2>1. y \in 1..k /\ y <= Max(s)
    BY <1>6
  <2>. QED  BY <1>6, <1>7, <2>1
<1>. QED  BY <1>5, <1>6, <1>7

(* The least of a set of natural numbers.                                  *)
LEMMA MinFacts ==
  ASSUME NEW S \in SUBSET Nat, S # {}
  PROVE  Min(S) \in S /\ \A i \in S : Min(S) <= i
<1>. DEFINE R == OpToRel(<, Nat)
<1>1. R = {ss \in Nat \X Nat : ss[1] < ss[2]}
  BY DEF OpToRel
<1>2. IsWellFoundedOn(R, Nat)
  BY NatLessThanWellFounded
<1>. HIDE DEF R
<1>3. PICK x \in S : \A y \in S : ~(<<y, x>> \in R)
  BY <1>2, WFMin
<1>4. ASSUME NEW y \in S PROVE x <= y
  <2>1. <<y, x>> \in Nat \X Nat /\ <<y, x>>[1] = y /\ <<y, x>>[2] = x
    OBVIOUS
  <2>2. ~(y < x)
    BY <1>1, <1>3, <2>1
  <2>. QED  BY <2>2
<1>. QED  BY <1>4 DEF Min

(* A sequence of the elements of a finite set, each once, has them all.    *)
LEMMA SeqOfSet ==
  ASSUME NEW S, IsFiniteSet(S), NEW q \in SetToSeqs(S)
  PROVE  q \in Seq(S) /\ ToSet(q) = S
<1>. DEFINE k == Cardinality(S)
<1>1. k \in Nat
  BY FS_CardinalityType
<1>2. q \in [1..k -> S] /\ \A i, j \in 1..k : i # j => q[i] # q[j]
  BY DEF SetToSeqs
<1>. HIDE DEF k
<1>3. q \in Injection(1..k, S)
  BY <1>2 DEF Injection, IsInjective
<1>4. IsFiniteSet(1..k) /\ Cardinality(1..k) = k
  <2>1. IsFiniteSet(1..k) /\ Cardinality(1..k) = IF 1 > k THEN 0 ELSE k - 1 + 1
    BY <1>1, FS_Interval
  <2>. QED  BY <1>1, <2>1
<1>5. q \in Surjection(1..k, S)
  BY <1>3, <1>4, FS_Injection DEF k
<1>6. \A x \in S : \E i \in 1..k : q[i] = x
  BY <1>5 DEF Surjection
<1>7. DOMAIN q = 1..k /\ q \in Seq(S)
  BY <1>1, <1>2
<1>. QED  BY <1>2, <1>6, <1>7 DEF ToSet

(* SetToSeq is one of them.                                                *)
LEMMA SetToSeqFacts ==
  ASSUME NEW S, IsFiniteSet(S)
  PROVE  /\ SetToSeq(S) \in Seq(S) /\ ToSet(SetToSeq(S)) = S
         /\ \A i, j \in DOMAIN SetToSeq(S) : i # j => SetToSeq(S)[i] # SetToSeq(S)[j]
<1>1. \E f \in [1..Cardinality(S) -> S] : IsInjective(f)
  BY FS_CardinalityType DEF ExistsBijection, Bijection, Injection
<1>2. SetToSeq(S) \in [1..Cardinality(S) -> S] /\ IsInjective(SetToSeq(S))
  BY <1>1 DEF SetToSeq
<1>3. SetToSeq(S) \in SetToSeqs(S)
  BY <1>2 DEF SetToSeqs, IsInjective
<1>4. \A i, j \in DOMAIN SetToSeq(S) : i # j => SetToSeq(S)[i] # SetToSeq(S)[j]
  BY <1>2 DEF IsInjective
<1>. QED  BY <1>3, <1>4, SeqOfSet

(* A sequence has finitely many elements.                                  *)
LEMMA ToSetFinite ==
  ASSUME NEW X, NEW q \in Seq(X)
  PROVE  IsFiniteSet(ToSet(q)) /\ ToSet(q) \subseteq X
<1>1. Len(q) \in Nat /\ DOMAIN q = 1..Len(q) /\ \A i \in 1..Len(q) : q[i] \in X
  OBVIOUS
<1>2. q \in Surjection(1..Len(q), ToSet(q))
  BY <1>1 DEF Surjection, ToSet
<1>3. IsFiniteSet(1..Len(q))
  BY <1>1, FS_Interval
<1>4. IsFiniteSet(ToSet(q))
  BY <1>2, <1>3, FS_Surjection
<1>. QED  BY <1>1, <1>4 DEF ToSet

(* The sequence without elements.                                          *)
LEMMA NoElements ==
  ASSUME NEW X, NEW q \in Seq(X), ToSet(q) = {}
  PROVE  q = <<>>
<1>1. DOMAIN q = 1..Len(q) /\ Len(q) \in Nat
  OBVIOUS
<1>2. \A i \in 1..Len(q) : FALSE
  BY <1>1 DEF ToSet
<1>3. Len(q) = 0
  BY <1>1, <1>2
<1>. QED  BY <1>3

(* The elements of a concatenation.                                        *)
LEMMA ConcatFacts ==
  ASSUME NEW X, NEW a \in Seq(X), NEW b \in Seq(X)
  PROVE  a \o b \in Seq(X) /\ ToSet(a \o b) = ToSet(a) \cup ToSet(b)
<1>. DEFINE c == a \o b
<1>1. /\ c \in Seq(X) /\ Len(a) \in Nat /\ Len(b) \in Nat /\ Len(c) = Len(a) + Len(b)
      /\ \A i \in 1..Len(c) : c[i] = IF i <= Len(a) THEN a[i] ELSE b[i - Len(a)]
  OBVIOUS
<1>2. DOMAIN a = 1..Len(a) /\ DOMAIN b = 1..Len(b) /\ DOMAIN c = 1..Len(c)
  OBVIOUS
<1>. HIDE DEF c
<1>3. \A i \in 1..Len(a) : i \in 1..Len(c) /\ c[i] = a[i]
  BY <1>1
<1>4. ASSUME NEW i \in 1..Len(b) PROVE i + Len(a) \in 1..Len(c) /\ c[i + Len(a)] = b[i]
  <2>1. /\ i + Len(a) \in 1..Len(c) /\ ~(i + Len(a) <= Len(a))
        /\ (i + Len(a)) - Len(a) = i
    BY <1>1
  <2>. QED  BY <1>1, <2>1
<1>5. ASSUME NEW i \in 1..Len(c)
      PROVE  (\E j \in 1..Len(a) : c[i] = a[j]) \/ (\E j \in 1..Len(b) : c[i] = b[j])
  <2>1. CASE i <= Len(a)
    <3>1. i \in 1..Len(a) /\ c[i] = a[i]
      BY <1>1, <2>1
    <3>. QED  BY <3>1
  <2>2. CASE ~(i <= Len(a))
    <3>1. i - Len(a) \in 1..Len(b) /\ c[i] = b[i - Len(a)]
      BY <1>1, <2>2
    <3>. QED  BY <3>1
  <2>. QED  BY <2>1, <2>2
<1>6. ToSet(c) \subseteq ToSet(a) \cup ToSet(b)
  BY <1>2, <1>5 DEF ToSet
<1>7. ToSet(a) \cup ToSet(b) \subseteq ToSet(c)
  BY <1>2, <1>3, <1>4 DEF ToSet
<1>. QED  BY <1>1, <1>6, <1>7 DEF c

(* The elements of a sequence with one more at the end.                    *)
LEMMA AppendFacts ==
  ASSUME NEW X, NEW a \in Seq(X), NEW x \in X
  PROVE  Append(a, x) \in Seq(X) /\ ToSet(Append(a, x)) = ToSet(a) \cup {x}
<1>1. <<x>> \in Seq(X) /\ ToSet(<<x>>) = {x} /\ Append(a, x) = a \o <<x>>
  BY DEF ToSet
<1>2. a \o <<x>> \in Seq(X) /\ ToSet(a \o <<x>>) = ToSet(a) \cup ToSet(<<x>>)
  BY <1>1, ConcatFacts
<1>. QED  BY <1>1, <1>2

(* f concatenates the first sequences of ss, one more at each position.    *)
Flattens(f, ss) ==
  f = [i \in 1..Len(ss) |-> IF i = 1 THEN ss[i] ELSE f[i - 1] \o ss[i]]

(* The recursive function behind FlattenSeq exists.                        *)
LEMMA FlattensExist ==
  ASSUME NEW X, NEW ss \in Seq(X)
  PROVE  \E f : Flattens(f, ss)
<1>. DEFINE Rest(f, i) == IF i = 1 THEN ss[i] ELSE f[i - 1] \o ss[i]
            Has(n) == \E f : f = [i \in 1..n |-> Rest(f, i)]
            N == {n \in Nat : Has(n)}
<1>1. 0 \in N
  <2>. DEFINE f == [i \in 1..0 |-> 0]
  <2>1. \A i \in 1..0 : FALSE
    OBVIOUS
  <2>2. f = [i \in 1..0 |-> Rest(f, i)]
    <3>. HIDE DEF Rest
    <3>. QED  BY <2>1
  <2>. QED  BY <2>2
<1>2. ASSUME NEW n \in N PROVE n + 1 \in N
  <2>1. PICK f : f = [i \in 1..n |-> Rest(f, i)]
    OBVIOUS
  <2>. DEFINE h == [i \in 1..(n + 1) |-> Rest(f, i)]
  <2>2. n \in Nat /\ \A i \in 1..n : i \in 1..(n + 1)
    OBVIOUS
  <2>3. \A i \in 1..n : h[i] = f[i]
    <3>. HIDE DEF Rest
    <3>. QED  BY <2>1, <2>2
  <2>4. \A i \in 1..(n + 1) : i = 1 \/ i - 1 \in 1..n
    BY <2>2
  <2>5. \A i \in 1..(n + 1) : Rest(h, i) = Rest(f, i)
    <3>. HIDE DEF h
    <3>. QED  BY <2>3, <2>4
  <2>6. h = [i \in 1..(n + 1) |-> Rest(h, i)]
    <3>. HIDE DEF Rest
    <3>. QED  BY <2>5
  <2>7. Has(n + 1)
    <3>. HIDE DEF h
    <3>. QED  BY <2>6
  <2>. HIDE DEF Has
  <2>. QED  BY <2>2, <2>7
<1>3. N = Nat
  <2>. HIDE DEF Has
  <2>. QED  BY <1>1, <1>2, NatSetInduction
<1>4. Has(Len(ss))
  <2>. HIDE DEF Has
  <2>1. Len(ss) \in Nat
    OBVIOUS
  <2>. QED  BY <1>3, <2>1
<1>. QED  BY <1>4 DEF Flattens

(* FlattenSeq has the elements of all the sequences.                       *)
LEMMA FlattenFacts ==
  ASSUME NEW X, NEW ss \in Seq(Seq(X))
  PROVE  /\ FlattenSeq(ss) \in Seq(X)
         /\ \A x : x \in ToSet(FlattenSeq(ss)) <=> \E i \in 1..Len(ss) : x \in ToSet(ss[i])
<1>. DEFINE F == CHOOSE f : Flattens(f, ss)
            L == Len(ss)
            Right(k) == /\ F[k] \in Seq(X)
                        /\ \A x : x \in ToSet(F[k]) <=> \E i \in 1..k : x \in ToSet(ss[i])
            N == {k \in Nat : k + 1 <= L => Right(k + 1)}
<1>1. L \in Nat /\ \A i \in 1..L : ss[i] \in Seq(X)
  OBVIOUS
<1>2. CASE L = 0
  <2>1. FlattenSeq(ss) = ss /\ ss = <<>>
    BY <1>2 DEF FlattenSeq
  <2>2. <<>> \in Seq(X) /\ ToSet(<<>>) = {}
    BY DEF ToSet
  <2>. QED  BY <1>2, <2>1, <2>2
<1>3. CASE L # 0
  <2>1. FlattenSeq(ss) = F[L]
    BY <1>3 DEF FlattenSeq, Flattens
  <2>2. Flattens(F, ss)
    <3>1. \E f : Flattens(f, ss)
      BY FlattensExist
    <3>. QED  BY <3>1
  <2>. HIDE DEF F
  <2>3. F[1] = ss[1]
    BY <1>1, <1>3, <2>2 DEF Flattens
  <2>4. ASSUME NEW k \in 2..L PROVE F[k] = F[k - 1] \o ss[k]
    <3>1. k \in 1..Len(ss) /\ k # 1
      BY <1>1
    <3>2. F[k] = IF k = 1 THEN ss[k] ELSE F[k - 1] \o ss[k]
      BY <2>2, <3>1 DEF Flattens
    <3>. QED  BY <3>1, <3>2
  <2>. HIDE DEF L
  <2>5. 0 \in N
    <3>1. 1..1 = {1} /\ 1 \in 1..L
      BY <1>1, <1>3
    <3>2. Right(1)
      BY <1>1, <2>3, <3>1
    <3>. HIDE DEF Right
    <3>3. 0 + 1 = 1 /\ 0 \in Nat
      OBVIOUS
    <3>. QED  BY <3>2, <3>3
  <2>6. ASSUME NEW k \in N PROVE k + 1 \in N
    <3>. SUFFICES ASSUME (k + 1) + 1 <= L PROVE Right((k + 1) + 1)
      OBVIOUS
    <3>. DEFINE j == k + 1
    <3>1. j \in Nat /\ j + 1 \in 2..L /\ j + 1 \in 1..L /\ (j + 1) - 1 = j /\ k + 1 <= L
      BY <1>1
    <3>2. Right(j)
      BY <3>1
    <3>. HIDE DEF j
    <3>3. F[j + 1] = F[j] \o ss[j + 1]
      BY <2>4, <3>1
    <3>4. F[j + 1] \in Seq(X) /\ ToSet(F[j + 1]) = ToSet(F[j]) \cup ToSet(ss[j + 1])
      BY <1>1, <3>1, <3>2, <3>3, ConcatFacts
    <3>5. \A i : i \in 1..(j + 1) <=> i = j + 1 \/ i \in 1..j
      BY <3>1
    <3>6. Right(j + 1)
      BY <3>2, <3>4, <3>5
    <3>. HIDE DEF Right
    <3>. QED  BY <3>6 DEF j
  <2>7. N = Nat
    <3>. HIDE DEF Right
    <3>. QED  BY <2>5, <2>6, NatSetInduction
  <2>8. Right(L)
    <3>1. L - 1 \in Nat /\ (L - 1) + 1 = L /\ L <= L
      BY <1>1, <1>3
    <3>. HIDE DEF Right
    <3>. QED  BY <2>7, <3>1
  <2>. QED  BY <2>1, <2>8 DEF L
<1>. QED  BY <1>2, <1>3

-----------------------------------------------------------------------------
(* The rate gate.                                                          *)

(* The fields of a message.                                                *)
LEMMA MessageFacts ==
  ASSUME NEW m \in Messages
  PROVE  m.n \in Nat /\ m.stamp \in Nat /\ m.stamp \in Stamps /\ m.stamp >= Second
<1>1. m.n \in 1..MaxMessages /\ m.stamp \in Stamps
  BY DEF Messages
<1>2. m.n \in Nat
  BY <1>1, BoundsAssumption
<1>3. m.stamp \in Nat /\ m.stamp >= Second
  BY <1>1, StampsAssumption
<1>. QED  BY <1>1, <1>2, <1>3

(* One more number at the end of a growing sequence.                       *)
LEMMA IncreasingAppend ==
  ASSUME NEW q \in Seq(Messages), Increasing(q), NEW m \in Messages, \A k \in ToSet(q) : k.n < m.n
  PROVE  Increasing(Append(q, m))
<1>. DEFINE b == Append(q, m)
            L == Len(q)
<1>1. L \in Nat /\ Len(b) = L + 1 /\ b[L + 1] = m /\ \A i \in 1..L : b[i] = q[i]
  OBVIOUS
<1>2. \A i \in 1..L : q[i] \in ToSet(q)
  BY DEF ToSet
<1>3. \A i, j \in 1..L : i < j => q[i].n < q[j].n
  BY DEF Increasing
<1>. HIDE DEF b, L
<1>4. ASSUME NEW i \in 1..Len(b), NEW j \in 1..Len(b), i < j PROVE b[i].n < b[j].n
  <2>1. i \in 1..L /\ (j \in 1..L \/ j = L + 1)
    BY <1>1, <1>4
  <2>2. CASE j \in 1..L
    BY <1>1, <1>3, <1>4, <2>1, <2>2
  <2>3. CASE j = L + 1
    BY <1>1, <1>2, <2>1, <2>3
  <2>. QED  BY <2>1, <2>2, <2>3
<1>5. Increasing(b)
  BY <1>4 DEF Increasing
<1>. QED  BY <1>5 DEF b

(* What Admit has let through (out) of the messages it has seen, from the  *)
(* last_sent it was given to the one it has now.                           *)
Gate(out, seen, from, last, interval) ==
  /\ out \subseteq seen /\ seen \subseteq Messages /\ last \in Nat /\ from <= last
  /\ (out = {} /\ last = from) \/ \E m \in out : m.stamp = last
  /\ \A m \in out : from + interval <= m.stamp /\ m.stamp <= last
  /\ \A m, k \in out : m.n < k.n => k.stamp >= m.stamp + interval
  /\ \A k \in seen \ out : \/ k.stamp < from + interval
                           \/ \E m \in out : m.n < k.n /\ k.stamp < m.stamp + interval

(* One more message, later than those seen, passes the gate or does not.   *)
LEMMA GateStep ==
  ASSUME NEW out, NEW seen, NEW from \in Nat, NEW last, NEW interval \in Nat,
         Gate(out, seen, from, last, interval),
         NEW x \in Messages, \A k \in seen : k.n < x.n
  PROVE  /\ x.stamp >= last + interval => Gate(out \cup {x}, seen \cup {x}, from, x.stamp, interval)
         /\ x.stamp < last + interval  => Gate(out, seen \cup {x}, from, last, interval)
<1>1. /\ last \in Nat /\ from <= last /\ x.stamp \in Nat /\ x.n \in Nat
      /\ \A m \in seen \cup {x} : m \in Messages /\ m.n \in Nat /\ m.stamp \in Nat
  <2>1. seen \subseteq Messages /\ last \in Nat /\ from <= last
    BY DEF Gate
  <2>. QED  BY <2>1, MessageFacts
<1>2. out \subseteq seen
  BY DEF Gate
<1>3. ASSUME x.stamp >= last + interval
      PROVE  Gate(out \cup {x}, seen \cup {x}, from, x.stamp, interval)
  <2>1. from + interval <= x.stamp /\ from <= x.stamp /\ last <= x.stamp
    BY <1>1, <1>3
  <2>2. \A m \in out \cup {x} : from + interval <= m.stamp /\ m.stamp <= x.stamp
    <3>1. \A m \in out : from + interval <= m.stamp /\ m.stamp <= last /\ m.stamp \in Nat
      BY <1>1, <1>2 DEF Gate
    <3>. QED  BY <1>1, <2>1, <3>1
  <2>3. ASSUME NEW m \in out \cup {x}, NEW k \in out \cup {x}, m.n < k.n
        PROVE  k.stamp >= m.stamp + interval
    <3>1. CASE k = x
      <4>1. m \in out
        BY <1>1, <2>3, <3>1
      <4>2. m.stamp <= last /\ m.stamp \in Nat
        BY <1>1, <1>2, <4>1 DEF Gate
      <4>. QED  BY <1>1, <1>3, <3>1, <4>2
    <3>2. CASE k # x /\ m = x
      <4>1. k.n < m.n /\ k.n \in Nat /\ m.n \in Nat
        BY <1>1, <1>2, <3>2
      <4>. QED  BY <2>3, <4>1
    <3>3. CASE k # x /\ m # x
      BY <2>3, <3>3 DEF Gate
    <3>. QED  BY <3>1, <3>2, <3>3
  <2>4. ASSUME NEW k \in (seen \cup {x}) \ (out \cup {x})
        PROVE  \/ k.stamp < from + interval
               \/ \E m \in out \cup {x} : m.n < k.n /\ k.stamp < m.stamp + interval
    BY DEF Gate
  <2>5. \E m \in out \cup {x} : m.stamp = x.stamp
    OBVIOUS
  <2>6. out \cup {x} \subseteq seen \cup {x} /\ seen \cup {x} \subseteq Messages
    BY <1>1, <1>2
  <2>. QED  BY <1>1, <2>1, <2>2, <2>3, <2>4, <2>5, <2>6 DEF Gate
<1>4. ASSUME x.stamp < last + interval
      PROVE  Gate(out, seen \cup {x}, from, last, interval)
  <2>1. ASSUME NEW k \in (seen \cup {x}) \ out
        PROVE  \/ k.stamp < from + interval
               \/ \E m \in out : m.n < k.n /\ k.stamp < m.stamp + interval
    <3>1. CASE k = x
      <4>1. CASE out = {} /\ last = from
        BY <1>4, <3>1, <4>1
      <4>2. CASE \E m \in out : m.stamp = last
        <5>1. PICK m \in out : m.stamp = last
          BY <4>2
        <5>2. m.n < k.n /\ k.stamp < m.stamp + interval
          BY <1>2, <1>4, <3>1, <5>1
        <5>. QED  BY <5>2
      <4>. QED  BY <4>1, <4>2 DEF Gate
    <3>2. CASE k # x
      BY <3>2 DEF Gate
    <3>. QED  BY <3>1, <3>2
  <2>2. out \subseteq seen \cup {x} /\ seen \cup {x} \subseteq Messages
    BY <1>1, <1>2
  <2>. QED  BY <2>1, <2>2 DEF Gate
<1>. QED  BY <1>3, <1>4

(* One step of the fold in Admit.                                          *)
Admitted(acc, m, interval) ==
  IF m.stamp >= acc.last_sent + interval
  THEN [out |-> Append(acc.out, m), last_sent |-> m.stamp] ELSE acc

AdmitFold(g, q, last, interval) ==
  g = [s \in SUBSET DOMAIN q |->
         IF s = {} THEN [out |-> <<>>, last_sent |-> last]
         ELSE Admitted(g[s \ {Max(s)}], q[Max(s)], interval)]

(* The recursive function behind the fold exists.                          *)
LEMMA AdmitFoldExists ==
  ASSUME NEW K \in Nat, NEW q, DOMAIN q = 1..K, NEW last, NEW interval
  PROVE  \E g : AdmitFold(g, q, last, interval)
<1>. DEFINE Rest(g, s) == IF s = {} THEN [out |-> <<>>, last_sent |-> last]
                          ELSE Admitted(g[s \ {Max(s)}], q[Max(s)], interval)
            Has(n) == \E g : g = [s \in SUBSET (1..n) |-> Rest(g, s)]
            N == {n \in Nat : Has(n)}
<1>1. 0 \in N
  <2>. DEFINE g == [s \in SUBSET (1..0) |-> [out |-> <<>>, last_sent |-> last]]
  <2>1. \A s \in SUBSET (1..0) : s = {}
    OBVIOUS
  <2>2. g = [s \in SUBSET (1..0) |-> Rest(g, s)]
    BY <2>1
  <2>. QED  BY <2>2
<1>2. ASSUME NEW n \in N PROVE n + 1 \in N
  <2>1. PICK g : g = [s \in SUBSET (1..n) |-> Rest(g, s)]
    OBVIOUS
  <2>. DEFINE h == [s \in SUBSET (1..(n + 1)) |-> Rest(g, s)]
  <2>2. ASSUME NEW s \in SUBSET (1..(n + 1)), s # {} PROVE s \ {Max(s)} \in SUBSET (1..n)
    <3>1. n + 1 \in Nat /\ (n + 1) - 1 = n
      OBVIOUS
    <3>. HIDE DEF N
    <3>. QED  BY <2>2, <3>1, MaxFacts
  <2>3. \A s \in SUBSET (1..n) : g[s] = Rest(g, s) /\ s \in SUBSET (1..(n + 1))
    <3>1. \A y \in 1..n : y \in 1..(n + 1)
      OBVIOUS
    <3>. HIDE DEF Rest
    <3>. QED  BY <2>1, <3>1
  <2>4. \A s \in SUBSET (1..n) : h[s] = g[s]
    <3>. HIDE DEF Rest
    <3>. QED  BY <2>3
  <2>5. \A s \in SUBSET (1..(n + 1)) : Rest(h, s) = Rest(g, s)
    <3>. HIDE DEF h
    <3>. QED  BY <2>2, <2>4
  <2>6. h = [s \in SUBSET (1..(n + 1)) |-> Rest(h, s)]
    <3>. HIDE DEF Rest
    <3>. QED  BY <2>5
  <2>7. Has(n + 1)
    <3>. HIDE DEF h
    <3>. QED  BY <2>6
  <2>. HIDE DEF Has
  <2>. QED  BY <2>7
<1>3. N = Nat
  <2>. HIDE DEF Has
  <2>. QED  BY <1>1, <1>2, NatSetInduction
<1>4. Has(K)
  <2>. HIDE DEF Has
  <2>. QED  BY <1>3
<1>. QED  BY <1>4 DEF AdmitFold

(* What Admit lets through of the messages of a topic.                     *)
LEMMA AdmitFacts ==
  ASSUME NEW q \in Seq(Messages), Increasing(q), NEW last \in Nat, NEW interval \in Nat
  PROVE  /\ Admit(q, last, interval).out \in Seq(Messages) /\ Increasing(Admit(q, last, interval).out)
         /\ Gate(ToSet(Admit(q, last, interval).out), ToSet(q), last,
                 Admit(q, last, interval).last_sent, interval)
<1>. DEFINE G == CHOOSE g : AdmitFold(g, q, last, interval)
            L == Len(q)
            Seen(k) == {q[i] : i \in 1..k}
            Right(a, k) == /\ a.out \in Seq(Messages) /\ Increasing(a.out)
                           /\ Gate(ToSet(a.out), Seen(k), last, a.last_sent, interval)
            N == {k \in Nat : k <= L => Right(G[1..k], k)}
<1>1. L \in Nat /\ DOMAIN q = 1..L /\ \A i \in 1..L : q[i] \in Messages
  OBVIOUS
<1>2. AdmitFold(G, q, last, interval)
  <2>1. \E g : AdmitFold(g, q, last, interval)
    BY <1>1, AdmitFoldExists
  <2>. QED  BY <2>1
<1>3. Admit(q, last, interval) = G[DOMAIN q]
  BY DEF Admit, FoldLeft, MapThenFoldSet, AdmitFold, Admitted
<1>. HIDE DEF G
<1>4. G[{}] = [out |-> <<>>, last_sent |-> last]
  BY <1>2 DEF AdmitFold
<1>5. ASSUME NEW k \in Nat, k + 1 <= L PROVE G[1..(k + 1)] = Admitted(G[1..k], q[k + 1], interval)
  <2>. DEFINE s == 1..(k + 1)
  <2>. HIDE DEF L
  <2>1. k + 1 \in Nat /\ s \in SUBSET (1..(k + 1)) /\ k + 1 \in s /\ k + 1 \in 1..L
    BY <1>1, <1>5
  <2>2. s \in SUBSET DOMAIN q
    BY <1>1, <1>5
  <2>3. Max(s) = k + 1
    <3>1. Max(s) \in 1..(k + 1) /\ \A y \in s : y <= Max(s)
      BY <2>1, MaxFacts
    <3>. QED  BY <2>1, <3>1
  <2>4. s \ {k + 1} = 1..k
    BY <1>1
  <2>. HIDE DEF s
  <2>5. G[s] = Admitted(G[s \ {Max(s)}], q[Max(s)], interval)
    BY <1>2, <2>1, <2>2 DEF AdmitFold
  <2>6. G[s] = Admitted(G[1..k], q[k + 1], interval)
    BY <2>3, <2>4, <2>5
  <2>. QED  BY <2>6 DEF s
<1>6. 0 \in N
  <2>. DEFINE a == [out |-> <<>>, last_sent |-> last]
  <2>1. 1..0 = {} /\ ToSet(<<>>) = {} /\ <<>> \in Seq(Messages) /\ Seen(0) = {} /\ Increasing(<<>>)
    BY DEF ToSet, Increasing
  <2>2. Gate({}, {}, last, last, interval)
    BY DEF Gate
  <2>3. Right(a, 0)
    BY <2>1, <2>2
  <2>. HIDE DEF Right
  <2>. QED  BY <1>4, <2>1, <2>3
<1>7. ASSUME NEW k \in N PROVE k + 1 \in N
  <2>. SUFFICES ASSUME k + 1 <= L PROVE Right(G[1..(k + 1)], k + 1)
    OBVIOUS
  <2>. DEFINE a == G[1..k]
              x == q[k + 1]
  <2>1. k \in Nat /\ k <= L /\ k + 1 \in 1..L
    BY <1>1
  <2>2. Right(a, k)
    BY <2>1
  <2>3. x \in Messages
    BY <1>1, <2>1
  <2>4. G[1..(k + 1)] = Admitted(a, x, interval)
    BY <1>5, <2>1
  <2>5. Seen(k + 1) = Seen(k) \cup {x}
    <3>1. \A i : i \in 1..(k + 1) <=> i = k + 1 \/ i \in 1..k
      BY <2>1
    <3>. QED  BY <3>1
  <2>6. \A m \in Seen(k) : m.n < x.n
    <3>1. ASSUME NEW i \in 1..k PROVE q[i].n < q[k + 1].n
      <4>1. i \in 1..L /\ i < k + 1
        BY <1>1, <2>1
      <4>. QED  BY <2>1, <4>1 DEF Increasing
    <3>. QED  BY <3>1
  <2>7. /\ a.out \in Seq(Messages) /\ Increasing(a.out)
        /\ Gate(ToSet(a.out), Seen(k), last, a.last_sent, interval)
    BY <2>2
  <2>8. a.last_sent \in Nat /\ x.stamp \in Nat
    BY <2>3, <2>7, MessageFacts DEF Gate
  <2>. HIDE DEF a, x, Seen, L
  <2>9. CASE x.stamp >= a.last_sent + interval
    <3>1. G[1..(k + 1)] = [out |-> Append(a.out, x), last_sent |-> x.stamp]
      BY <2>4, <2>9 DEF Admitted
    <3>2. Append(a.out, x) \in Seq(Messages) /\ ToSet(Append(a.out, x)) = ToSet(a.out) \cup {x}
      BY <2>3, <2>7, AppendFacts
    <3>3. Increasing(Append(a.out, x))
      <4>1. \A m \in ToSet(a.out) : m.n < x.n
        BY <2>6, <2>7 DEF Gate
      <4>. QED  BY <2>3, <2>7, <4>1, IncreasingAppend
    <3>4. Gate(ToSet(a.out) \cup {x}, Seen(k) \cup {x}, last, x.stamp, interval)
      BY <2>3, <2>6, <2>7, <2>9, GateStep
    <3>. DEFINE b == [out |-> Append(a.out, x), last_sent |-> x.stamp]
    <3>5. b.out = Append(a.out, x) /\ b.last_sent = x.stamp
      OBVIOUS
    <3>. HIDE DEF b
    <3>6. Right(b, k + 1)
      BY <2>5, <3>2, <3>3, <3>4, <3>5
    <3>. QED  BY <3>1, <3>6 DEF b
  <2>10. CASE ~(x.stamp >= a.last_sent + interval)
    <3>1. G[1..(k + 1)] = a
      BY <2>4, <2>10 DEF Admitted
    <3>2. x.stamp < a.last_sent + interval
      BY <2>8, <2>10
    <3>3. Gate(ToSet(a.out), Seen(k) \cup {x}, last, a.last_sent, interval)
      BY <2>3, <2>6, <2>7, <3>2, GateStep
    <3>. QED  BY <2>5, <2>7, <3>1, <3>3
  <2>. QED  BY <2>9, <2>10
<1>8. N = Nat
  <2>. HIDE DEF Right
  <2>. QED  BY <1>6, <1>7, NatSetInduction
<1>9. Right(Admit(q, last, interval), L)
  <2>. HIDE DEF Right, L
  <2>1. L <= L
    BY <1>1
  <2>. QED  BY <1>1, <1>3, <1>8, <2>1
<1>10. ToSet(q) = Seen(L)
  BY <1>1 DEF ToSet
<1>. HIDE DEF Seen
<1>. QED  BY <1>9, <1>10

-----------------------------------------------------------------------------
(* Rates and intervals.                                                    *)

(* Division of natural numbers.                                            *)
LEMMA DivFacts ==
  ASSUME NEW a \in Nat, NEW b \in Nat \ {0}
  PROVE  a \div b \in Nat /\ b * (a \div b) <= a /\ a < b * (a \div b) + b
OBVIOUS

(* A rate that limits is at least 1 mHz, so its interval is defined and at *)
(* most that of 1 mHz.                                                     *)
LEMMA RateFacts ==
  /\ 0 \in Rates /\ NoRate \notin Rates /\ rate_mhz(0) = 0
  /\ \A r \in Rates : r \in Nat /\ rate_mhz(r) \in Nat
  /\ \A r \in Rates : r # 0 =>
       rate_mhz(r) \in Nat \ {0} /\ min_interval(r) \in Nat /\ min_interval(r) <= Second
<1>1. RateUnits \in Nat \ {0} /\ MaxRate \in Nat \ {0} /\ NoRate \notin Int /\ Second \in Nat
  BY RatesAssumption, StampsAssumption
<1>2. \A r \in Rates : r \in Nat /\ (r # 0 => r >= RateUnits)
  BY <1>1 DEF Rates
<1>3. 0 \in Rates /\ NoRate \notin Rates
  <2>1. \A r \in Rates : r \in Int
    BY <1>2
  <2>2. 0 \in Rates
    BY DEF Rates
  <2>. QED  BY <1>1, <2>1, <2>2
<1>4. \A r \in Rates : rate_mhz(r) \in Nat
  BY <1>1, <1>2, DivFacts DEF rate_mhz
<1>5. rate_mhz(0) = 0
  BY <1>1 DEF rate_mhz
<1>6. ASSUME NEW r \in Rates, r # 0
      PROVE  rate_mhz(r) \in Nat \ {0} /\ min_interval(r) \in Nat /\ min_interval(r) <= Second
  <2>. DEFINE h == rate_mhz(r)
  <2>1. h \in Nat /\ r < RateUnits * h + RateUnits /\ r >= RateUnits /\ r \in Nat
    BY <1>1, <1>2, <1>6, DivFacts DEF rate_mhz
  <2>. HIDE DEF h
  <2>2. h # 0
    <3>. SUFFICES ASSUME h = 0 PROVE FALSE
      OBVIOUS
    <3>1. RateUnits * h = 0
      BY <1>1
    <3>. QED  BY <1>1, <2>1, <3>1
  <2>. DEFINE v == Second \div h
  <2>3. v \in Nat /\ h * v <= Second
    BY <1>1, <2>1, <2>2, DivFacts
  <2>. HIDE DEF v
  <2>4. v <= h * v
    BY <2>1, <2>2, <2>3
  <2>5. v <= Second
    BY <1>1, <2>1, <2>3, <2>4
  <2>. QED  BY <2>1, <2>2, <2>3, <2>5 DEF min_interval, h, v
<1>. QED  BY <1>2, <1>3, <1>4, <1>5, <1>6

(* Products of natural numbers grow with their factors.                    *)
LEMMA MulMono ==
  ASSUME NEW a \in Nat, NEW b \in Nat, a <= b, NEW c \in Nat
  PROVE  a * c \in Nat /\ a * c <= b * c /\ c * a <= c * b
OBVIOUS

(* A tick more than the interval is longer than 1 / max_rate_hz.           *)
LEMMA IntervalIsLong ==
  ASSUME NEW r \in Rates, r # 0, NEW d \in Nat, d >= min_interval(r)
  PROVE  (d + 1) * r > Second * RateUnits
<1>. DEFINE h == rate_mhz(r)
            v == min_interval(r)
<1>1. RateUnits \in Nat \ {0} /\ Second \in Nat
  BY RatesAssumption, StampsAssumption
<1>2. r \in Nat /\ h \in Nat \ {0} /\ v \in Nat
  BY RateFacts
<1>3. RateUnits * h <= r
  BY <1>1, <1>2, DivFacts DEF rate_mhz
<1>4. Second < h * v + h
  BY <1>1, <1>2, DivFacts DEF min_interval
<1>5. d >= v
  OBVIOUS
<1>. HIDE DEF h, v
<1>6. h * v + h = h * (v + 1) /\ v + 1 \in Nat /\ d + 1 \in Nat /\ v + 1 <= d + 1
  BY <1>2, <1>5
<1>7. Second + 1 <= h * (v + 1) /\ h * (v + 1) \in Nat
  BY <1>1, <1>2, <1>4, <1>6
<1>. DEFINE w == h * (v + 1)
<1>8. RateUnits * (Second + 1) <= RateUnits * w
  <2>. HIDE DEF w
  <2>1. w \in Nat /\ Second + 1 \in Nat /\ Second + 1 <= w
    BY <1>1, <1>7 DEF w
  <2>. QED  BY <1>1, <2>1, MulMono
<1>9. RateUnits * w = (RateUnits * h) * (v + 1)
  BY <1>1, <1>2, <1>6
<1>10. (RateUnits * h) * (v + 1) <= r * (v + 1)
  <2>1. RateUnits * h \in Nat
    BY <1>1, <1>2
  <2>. QED  BY <1>2, <1>3, <1>6, <2>1, MulMono
<1>11. r * (v + 1) <= r * (d + 1)
  BY <1>2, <1>6, MulMono
<1>12. RateUnits * (Second + 1) = Second * RateUnits + RateUnits
  BY <1>1
<1>13. /\ Second * RateUnits \in Nat /\ RateUnits * w \in Nat
       /\ r * (v + 1) \in Nat /\ r * (d + 1) \in Nat /\ (d + 1) * r = r * (d + 1)
  BY <1>1, <1>2, <1>6, <1>7
<1>. HIDE DEF w
<1>. QED  BY <1>1, <1>8, <1>9, <1>10, <1>11, <1>12, <1>13

-----------------------------------------------------------------------------
(* Groups.                                                                 *)

(* The cycle groups the sessions of its snapshot.                          *)
LEMMA GroupForms ==
  /\ \A c : Group(c) = GroupIn(active, client_subs, c)
  /\ \A c : Representative(c) = RepIn(active, client_subs, c)
<1>1. \A c : Group(c) = GroupIn(active, client_subs, c)
  BY DEF Group, GroupIn
<1>. QED  BY <1>1 DEF Representative, RepIn

(* Clients of a group have the same group and the same representative, one *)
(* of them.                                                                *)
LEMMA GroupFacts ==
  ASSUME NEW ss \in Seq(Clients), NEW cs, NEW c \in ToSet(ss)
  PROVE  /\ c \in GroupIn(ss, cs, c)
         /\ \A d \in GroupIn(ss, cs, c) :
              GroupIn(ss, cs, d) = GroupIn(ss, cs, c) /\ RepIn(ss, cs, d) = RepIn(ss, cs, c)
         /\ RepIn(ss, cs, c) \in GroupIn(ss, cs, c)
         /\ RepIn(ss, cs, c) \in ToSet(ss)
<1>1. c \in GroupIn(ss, cs, c)
  BY DEF GroupIn
<1>2. ASSUME NEW d \in GroupIn(ss, cs, c)
      PROVE  GroupIn(ss, cs, d) = GroupIn(ss, cs, c) /\ RepIn(ss, cs, d) = RepIn(ss, cs, c)
  <2>1. GroupIn(ss, cs, d) = GroupIn(ss, cs, c)
    BY DEF GroupIn
  <2>. QED  BY <2>1 DEF RepIn
<1>3. RepIn(ss, cs, c) \in GroupIn(ss, cs, c)
  <2>. DEFINE I == {i \in DOMAIN ss : ss[i] \in GroupIn(ss, cs, c)}
  <2>1. I \in SUBSET Nat
    <3>1. DOMAIN ss = 1..Len(ss) /\ Len(ss) \in Nat
      OBVIOUS
    <3>. QED  BY <3>1
  <2>2. I # {}
    BY <1>1 DEF ToSet
  <2>3. RepIn(ss, cs, c) = ss[Min(I)]
    BY DEF RepIn
  <2>4. Min(I) \in I
    <3>. HIDE DEF I
    <3>. QED  BY <2>1, <2>2, MinFacts
  <2>. QED  BY <2>3, <2>4
<1>. QED  BY <1>1, <1>2, <1>3 DEF GroupIn

-----------------------------------------------------------------------------
(* Frames.                                                                 *)

(* The messages of one kind.                                               *)
LEMMA OfClassFacts ==
  ASSUME NEW X, NEW q \in Seq(X), NEW heavy
  PROVE  /\ OfClass(q, heavy) \in Seq(X)
         /\ \A x : x \in ToSet(OfClass(q, heavy)) <=> x \in ToSet(q) /\ (IsHeavy(x) = heavy)
<1>. DEFINE pick(x) == IF IsHeavy(x) = heavy THEN <<x>> ELSE <<>>
            ss == [i \in DOMAIN q |-> pick(q[i])]
<1>1. DOMAIN q = 1..Len(q) /\ Len(q) \in Nat /\ \A i \in 1..Len(q) : q[i] \in X
  OBVIOUS
<1>2. OfClass(q, heavy) = FlattenSeq(ss)
  BY DEF OfClass
<1>3. ASSUME NEW x \in X
      PROVE  pick(x) \in Seq(X) /\ \A y : y \in ToSet(pick(x)) <=> y = x /\ (IsHeavy(y) = heavy)
  <2>1. <<x>> \in Seq(X) /\ <<>> \in Seq(X) /\ ToSet(<<x>>) = {x} /\ ToSet(<<>>) = {}
    BY DEF ToSet
  <2>. HIDE DEF pick
  <2>2. CASE IsHeavy(x) = heavy
    <3>1. pick(x) = <<x>>
      BY <2>2 DEF pick
    <3>. QED  BY <2>1, <2>2, <3>1
  <2>3. CASE ~(IsHeavy(x) = heavy)
    <3>1. pick(x) = <<>>
      BY <2>3 DEF pick
    <3>. QED  BY <2>1, <2>3, <3>1
  <2>. QED  BY <2>2, <2>3
<1>. HIDE DEF pick
<1>4. ss \in Seq(Seq(X)) /\ Len(ss) = Len(q) /\ \A i \in 1..Len(q) : ss[i] = pick(q[i])
  BY <1>1, <1>3
<1>. HIDE DEF ss
<1>5. /\ FlattenSeq(ss) \in Seq(X)
      /\ \A x : x \in ToSet(FlattenSeq(ss)) <=> \E i \in 1..Len(ss) : x \in ToSet(ss[i])
  BY <1>4, FlattenFacts
<1>6. \A x : (\E i \in 1..Len(ss) : x \in ToSet(ss[i])) <=>
               (\E i \in 1..Len(q) : x = q[i] /\ (IsHeavy(x) = heavy))
  BY <1>1, <1>3, <1>4
<1>7. \A x : x \in ToSet(q) <=> \E i \in 1..Len(q) : x = q[i]
  BY <1>1 DEF ToSet
<1>. QED  BY <1>2, <1>5, <1>6, <1>7

(* The fields of a frame.                                                  *)
LEMMA FrameFacts ==
  \A q, cl, h : Frame(q, cl, h).msgs = q /\ Frame(q, cl, h).clients = cl /\ Frame(q, cl, h).heavy = h
BY DEF Frame

(* The frames of a group have its messages, and its clients.               *)
LEMMA FramesOfFacts ==
  ASSUME NEW q \in Seq(Routed), NEW cl \in SUBSET Clients
  PROVE  /\ FramesOf(q, cl) \in Seq(AllFrames)
         /\ \A f \in ToSet(FramesOf(q, cl)) : f.clients = cl
         /\ \A p : (\E f \in ToSet(FramesOf(q, cl)) : p \in ToSet(f.msgs)) <=> p \in ToSet(q)
<1>. DEFINE light == OfClass(q, FALSE)
            heavy == OfClass(q, TRUE)
            F == IF light = <<>> THEN <<>> ELSE <<Frame(light, cl, FALSE)>>
            H == [i \in DOMAIN heavy |-> Frame(<<heavy[i]>>, cl, TRUE)]
<1>1. FramesOf(q, cl) = F \o H
  BY DEF FramesOf
<1>2. /\ light \in Seq(Routed) /\ heavy \in Seq(Routed)
      /\ \A x : x \in ToSet(light) <=> x \in ToSet(q) /\ ~IsHeavy(x)
      /\ \A x : x \in ToSet(heavy) <=> x \in ToSet(q) /\ IsHeavy(x)
  <2>1. \A x : IsHeavy(x) \in BOOLEAN
    BY DEF IsHeavy
  <2>2. light \in Seq(Routed) /\ \A x : x \in ToSet(light) <=> x \in ToSet(q) /\ (IsHeavy(x) = FALSE)
    BY OfClassFacts
  <2>3. heavy \in Seq(Routed) /\ \A x : x \in ToSet(heavy) <=> x \in ToSet(q) /\ (IsHeavy(x) = TRUE)
    BY OfClassFacts
  <2>. HIDE DEF light, heavy
  <2>4. \A x : (IsHeavy(x) = TRUE <=> IsHeavy(x)) /\ (IsHeavy(x) = FALSE <=> ~IsHeavy(x))
    BY <2>1, Zenon
  <2>. QED  BY <2>2, <2>3, <2>4, Zenon
<1>. HIDE DEF light, heavy
<1>3. ASSUME NEW m \in Seq(Routed), NEW h \in BOOLEAN PROVE Frame(m, cl, h) \in AllFrames
  BY DEF AllFrames
<1>4. F \in Seq(AllFrames) /\ \A f : f \in ToSet(F) <=> light # <<>> /\ f = Frame(light, cl, FALSE)
  <2>. DEFINE fr == Frame(light, cl, FALSE)
  <2>1. fr \in AllFrames
    BY <1>2, <1>3
  <2>. HIDE DEF fr
  <2>2. <<fr>> \in Seq(AllFrames) /\ <<>> \in Seq(AllFrames) /\ ToSet(<<fr>>) = {fr} /\ ToSet(<<>>) = {}
    BY <2>1 DEF ToSet
  <2>3. F = IF light = <<>> THEN <<>> ELSE <<fr>>
    BY DEF fr
  <2>. HIDE DEF F
  <2>. QED  BY <2>2, <2>3 DEF fr
<1>5. /\ H \in Seq(AllFrames)
      /\ \A f : f \in ToSet(H) <=> \E x \in ToSet(heavy) : f = Frame(<<x>>, cl, TRUE)
  <2>. DEFINE one(x) == Frame(<<x>>, cl, TRUE)
  <2>1. DOMAIN heavy = 1..Len(heavy) /\ Len(heavy) \in Nat /\ \A i \in 1..Len(heavy) : heavy[i] \in Routed
    BY <1>2
  <2>2. ASSUME NEW x \in Routed PROVE one(x) \in AllFrames
    <3>1. <<x>> \in Seq(Routed)
      OBVIOUS
    <3>. QED  BY <1>3, <3>1
  <2>3. H = [i \in DOMAIN heavy |-> one(heavy[i])]
    OBVIOUS
  <2>. HIDE DEF one, H
  <2>4. H \in Seq(AllFrames) /\ DOMAIN H = DOMAIN heavy
    BY <2>1, <2>2, <2>3
  <2>5. \A f : f \in ToSet(H) <=> \E x \in ToSet(heavy) : f = one(x)
    BY <2>3, <2>4 DEF ToSet
  <2>. QED  BY <2>4, <2>5 DEF one
<1>. HIDE DEF F, H
<1>6. F \o H \in Seq(AllFrames) /\ ToSet(F \o H) = ToSet(F) \cup ToSet(H)
  BY <1>4, <1>5, ConcatFacts
<1>7. ASSUME NEW f \in ToSet(F) \cup ToSet(H) PROVE f.clients = cl
  <2>1. CASE f = Frame(light, cl, FALSE)
    BY <2>1, FrameFacts
  <2>2. ASSUME NEW x \in ToSet(heavy), f = Frame(<<x>>, cl, TRUE) PROVE f.clients = cl
    BY <2>2, FrameFacts
  <2>. QED  BY <1>4, <1>5, <2>1, <2>2
<1>8. ASSUME NEW p PROVE (\E f \in ToSet(F) \cup ToSet(H) : p \in ToSet(f.msgs)) <=> p \in ToSet(q)
  <2>1. \A x : ToSet(<<x>>) = {x}
    BY DEF ToSet
  <2>2. ASSUME NEW f \in ToSet(F) \cup ToSet(H), p \in ToSet(f.msgs) PROVE p \in ToSet(q)
    <3>1. CASE f = Frame(light, cl, FALSE)
      <4>1. f.msgs = light
        BY <3>1, FrameFacts
      <4>. QED  BY <1>2, <2>2, <4>1
    <3>2. ASSUME NEW x \in ToSet(heavy), f = Frame(<<x>>, cl, TRUE) PROVE p \in ToSet(q)
      <4>1. f.msgs = <<x>>
        BY <3>2, FrameFacts
      <4>2. p = x
        BY <2>1, <2>2, <4>1
      <4>. QED  BY <1>2, <4>2
    <3>. QED  BY <1>4, <1>5, <3>1, <3>2
  <2>3. ASSUME p \in ToSet(q) PROVE \E f \in ToSet(F) \cup ToSet(H) : p \in ToSet(f.msgs)
    <3>1. CASE ~IsHeavy(p)
      <4>1. p \in ToSet(light)
        BY <1>2, <2>3, <3>1
      <4>2. light # <<>>
        BY <4>1 DEF ToSet
      <4>3. Frame(light, cl, FALSE) \in ToSet(F) /\ Frame(light, cl, FALSE).msgs = light
        BY <1>4, <4>2, FrameFacts
      <4>. QED  BY <4>1, <4>3
    <3>2. CASE IsHeavy(p)
      <4>1. p \in ToSet(heavy)
        BY <1>2, <2>3, <3>2
      <4>2. Frame(<<p>>, cl, TRUE) \in ToSet(H) /\ Frame(<<p>>, cl, TRUE).msgs = <<p>>
        BY <1>5, <4>1, FrameFacts
      <4>. QED  BY <2>1, <4>2
    <3>. QED  BY <3>1, <3>2
  <2>. QED  BY <2>2, <2>3
<1>. QED  BY <1>1, <1>6, <1>7, <1>8

-----------------------------------------------------------------------------
(* What a cycle routes.                                                    *)

(* The messages of a topic that a group is sent, and the last_sent that    *)
(* remains.                                                                *)
LEMMA RouteTopicFacts ==
  ASSUME CycleTypes, NEW r \in Clients, NEW t \in Topics, Increasing(messages[t])
  PROVE  LET o == RouteTopic(r, t) IN
         /\ o.out \in Seq(Messages) /\ Increasing(o.out)
         /\ ToSet(o.out) \subseteq ToSet(messages[t])
         /\ o.last_sent \in {0} \cup Stamps
         /\ o.out = <<>> => o.last_sent = last_sent_times[r][t]
         /\ client_subs[r][t] # NoRate /\ rate_mhz(client_subs[r][t]) = 0 =>
              ToSet(o.out) = ToSet(messages[t])
         /\ client_subs[r][t] \notin {0, NoRate} =>
              Gate(ToSet(o.out), ToSet(messages[t]), last_sent_times[r][t], o.last_sent,
                   min_interval(client_subs[r][t]))
<1>. DEFINE rate == client_subs[r][t]
            last == last_sent_times[r][t]
            q == messages[t]
            o == RouteTopic(r, t)
<1>1. rate \in Rates \cup {NoRate} /\ last \in {0} \cup Stamps /\ q \in Seq(Messages)
  BY DEF CycleTypes
<1>2. last \in Nat
  <2>1. \A x \in {0} \cup Stamps : x \in Nat
    BY StampsAssumption
  <2>. HIDE DEF last
  <2>. QED  BY <1>1, <2>1
<1>3. ToSet(<<>>) = {} /\ <<>> \in Seq(Messages) /\ Increasing(<<>>)
  BY DEF ToSet, Increasing
<1>4. o = IF rate = NoRate \/ q = <<>> THEN [out |-> <<>>, last_sent |-> last]
          ELSE IF rate_mhz(rate) = 0 THEN [out |-> q, last_sent |-> last]
          ELSE Admit(q, last, min_interval(rate))
  BY DEF RouteTopic
<1>5. Increasing(q)
  OBVIOUS
<1>. HIDE DEF rate, last, q, o
<1>6. CASE rate = NoRate \/ q = <<>>
  <2>1. o.out = <<>> /\ o.last_sent = last
    BY <1>4, <1>6
  <2>2. rate \notin {0, NoRate} => ToSet(q) = {}
    BY <1>3, <1>6
  <2>3. rate \notin {0, NoRate} => Gate({}, {}, last, last, min_interval(rate))
    BY <1>2 DEF Gate
  <2>4. rate \notin {0, NoRate} => Gate(ToSet(o.out), ToSet(q), last, o.last_sent, min_interval(rate))
    BY <1>3, <2>1, <2>2, <2>3, Zenon
  <2>5. rate # NoRate => ToSet(o.out) = ToSet(q)
    BY <1>3, <1>6, <2>1
  <2>6. ToSet(o.out) \subseteq ToSet(q) /\ o.out \in Seq(Messages) /\ Increasing(o.out)
    BY <1>3, <2>1
  <2>. QED  BY <1>1, <2>1, <2>4, <2>5, <2>6 DEF rate, last, q, o
<1>7. CASE rate # NoRate /\ q # <<>> /\ rate_mhz(rate) = 0
  <2>1. o.out = q /\ o.last_sent = last
    BY <1>4, <1>7
  <2>2. rate = 0
    BY <1>1, <1>7, RateFacts
  <2>. QED  BY <1>1, <1>5, <2>1, <2>2 DEF rate, last, q, o
<1>8. CASE rate # NoRate /\ q # <<>> /\ rate_mhz(rate) # 0
  <2>1. o = Admit(q, last, min_interval(rate))
    BY <1>4, <1>8
  <2>2. rate \in Rates /\ rate # 0
    BY <1>1, <1>8, RateFacts
  <2>3. min_interval(rate) \in Nat
    BY <2>2, RateFacts
  <2>4. /\ o.out \in Seq(Messages) /\ Increasing(o.out)
        /\ Gate(ToSet(o.out), ToSet(q), last, o.last_sent, min_interval(rate))
    BY <1>1, <1>2, <1>5, <2>1, <2>3, AdmitFacts
  <2>5. ToSet(o.out) \subseteq ToSet(q) /\ ToSet(o.out) \subseteq Messages
    BY <2>4 DEF Gate
  <2>6. (ToSet(o.out) = {} /\ o.last_sent = last) \/ \E m \in ToSet(o.out) : m.stamp = o.last_sent
    BY <2>4 DEF Gate
  <2>7. o.last_sent \in {0} \cup Stamps
    BY <1>1, <2>5, <2>6, MessageFacts
  <2>8. o.out = <<>> => o.last_sent = last
    BY <1>3, <2>6
  <2>. QED  BY <1>8, <2>4, <2>5, <2>7, <2>8 DEF rate, last, q, o
<1>. QED  BY <1>6, <1>7, <1>8

(* The messages routed for a group, of all topics.                         *)
LEMMA RoutedFacts ==
  ASSUME CycleTypes, NEW r \in Clients, \A t \in Topics : Increasing(messages[t])
  PROVE  /\ RoutedTo(r) \in Seq(Routed)
         /\ \A p : p \in ToSet(RoutedTo(r)) <=>
                   \E t \in Topics : \E m \in ToSet(RouteTopic(r, t).out) : p = <<t, m>>
<1>. DEFINE out(t) == RouteTopic(r, t).out
            routed(t) == [i \in DOMAIN out(t) |-> <<t, out(t)[i]>>]
            order == SetToSeq(Topics)
            ss == [k \in DOMAIN order |-> routed(order[k])]
<1>1. RoutedTo(r) = FlattenSeq(ss)
  BY DEF RoutedTo
<1>2. order \in Seq(Topics) /\ ToSet(order) = Topics
  BY BoundsAssumption, SetToSeqFacts
<1>. HIDE DEF order
<1>3. \A t \in Topics : out(t) \in Seq(Messages)
  BY RouteTopicFacts
<1>. HIDE DEF out
<1>4. ASSUME NEW t \in Topics
      PROVE  routed(t) \in Seq(Routed) /\ \A p : p \in ToSet(routed(t)) <=> \E m \in ToSet(out(t)) : p = <<t, m>>
  <2>1. /\ DOMAIN out(t) = 1..Len(out(t)) /\ Len(out(t)) \in Nat
        /\ \A i \in 1..Len(out(t)) : out(t)[i] \in Messages
    BY <1>3
  <2>2. \A i \in 1..Len(out(t)) : <<t, out(t)[i]>> \in Routed
    BY <2>1 DEF Routed
  <2>. DEFINE u == out(t)
  <2>. HIDE DEF u
  <2>3. routed(t) \in Seq(Routed) /\ DOMAIN routed(t) = DOMAIN out(t)
    BY <2>1, <2>2
  <2>4. \A p : p \in ToSet(routed(t)) <=> \E i \in DOMAIN out(t) : p = <<t, out(t)[i]>>
    BY <2>3 DEF ToSet
  <2>. HIDE DEF routed
  <2>. QED  BY <2>3, <2>4 DEF ToSet
<1>. HIDE DEF routed
<1>5. /\ ss \in Seq(Seq(Routed)) /\ Len(ss) = Len(order) /\ DOMAIN order = 1..Len(order)
      /\ \A k \in 1..Len(order) : ss[k] = routed(order[k]) /\ order[k] \in Topics
  <2>1. DOMAIN order = 1..Len(order) /\ Len(order) \in Nat /\ \A k \in 1..Len(order) : order[k] \in Topics
    BY <1>2
  <2>. QED  BY <1>4, <2>1
<1>. HIDE DEF ss
<1>6. /\ FlattenSeq(ss) \in Seq(Routed)
      /\ \A p : p \in ToSet(FlattenSeq(ss)) <=> \E k \in 1..Len(ss) : p \in ToSet(ss[k])
  BY <1>5, FlattenFacts
<1>7. ASSUME NEW p
      PROVE  (\E k \in 1..Len(ss) : p \in ToSet(ss[k])) <=> (\E t \in Topics : p \in ToSet(routed(t)))
  <2>1. \A t \in Topics : \E k \in 1..Len(order) : order[k] = t
    BY <1>2, <1>5 DEF ToSet
  <2>. QED  BY <1>5, <2>1
<1>8. ASSUME NEW p
      PROVE  (\E t \in Topics : p \in ToSet(routed(t))) <=>
             (\E t \in Topics : \E m \in ToSet(RouteTopic(r, t).out) : p = <<t, m>>)
  BY <1>4 DEF out
<1>. QED  BY <1>1, <1>6, <1>7, <1>8

(* The critical section of a cycle: each client that subscribes to         *)
(* anything gets frames with what its representative is routed, and        *)
(* nothing else, and the representative's last_sent follows.               *)
LEMMA PublishRouteFacts ==
  ASSUME CycleTypes, \A t \in Topics : Increasing(messages[t]), PublishRoute
  PROVE  /\ frames' \in Seq(AllFrames)
         /\ last_sent_times' \in [Clients -> [Topics -> {0} \cup Stamps]]
         /\ \A c \in Clients, t \in Topics : InFrames(frames', c, t) \subseteq ToSet(messages[t])
         /\ \A c \in ToSet(active), t \in Topics : client_subs[c][t] # NoRate =>
              LET r == RepIn(active, client_subs, c) IN
              /\ r \in Clients
              /\ client_subs[r][t] # NoRate /\ rate_mhz(client_subs[r][t]) = rate_mhz(client_subs[c][t])
              /\ InFrames(frames', c, t) = ToSet(RouteTopic(r, t).out)
              /\ last_sent_times'[r][t] = RouteTopic(r, t).last_sent
<1>. DEFINE grouped == {c \in ToSet(active) : client_subs[c] # NoSubs}
            R(c) == RepIn(active, client_subs, c)
            G(c) == GroupIn(active, client_subs, c)
            Reps == {R(c) : c \in grouped}
            reps == SetToSeq(Reps)
            served == {c \in grouped : RoutedTo(R(c)) # <<>>}
            ss == [i \in DOMAIN reps |-> FramesOf(RoutedTo(reps[i]), G(reps[i]))]
            In(p, c) == \E f \in ToSet(frames') : c \in f.clients /\ p \in ToSet(f.msgs)
<1>1. ToSet(active) \subseteq Clients /\ IsFiniteSet(ToSet(active)) /\ active \in Seq(Clients)
  BY ToSetFinite DEF CycleTypes
<1>2. /\ last_sent_times' = [c \in Clients |->
           IF c \in served THEN [t \in Topics |-> RouteTopic(R(c), t).last_sent] ELSE last_sent_times[c]]
      /\ frames' = FlattenSeq(ss)
  BY GroupForms DEF PublishRoute
<1>3. ASSUME NEW c \in ToSet(active)
      PROVE  /\ c \in G(c) /\ R(c) \in G(c) /\ R(c) \in ToSet(active)
             /\ \A d \in G(c) : G(d) = G(c) /\ R(d) = R(c)
  BY <1>1, GroupFacts
<1>4. \A c : G(c) \in SUBSET ToSet(active)
  BY DEF GroupIn
<1>. HIDE DEF R, G
<1>5. Reps \subseteq ToSet(active) /\ IsFiniteSet(Reps)
  <2>1. Reps \in SUBSET ToSet(active)
    BY <1>3
  <2>. HIDE DEF Reps
  <2>2. IsFiniteSet(Reps)
    BY <1>1, <2>1, FS_Subset
  <2>. QED  BY <2>1, <2>2
<1>6. reps \in Seq(Reps) /\ ToSet(reps) = Reps
  <2>. HIDE DEF Reps
  <2>. QED  BY <1>5, SetToSeqFacts
<1>. HIDE DEF reps
<1>7. ASSUME NEW r \in ToSet(active)
      PROVE  /\ RoutedTo(r) \in Seq(Routed)
             /\ \A p : p \in ToSet(RoutedTo(r)) <=>
                       \E t \in Topics : \E m \in ToSet(RouteTopic(r, t).out) : p = <<t, m>>
             /\ FramesOf(RoutedTo(r), G(r)) \in Seq(AllFrames)
             /\ \A f \in ToSet(FramesOf(RoutedTo(r), G(r))) : f.clients = G(r)
             /\ \A p : (\E f \in ToSet(FramesOf(RoutedTo(r), G(r))) : p \in ToSet(f.msgs)) <=>
                         p \in ToSet(RoutedTo(r))
  <2>1. r \in Clients
    BY <1>1
  <2>2. /\ RoutedTo(r) \in Seq(Routed)
        /\ \A p : p \in ToSet(RoutedTo(r)) <=>
                  \E t \in Topics : \E m \in ToSet(RouteTopic(r, t).out) : p = <<t, m>>
    BY <2>1, RoutedFacts
  <2>3. G(r) \in SUBSET Clients
    BY <1>1, <1>4
  <2>. DEFINE q == RoutedTo(r)
              cl == G(r)
  <2>4. q \in Seq(Routed) /\ cl \in SUBSET Clients
    BY <2>2, <2>3
  <2>. HIDE DEF q, cl
  <2>5. /\ FramesOf(q, cl) \in Seq(AllFrames)
        /\ \A f \in ToSet(FramesOf(q, cl)) : f.clients = cl
        /\ \A p : (\E f \in ToSet(FramesOf(q, cl)) : p \in ToSet(f.msgs)) <=> p \in ToSet(q)
    BY <2>4, FramesOfFacts
  <2>. QED  BY <2>2, <2>5 DEF q, cl
<1>8. /\ ss \in Seq(Seq(AllFrames)) /\ Len(ss) = Len(reps) /\ DOMAIN reps = 1..Len(reps)
      /\ \A i \in 1..Len(reps) : reps[i] \in Reps /\ ss[i] = FramesOf(RoutedTo(reps[i]), G(reps[i]))
  <2>1. DOMAIN reps = 1..Len(reps) /\ Len(reps) \in Nat /\ \A i \in 1..Len(reps) : reps[i] \in Reps
    BY <1>6
  <2>. DEFINE fr(r) == FramesOf(RoutedTo(r), G(r))
  <2>2. \A r \in Reps : fr(r) \in Seq(AllFrames)
    BY <1>5, <1>7
  <2>3. ss = [i \in DOMAIN reps |-> fr(reps[i])]
    OBVIOUS
  <2>. HIDE DEF fr, ss, Reps
  <2>4. /\ ss \in Seq(Seq(AllFrames)) /\ Len(ss) = Len(reps)
        /\ \A i \in 1..Len(reps) : ss[i] = fr(reps[i])
    BY <2>1, <2>2, <2>3
  <2>. QED  BY <2>1, <2>4 DEF fr
<1>. HIDE DEF ss
<1>9. /\ FlattenSeq(ss) \in Seq(AllFrames)
      /\ \A f : f \in ToSet(FlattenSeq(ss)) <=> \E i \in 1..Len(ss) : f \in ToSet(ss[i])
  BY <1>8, FlattenFacts
<1>10. ASSUME NEW f
       PROVE  f \in ToSet(frames') <=> \E r \in Reps : f \in ToSet(FramesOf(RoutedTo(r), G(r)))
  <2>1. \A r \in Reps : \E i \in 1..Len(reps) : reps[i] = r
    BY <1>6, <1>8 DEF ToSet
  <2>. HIDE DEF Reps
  <2>. QED  BY <1>2, <1>8, <1>9, <2>1
<1>11. ASSUME NEW c, NEW t
       PROVE  \A x : x \in InFrames(frames', c, t) <=> \E p : In(p, c) /\ p[1] = t /\ x = p[2]
  BY DEF InFrames
<1>12. ASSUME NEW c, NEW p
       PROVE  In(p, c) <=> \E r \in Reps : c \in G(r) /\ p \in ToSet(RoutedTo(r))
  <2>1. ASSUME In(p, c) PROVE \E r \in Reps : c \in G(r) /\ p \in ToSet(RoutedTo(r))
    <3>1. PICK f \in ToSet(frames') : c \in f.clients /\ p \in ToSet(f.msgs)
      BY <2>1
    <3>2. PICK r \in Reps : f \in ToSet(FramesOf(RoutedTo(r), G(r)))
      BY <1>10, <3>1
    <3>3. r \in ToSet(active)
      BY <1>5, <3>2
    <3>4. c \in G(r) /\ p \in ToSet(RoutedTo(r))
      BY <1>7, <3>1, <3>2, <3>3
    <3>. QED  BY <3>4
  <2>2. ASSUME NEW r \in Reps, c \in G(r), p \in ToSet(RoutedTo(r)) PROVE In(p, c)
    <3>1. r \in ToSet(active)
      BY <1>5, <2>2
    <3>2. PICK f \in ToSet(FramesOf(RoutedTo(r), G(r))) : p \in ToSet(f.msgs)
      BY <1>7, <2>2, <3>1
    <3>3. f.clients = G(r) /\ f \in ToSet(frames')
      BY <1>7, <1>10, <2>2, <3>1, <3>2
    <3>. QED  BY <2>2, <3>2, <3>3
  <2>. QED  BY <2>1, <2>2
<1>. HIDE DEF In
<1>13. ASSUME NEW c, NEW t \in Topics
       PROVE  \A x : x \in InFrames(frames', c, t) <=>
                     \E r \in Reps : c \in G(r) /\ x \in ToSet(RouteTopic(r, t).out)
  <2>1. ASSUME NEW x \in InFrames(frames', c, t)
        PROVE  \E r \in Reps : c \in G(r) /\ x \in ToSet(RouteTopic(r, t).out)
    <3>1. PICK p : In(p, c) /\ p[1] = t /\ x = p[2]
      BY <1>11
    <3>2. PICK r \in Reps : c \in G(r) /\ p \in ToSet(RoutedTo(r))
      BY <1>12, <3>1
    <3>3. r \in ToSet(active)
      BY <1>5, <3>2
    <3>4. PICK u \in Topics : \E m \in ToSet(RouteTopic(r, u).out) : p = <<u, m>>
      BY <1>7, <3>2, <3>3
    <3>5. PICK m \in ToSet(RouteTopic(r, u).out) : p = <<u, m>>
      BY <3>4
    <3>6. u = t /\ m = x
      BY <3>1, <3>5
    <3>. QED  BY <3>2, <3>5, <3>6
  <2>2. ASSUME NEW r \in Reps, c \in G(r), NEW x \in ToSet(RouteTopic(r, t).out)
        PROVE  x \in InFrames(frames', c, t)
    <3>. DEFINE p == <<t, x>>
    <3>1. r \in ToSet(active)
      BY <1>5, <2>2
    <3>2. p \in ToSet(RoutedTo(r))
      BY <1>7, <3>1
    <3>3. In(p, c)
      BY <1>12, <2>2, <3>2
    <3>4. p[1] = t /\ p[2] = x
      OBVIOUS
    <3>. HIDE DEF p
    <3>. QED  BY <1>11, <3>3, <3>4
  <2>. QED  BY <2>1, <2>2
<1>14. ASSUME NEW r \in ToSet(active), NEW t \in Topics
       PROVE  /\ ToSet(RouteTopic(r, t).out) \subseteq ToSet(messages[t])
              /\ RouteTopic(r, t).last_sent \in {0} \cup Stamps
              /\ RouteTopic(r, t).out = <<>> => RouteTopic(r, t).last_sent = last_sent_times[r][t]
  <2>1. r \in Clients
    BY <1>1
  <2>. QED  BY <2>1, RouteTopicFacts
<1>15. \A c \in Clients, t \in Topics : InFrames(frames', c, t) \subseteq ToSet(messages[t])
  <2>. HIDE DEF Reps
  <2>. QED  BY <1>5, <1>13, <1>14
<1>16. last_sent_times' \in [Clients -> [Topics -> {0} \cup Stamps]]
  <2>1. last_sent_times \in [Clients -> [Topics -> {0} \cup Stamps]]
    BY DEF CycleTypes
  <2>2. ASSUME NEW c \in served PROVE [t \in Topics |-> RouteTopic(R(c), t).last_sent] \in [Topics -> {0} \cup Stamps]
    <3>1. R(c) \in ToSet(active)
      BY <1>3
    <3>. QED  BY <1>14, <3>1
  <2>. HIDE DEF served
  <2>. QED  BY <1>2, <2>1, <2>2
<1>17. ASSUME NEW c \in ToSet(active), NEW t \in Topics, client_subs[c][t] # NoRate
       PROVE  /\ R(c) \in Clients
              /\ client_subs[R(c)][t] # NoRate /\ rate_mhz(client_subs[R(c)][t]) = rate_mhz(client_subs[c][t])
              /\ InFrames(frames', c, t) = ToSet(RouteTopic(R(c), t).out)
              /\ last_sent_times'[R(c)][t] = RouteTopic(R(c), t).last_sent
  <2>. DEFINE r == R(c)
  <2>1. r \in ToSet(active) /\ r \in G(c) /\ r \in Clients /\ c \in G(r) /\ R(r) = r /\ G(r) = G(c)
    BY <1>1, <1>3
  <2>2. client_subs[r][t] # NoRate /\ rate_mhz(client_subs[r][t]) = rate_mhz(client_subs[c][t])
    BY <1>17, <2>1 DEF G, GroupIn
  <2>3. client_subs[c] # NoSubs /\ client_subs[r] # NoSubs
    BY <1>17, <2>2 DEF NoSubs
  <2>4. c \in grouped /\ r \in grouped /\ r \in Reps
    BY <2>1, <2>3
  <2>5. ASSUME NEW s \in Reps, c \in G(s) PROVE s = r
    <3>1. PICK d \in grouped : s = R(d)
      OBVIOUS
    <3>2. s \in G(d) /\ R(s) = R(d) /\ G(s) = G(d) /\ d \in ToSet(active)
      BY <1>3, <3>1
    <3>3. R(c) = R(d)
      BY <1>3, <2>5, <3>2
    <3>. QED  BY <3>1, <3>3
  <2>. HIDE DEF r, Reps, grouped
  <2>6. \A x : x \in InFrames(frames', c, t) <=> x \in ToSet(RouteTopic(r, t).out)
    BY <1>13, <2>1, <2>4, <2>5
  <2>7. InFrames(frames', c, t) = ToSet(RouteTopic(r, t).out)
    BY <2>6
  <2>8. last_sent_times'[r][t] = RouteTopic(r, t).last_sent
    <3>1. CASE RoutedTo(r) # <<>>
      <4>1. r \in served
        BY <2>1, <2>4, <3>1
      <4>. HIDE DEF served
      <4>2. last_sent_times'[r] = [u \in Topics |-> RouteTopic(R(r), u).last_sent]
        BY <1>2, <2>1, <4>1
      <4>3. last_sent_times'[r][t] = RouteTopic(R(r), t).last_sent
        BY <4>2
      <4>. QED  BY <2>1, <4>3
    <3>2. CASE RoutedTo(r) = <<>>
      <4>1. r \notin served
        BY <2>1, <3>2
      <4>. HIDE DEF served
      <4>2. last_sent_times'[r] = last_sent_times[r]
        BY <1>2, <2>1, <4>1
      <4>3. ToSet(RoutedTo(r)) = {}
        BY <3>2 DEF ToSet
      <4>4. ToSet(RouteTopic(r, t).out) = {}
        <5>. SUFFICES ASSUME NEW m \in ToSet(RouteTopic(r, t).out) PROVE FALSE
          OBVIOUS
        <5>1. <<t, m>> \in ToSet(RoutedTo(r))
          BY <1>7, <2>1
        <5>. QED  BY <4>3, <5>1
      <4>5. RouteTopic(r, t).out \in Seq(Messages)
        BY <2>1, RouteTopicFacts
      <4>6. RouteTopic(r, t).out = <<>>
        BY <4>4, <4>5, NoElements
      <4>. QED  BY <1>14, <2>1, <4>2, <4>6
    <3>. QED  BY <3>1, <3>2
  <2>. QED  BY <2>1, <2>2, <2>7, <2>8 DEF r
<1>. QED  BY <1>2, <1>9, <1>15, <1>16, <1>17 DEF R

-----------------------------------------------------------------------------
(* Requests.                                                               *)

(* The clamped rate is one the server works with.                          *)
LEMMA ClampFacts ==
  ASSUME NEW r \in Int
  PROVE  clamp_rate_hz(r) \in Rates
<1>1. RateUnits \in Nat \ {0} /\ MaxRate \in Nat \ {0} /\ RateUnits <= MaxRate
  BY RatesAssumption
<1>2. RateUnits \in RateUnits..MaxRate /\ MaxRate \in RateUnits..MaxRate
  BY <1>1
<1>3. r > 0 /\ ~(r < RateUnits) /\ ~(r > MaxRate) => r \in RateUnits..MaxRate
  BY <1>1
<1>. QED  BY <1>2, <1>3 DEF clamp_rate_hz, Rates

(* What client c asks for, or loses with its connection.                   *)
Request(c) ==
  \/ \E t \in Topics : \E r \in Requested \cup {NoRate} : Subscribe(c, t, r)
  \/ \E t \in Topics : Unsubscribe(c, t)
  \/ SetPaused(c)
  \/ CleanupSession(c)

(* A new sequence of sessions.                                             *)
LEMMA NewSessions ==
  ASSUME NEW ss \in Seq(Clients), NEW S \in SUBSET Clients, NEW c \in Clients, NEW q,
         \/ S = ToSet(ss) \cup {c} /\ q \in SetToSeqs(S)
         \/ S = ToSet(ss) \ {c} /\ q \in SetToSeqs(S)
  PROVE  q \in Seq(Clients) /\ q \in SetToSeqs(ToSet(q)) /\ ToSet(q) = S
<1>1. IsFiniteSet(ToSet(ss))
  BY ToSetFinite
<1>2. IsFiniteSet(ToSet(ss) \cup {c})
  BY <1>1, FS_AddElement
<1>3. IsFiniteSet(ToSet(ss) \ {c})
  BY <1>1, FS_RemoveElement
<1>4. IsFiniteSet(S) /\ q \in SetToSeqs(S)
  BY <1>2, <1>3
<1>5. q \in Seq(S) /\ ToSet(q) = S
  BY <1>4, SeqOfSet
<1>6. q \in Seq(Clients)
  BY <1>5
<1>. QED  BY <1>4, <1>5, <1>6

(* A request changes the history of its own client only, and then starts   *)
(* it anew; during a cycle a client can only leave.                        *)
LEMMA RequestFacts ==
  ASSUME CycleTypes, SnapshotCovers, NEW c \in Clients, Request(c)
  PROVE  /\ CycleTypes'
         /\ UNCHANGED <<buffer, received, pc, messages, active, client_subs, frames>>
         /\ groups' = IF groups = "forming" /\ pc = "idle" THEN "forming" ELSE "changed"
         /\ \A d \in Clients : d # c =>
              /\ subs'[d] = subs[d] /\ offered'[d] = offered[d] /\ handed'[d] = handed[d]
              /\ d \in ToSet(sessions') <=> d \in ToSet(sessions)
         /\ \A t \in Topics :
              \/ offered'[c][t] = {} /\ handed'[c][t] = {}
              \/ /\ subs'[c][t] = subs[c][t]
                 /\ offered'[c][t] = offered[c][t] /\ handed'[c][t] = handed[c][t]
         /\ \A d \in Clients, t \in Topics : last_sent_times'[d][t] \in {0, last_sent_times[d][t]}
         /\ c \notin ToSet(sessions') => subs'[c] = NoSubs
         /\ pc # "idle" => c \notin ToSet(sessions')
<1>. DEFINE Goal ==
         /\ CycleTypes'
         /\ UNCHANGED <<buffer, received, pc, messages, active, client_subs, frames>>
         /\ groups' = IF groups = "forming" /\ pc = "idle" THEN "forming" ELSE "changed"
         /\ \A d \in Clients : d # c =>
              /\ subs'[d] = subs[d] /\ offered'[d] = offered[d] /\ handed'[d] = handed[d]
              /\ d \in ToSet(sessions') <=> d \in ToSet(sessions)
         /\ \A t \in Topics :
              \/ offered'[c][t] = {} /\ handed'[c][t] = {}
              \/ /\ subs'[c][t] = subs[c][t]
                 /\ offered'[c][t] = offered[c][t] /\ handed'[c][t] = handed[c][t]
         /\ \A d \in Clients, t \in Topics : last_sent_times'[d][t] \in {0, last_sent_times[d][t]}
         /\ c \notin ToSet(sessions') => subs'[c] = NoSubs
         /\ pc # "idle" => c \notin ToSet(sessions')
<1>1. /\ sessions \in Seq(Clients) /\ sessions \in SetToSeqs(ToSet(sessions)) /\ ToSet(sessions) \subseteq Clients
      /\ subs \in [Clients -> [Topics -> Rates \cup {NoRate}]]
      /\ last_sent_times \in [Clients -> [Topics -> {0} \cup Stamps]]
      /\ offered \in [Clients -> [Topics -> SUBSET Messages]]
      /\ handed \in [Clients -> [Topics -> SUBSET Messages]]
      /\ groups \in {"forming", "fixed", "changed"}
  BY ToSetFinite DEF CycleTypes
<1>2. ASSUME NEW t \in Topics, NEW rate \in Rates \cup {NoRate}, pc = "idle",
             subs' = [subs EXCEPT ![c][t] = rate],
             offered' = [offered EXCEPT ![c][t] = {}], handed' = [handed EXCEPT ![c][t] = {}],
             Regroup, sessions' \in Seq(Clients), sessions' \in SetToSeqs(ToSet(sessions')),
             ToSet(sessions') = ToSet(sessions) \cup {c},
             UNCHANGED <<paused, last_sent_times, buffer, received, pc, messages, active,
                         client_subs, frames>>
      PROVE  Goal
  <2>1. /\ subs' \in [Clients -> [Topics -> Rates \cup {NoRate}]]
        /\ \A d \in Clients : d # c => subs'[d] = subs[d]
        /\ \A u \in Topics : u # t => subs'[c][u] = subs[c][u]
    BY <1>1, <1>2
  <2>2. /\ offered' \in [Clients -> [Topics -> SUBSET Messages]]
        /\ \A d \in Clients : d # c => offered'[d] = offered[d]
        /\ \A u \in Topics : u # t => offered'[c][u] = offered[c][u]
        /\ offered'[c][t] = {}
    BY <1>1, <1>2
  <2>3. /\ handed' \in [Clients -> [Topics -> SUBSET Messages]]
        /\ \A d \in Clients : d # c => handed'[d] = handed[d]
        /\ \A u \in Topics : u # t => handed'[c][u] = handed[c][u]
        /\ handed'[c][t] = {}
    BY <1>1, <1>2
  <2>4. groups' = IF groups = "forming" /\ pc = "idle" THEN "forming" ELSE "changed"
    BY <1>2 DEF Regroup
  <2>5. CycleTypes'
    BY <1>2, <2>1, <2>2, <2>3, <2>4 DEF CycleTypes
  <2>6. \A d \in Clients, u \in Topics : last_sent_times'[d][u] \in {0, last_sent_times[d][u]}
    BY <1>2
  <2>7. \A d \in Clients : d # c => (d \in ToSet(sessions') <=> d \in ToSet(sessions))
    BY <1>2
  <2>8. c \in ToSet(sessions') /\ pc = "idle"
    BY <1>2
  <2>9. ASSUME NEW u \in Topics
        PROVE  \/ offered'[c][u] = {} /\ handed'[c][u] = {}
               \/ /\ subs'[c][u] = subs[c][u]
                  /\ offered'[c][u] = offered[c][u] /\ handed'[c][u] = handed[c][u]
    BY <2>1, <2>2, <2>3
  <2>. QED  BY <1>2, <2>1, <2>2, <2>3, <2>4, <2>5, <2>6, <2>7, <2>8, <2>9
<1>3. ASSUME NEW t \in Topics, NEW r \in Requested \cup {NoRate}, Subscribe(c, t, r) PROVE Goal
  <2>. DEFINE rate == IF r # NoRate THEN clamp_rate_hz(r)
                      ELSE IF subs[c][t] = NoRate THEN 0 ELSE subs[c][t]
  <2>1. rate \in Rates \cup {NoRate}
    <3>1. r # NoRate => r \in Int
      BY RatesAssumption
    <3>2. subs[c][t] \in Rates \cup {NoRate} /\ 0 \in Rates
      BY <1>1, RateFacts
    <3>. QED  BY <3>1, <3>2, ClampFacts
  <2>2. /\ pc = "idle" /\ subs' = [subs EXCEPT ![c][t] = rate]
        /\ offered' = [offered EXCEPT ![c][t] = {}] /\ handed' = [handed EXCEPT ![c][t] = {}]
        /\ Regroup
        /\ UNCHANGED <<paused, last_sent_times, buffer, received, pc, messages, active,
                       client_subs, frames>>
        /\ IF c \in ToSet(sessions) THEN UNCHANGED sessions
           ELSE sessions' \in SetToSeqs(ToSet(sessions) \cup {c})
    BY <1>3 DEF Subscribe
  <2>. HIDE DEF rate, Goal
  <2>3. /\ sessions' \in Seq(Clients) /\ sessions' \in SetToSeqs(ToSet(sessions'))
        /\ ToSet(sessions') = ToSet(sessions) \cup {c}
    <3>1. CASE c \in ToSet(sessions)
      BY <1>1, <2>2, <3>1
    <3>2. CASE c \notin ToSet(sessions)
      <4>1. ToSet(sessions) \cup {c} \in SUBSET Clients /\ sessions' \in SetToSeqs(ToSet(sessions) \cup {c})
        BY <1>1, <2>2, <3>2
      <4>. QED  BY <1>1, <4>1, NewSessions
    <3>. QED  BY <3>1, <3>2
  <2>. QED  BY <1>2, <2>1, <2>2, <2>3
<1>4. ASSUME NEW t \in Topics, Unsubscribe(c, t) PROVE Goal
  <2>1. /\ pc = "idle" /\ subs' = [subs EXCEPT ![c][t] = NoRate]
        /\ offered' = [offered EXCEPT ![c][t] = {}] /\ handed' = [handed EXCEPT ![c][t] = {}]
        /\ Regroup /\ UNCHANGED sessions
        /\ UNCHANGED <<paused, last_sent_times, buffer, received, pc, messages, active,
                       client_subs, frames>>
        /\ subs[c][t] # NoRate
    BY <1>4 DEF Unsubscribe
  <2>2. c \in ToSet(sessions)
    BY <2>1 DEF SnapshotCovers, NoSubs
  <2>3. /\ sessions' \in Seq(Clients) /\ sessions' \in SetToSeqs(ToSet(sessions'))
        /\ ToSet(sessions') = ToSet(sessions) \cup {c}
    BY <1>1, <2>1, <2>2
  <2>. HIDE DEF Goal
  <2>4. NoRate \in Rates \cup {NoRate}
    OBVIOUS
  <2>. QED  BY <1>2, <2>1, <2>3, <2>4
<1>5. ASSUME SetPaused(c) PROVE Goal
  <2>1. /\ pc = "idle" /\ c \in ToSet(sessions) /\ paused' \in SUBSET Clients /\ Regroup
        /\ UNCHANGED <<sessions, subs, last_sent_times, buffer, received, pc, messages, active,
                       client_subs, frames, offered, handed>>
    BY <1>5 DEF SetPaused, CycleTypes
  <2>2. groups' = IF groups = "forming" /\ pc = "idle" THEN "forming" ELSE "changed"
    BY <2>1 DEF Regroup
  <2>3. CycleTypes'
    BY <2>1, <2>2 DEF CycleTypes
  <2>. QED  BY <2>1, <2>2, <2>3
<1>6. ASSUME CleanupSession(c) PROVE Goal
  <2>1. /\ sessions' \in SetToSeqs(ToSet(sessions) \ {c}) /\ ToSet(sessions) \ {c} \in SUBSET Clients
        /\ subs' = [subs EXCEPT ![c] = NoSubs] /\ paused' = paused \ {c}
        /\ last_sent_times' = [last_sent_times EXCEPT ![c] = [t \in Topics |-> 0]]
        /\ offered' = [offered EXCEPT ![c] = [t \in Topics |-> {}]]
        /\ handed' = [handed EXCEPT ![c] = [t \in Topics |-> {}]]
        /\ Regroup
        /\ UNCHANGED <<buffer, received, pc, messages, active, client_subs, frames>>
    BY <1>1, <1>6 DEF CleanupSession
  <2>2. /\ sessions' \in Seq(Clients) /\ sessions' \in SetToSeqs(ToSet(sessions'))
        /\ ToSet(sessions') = ToSet(sessions) \ {c}
    BY <1>1, <2>1, NewSessions
  <2>3. groups' = IF groups = "forming" /\ pc = "idle" THEN "forming" ELSE "changed"
    BY <2>1 DEF Regroup
  <2>4. /\ subs' \in [Clients -> [Topics -> Rates \cup {NoRate}]] /\ subs'[c] = NoSubs
        /\ \A d \in Clients : d # c => subs'[d] = subs[d]
    <3>1. NoSubs \in [Topics -> Rates \cup {NoRate}]
      BY DEF NoSubs
    <3>. QED  BY <1>1, <2>1, <3>1
  <2>5. /\ last_sent_times' \in [Clients -> [Topics -> {0} \cup Stamps]]
        /\ \A d \in Clients, t \in Topics : last_sent_times'[d][t] \in {0, last_sent_times[d][t]}
    BY <1>1, <2>1
  <2>6. /\ offered' \in [Clients -> [Topics -> SUBSET Messages]]
        /\ \A d \in Clients : d # c => offered'[d] = offered[d]
        /\ \A t \in Topics : offered'[c][t] = {}
    BY <1>1, <2>1
  <2>7. /\ handed' \in [Clients -> [Topics -> SUBSET Messages]]
        /\ \A d \in Clients : d # c => handed'[d] = handed[d]
        /\ \A t \in Topics : handed'[c][t] = {}
    BY <1>1, <2>1
  <2>8. paused' \in SUBSET Clients
    BY <2>1 DEF CycleTypes
  <2>9. CycleTypes'
    BY <2>1, <2>2, <2>3, <2>4, <2>5, <2>6, <2>7, <2>8 DEF CycleTypes
  <2>. QED  BY <2>1, <2>2, <2>3, <2>4, <2>5, <2>6, <2>7, <2>9
<1>7. Goal
  <2>. HIDE DEF Goal
  <2>. QED  BY <1>3, <1>4, <1>5, <1>6 DEF Request
<1>. QED  BY <1>7

-----------------------------------------------------------------------------
(* The steps of the specification, and what each assigns.                  *)

(* Whose step it is.                                                       *)
LEMMA NextCases ==
  ASSUME [Next]_vars
  PROVE  \/ \E c \in Clients : Request(c)
         \/ \E t \in Topics, s \in Stamps : Receive(t, s)
         \/ PublishSnapshot \/ PublishRoute \/ PublishSend \/ UNCHANGED vars
BY DEF Next, Request

(* The ingest thread appends a message with the next number.               *)
LEMMA ReceiveFacts ==
  ASSUME CycleTypes, NEW t \in Topics, NEW s \in Stamps, Receive(t, s)
  PROVE  /\ received \in Nat /\ received' = received + 1 /\ received' \in 0..MaxMessages
         /\ buffer' \in [Topics -> Seq(Messages)]
         /\ \E m \in Messages : m.n = received + 1 /\ buffer'[t] = Append(buffer[t], m)
         /\ \A u \in Topics : u # t => buffer'[u] = buffer[u]
         /\ UNCHANGED <<sessions, subs, paused, last_sent_times, pc, messages, active, client_subs,
                        frames, offered, handed, groups>>
<1>. DEFINE m == [n |-> received + 1, stamp |-> s]
<1>1. received \in Nat /\ received + 1 \in 1..MaxMessages
  BY BoundsAssumption DEF CycleTypes, Receive
<1>2. m \in Messages /\ m.n = received + 1
  BY <1>1 DEF Messages
<1>3. buffer \in [Topics -> Seq(Messages)] /\ buffer' = [buffer EXCEPT ![t] = Append(@, m)]
  BY DEF CycleTypes, Receive
<1>. HIDE DEF m
<1>4. /\ buffer' \in [Topics -> Seq(Messages)] /\ buffer'[t] = Append(buffer[t], m)
      /\ \A u \in Topics : u # t => buffer'[u] = buffer[u]
  BY <1>2, <1>3
<1>5. /\ received' = received + 1
      /\ UNCHANGED <<sessions, subs, paused, last_sent_times, pc, messages, active, client_subs,
                     frames, offered, handed, groups>>
  BY DEF Receive, sessVars, history
<1>6. received' \in 0..MaxMessages
  BY <1>1, <1>5
<1>. QED  BY <1>1, <1>2, <1>4, <1>5, <1>6

(* A cycle starts with the messages and the sessions of that moment, or    *)
(* ends at once when there are no sessions.                                *)
LEMMA SnapshotFacts ==
  ASSUME PublishSnapshot
  PROVE  /\ pc = "idle" /\ buffer' = Empty
         /\ UNCHANGED <<sessions, subs, paused, last_sent_times, received, frames,
                        offered, handed, groups>>
         /\ \/ UNCHANGED <<pc, messages, active, client_subs>>
            \/ /\ pc' = "publish" /\ messages' = buffer
               /\ active' = sessions /\ client_subs' = subs
BY DEF PublishSnapshot, sessVars, history

(* What sending adds to the history.                                       *)
Live(c) == c \in ToSet(sessions) /\ c \notin paused /\ client_subs[c] # NoSubs

(* PublishSend ends the cycle and hands every live client its frames.      *)
LEMMA SendFacts ==
  ASSUME PublishSend
  PROVE  /\ pc = "send" /\ pc' = "idle" /\ messages' = Empty /\ active' = <<>>
         /\ client_subs' = [c \in Clients |-> NoSubs] /\ frames' = <<>>
         /\ groups' = IF groups = "forming" THEN "fixed" ELSE groups
         /\ UNCHANGED <<sessions, subs, paused, last_sent_times, buffer, received>>
         /\ offered' = [c \in Clients |-> [t \in Topics |->
              IF Live(c) /\ client_subs[c][t] # NoRate THEN offered[c][t] \cup ToSet(messages[t])
              ELSE offered[c][t]]]
         /\ handed' = [c \in Clients |-> [t \in Topics |->
              IF Live(c) THEN handed[c][t] \cup InFrames(frames, c, t) ELSE handed[c][t]]]
<1>1. /\ pc = "send" /\ pc' = "idle" /\ messages' = Empty /\ active' = <<>>
      /\ client_subs' = [c \in Clients |-> NoSubs] /\ frames' = <<>>
      /\ groups' = IF groups = "forming" THEN "fixed" ELSE groups
      /\ UNCHANGED <<sessions, subs, paused, last_sent_times, buffer, received>>
  BY DEF PublishSend, sessVars
<1>2. \A c : Live(c) <=> c \in {d \in ToSet(sessions) \ paused : client_subs[d] # NoSubs}
  BY DEF Live
<1>3. offered' = [c \in Clients |-> [t \in Topics |->
        IF Live(c) /\ client_subs[c][t] # NoRate THEN offered[c][t] \cup ToSet(messages[t])
        ELSE offered[c][t]]]
  BY <1>2 DEF PublishSend
<1>4. handed' = [c \in Clients |-> [t \in Topics |->
        IF Live(c) THEN handed[c][t] \cup InFrames(frames, c, t) ELSE handed[c][t]]]
  BY <1>2 DEF PublishSend, InFrames
<1>. QED  BY <1>1, <1>3, <1>4

(* The same, for one client and one topic.                                 *)
LEMMA SendPoints ==
  ASSUME PublishSend, NEW c \in Clients, NEW t \in Topics
  PROVE  /\ offered'[c][t] = IF Live(c) /\ client_subs[c][t] # NoRate
                             THEN offered[c][t] \cup ToSet(messages[t]) ELSE offered[c][t]
         /\ handed'[c][t] = IF Live(c) THEN handed[c][t] \cup InFrames(frames, c, t) ELSE handed[c][t]
<1>1. offered'[c] = [u \in Topics |->
        IF Live(c) /\ client_subs[c][u] # NoRate THEN offered[c][u] \cup ToSet(messages[u])
        ELSE offered[c][u]]
  BY SendFacts
<1>2. handed'[c] = [u \in Topics |->
        IF Live(c) THEN handed[c][u] \cup InFrames(frames, c, u) ELSE handed[c][u]]
  BY SendFacts
<1>3. offered'[c][t] = IF Live(c) /\ client_subs[c][t] # NoRate
                       THEN offered[c][t] \cup ToSet(messages[t]) ELSE offered[c][t]
  BY <1>1
<1>4. handed'[c][t] = IF Live(c) THEN handed[c][t] \cup InFrames(frames, c, t) ELSE handed[c][t]
  BY <1>2
<1>. QED  BY <1>3, <1>4

(* Empty sequences have their types.                                       *)
LEMMA EmptyTypes ==
  /\ Empty \in [Topics -> Seq(Messages)] /\ \A t \in Topics : Empty[t] = <<>>
  /\ <<>> \in Seq(Clients) /\ <<>> \in SetToSeqs(ToSet(<<>>)) /\ <<>> \in Seq(AllFrames)
  /\ ToSet(<<>>) = {}
  /\ [c \in Clients |-> NoSubs] \in [Clients -> [Topics -> Rates \cup {NoRate}]]
<1>1. ToSet(<<>>) = {}
  BY DEF ToSet
<1>2. Cardinality({}) = 0
  BY FS_EmptySet
<1>3. <<>> \in SetToSeqs({})
  <2>1. <<>> \in [1..0 -> {}] /\ \A i \in 1..0 : FALSE
    OBVIOUS
  <2>. QED  BY <1>2, <2>1 DEF SetToSeqs
<1>4. <<>> \in Seq(Clients) /\ <<>> \in Seq(AllFrames) /\ <<>> \in Seq(Messages)
  OBVIOUS
<1>5. Empty \in [Topics -> Seq(Messages)] /\ \A t \in Topics : Empty[t] = <<>>
  BY <1>4 DEF Empty
<1>6. [c \in Clients |-> NoSubs] \in [Clients -> [Topics -> Rates \cup {NoRate}]]
  BY DEF NoSubs
<1>. QED  BY <1>1, <1>3, <1>4, <1>5, <1>6

-----------------------------------------------------------------------------
(* The invariant is inductive: one lemma for each of its parts.            *)

(* Nothing has been received or sent at first.                             *)
LEMMA CycleInit == Init => CycleInv
<1>. SUFFICES ASSUME Init PROVE CycleInv
  OBVIOUS
<1>1. CycleTypes
  <2>1. 0 \in 0..MaxMessages
    BY BoundsAssumption
  <2>. QED  BY <2>1, EmptyTypes DEF Init, CycleTypes
<1>2. pc = "idle" /\ ToSet(sessions) = {} /\ groups = "forming" /\ received = 0
  BY EmptyTypes DEF Init
<1>3. \A c \in Clients, t \in Topics :
        /\ subs[c][t] = NoRate
        /\ offered[c][t] = {} /\ handed[c][t] = {} /\ last_sent_times[c][t] = 0
  BY DEF Init, NoSubs
<1>4. \A t \in Topics : buffer[t] = <<>> /\ messages[t] = <<>>
  BY EmptyTypes DEF Init
<1>5. SnapshotCovers /\ FramesAreOfCycle /\ FramesAreComplete
  <2>1. \A c \in Clients : subs[c] = NoSubs
    BY DEF Init
  <2>. QED  BY <1>2, <2>1 DEF SnapshotCovers, FramesAreOfCycle, FramesAreComplete
<1>6. UnlimitedIsComplete
  BY <1>3 DEF UnlimitedIsComplete
<1>7. NumbersGrow
  <2>1. Increasing(<<>>)
    BY DEF Increasing
  <2>. QED  BY <1>3, <1>4, <2>1, EmptyTypes DEF NumbersGrow
<1>8. FixedGroups
  BY <1>2, <1>3 DEF FixedGroups
<1>. QED  BY <1>1, <1>5, <1>6, <1>7, <1>8 DEF CycleInv

(* Types.                                                                  *)
LEMMA TypesStep ==
  ASSUME CycleInv, [Next]_vars
  PROVE  CycleTypes'
<1>. USE DEF CycleInv
<1>1. ASSUME NEW c \in Clients, Request(c) PROVE CycleTypes'
  BY <1>1, RequestFacts
<1>2. ASSUME NEW t \in Topics, NEW s \in Stamps, Receive(t, s) PROVE CycleTypes'
  BY <1>2, ReceiveFacts DEF CycleTypes
<1>3. CASE PublishSnapshot
  BY <1>3, SnapshotFacts, EmptyTypes DEF CycleTypes
<1>4. CASE PublishRoute
  <2>1. \A t \in Topics : Increasing(messages[t])
    BY DEF NumbersGrow
  <2>2. frames' \in Seq(AllFrames) /\ last_sent_times' \in [Clients -> [Topics -> {0} \cup Stamps]]
    BY <1>4, <2>1, PublishRouteFacts
  <2>3. pc' = "send" /\ UNCHANGED <<sessVars, buffer, received, messages, active, client_subs, history>>
    BY <1>4 DEF PublishRoute
  <2>. QED  BY <2>2, <2>3 DEF CycleTypes, sessVars, history
<1>5. CASE PublishSend
  <2>1. /\ pc' = "idle" /\ messages' = Empty /\ active' = <<>>
        /\ client_subs' = [c \in Clients |-> NoSubs] /\ frames' = <<>>
        /\ groups' \in {"forming", "fixed", "changed"}
        /\ UNCHANGED <<sessions, subs, paused, last_sent_times, buffer, received>>
    BY <1>5, SendFacts DEF CycleTypes
  <2>2. \A t \in Topics : ToSet(messages[t]) \subseteq Messages
    BY ToSetFinite DEF CycleTypes
  <2>3. \A c \in Clients, t \in Topics : InFrames(frames, c, t) \subseteq Messages
    BY <1>5, <2>2, SendFacts DEF FramesAreOfCycle
  <2>4. offered \in [Clients -> [Topics -> SUBSET Messages]] /\ handed \in [Clients -> [Topics -> SUBSET Messages]]
    BY DEF CycleTypes
  <2>5. offered' \in [Clients -> [Topics -> SUBSET Messages]]
    <3>. DEFINE v(c, t) == IF Live(c) /\ client_subs[c][t] # NoRate
                           THEN offered[c][t] \cup ToSet(messages[t]) ELSE offered[c][t]
    <3>1. offered' = [c \in Clients |-> [t \in Topics |-> v(c, t)]]
      BY <1>5, SendFacts
    <3>2. \A c \in Clients, t \in Topics : v(c, t) \in SUBSET Messages
      BY <2>2, <2>4
    <3>. HIDE DEF v
    <3>. QED  BY <3>1, <3>2
  <2>6. handed' \in [Clients -> [Topics -> SUBSET Messages]]
    BY <1>5, <2>3, <2>4, SendFacts
  <2>. QED  BY <2>1, <2>5, <2>6, EmptyTypes DEF CycleTypes
<1>6. CASE UNCHANGED vars
  BY <1>6 DEF CycleTypes, vars, sessVars, history
<1>. QED  BY <1>1, <1>2, <1>3, <1>4, <1>5, <1>6, NextCases

(* The snapshot.                                                           *)
LEMMA CoversStep ==
  ASSUME CycleInv, [Next]_vars
  PROVE  SnapshotCovers'
<1>. USE DEF CycleInv
<1>0. ToSet(sessions) \subseteq Clients
  BY ToSetFinite DEF CycleTypes
<1>1. ASSUME NEW c \in Clients, Request(c) PROVE SnapshotCovers'
  <2>1. /\ UNCHANGED <<pc, active, client_subs>>
        /\ \A d \in Clients : d # c =>
             subs'[d] = subs[d] /\ (d \in ToSet(sessions') <=> d \in ToSet(sessions))
        /\ c \notin ToSet(sessions') => subs'[c] = NoSubs
        /\ pc # "idle" => c \notin ToSet(sessions')
    BY <1>1, RequestFacts
  <2>2. ToSet(sessions') \subseteq Clients
    <3>1. sessions' \in Seq(Clients)
      BY <1>1, RequestFacts DEF CycleTypes
    <3>. QED  BY <3>1, ToSetFinite
  <2>3. ASSUME NEW d \in Clients, d \notin ToSet(sessions') PROVE subs'[d] = NoSubs
    BY <2>1, <2>3 DEF SnapshotCovers
  <2>4. ASSUME pc # "idle", NEW d \in ToSet(sessions') PROVE d \in ToSet(active) /\ client_subs[d] = subs'[d]
    <3>1. d \in Clients /\ d # c
      BY <2>1, <2>2, <2>4
    <3>. QED  BY <2>1, <2>4, <3>1 DEF SnapshotCovers
  <2>. QED  BY <2>1, <2>3, <2>4 DEF SnapshotCovers
<1>2. ASSUME NEW t \in Topics, NEW s \in Stamps, Receive(t, s) PROVE SnapshotCovers'
  BY <1>2, ReceiveFacts DEF SnapshotCovers
<1>3. CASE PublishSnapshot
  BY <1>3, SnapshotFacts DEF SnapshotCovers
<1>4. CASE PublishRoute
  BY <1>4 DEF PublishRoute, SnapshotCovers, sessVars
<1>5. CASE PublishSend
  BY <1>5, SendFacts DEF SnapshotCovers
<1>6. CASE UNCHANGED vars
  BY <1>6 DEF SnapshotCovers, vars, sessVars
<1>. QED  BY <1>1, <1>2, <1>3, <1>4, <1>5, <1>6, NextCases

(* The numbers.                                                            *)
LEMMA NumbersStep ==
  ASSUME CycleInv, [Next]_vars
  PROVE  NumbersGrow'
<1>. USE DEF CycleInv
<1>1. ASSUME NEW c \in Clients, Request(c) PROVE NumbersGrow'
  <2>1. /\ UNCHANGED <<buffer, received, pc, messages>>
        /\ \A d \in Clients : d # c => offered'[d] = offered[d] /\ handed'[d] = handed[d]
        /\ \A t \in Topics : \/ offered'[c][t] = {} /\ handed'[c][t] = {}
                             \/ offered'[c][t] = offered[c][t] /\ handed'[c][t] = handed[c][t]
    BY <1>1, RequestFacts
  <2>2. \A d \in Clients, t \in Topics :
          offered'[d][t] \cup handed'[d][t] \subseteq offered[d][t] \cup handed[d][t]
    BY <2>1
  <2>. QED  BY <2>1, <2>2 DEF NumbersGrow
<1>2. ASSUME NEW t \in Topics, NEW s \in Stamps, Receive(t, s) PROVE NumbersGrow'
  <2>1. /\ received \in Nat /\ received' = received + 1
        /\ \A u \in Topics : u # t => buffer'[u] = buffer[u]
        /\ UNCHANGED <<pc, messages, offered, handed>>
    BY <1>2, ReceiveFacts
  <2>2. PICK m \in Messages : m.n = received + 1 /\ buffer'[t] = Append(buffer[t], m)
    BY <1>2, ReceiveFacts
  <2>3. buffer[t] \in Seq(Messages)
    BY DEF CycleTypes
  <2>4. ToSet(buffer'[t]) = ToSet(buffer[t]) \cup {m}
    BY <2>2, <2>3, AppendFacts
  <2>5. /\ \A u \in Topics : \A k \in ToSet(buffer[u]) : k.n \in Nat
        /\ \A u \in Topics : \A k \in ToSet(messages[u]) : k.n \in Nat
        /\ \A u \in Topics, c \in Clients : \A k \in offered[c][u] \cup handed[c][u] : k.n \in Nat
    <3>1. \A u \in Topics : ToSet(buffer[u]) \subseteq Messages /\ ToSet(messages[u]) \subseteq Messages
      BY ToSetFinite DEF CycleTypes
    <3>2. \A u \in Topics, c \in Clients : offered[c][u] \subseteq Messages /\ handed[c][u] \subseteq Messages
      BY DEF CycleTypes
    <3>. QED  BY <3>1, <3>2, MessageFacts
  <2>6. \A x \in Nat : x <= received => x < m.n /\ x <= received'
    BY <2>1, <2>2
  <2>7. Increasing(buffer'[t])
    <3>1. \A k \in ToSet(buffer[t]) : k.n < m.n
      BY <2>5, <2>6 DEF NumbersGrow
    <3>2. Increasing(buffer[t])
      BY DEF NumbersGrow
    <3>. QED  BY <2>2, <2>3, <3>1, <3>2, IncreasingAppend
  <2>8. \A u \in Topics : \A k \in ToSet(buffer'[u]) : k \in ToSet(buffer[u]) \/ k = m
    BY <2>1, <2>4
  <2>9. m.n <= received'
    BY <2>1, <2>2
  <2>10. ASSUME NEW u \in Topics
         PROVE  /\ Increasing(buffer'[u]) /\ Increasing(messages'[u])
                /\ \A k \in ToSet(buffer'[u]) : k.n <= received'
                /\ \A x \in ToSet(messages'[u]) :
                     x.n <= received' /\ \A k \in ToSet(buffer'[u]) : x.n < k.n
    <3>1. Increasing(buffer'[u]) /\ Increasing(messages'[u])
      BY <2>1, <2>7 DEF NumbersGrow
    <3>2. \A k \in ToSet(buffer'[u]) : k.n <= received'
      BY <2>5, <2>6, <2>8, <2>9 DEF NumbersGrow
    <3>3. \A x \in ToSet(messages[u]) : x.n <= received' /\ \A k \in ToSet(buffer'[u]) : x.n < k.n
      BY <2>5, <2>6, <2>8 DEF NumbersGrow
    <3>. QED  BY <2>1, <3>1, <3>2, <3>3
  <2>11. ASSUME NEW u \in Topics, NEW c \in Clients, NEW x \in offered[c][u] \cup handed[c][u]
         PROVE  /\ x.n <= received'
                /\ \A k \in ToSet(buffer'[u]) : x.n < k.n
                /\ \A k \in ToSet(messages[u]) : x.n < k.n
    BY <2>5, <2>6, <2>8 DEF NumbersGrow
  <2>. QED  BY <2>1, <2>10, <2>11 DEF NumbersGrow
<1>3. CASE PublishSnapshot
  <2>1. \A t \in Topics : ToSet(buffer'[t]) = {} /\ Increasing(buffer'[t])
    <3>1. Increasing(<<>>)
      BY DEF Increasing
    <3>. QED  BY <1>3, <3>1, SnapshotFacts, EmptyTypes
  <2>2. /\ pc = "idle" /\ UNCHANGED <<received, offered, handed>>
        /\ \/ UNCHANGED <<pc, messages>>
           \/ pc' = "publish" /\ messages' = buffer
    BY <1>3, SnapshotFacts
  <2>3. CASE UNCHANGED <<pc, messages>>
    BY <2>1, <2>2, <2>3 DEF NumbersGrow
  <2>4. CASE pc' = "publish" /\ messages' = buffer
    BY <2>1, <2>2, <2>4 DEF NumbersGrow
  <2>. QED  BY <2>2, <2>3, <2>4
<1>4. CASE PublishRoute
  <2>1. pc' = "send" /\ UNCHANGED <<buffer, received, messages, offered, handed>>
    BY <1>4 DEF PublishRoute, history
  <2>. QED  BY <2>1 DEF NumbersGrow
<1>5. CASE PublishSend
  <2>1. \A t \in Topics : ToSet(messages'[t]) = {} /\ Increasing(messages'[t])
    <3>1. Increasing(<<>>)
      BY DEF Increasing
    <3>. QED  BY <1>5, <3>1, SendFacts, EmptyTypes
  <2>2. pc = "send" /\ pc' = "idle" /\ UNCHANGED <<buffer, received>>
    BY <1>5, SendFacts
  <2>3. \A c \in Clients, t \in Topics :
          /\ offered'[c][t] \subseteq offered[c][t] \cup ToSet(messages[t])
          /\ handed'[c][t] \subseteq handed[c][t] \cup InFrames(frames, c, t)
    BY <1>5, SendFacts
  <2>4. \A c \in Clients, t \in Topics :
          offered'[c][t] \cup handed'[c][t] \subseteq offered[c][t] \cup handed[c][t] \cup ToSet(messages[t])
    BY <2>2, <2>3 DEF FramesAreOfCycle
  <2>. QED  BY <2>1, <2>2, <2>4 DEF NumbersGrow
<1>6. CASE UNCHANGED vars
  BY <1>6 DEF NumbersGrow, vars, history
<1>. QED  BY <1>1, <1>2, <1>3, <1>4, <1>5, <1>6, NextCases

(* The frames of a cycle.                                                  *)
LEMMA FramesStep ==
  ASSUME CycleInv, [Next]_vars
  PROVE  FramesAreOfCycle' /\ FramesAreComplete'
<1>. USE DEF CycleInv, FramesAreOfCycle, FramesAreComplete
<1>1. ASSUME NEW c \in Clients, Request(c) PROVE FramesAreOfCycle' /\ FramesAreComplete'
  BY <1>1, RequestFacts
<1>2. ASSUME NEW t \in Topics, NEW s \in Stamps, Receive(t, s) PROVE FramesAreOfCycle' /\ FramesAreComplete'
  BY <1>2, ReceiveFacts
<1>3. CASE PublishSnapshot
  <2>1. pc' # "send"
    BY <1>3, SnapshotFacts
  <2>. QED  BY <2>1
<1>4. CASE PublishRoute
  <2>1. \A t \in Topics : Increasing(messages[t])
    BY DEF NumbersGrow
  <2>2. UNCHANGED <<messages, active, client_subs>>
    BY <1>4 DEF PublishRoute
  <2>3. \A c \in Clients, t \in Topics : InFrames(frames', c, t) \subseteq ToSet(messages[t])
    BY <1>4, <2>1, PublishRouteFacts
  <2>4. ASSUME NEW c \in ToSet(active), NEW t \in Topics, client_subs[c][t] = 0
        PROVE  InFrames(frames', c, t) = ToSet(messages[t])
    <3>. DEFINE r == RepIn(active, client_subs, c)
    <3>1. client_subs[c][t] # NoRate /\ rate_mhz(client_subs[c][t]) = 0
      BY <2>4, RateFacts
    <3>2. /\ r \in Clients /\ client_subs[r][t] # NoRate /\ rate_mhz(client_subs[r][t]) = 0
          /\ InFrames(frames', c, t) = ToSet(RouteTopic(r, t).out)
      BY <1>4, <2>1, <3>1, PublishRouteFacts
    <3>. HIDE DEF r
    <3>3. ToSet(RouteTopic(r, t).out) = ToSet(messages[t])
      BY <2>1, <3>2, RouteTopicFacts
    <3>. QED  BY <3>2, <3>3
  <2>. QED  BY <2>2, <2>3, <2>4
<1>5. CASE PublishSend
  BY <1>5, SendFacts
<1>6. CASE UNCHANGED vars
  BY <1>6 DEF vars
<1>. QED  BY <1>1, <1>2, <1>3, <1>4, <1>5, <1>6, NextCases

(* An unlimited topic is complete.                                         *)
LEMMA UnlimitedStep ==
  ASSUME CycleInv, [Next]_vars
  PROVE  UnlimitedIsComplete'
<1>. USE DEF CycleInv, UnlimitedIsComplete
<1>1. ASSUME NEW c \in Clients, Request(c) PROVE UnlimitedIsComplete'
  <2>1. /\ \A d \in Clients : d # c => subs'[d] = subs[d] /\ offered'[d] = offered[d] /\ handed'[d] = handed[d]
        /\ \A t \in Topics :
             \/ offered'[c][t] = {} /\ handed'[c][t] = {}
             \/ /\ subs'[c][t] = subs[c][t]
                /\ offered'[c][t] = offered[c][t] /\ handed'[c][t] = handed[c][t]
    BY <1>1, RequestFacts
  <2>. SUFFICES ASSUME NEW d \in Clients, NEW t \in Topics, subs'[d][t] = 0
                PROVE  handed'[d][t] = offered'[d][t]
    OBVIOUS
  <2>2. CASE d = c
    BY <2>1, <2>2
  <2>3. CASE d # c
    BY <2>1, <2>3
  <2>. QED  BY <2>2, <2>3
<1>2. ASSUME NEW t \in Topics, NEW s \in Stamps, Receive(t, s) PROVE UnlimitedIsComplete'
  BY <1>2, ReceiveFacts
<1>3. CASE PublishSnapshot
  BY <1>3, SnapshotFacts
<1>4. CASE PublishRoute
  BY <1>4 DEF PublishRoute, sessVars, history
<1>5. CASE PublishSend
  <2>. SUFFICES ASSUME NEW c \in Clients, NEW t \in Topics, subs[c][t] = 0
                PROVE  handed'[c][t] = offered'[c][t]
    BY <1>5, SendFacts
  <2>1. c \in ToSet(sessions)
    BY RateFacts DEF SnapshotCovers, NoSubs
  <2>2. c \in ToSet(active) /\ client_subs[c][t] = 0 /\ pc = "send"
    BY <1>5, <2>1, SendFacts DEF SnapshotCovers
  <2>3. InFrames(frames, c, t) = ToSet(messages[t])
    BY <2>2 DEF FramesAreComplete
  <2>4. client_subs[c][t] # NoRate
    BY <2>2, RateFacts
  <2>5. handed[c][t] = offered[c][t]
    OBVIOUS
  <2>6. /\ offered'[c][t] = IF Live(c) THEN offered[c][t] \cup ToSet(messages[t]) ELSE offered[c][t]
        /\ handed'[c][t] = IF Live(c) THEN handed[c][t] \cup InFrames(frames, c, t) ELSE handed[c][t]
    BY <1>5, <2>4, SendPoints
  <2>. QED  BY <2>3, <2>5, <2>6
<1>6. CASE UNCHANGED vars
  BY <1>6 DEF vars, sessVars, history
<1>. QED  BY <1>1, <1>2, <1>3, <1>4, <1>5, <1>6, NextCases

(* The gate continues where the last cycle left it: the first message of   *)
(* all passes, and from then on last_sent is the stamp of one that the     *)
(* client was sent.                                                        *)
LEMMA PacedMore ==
  ASSUME NEW reached \in SUBSET Messages, NEW found \in SUBSET Messages, NEW last,
         NEW interval \in Nat, interval <= Second,
         Paced(reached, found, last, interval),
         NEW out, NEW q \in SUBSET Messages, NEW new,
         Gate(out, q, last, new, interval),
         \A m \in reached \cup found : \A k \in q : m.n < k.n
  PROVE  Paced(reached \cup out, found \cup q, new, interval)
<1>1. \A m \in reached \cup found \cup q : m.n \in Nat /\ m.stamp \in Nat /\ m.stamp >= Second
  BY MessageFacts
<1>2. out \subseteq q /\ new \in Nat /\ last <= new
  BY DEF Gate
<1>3. reached \subseteq found
  BY DEF Paced
<1>4. last \in Nat /\ Second \in Nat
  <2>1. (reached = {} /\ last = 0) \/ \E m \in reached : last = m.stamp
    BY DEF Paced
  <2>. QED  BY <1>1, <2>1, StampsAssumption
<1>5. (reached \cup out = {} /\ new = 0) \/ \E m \in reached \cup out : new = m.stamp
  BY DEF Paced, Gate
<1>6. ASSUME NEW m \in reached \cup out PROVE m.stamp <= new
  <2>1. CASE m \in out
    BY <2>1 DEF Gate
  <2>2. CASE m \in reached
    <3>1. m.stamp <= last /\ m.stamp \in Nat
      BY <1>1, <2>2 DEF Paced
    <3>. QED  BY <1>2, <1>4, <3>1
  <2>. QED  BY <2>1, <2>2
<1>7. ASSUME NEW m \in reached \cup out, NEW k \in reached \cup out, m.n < k.n
      PROVE  k.stamp >= m.stamp + interval
  <2>1. CASE m \in reached /\ k \in reached
    BY <1>7, <2>1 DEF Paced
  <2>2. CASE m \in out /\ k \in out
    BY <1>7, <2>2 DEF Gate
  <2>3. CASE m \in reached /\ k \in out
    <3>1. m.stamp <= last /\ m.stamp \in Nat /\ k.stamp \in Nat
      BY <1>1, <1>2, <2>3 DEF Paced
    <3>2. last + interval <= k.stamp
      BY <2>3 DEF Gate
    <3>. QED  BY <1>4, <3>1, <3>2
  <2>4. CASE m \in out /\ k \in reached
    <3>1. k.n < m.n /\ k.n \in Nat /\ m.n \in Nat
      BY <1>1, <1>2, <2>4
    <3>. QED  BY <1>7, <3>1
  <2>. QED  BY <2>1, <2>2, <2>3, <2>4
<1>8. ASSUME NEW k \in (found \cup q) \ (reached \cup out)
      PROVE  \E m \in reached \cup out : m.n < k.n /\ k.stamp < m.stamp + interval
  <2>1. CASE k \in found
    BY <2>1 DEF Paced
  <2>2. CASE k \in q
    <3>1. CASE k.stamp < last + interval
      <4>1. k.stamp >= interval /\ k.stamp \in Nat
        BY <1>1, <1>4, <2>2
      <4>2. last # 0
        BY <1>4, <3>1, <4>1
      <4>3. PICK m \in reached : last = m.stamp
        BY <4>2 DEF Paced
      <4>4. m.n < k.n
        BY <2>2, <4>3
      <4>. QED  BY <3>1, <4>3, <4>4
    <3>2. CASE \E m \in out : m.n < k.n /\ k.stamp < m.stamp + interval
      BY <3>2
    <3>. QED  BY <2>2, <3>1, <3>2 DEF Gate
  <2>. QED  BY <2>1, <2>2
<1>9. reached \cup out \subseteq found \cup q
  BY <1>2, <1>3
<1>. QED  BY <1>5, <1>6, <1>7, <1>8, <1>9 DEF Paced

(* While the groups are fixed.                                             *)
LEMMA FixedStep ==
  ASSUME CycleInv, [Next]_vars
  PROVE  FixedGroups'
<1>. USE DEF CycleInv
<1>0. sessions \in Seq(Clients) /\ ToSet(sessions) \subseteq Clients
  BY ToSetFinite DEF CycleTypes
<1>1. ASSUME NEW c \in Clients, Request(c) PROVE FixedGroups'
  <2>. SUFFICES ASSUME groups' # "changed" PROVE FixedGroups'
    BY DEF FixedGroups
  <2>1. /\ groups = "forming" /\ pc = "idle" /\ groups' = "forming" /\ pc' = "idle"
        /\ \A d \in Clients : d # c => offered'[d] = offered[d] /\ handed'[d] = handed[d]
        /\ \A t \in Topics : \/ offered'[c][t] = {} /\ handed'[c][t] = {}
                             \/ offered'[c][t] = offered[c][t] /\ handed'[c][t] = handed[c][t]
        /\ \A d \in Clients, t \in Topics : last_sent_times'[d][t] \in {0, last_sent_times[d][t]}
    BY <1>1, RequestFacts
  <2>2. \A d \in Clients, t \in Topics :
          offered[d][t] = {} /\ handed[d][t] = {} /\ last_sent_times[d][t] = 0
    BY <2>1 DEF FixedGroups
  <2>3. \A d \in Clients, t \in Topics :
          offered'[d][t] = {} /\ handed'[d][t] = {} /\ last_sent_times'[d][t] = 0
    BY <2>1, <2>2
  <2>4. sessions' \in Seq(Clients) /\ ToSet(sessions') \subseteq Clients
    <3>1. sessions' \in Seq(Clients)
      BY <1>1, RequestFacts DEF CycleTypes
    <3>. QED  BY <3>1, ToSetFinite
  <2>5. ASSUME NEW d \in ToSet(sessions'), NEW t \in Topics
        PROVE  Paced(Reached(d, t)', Found(d, t)', last_sent_times'[RepIn(sessions', subs', d)][t],
                     min_interval(subs'[d][t]))
    <3>1. d \in Clients /\ RepIn(sessions', subs', d) \in Clients
      BY <2>4, GroupFacts
    <3>2. Reached(d, t)' = {} /\ Found(d, t)' = {}
      BY <2>1, <2>3, <3>1 DEF Reached, Found
    <3>3. last_sent_times'[RepIn(sessions', subs', d)][t] = 0
      BY <2>3, <3>1
    <3>. DEFINE v == min_interval(subs'[d][t])
    <3>. HIDE DEF v
    <3>4. Paced({}, {}, 0, v)
      BY DEF Paced
    <3>. QED  BY <3>2, <3>3, <3>4 DEF v
  <2>. QED  BY <2>1, <2>3, <2>5 DEF FixedGroups
<1>2. ASSUME NEW t \in Topics, NEW s \in Stamps, Receive(t, s) PROVE FixedGroups'
  <2>1. UNCHANGED <<sessions, subs, paused, last_sent_times, pc, messages, active, client_subs,
                    frames, offered, handed, groups>>
    BY <1>2, ReceiveFacts
  <2>2. \A c, u : Reached(c, u)' = Reached(c, u) /\ Found(c, u)' = Found(c, u)
    BY <2>1 DEF Reached, Found
  <2>. QED  BY <2>1, <2>2 DEF FixedGroups
<1>3. CASE PublishSnapshot
  <2>1. /\ pc = "idle" /\ UNCHANGED <<sessions, subs, paused, last_sent_times, offered, handed, groups>>
        /\ pc' # "send" /\ (pc' # "idle" => active' = sessions /\ client_subs' = subs)
    BY <1>3, SnapshotFacts
  <2>2. \A c, t : Reached(c, t)' = Reached(c, t) /\ Found(c, t)' = Found(c, t)
    BY <2>1 DEF Reached, Found
  <2>. QED  BY <2>1, <2>2 DEF FixedGroups
<1>4. CASE PublishRoute
  <2>. SUFFICES ASSUME groups' # "changed" PROVE FixedGroups'
    BY DEF FixedGroups
  <2>1. /\ pc = "publish" /\ pc' = "send" /\ groups # "changed"
        /\ UNCHANGED <<sessions, subs, paused, messages, active, client_subs, offered, handed, groups>>
    BY <1>4 DEF PublishRoute, sessVars, history
  <2>2. active = sessions /\ client_subs = subs
    BY <2>1 DEF FixedGroups
  <2>3. \A t \in Topics : Increasing(messages[t])
    BY DEF NumbersGrow
  <2>4. ASSUME NEW c \in ToSet(sessions) \ paused, NEW t \in Topics, subs[c][t] \notin {0, NoRate}
        PROVE  Paced(Reached(c, t)', Found(c, t)', last_sent_times'[RepIn(sessions, subs, c)][t],
                     min_interval(subs[c][t]))
    <3>. DEFINE r == RepIn(active, client_subs, c)
                v == min_interval(subs[c][t])
                last == last_sent_times[r][t]
                o == RouteTopic(r, t)
    <3>1. c \in ToSet(active) /\ client_subs[c][t] # NoRate /\ c \in Clients
      BY <1>0, <2>2, <2>4
    <3>2. /\ r \in Clients /\ client_subs[r][t] # NoRate
          /\ rate_mhz(client_subs[r][t]) = rate_mhz(client_subs[c][t])
          /\ InFrames(frames', c, t) = ToSet(o.out)
          /\ last_sent_times'[r][t] = o.last_sent
      BY <1>4, <2>3, <3>1, PublishRouteFacts
    <3>3. subs[c][t] \in Rates /\ subs[c][t] # 0
      BY <2>4, <3>1 DEF CycleTypes
    <3>4. v \in Nat /\ v <= Second /\ rate_mhz(subs[c][t]) # 0
      BY <3>3, RateFacts
    <3>5. client_subs[r][t] \notin {0, NoRate} /\ min_interval(client_subs[r][t]) = v
      BY <2>2, <3>2, <3>4, RateFacts DEF min_interval
    <3>6. Gate(ToSet(o.out), ToSet(messages[t]), last, o.last_sent, v)
      <4>1. Gate(ToSet(o.out), ToSet(messages[t]), last, o.last_sent, min_interval(client_subs[r][t]))
        BY <2>3, <3>2, <3>5, RouteTopicFacts
      <4>. QED  BY <3>5, <4>1
    <3>7. Paced(handed[c][t], offered[c][t], last, v)
      <4>1. Paced(Reached(c, t), Found(c, t), last, v)
        BY <2>1, <2>2, <2>4 DEF FixedGroups
      <4>2. Reached(c, t) = handed[c][t] /\ Found(c, t) = offered[c][t]
        BY <2>1 DEF Reached, Found
      <4>. QED  BY <4>1, <4>2
    <3>8. \A m \in handed[c][t] \cup offered[c][t] : \A k \in ToSet(messages[t]) : m.n < k.n
      BY <2>1, <3>1 DEF NumbersGrow
    <3>9. /\ handed[c][t] \in SUBSET Messages /\ offered[c][t] \in SUBSET Messages
          /\ ToSet(messages[t]) \in SUBSET Messages
      BY <3>1, ToSetFinite DEF CycleTypes
    <3>10. /\ Reached(c, t)' = handed[c][t] \cup ToSet(o.out)
           /\ Found(c, t)' = offered[c][t] \cup ToSet(messages[t])
      BY <2>1, <3>2 DEF Reached, Found
    <3>11. r = RepIn(sessions, subs, c)
      BY <2>2
    <3>. HIDE DEF r, v, last, o
    <3>12. Paced(handed[c][t] \cup ToSet(o.out), offered[c][t] \cup ToSet(messages[t]), o.last_sent, v)
      BY <3>4, <3>6, <3>7, <3>8, <3>9, PacedMore
    <3>13. Paced(Reached(c, t)', Found(c, t)', last_sent_times'[r][t], v)
      BY <3>2, <3>10, <3>12, Zenon
    <3>. QED  BY <3>11, <3>13 DEF v
  <2>5. ASSUME groups = "forming", NEW c \in Clients, NEW t \in Topics
        PROVE  handed[c][t] = {} /\ offered[c][t] = {}
    BY <2>1, <2>5 DEF FixedGroups
  <2>6. \A c \in Clients, t \in Topics :
          c \in paused \/ c \notin ToSet(sessions) => handed[c][t] = {} /\ offered[c][t] = {}
    BY <2>1 DEF FixedGroups
  <2>. QED  BY <2>1, <2>2, <2>4, <2>5, <2>6 DEF FixedGroups
<1>5. CASE PublishSend
  <2>. SUFFICES ASSUME groups' # "changed" PROVE FixedGroups'
    BY DEF FixedGroups
  <2>1. /\ pc = "send" /\ pc' = "idle" /\ groups # "changed" /\ groups' = "fixed"
        /\ UNCHANGED <<sessions, subs, paused, last_sent_times>>
    BY <1>5, SendFacts DEF CycleTypes
  <2>2. active = sessions /\ client_subs = subs
    BY <2>1 DEF FixedGroups
  <2>3. ASSUME NEW c \in Clients, NEW t \in Topics, c \in paused \/ c \notin ToSet(sessions)
        PROVE  handed'[c][t] = {} /\ offered'[c][t] = {}
    <3>1. ~Live(c)
      BY <2>3 DEF Live
    <3>2. handed'[c][t] = handed[c][t] /\ offered'[c][t] = offered[c][t]
      BY <1>5, <3>1, SendPoints
    <3>. QED  BY <2>1, <2>3, <3>2 DEF FixedGroups
  <2>4. ASSUME NEW c \in ToSet(sessions) \ paused, NEW t \in Topics, subs[c][t] \notin {0, NoRate}
        PROVE  Paced(Reached(c, t)', Found(c, t)', last_sent_times'[RepIn(sessions, subs, c)][t],
                     min_interval(subs[c][t]))
    <3>1. c \in Clients /\ client_subs[c][t] # NoRate
      BY <1>0, <2>2, <2>4
    <3>2. Live(c)
      BY <2>4, <3>1 DEF Live, NoSubs
    <3>3. handed'[c][t] = handed[c][t] \cup InFrames(frames, c, t) /\ offered'[c][t] = offered[c][t] \cup ToSet(messages[t])
      BY <1>5, <3>1, <3>2, SendPoints
    <3>4. Reached(c, t)' = Reached(c, t) /\ Found(c, t)' = Found(c, t)
      BY <2>1, <3>3 DEF Reached, Found
    <3>5. Paced(Reached(c, t), Found(c, t), last_sent_times[RepIn(sessions, subs, c)][t],
                min_interval(subs[c][t]))
      BY <2>1, <2>4 DEF FixedGroups
    <3>. QED  BY <2>1, <3>4, <3>5
  <2>. QED  BY <2>1, <2>3, <2>4 DEF FixedGroups
<1>6. CASE UNCHANGED vars
  BY <1>6 DEF FixedGroups, Reached, Found, vars, sessVars, history
<1>. QED  BY <1>1, <1>2, <1>3, <1>4, <1>5, <1>6, NextCases

(* The invariant holds in every behaviour.                                 *)
LEMMA CycleInvariant == Spec => []CycleInv
<1>1. CycleInv /\ [Next]_vars => CycleInv'
  BY TypesStep, CoversStep, NumbersStep, FramesStep, UnlimitedStep, FixedStep DEF CycleInv
<1>. QED  BY <1>1, CycleInit, PTL DEF Spec

-----------------------------------------------------------------------------
(* Numbers, as write_le puts them into bytes and a client reads them back. *)

ValuesUpTo(f, n) == f = [k \in 0..n |-> IF k = 0 THEN 1 ELSE Byte * f[k - 1]]

(* The recursive function Values exists: ...                               *)
LEMMA ValuesExist == \A n \in Nat : \E f : ValuesUpTo(f, n)
<1>. DEFINE Rest(f, k) == IF k = 0 THEN 1 ELSE Byte * f[k - 1]
            Has(n) == \E f : f = [k \in 0..n |-> Rest(f, k)]
            N == {n \in Nat : Has(n)}
<1>1. 0 \in N
  <2>. DEFINE f == [k \in 0..0 |-> 1]
  <2>1. \A k \in 0..0 : k = 0
    OBVIOUS
  <2>2. f = [k \in 0..0 |-> Rest(f, k)]
    BY <2>1
  <2>. QED  BY <2>2
<1>2. ASSUME NEW n \in N PROVE n + 1 \in N
  <2>1. PICK f : f = [k \in 0..n |-> Rest(f, k)]
    OBVIOUS
  <2>. DEFINE h == [k \in 0..(n + 1) |-> Rest(f, k)]
  <2>2. n \in Nat /\ \A k \in 0..n : k \in 0..(n + 1)
    OBVIOUS
  <2>3. \A k \in 0..n : h[k] = f[k]
    <3>. HIDE DEF Rest
    <3>. QED  BY <2>1, <2>2
  <2>4. \A k \in 0..(n + 1) : k = 0 \/ k - 1 \in 0..n
    BY <2>2
  <2>5. \A k \in 0..(n + 1) : Rest(h, k) = Rest(f, k)
    <3>. HIDE DEF h
    <3>. QED  BY <2>3, <2>4
  <2>6. h = [k \in 0..(n + 1) |-> Rest(h, k)]
    <3>. HIDE DEF Rest
    <3>. QED  BY <2>5
  <2>7. Has(n + 1)
    <3>. HIDE DEF h
    <3>. QED  BY <2>6
  <2>. HIDE DEF Has
  <2>. QED  BY <2>2, <2>7
<1>3. N = Nat
  <2>. HIDE DEF Has
  <2>. QED  BY <1>1, <1>2, NatSetInduction
<1>4. \A n \in Nat : Has(n)
  <2>. HIDE DEF Has
  <2>. QED  BY <1>3
<1>. QED  BY <1>4 DEF ValuesUpTo

(* ... its beginnings agree, and make up the whole of it.                  *)
LEMMA ValuesFacts ==
  /\ Values[0] = 1
  /\ \A n \in Nat : Values[n] \in Nat \ {0} /\ Values[n + 1] = Byte * Values[n]
<1>. DEFINE F(n) == CHOOSE f : ValuesUpTo(f, n)
            G == [n \in Nat |-> F(n)[n]]
            N == {n \in Nat : \A m \in Nat : n <= m => F(m)[n] = F(n)[n]}
            Is(v) == v = [n \in Nat |-> IF n = 0 THEN 1 ELSE Byte * v[n - 1]]
<1>1. \A n \in Nat : ValuesUpTo(F(n), n)
  BY ValuesExist
<1>. HIDE DEF F
<1>2. /\ \A m \in Nat : F(m)[0] = 1
      /\ \A m, n \in Nat : n + 1 <= m => F(m)[n + 1] = Byte * F(m)[n]
  <2>1. ASSUME NEW m \in Nat PROVE F(m)[0] = 1
    <3>1. 0 \in 0..m
      OBVIOUS
    <3>. QED  BY <1>1, <3>1 DEF ValuesUpTo
  <2>2. ASSUME NEW m \in Nat, NEW n \in Nat, n + 1 <= m PROVE F(m)[n + 1] = Byte * F(m)[n]
    <3>1. n + 1 \in 0..m /\ n + 1 # 0 /\ (n + 1) - 1 = n
      BY <2>2
    <3>2. F(m)[n + 1] = IF n + 1 = 0 THEN 1 ELSE Byte * F(m)[(n + 1) - 1]
      BY <1>1, <3>1 DEF ValuesUpTo
    <3>. QED  BY <3>1, <3>2
  <2>. QED  BY <2>1, <2>2
<1>3. 0 \in N
  BY <1>2
<1>4. ASSUME NEW n \in N PROVE n + 1 \in N
  <2>. SUFFICES ASSUME NEW m \in Nat, n + 1 <= m PROVE F(m)[n + 1] = F(n + 1)[n + 1]
    OBVIOUS
  <2>1. n \in Nat /\ n + 1 \in Nat /\ n <= m /\ n <= n + 1 /\ n + 1 <= n + 1
    OBVIOUS
  <2>2. F(m)[n + 1] = Byte * F(m)[n] /\ F(n + 1)[n + 1] = Byte * F(n + 1)[n]
    BY <1>2, <2>1
  <2>3. F(m)[n] = F(n)[n] /\ F(n + 1)[n] = F(n)[n]
    BY <2>1
  <2>. QED  BY <2>2, <2>3
<1>5. N = Nat
  BY <1>3, <1>4, NatSetInduction
<1>6. Is(G)
  <2>1. ASSUME NEW n \in Nat PROVE G[n] = IF n = 0 THEN 1 ELSE Byte * G[n - 1]
    <3>1. CASE n = 0
      BY <1>2, <3>1
    <3>2. CASE n # 0
      <4>1. n - 1 \in Nat /\ (n - 1) + 1 = n /\ n <= n /\ n - 1 <= n
        BY <3>2
      <4>2. F(n)[n] = Byte * F(n)[n - 1]
        BY <1>2, <4>1
      <4>3. F(n)[n - 1] = F(n - 1)[n - 1]
        BY <1>5, <4>1
      <4>. QED  BY <3>2, <4>1, <4>2, <4>3
    <3>. QED  BY <3>1, <3>2
  <2>. HIDE DEF G
  <2>2. G = [n \in Nat |-> G[n]]
    BY DEF G
  <2>. QED  BY <2>1, <2>2
<1>7. Is(Values)
  <2>1. Values = CHOOSE v : Is(v)
    BY DEF Values
  <2>2. \E v : Is(v)
    <3>. HIDE DEF G, Is
    <3>. QED  BY <1>6
  <2>. HIDE DEF Is
  <2>. QED  BY <2>1, <2>2
<1>8. Values[0] = 1 /\ \A n \in Nat : Values[n + 1] = Byte * Values[n]
  <2>1. Values[0] = 1
    BY <1>7
  <2>2. ASSUME NEW n \in Nat PROVE Values[n + 1] = Byte * Values[n]
    <3>1. n + 1 \in Nat /\ n + 1 # 0 /\ (n + 1) - 1 = n
      OBVIOUS
    <3>2. Values[n + 1] = IF n + 1 = 0 THEN 1 ELSE Byte * Values[(n + 1) - 1]
      BY <1>7, <3>1
    <3>. QED  BY <3>1, <3>2
  <2>. QED  BY <2>1, <2>2
<1>. DEFINE P == {n \in Nat : Values[n] \in Nat \ {0}}
<1>9. P = Nat
  <2>1. 0 \in P
    BY <1>8
  <2>2. ASSUME NEW n \in P PROVE n + 1 \in P
    <3>1. Values[n] \in Nat \ {0} /\ Byte \in Nat \ {0} /\ Values[n + 1] = Byte * Values[n]
      BY <1>8, WidthAssumption
    <3>2. \A x, y \in Nat \ {0} : x * y \in Nat \ {0}
      OBVIOUS
    <3>3. Values[n + 1] \in Nat \ {0}
      BY <3>1, <3>2
    <3>. QED  BY <3>3
  <2>. QED  BY <2>1, <2>2, NatSetInduction
<1>. QED  BY <1>8, <1>9

(* A value is its low digits and the next one.                             *)
LEMMA DigitFacts ==
  ASSUME NEW v \in Nat, NEW n \in Nat
  PROVE  v % Values[n + 1] = (v % Values[n]) + ((v \div Values[n]) % Byte) * Values[n]
<1>. DEFINE p == Values[n]
            q == v \div p
            d == q % Byte
            r == v % p
            t == q \div Byte
<1>1. p \in Nat /\ p # 0 /\ Byte \in Nat /\ Byte # 0 /\ Values[n + 1] = Byte * p
  BY ValuesFacts, WidthAssumption
<1>. HIDE DEF p
<1>2. q \in Nat /\ r \in Nat /\ r < p /\ v = p * q + r
  BY <1>1
<1>. HIDE DEF q, r
<1>3. d \in Nat /\ d < Byte /\ t \in Nat /\ q = Byte * t + d
  BY <1>1, <1>2
<1>. HIDE DEF d, t
<1>4. v = t * (Byte * p) + (r + d * p)
  <2>1. v = p * (Byte * t + d) + r
    BY <1>2, <1>3
  <2>2. \A a, b, x, y \in Nat : a * (b * x + y) = x * (b * a) + y * a
    OBVIOUS
  <2>3. p * (Byte * t + d) = t * (Byte * p) + d * p
    BY <1>1, <1>3, <2>2
  <2>4. t * (Byte * p) \in Nat /\ d * p \in Nat
    BY <1>1, <1>3
  <2>. QED  BY <1>2, <2>1, <2>3, <2>4
<1>5. r + d * p < Byte * p /\ Byte * p # 0 /\ Byte * p \in Nat /\ d * p \in Nat
  <2>1. \A a, b, x \in Nat : a < b => a * x + x <= b * x
    <3>. SUFFICES ASSUME NEW a \in Nat, NEW b \in Nat, NEW x \in Nat, a < b PROVE a * x + x <= b * x
      OBVIOUS
    <3>1. (a + 1) * x <= b * x
      OBVIOUS
    <3>. QED  BY <3>1
  <2>2. d * p + p <= Byte * p
    BY <1>1, <1>3, <2>1
  <2>. QED  BY <1>1, <1>2, <1>3, <2>2
<1>6. \A w, m, k, l \in Nat : m # 0 /\ l < m /\ w = k * m + l => w % m = l
  OBVIOUS
<1>7. v % (Byte * p) = r + d * p
  <2>. DEFINE m == Byte * p
              l == r + d * p
  <2>1. m \in Nat /\ m # 0 /\ l \in Nat /\ l < m /\ v = t * m + l
    BY <1>2, <1>4, <1>5
  <2>. HIDE DEF m, l
  <2>2. v % m = l
    BY <1>3, <1>6, <2>1
  <2>. QED  BY <2>2 DEF m, l
<1>. QED  BY <1>1, <1>7 DEF r, d, q, p

(* The digits of a value are bytes.                                        *)
LEMMA WriteFacts ==
  ASSUME NEW v \in Nat, NEW size \in Nat
  PROVE  WriteLe(v, size) \in Seq(0 .. Byte - 1) /\ Len(WriteLe(v, size)) = size
<1>1. ASSUME NEW i \in 1..size PROVE (v \div Values[i - 1]) % Byte \in 0 .. Byte - 1
  <2>1. i - 1 \in Nat
    OBVIOUS
  <2>2. Values[i - 1] \in Nat \ {0} /\ Byte \in Nat \ {0}
    BY <2>1, ValuesFacts, WidthAssumption
  <2>. DEFINE p == Values[i - 1]
  <2>. HIDE DEF p
  <2>3. p \in Nat \ {0}
    BY <2>2 DEF p
  <2>4. v \div p \in Nat
    BY <2>3
  <2>5. (v \div p) % Byte \in 0 .. Byte - 1
    BY <2>2, <2>4
  <2>. QED  BY <2>5 DEF p
<1>. DEFINE w == WriteLe(v, size)
            D == 0 .. Byte - 1
<1>2. w \in [1..size -> D]
  BY <1>1 DEF WriteLe
<1>. HIDE DEF w, D
<1>3. DOMAIN w = 1..size /\ w \in Seq(D)
  BY <1>2
<1>4. Len(w) = size
  BY <1>3
<1>. QED  BY <1>3, <1>4 DEF w, D

(* q is in s at an offset.                                                 *)
Placed(s, offset, q) == \A i \in 1..Len(q) : s[offset + i] = q[i]

(* A client reads back what write_le has written, up to the width.         *)
LEMMA ReadFacts ==
  ASSUME NEW s, NEW offset \in Nat, NEW size \in Nat, NEW v \in Nat,
         Placed(s, offset, WriteLe(v, size))
  PROVE  ReadLe(s, offset, size) = v % Values[size]
<1>. DEFINE Term(g, i) == IF i = 0 THEN 0 ELSE g[i - 1] + s[offset + i] * Values[i - 1]
            IsSum(g) == g = [i \in 0..size |-> Term(g, i)]
            S == CHOOSE g : IsSum(g)
            w == [i \in 0..size |-> v % Values[i]]
<1>1. ReadLe(s, offset, size) = S[size]
  BY DEF ReadLe
<1>2. ASSUME NEW k \in Nat, k + 1 <= size
      PROVE  /\ k + 1 \in 0..size /\ k \in 0..size /\ k + 1 # 0 /\ (k + 1) - 1 = k
             /\ s[offset + (k + 1)] = (v \div Values[k]) % Byte
             /\ v % Values[k + 1] = (v % Values[k]) + s[offset + (k + 1)] * Values[k]
  <2>1. k + 1 \in 1..size /\ (k + 1) - 1 = k
    BY <1>2
  <2>2. s[offset + (k + 1)] = (v \div Values[(k + 1) - 1]) % Byte
    BY <2>1, WriteFacts DEF Placed, WriteLe
  <2>3. s[offset + (k + 1)] = (v \div Values[k]) % Byte
    BY <2>1, <2>2
  <2>4. v % Values[k + 1] = (v % Values[k]) + ((v \div Values[k]) % Byte) * Values[k]
    BY DigitFacts
  <2>. QED  BY <1>2, <2>3, <2>4
<1>3. v % Values[0] = 0
  BY ValuesFacts
<1>4. IsSum(w)
  <2>1. ASSUME NEW i \in 0..size PROVE w[i] = Term(w, i)
    <3>1. CASE i = 0
      BY <1>3, <3>1
    <3>2. CASE i # 0
      <4>1. i - 1 \in Nat /\ (i - 1) + 1 = i /\ (i - 1) + 1 <= size
        BY <3>2
      <4>2. i - 1 \in 0..size /\ v % Values[i] = (v % Values[i - 1]) + s[offset + i] * Values[i - 1]
        BY <1>2, <4>1
      <4>. QED  BY <3>2, <4>2
    <3>. QED  BY <3>1, <3>2
  <2>2. w = [i \in 0..size |-> w[i]]
    OBVIOUS
  <2>. HIDE DEF w, Term
  <2>. QED  BY <2>1, <2>2
<1>5. IsSum(S)
  <2>1. \E g : IsSum(g)
    <3>. HIDE DEF IsSum, w
    <3>. QED  BY <1>4
  <2>. HIDE DEF IsSum
  <2>. QED  BY <2>1
<1>. HIDE DEF S
<1>6. \A i \in 0..size : S[i] = Term(S, i)
  <2>. HIDE DEF Term
  <2>. QED  BY <1>5
<1>. DEFINE N == {k \in Nat : k <= size => S[k] = v % Values[k]}
<1>7. 0 \in N
  <2>1. 0 \in 0..size
    OBVIOUS
  <2>2. S[0] = 0
    BY <1>6, <2>1
  <2>. QED  BY <1>3, <2>2
<1>8. ASSUME NEW k \in N PROVE k + 1 \in N
  <2>. SUFFICES ASSUME k + 1 <= size PROVE S[k + 1] = v % Values[k + 1]
    OBVIOUS
  <2>1. k \in Nat /\ k <= size
    OBVIOUS
  <2>2. S[k] = v % Values[k]
    BY <2>1
  <2>3. S[k + 1] = S[(k + 1) - 1] + s[offset + (k + 1)] * Values[(k + 1) - 1]
    BY <1>2, <1>6, <2>1
  <2>4. (k + 1) - 1 = k
    BY <2>1
  <2>. QED  BY <1>2, <2>1, <2>2, <2>3, <2>4
<1>9. N = Nat
  BY <1>7, <1>8, NatSetInduction
<1>. QED  BY <1>1, <1>9

(* A concatenation, position by position.                                  *)
LEMMA JoinFacts ==
  ASSUME NEW X, NEW a \in Seq(X), NEW b \in Seq(X)
  PROVE  /\ a \o b \in Seq(X) /\ Len(a \o b) = Len(a) + Len(b)
         /\ \A i \in 1..Len(a) : (a \o b)[i] = a[i]
         /\ \A i \in 1..Len(b) : (a \o b)[Len(a) + i] = b[i]
<1>1. a \o b \in Seq(X) /\ Len(a \o b) = Len(a) + Len(b)
  OBVIOUS
<1>2. \A i \in 1..Len(a) : (a \o b)[i] = a[i]
  OBVIOUS
<1>3. ASSUME NEW i \in 1..Len(b) PROVE (a \o b)[Len(a) + i] = b[i]
  <2>1. Len(a) + i \in 1..(Len(a) + Len(b)) /\ ~(Len(a) + i <= Len(a)) /\ (Len(a) + i) - Len(a) = i
    OBVIOUS
  <2>. QED  BY <2>1
<1>. QED  BY <1>1, <1>2, <1>3

-----------------------------------------------------------------------------
(* Where messages are in a payload.                                        *)

Bytes == 0 .. Byte - 1

(* Where a concatenation is placed, its parts are.                         *)
LEMMA PlacedParts ==
  ASSUME NEW X, NEW s, NEW offset \in Nat, NEW a \in Seq(X), NEW b \in Seq(X), Placed(s, offset, a \o b)
  PROVE  Placed(s, offset, a) /\ Placed(s, offset + Len(a), b)
<1>. DEFINE c == a \o b
<1>1. /\ c \in Seq(X) /\ Len(c) = Len(a) + Len(b) /\ Len(a) \in Nat /\ Len(b) \in Nat
      /\ \A i \in 1..Len(a) : c[i] = a[i]
      /\ \A i \in 1..Len(b) : c[Len(a) + i] = b[i]
  BY JoinFacts
<1>2. \A i \in 1..Len(c) : s[offset + i] = c[i]
  BY DEF Placed
<1>. HIDE DEF c
<1>3. \A i \in 1..Len(a) : s[offset + i] = a[i]
  BY <1>1, <1>2
<1>4. ASSUME NEW i \in 1..Len(b) PROVE s[(offset + Len(a)) + i] = b[i]
  <2>1. Len(a) + i \in 1..Len(c) /\ offset + (Len(a) + i) = (offset + Len(a)) + i
    BY <1>1
  <2>. QED  BY <1>1, <1>2, <2>1
<1>. QED  BY <1>3, <1>4 DEF Placed

(* A client that cuts out what was placed gets it.                         *)
LEMMA CutFacts ==
  ASSUME NEW X, NEW s \in Seq(X), NEW offset \in Nat, NEW q \in Seq(X), Placed(s, offset, q),
         offset + Len(q) <= Len(s)
  PROVE  SubSeq(s, offset + 1, offset + Len(q)) = q
<1>. DEFINE n == Len(q)
            r == SubSeq(s, offset + 1, offset + n)
<1>1. n \in Nat /\ Len(s) \in Nat /\ q \in Seq(X)
  OBVIOUS
<1>2. \A i \in 1..n : s[offset + i] = q[i]
  BY DEF Placed
<1>. HIDE DEF n
<1>3. r \in Seq(X) /\ Len(r) = n /\ \A i \in 1..n : r[i] = s[offset + i]
  <2>1. \A i \in 1..n : offset + i \in 1..Len(s)
    BY <1>1 DEF n
  <2>2. r = [i \in 1..n |-> s[offset + i]]
    <3>1. r = [i \in 1..((offset + n) - (offset + 1) + 1) |-> s[i + (offset + 1) - 1]]
      BY <1>1, <2>1
    <3>2. (offset + n) - (offset + 1) + 1 = n /\ \A i \in 1..n : i + (offset + 1) - 1 = offset + i
      BY <1>1
    <3>. QED  BY <3>1, <3>2
  <2>. HIDE DEF r
  <2>3. r \in [1..n -> X]
    BY <2>1, <2>2
  <2>4. DOMAIN r = 1..n /\ r \in Seq(X)
    BY <1>1, <2>3
  <2>. QED  BY <1>1, <2>2, <2>4
<1>. HIDE DEF r
<1>4. r = q
  BY <1>1, <1>2, <1>3 DEF n
<1>. QED  BY <1>4 DEF r, n

(* A message whose name and stamp fit their fields.                        *)
WireMessages == {m \in [name : Seq(Bytes), stamp : Nat, data : Seq(Bytes)] :
                   Len(m.name) < Values[SizeOf16] /\ m.stamp < Values[SizeOf64]}

(* The message that a client gets: as many bytes as the length field says. *)
Cut(m) ==
  [name |-> m.name, stamp |-> m.stamp, data |-> SubSeq(m.data, 1, Len(m.data) % Values[SizeOf32])]

(* A cast value fits.                                                      *)
LEMMA CastFacts ==
  ASSUME NEW v \in Nat, NEW size \in Nat
  PROVE  /\ Values[size] \in Nat \ {0}
         /\ Cast(v, size) \in Nat /\ Cast(v, size) < Values[size] /\ Cast(v, size) <= v
         /\ v < Values[size] => Cast(v, size) = v
         /\ Cast(v, size) % Values[size] = Cast(v, size)
<1>. DEFINE p == Values[size]
<1>1. p \in Nat \ {0}
  BY ValuesFacts
<1>. HIDE DEF p
<1>2. v % p \in Nat /\ v % p < p
  BY <1>1
<1>3. v < p => v % p = v
  BY <1>1
<1>4. \A w \in Nat : w < p => w % p = w
  BY <1>1
<1>5. v % p <= v
  BY <1>1
<1>. QED  BY <1>1, <1>2, <1>3, <1>4, <1>5 DEF Cast, p

(* The parts of a serialized message, and what a client reads at its       *)
(* offset.                                                                 *)
LEMMA ReadMessageFacts ==
  ASSUME NEW m \in WireMessages
  PROVE  /\ Serialize(m) \in Seq(Bytes)
         /\ \A s \in Seq(Bytes), offset \in Nat :
              Placed(s, offset, Serialize(m)) /\ offset + Len(Serialize(m)) <= Len(s) =>
                ReadMessage(s, offset) = [msg |-> Cut(m), next |-> offset + Len(Serialize(m))]
<1>. DEFINE n == Cast(Len(m.data), SizeOf32)
            l == Cast(Len(m.name), SizeOf16)
            a == WriteLe(l, SizeOf16)
            b == WriteLe(m.stamp, SizeOf64)
            c == WriteLe(n, SizeOf32)
            d == SubSeq(m.data, 1, n)
<1>1. /\ m.name \in Seq(Bytes) /\ m.stamp \in Nat /\ m.data \in Seq(Bytes)
      /\ Len(m.name) \in Nat /\ Len(m.data) \in Nat
      /\ Len(m.name) < Values[SizeOf16] /\ m.stamp < Values[SizeOf64]
      /\ m = [name |-> m.name, stamp |-> m.stamp, data |-> m.data]
  BY DEF WireMessages
<1>2. SizeOf16 \in Nat /\ SizeOf32 \in Nat /\ SizeOf64 \in Nat
  BY WidthAssumption
<1>3. /\ l = Len(m.name) /\ l % Values[SizeOf16] = l
      /\ m.stamp % Values[SizeOf64] = m.stamp
      /\ n \in Nat /\ n <= Len(m.data) /\ n % Values[SizeOf32] = n /\ n = Len(m.data) % Values[SizeOf32]
  <2>1. l = Len(m.name) /\ l % Values[SizeOf16] = l
    BY <1>1, <1>2, CastFacts
  <2>2. m.stamp % Values[SizeOf64] = m.stamp
    BY <1>1, <1>2, CastFacts DEF Cast
  <2>3. n \in Nat /\ n <= Len(m.data) /\ n % Values[SizeOf32] = n
    BY <1>1, <1>2, CastFacts
  <2>. QED  BY <2>1, <2>2, <2>3 DEF Cast
<1>4. Serialize(m) = (((a \o m.name) \o b) \o c) \o d
  BY DEF Serialize, WriteStr
<1>. HIDE DEF n, l
<1>5. /\ a \in Seq(Bytes) /\ Len(a) = SizeOf16
      /\ b \in Seq(Bytes) /\ Len(b) = SizeOf64
      /\ c \in Seq(Bytes) /\ Len(c) = SizeOf32
  BY <1>1, <1>2, <1>3, WriteFacts DEF Bytes
<1>6. d \in Seq(Bytes) /\ Len(d) = n
  <2>1. \A i \in 1..n : m.data[i] \in Bytes
    BY <1>1, <1>3
  <2>. QED  BY <1>1, <1>3, <2>1
<1>. HIDE DEF a, b, c, d
<1>. DEFINE ab == a \o m.name
            abc == ab \o b
            abcd == abc \o c
<1>7. /\ ab \in Seq(Bytes) /\ Len(ab) = SizeOf16 + l
      /\ abc \in Seq(Bytes) /\ Len(abc) = (SizeOf16 + l) + SizeOf64
      /\ abcd \in Seq(Bytes) /\ Len(abcd) = ((SizeOf16 + l) + SizeOf64) + SizeOf32
  <2>1. ab \in Seq(Bytes) /\ Len(ab) = SizeOf16 + l
    BY <1>1, <1>3, <1>5, JoinFacts
  <2>. HIDE DEF ab
  <2>2. abc \in Seq(Bytes) /\ Len(abc) = (SizeOf16 + l) + SizeOf64
    BY <1>5, <2>1, JoinFacts
  <2>. HIDE DEF abc
  <2>3. abcd \in Seq(Bytes) /\ Len(abcd) = ((SizeOf16 + l) + SizeOf64) + SizeOf32
    BY <1>5, <2>2, JoinFacts
  <2>. QED  BY <2>1, <2>2, <2>3
<1>8. Serialize(m) \in Seq(Bytes) /\ Len(Serialize(m)) = (((SizeOf16 + l) + SizeOf64) + SizeOf32) + n
  <2>. HIDE DEF abcd
  <2>1. Serialize(m) = abcd \o d
    BY <1>4 DEF abcd
  <2>2. abcd \o d \in Seq(Bytes) /\ Len(abcd \o d) = Len(abcd) + Len(d)
    BY <1>6, <1>7, JoinFacts
  <2>. QED  BY <1>6, <1>7, <2>1, <2>2
<1>. SUFFICES ASSUME NEW s \in Seq(Bytes), NEW offset \in Nat,
                     Placed(s, offset, Serialize(m)), offset + Len(Serialize(m)) <= Len(s)
              PROVE  ReadMessage(s, offset) = [msg |-> Cut(m), next |-> offset + Len(Serialize(m))]
  BY <1>8
<1>. DEFINE o1 == offset + SizeOf16
            o2 == o1 + l
            o3 == o2 + SizeOf64
            o4 == o3 + SizeOf32
            o5 == o4 + n
<1>9. /\ l \in Nat /\ Len(s) \in Nat
      /\ o1 \in Nat /\ o2 \in Nat /\ o3 \in Nat /\ o4 \in Nat /\ o5 \in Nat
      /\ offset + Len(ab) = o2 /\ offset + Len(abc) = o3 /\ offset + Len(abcd) = o4
      /\ offset + Len(Serialize(m)) = o5
      /\ o2 <= Len(s) /\ o5 <= Len(s)
  <2>. HIDE DEF ab, abc, abcd
  <2>1. l \in Nat /\ Len(s) \in Nat
    BY <1>1, <1>3
  <2>2. n \in Nat
    BY <1>3
  <2>3. offset + Len(ab) = o2 /\ offset + Len(abc) = o3 /\ offset + Len(abcd) = o4
    BY <1>2, <1>7, <2>1
  <2>4. offset + Len(Serialize(m)) = o5
    BY <1>2, <1>8, <2>1, <2>2
  <2>5. o1 \in Nat /\ o2 \in Nat /\ o3 \in Nat /\ o4 \in Nat /\ o5 \in Nat /\ o2 <= o5
    BY <1>2, <2>1, <2>2
  <2>. HIDE DEF o1, o2, o3, o4, o5
  <2>. QED  BY <2>1, <2>3, <2>4, <2>5
<1>10. /\ Placed(s, offset, a) /\ Placed(s, o1, m.name) /\ Placed(s, o2, b)
       /\ Placed(s, o3, c) /\ Placed(s, o4, d)
  <2>1. Placed(s, offset, abcd) /\ Placed(s, o4, d)
    <3>. HIDE DEF abcd, o4
    <3>1. Placed(s, offset, abcd \o d)
      BY <1>4 DEF abcd
    <3>. QED  BY <1>6, <1>7, <1>9, <3>1, PlacedParts
  <2>2. Placed(s, offset, abc) /\ Placed(s, o3, c)
    <3>. HIDE DEF abc, o3
    <3>. QED  BY <1>5, <1>7, <1>9, <2>1, PlacedParts DEF abcd
  <2>3. Placed(s, offset, ab) /\ Placed(s, o2, b)
    <3>. HIDE DEF ab, o2
    <3>. QED  BY <1>5, <1>7, <1>9, <2>2, PlacedParts DEF abc
  <2>4. Placed(s, offset, a) /\ Placed(s, offset + Len(a), m.name)
    BY <1>1, <1>5, <2>3, PlacedParts DEF ab
  <2>. QED  BY <1>5, <2>1, <2>2, <2>3, <2>4
<1>. HIDE DEF ab, abc, abcd, o1, o2, o3, o4, o5
<1>11. /\ ReadLe(s, offset, SizeOf16) = l
       /\ ReadLe(s, o2, SizeOf64) = m.stamp
       /\ ReadLe(s, o3, SizeOf32) = n
  <2>1. ReadLe(s, offset, SizeOf16) = l % Values[SizeOf16]
    BY <1>2, <1>9, <1>10, ReadFacts DEF a
  <2>2. ReadLe(s, o2, SizeOf64) = m.stamp % Values[SizeOf64]
    BY <1>1, <1>2, <1>9, <1>10, ReadFacts DEF b
  <2>3. ReadLe(s, o3, SizeOf32) = n % Values[SizeOf32]
    BY <1>2, <1>3, <1>9, <1>10, ReadFacts DEF c
  <2>. QED  BY <1>3, <2>1, <2>2, <2>3
<1>12. SubSeq(s, o1 + 1, o2) = m.name /\ SubSeq(s, o4 + 1, o5) = d
  <2>1. o1 + Len(m.name) = o2 /\ o4 + Len(d) = o5
    BY <1>3, <1>6 DEF o2, o5
  <2>2. SubSeq(s, o1 + 1, o1 + Len(m.name)) = m.name
    BY <1>1, <1>9, <1>10, <2>1, CutFacts
  <2>3. SubSeq(s, o4 + 1, o4 + Len(d)) = d
    BY <1>6, <1>9, <1>10, <2>1, CutFacts
  <2>. QED  BY <2>1, <2>2, <2>3
<1>13. Cut(m) = [name |-> m.name, stamp |-> m.stamp, data |-> d]
  BY <1>3 DEF Cut, d
<1>14. ReadMessage(s, offset) =
         [msg |-> [name |-> SubSeq(s, o1 + 1, o2), stamp |-> ReadLe(s, o2, SizeOf64),
                   data |-> SubSeq(s, o4 + 1, o5)],
          next |-> o5]
  BY <1>11 DEF ReadMessage, o1, o2, o3, o4, o5
<1>. QED  BY <1>9, <1>11, <1>12, <1>13, <1>14

(* Where each of the sequences begins in FlattenSeq.                       *)
LEMMA FlattenOffsets ==
  ASSUME NEW X, NEW ss \in Seq(Seq(X))
  PROVE  \E off \in [0..Len(ss) -> Nat] :
           /\ off[0] = 0 /\ off[Len(ss)] = Len(FlattenSeq(ss))
           /\ \A k \in 1..Len(ss) : /\ off[k] = off[k - 1] + Len(ss[k])
                                    /\ off[k] <= Len(FlattenSeq(ss))
                                    /\ Placed(FlattenSeq(ss), off[k - 1], ss[k])
<1>. DEFINE F == CHOOSE f : Flattens(f, ss)
            L == Len(ss)
            off == [k \in 0..L |-> IF k = 0 THEN 0 ELSE Len(F[k])]
<1>1. L \in Nat /\ \A i \in 1..L : ss[i] \in Seq(X) /\ Len(ss[i]) \in Nat
  OBVIOUS
<1>2. CASE L = 0
  <2>1. FlattenSeq(ss) = ss
    BY <1>2 DEF FlattenSeq
  <2>. DEFINE o == [k \in 0..0 |-> 0]
  <2>2. o \in [0..L -> Nat] /\ o[0] = 0 /\ o[L] = Len(FlattenSeq(ss))
    BY <1>2, <2>1
  <2>3. \A k \in 1..L : FALSE
    BY <1>2
  <2>. HIDE DEF o
  <2>. QED  BY <2>2, <2>3
<1>3. CASE L # 0
  <2>1. FlattenSeq(ss) = F[L]
    BY <1>3 DEF FlattenSeq, Flattens
  <2>2. Flattens(F, ss)
    <3>1. \E f : Flattens(f, ss)
      BY FlattensExist
    <3>. QED  BY <3>1
  <2>. HIDE DEF F
  <2>3. F[1] = ss[1]
    BY <1>1, <1>3, <2>2 DEF Flattens
  <2>4. ASSUME NEW k \in 2..L PROVE F[k] = F[k - 1] \o ss[k]
    <3>1. k \in 1..Len(ss) /\ k # 1
      BY <1>1
    <3>2. F[k] = IF k = 1 THEN ss[k] ELSE F[k - 1] \o ss[k]
      BY <2>2, <3>1 DEF Flattens
    <3>. QED  BY <3>1, <3>2
  <2>. HIDE DEF L
  <2>. DEFINE Right(k) ==
                /\ F[k] \in Seq(X) /\ Len(F[k]) \in Nat
                /\ \A i \in 1..k : /\ off[i] = off[i - 1] + Len(ss[i]) /\ off[i] \in Nat /\ off[i - 1] \in Nat
                                   /\ off[i] <= Len(F[k])
                                   /\ Placed(F[k], off[i - 1], ss[i])
              N == {k \in Nat : k + 1 <= L => Right(k + 1)}
  <2>5. 0 \in N
    <3>1. 1 \in 1..L /\ \A i \in 1..1 : i = 1
      BY <1>1, <1>3
    <3>2. off[1] = Len(ss[1]) /\ off[0] = 0 /\ 1 - 1 = 0
      BY <1>1, <1>3, <2>3
    <3>3. Placed(F[1], off[1 - 1], ss[1])
      BY <1>1, <2>3, <3>1, <3>2 DEF Placed
    <3>4. F[1] \in Seq(X) /\ Len(F[1]) \in Nat /\ Len(F[1]) = Len(ss[1])
      BY <1>1, <2>3, <3>1
    <3>. HIDE DEF off
    <3>5. off[1] = off[1 - 1] + Len(ss[1]) /\ off[1] \in Nat /\ off[1 - 1] \in Nat /\ off[1] <= Len(F[1])
      BY <3>2, <3>4
    <3>6. Right(1)
      BY <3>1, <3>3, <3>4, <3>5
    <3>. HIDE DEF Right
    <3>7. 0 + 1 = 1 /\ 0 \in Nat
      OBVIOUS
    <3>. QED  BY <3>6, <3>7
  <2>6. ASSUME NEW k \in N PROVE k + 1 \in N
    <3>. SUFFICES ASSUME (k + 1) + 1 <= L PROVE Right((k + 1) + 1)
      OBVIOUS
    <3>. DEFINE j == k + 1
    <3>1. /\ j \in Nat /\ j + 1 \in 2..L /\ j + 1 \in 1..L /\ (j + 1) - 1 = j /\ k + 1 <= L
          /\ j # 0 /\ j + 1 # 0 /\ j \in 0..L /\ j + 1 \in 0..L
      BY <1>1
    <3>2. Right(j)
      <4>. HIDE DEF Right
      <4>. QED  BY <3>1
    <3>. HIDE DEF j, N, off
    <3>3. F[j] \in Seq(X) /\ Len(F[j]) \in Nat /\ ss[j + 1] \in Seq(X) /\ Len(ss[j + 1]) \in Nat
      BY <1>1, <3>1, <3>2
    <3>4. \A i \in 1..j : /\ off[i] = off[i - 1] + Len(ss[i]) /\ off[i] \in Nat /\ off[i - 1] \in Nat
                            /\ off[i] <= Len(F[j]) /\ Placed(F[j], off[i - 1], ss[i])
      BY <3>2
    <3>. HIDE DEF Right
    <3>5. F[j + 1] = F[j] \o ss[j + 1]
      BY <2>4, <3>1
    <3>6. /\ F[j + 1] \in Seq(X) /\ Len(F[j + 1]) = Len(F[j]) + Len(ss[j + 1])
          /\ \A i \in 1..Len(F[j]) : F[j + 1][i] = F[j][i]
          /\ \A i \in 1..Len(ss[j + 1]) : F[j + 1][Len(F[j]) + i] = ss[j + 1][i]
      <4>. DEFINE a == F[j]
                  b == ss[j + 1]
      <4>1. a \in Seq(X) /\ b \in Seq(X) /\ F[j + 1] = a \o b
        BY <3>3, <3>5
      <4>. HIDE DEF a, b
      <4>2. /\ a \o b \in Seq(X) /\ Len(a \o b) = Len(a) + Len(b)
            /\ \A i \in 1..Len(a) : (a \o b)[i] = a[i]
            /\ \A i \in 1..Len(b) : (a \o b)[Len(a) + i] = b[i]
        BY <4>1, JoinFacts
      <4>. QED  BY <4>1, <4>2, Zenon DEF a, b
    <3>7. Len(F[j]) \in Nat /\ Len(ss[j + 1]) \in Nat /\ Len(F[j + 1]) \in Nat
      <4>. DEFINE f == F[j + 1]
      <4>1. f \in Seq(X)
        BY <3>6
      <4>. HIDE DEF f
      <4>2. Len(f) \in Nat
        BY <4>1
      <4>. QED  BY <3>3, <4>2 DEF f
    <3>8. off[j + 1] = Len(F[j + 1]) /\ off[(j + 1) - 1] = Len(F[j])
      BY <3>1 DEF off
    <3>9. ASSUME NEW i \in 1..j
          PROVE  off[i] <= Len(F[j + 1]) /\ Placed(F[j + 1], off[i - 1], ss[i])
      <4>1. /\ off[i] = off[i - 1] + Len(ss[i]) /\ off[i] \in Nat /\ off[i - 1] \in Nat
            /\ off[i] <= Len(F[j]) /\ Placed(F[j], off[i - 1], ss[i])
        BY <3>4
      <4>2. i \in 1..L
        BY <1>1, <3>1
      <4>3. Len(ss[i]) \in Nat
        BY <1>1, <4>2
      <4>4. ASSUME NEW x \in 1..Len(ss[i]) PROVE F[j + 1][off[i - 1] + x] = ss[i][x]
        <5>1. off[i - 1] + x \in 1..Len(F[j])
          <6>1. \A u, v, w, l \in Nat : l = u + v /\ l <= w /\ x \in 1..v => u + x \in 1..w
            BY <4>3
          <6>. QED  BY <3>7, <4>1, <4>3, <6>1
        <5>2. F[j][off[i - 1] + x] = ss[i][x]
          BY <4>1 DEF Placed
        <5>. QED  BY <3>6, <5>1, <5>2
      <4>5. off[i] <= Len(F[j + 1])
        <5>1. \A u, v, w \in Nat : u <= v => u <= v + w
          OBVIOUS
        <5>. QED  BY <3>6, <3>7, <4>1, <5>1
      <4>. QED  BY <4>4, <4>5 DEF Placed
    <3>10. Placed(F[j + 1], off[(j + 1) - 1], ss[j + 1])
      BY <3>6, <3>8 DEF Placed
    <3>11. \A i \in 1..(j + 1) : i = j + 1 \/ i \in 1..j
      BY <3>1
    <3>12. /\ off[j + 1] = off[(j + 1) - 1] + Len(ss[j + 1]) /\ off[j + 1] \in Nat /\ off[(j + 1) - 1] \in Nat
           /\ off[j + 1] <= Len(F[j + 1])
      <4>1. \A u \in Nat : u <= u
        OBVIOUS
      <4>. QED  BY <3>6, <3>7, <3>8, <4>1
    <3>13. Right(j + 1)
      BY <3>4, <3>6, <3>7, <3>9, <3>10, <3>11, <3>12 DEF Right
    <3>. QED  BY <3>13 DEF j
  <2>7. N = Nat
    <3>. HIDE DEF Right
    <3>. QED  BY <2>5, <2>6, NatSetInduction
  <2>8. Right(L)
    <3>1. L - 1 \in Nat /\ (L - 1) + 1 = L /\ L <= L
      BY <1>1, <1>3
    <3>. HIDE DEF Right
    <3>. QED  BY <2>7, <3>1
  <2>9. off[0] = 0 /\ off[L] = Len(F[L])
    BY <1>1, <1>3
  <2>10. off \in [0..L -> Nat]
    <3>1. \A k \in 0..L : k = 0 \/ k \in 1..L
      BY <1>1
    <3>2. \A k \in 0..L : off[k] \in Nat
      <4>. HIDE DEF off
      <4>. QED  BY <2>8, <2>9, <3>1
    <3>. QED  BY <3>2
  <2>. HIDE DEF off
  <2>. QED  BY <2>1, <2>8, <2>9, <2>10 DEF L
<1>. QED  BY <1>2, <1>3

(* Which of the sequences, and where in it, each position of q is from;    *)
(* the order is kept.                                                      *)
Indexes(q, ss, part, at) ==
  /\ \A x \in 1..Len(q) : /\ part[x] \in 1..Len(ss) /\ at[x] \in 1..Len(ss[part[x]])
                          /\ q[x] = ss[part[x]][at[x]] /\ part[x] \in Nat /\ at[x] \in Nat
  /\ \A x, y \in 1..Len(q) : x < y => part[x] < part[y] \/ (part[x] = part[y] /\ at[x] < at[y])

(* FlattenSeq can be traced back in this way.                              *)
LEMMA FlattenIndex ==
  ASSUME NEW X, NEW ss \in Seq(Seq(X))
  PROVE  \E part, at : Indexes(FlattenSeq(ss), ss, part, at)
<1>. DEFINE q == FlattenSeq(ss)
            L == Len(ss)
            n == Len(q)
<1>1. q \in Seq(X) /\ n \in Nat /\ L \in Nat /\ \A i \in 1..L : Len(ss[i]) \in Nat
  <2>1. q \in Seq(X)
    BY FlattenFacts
  <2>. HIDE DEF q
  <2>. QED  BY <2>1
<1>2. PICK off \in [0..L -> Nat] :
           /\ off[0] = 0 /\ off[L] = n
           /\ \A k \in 1..L : /\ off[k] = off[k - 1] + Len(ss[k])
                              /\ Placed(q, off[k - 1], ss[k])
  BY FlattenOffsets
<1>. HIDE DEF q, L, n
<1>. DEFINE I(x) == {i \in 1..L : x <= off[i]}
            part == [x \in 1..n |-> Min(I(x))]
            at == [x \in 1..n |-> x - off[part[x] - 1]]
<1>3. ASSUME NEW x \in 1..n
      PROVE  part[x] \in 1..L /\ x <= off[part[x]] /\ \A i \in 1..L : x <= off[i] => part[x] <= i
  <2>1. L # 0 /\ L \in 1..L
    BY <1>1, <1>2
  <2>2. L \in I(x)
    BY <1>1, <1>2, <2>1
  <2>3. I(x) \in SUBSET Nat /\ I(x) # {}
    BY <2>2
  <2>. DEFINE J == I(x)
  <2>. HIDE DEF J
  <2>4. Min(J) \in J /\ \A i \in J : Min(J) <= i
    <3>1. J \in SUBSET Nat /\ J # {}
      BY <2>3 DEF J
    <3>. QED  BY <3>1, MinFacts
  <2>5. part[x] = Min(J)
    BY DEF J
  <2>. QED  BY <2>4, <2>5 DEF J
<1>. HIDE DEF part
<1>4. ASSUME NEW x \in 1..n
      PROVE  /\ at[x] \in 1..Len(ss[part[x]])
             /\ q[x] = ss[part[x]][at[x]]
             /\ at[x] = x - off[part[x] - 1]
  <2>. DEFINE p == part[x]
  <2>1. p \in 1..L /\ x <= off[p] /\ \A i \in 1..L : x <= off[i] => p <= i
    BY <1>3
  <2>2. at[x] = x - off[p - 1]
    OBVIOUS
  <2>. HIDE DEF p, at
  <2>3. p - 1 \in 0..L /\ p \in 0..L /\ p - 1 < p
    BY <1>1, <2>1
  <2>4. off[p - 1] \in Nat /\ off[p] \in Nat /\ Len(ss[p]) \in Nat /\ off[p] = off[p - 1] + Len(ss[p])
    BY <1>1, <1>2, <2>1, <2>3
  <2>5. off[p - 1] < x
    <3>1. CASE p = 1
      BY <1>2, <3>1
    <3>2. CASE p # 1
      <4>1. p - 1 \in 1..L /\ ~(p <= p - 1)
        BY <1>1, <2>1, <3>2
      <4>2. ~(x <= off[p - 1])
        BY <2>1, <4>1
      <4>3. x \in Nat
        BY <1>1
      <4>. QED  BY <2>4, <4>2, <4>3
    <3>. QED  BY <3>1, <3>2
  <2>6. at[x] \in 1..Len(ss[p]) /\ off[p - 1] + at[x] = x
    BY <1>1, <2>1, <2>2, <2>4, <2>5
  <2>7. q[off[p - 1] + at[x]] = ss[p][at[x]]
    BY <1>2, <2>1, <2>6 DEF Placed
  <2>. QED  BY <2>2, <2>6, <2>7 DEF p
<1>5. part \in [1..n -> Nat] /\ at \in [1..n -> Nat]
  <2>1. part = [x \in 1..n |-> part[x]]
    BY DEF part
  <2>2. \A x \in 1..n : part[x] \in Nat
    BY <1>1, <1>3
  <2>3. \A x \in 1..n : at[x] \in Nat
    BY <1>1, <1>3, <1>4
  <2>. QED  BY <2>1, <2>2, <2>3
<1>. HIDE DEF at
<1>6. ASSUME NEW x \in 1..n, NEW y \in 1..n, x < y
      PROVE  part[x] < part[y] \/ (part[x] = part[y] /\ at[x] < at[y])
  <2>1. part[x] \in 1..L /\ part[y] \in 1..L /\ y <= off[part[y]]
    BY <1>3
  <2>2. x \in Nat /\ y \in Nat /\ off[part[y]] \in Nat
    <3>1. part[y] \in 0..L
      BY <1>1, <2>1
    <3>. QED  BY <1>1, <1>2, <3>1
  <2>3. x <= off[part[y]]
    BY <1>6, <2>1, <2>2
  <2>4. part[x] <= part[y]
    BY <1>3, <2>1, <2>3
  <2>5. CASE part[x] = part[y]
    <3>1. part[x] - 1 \in 0..L
      BY <1>1, <2>1
    <3>2. off[part[x] - 1] \in Nat
      BY <1>2, <3>1
    <3>3. at[x] = x - off[part[x] - 1] /\ at[y] = y - off[part[x] - 1]
      BY <1>4, <2>5
    <3>. QED  BY <1>6, <2>2, <2>5, <3>2, <3>3
  <2>6. CASE part[x] # part[y]
    BY <1>1, <2>1, <2>4, <2>6
  <2>. QED  BY <2>5, <2>6
<1>7. Indexes(q, ss, part, at)
  BY <1>3, <1>4, <1>5, <1>6 DEF Indexes, n, L
<1>8. \E f, g : Indexes(q, ss, f, g)
  BY <1>7
<1>. QED  BY <1>8 DEF q

(* The four fields of a header, one after the other.                       *)
LEMMA HeaderParts ==
  ASSUME NEW size \in Nat, NEW a \in Seq(Bytes), NEW b \in Seq(Bytes), NEW c \in Seq(Bytes),
         NEW d \in Seq(Bytes), Len(a) = size, Len(b) = size, Len(c) = size
  PROVE  LET h == a \o b \o c \o d IN
         /\ Placed(h, 0, a) /\ Placed(h, size, b)
         /\ Placed(h, size + size, c) /\ Placed(h, (size + size) + size, d)
<1>. DEFINE ab == a \o b
            abc == ab \o c
            h == abc \o d
            S == Seq(Bytes)
<1>1. a \in S /\ b \in S /\ c \in S /\ d \in S
  OBVIOUS
<1>2. ab \in S /\ Len(ab) = size + size
  <2>1. ab \in S /\ Len(ab) = Len(a) + Len(b)
    BY <1>1, JoinFacts
  <2>. QED  BY <1>1, <2>1
<1>. HIDE DEF ab
<1>3. abc \in S /\ Len(abc) = (size + size) + size
  <2>1. abc \in S /\ Len(abc) = Len(ab) + Len(c)
    BY <1>1, <1>2, JoinFacts
  <2>. QED  BY <1>1, <1>2, <2>1
<1>. HIDE DEF abc
<1>4. Placed(h, 0, abc \o d)
  BY DEF Placed
<1>. HIDE DEF h
<1>5. /\ size + size \in Nat /\ (size + size) + size \in Nat
      /\ 0 + size = size /\ 0 + (size + size) = size + size /\ 0 + ((size + size) + size) = (size + size) + size
  OBVIOUS
<1>6. Placed(h, 0, abc) /\ Placed(h, (size + size) + size, d)
  BY <1>1, <1>3, <1>4, <1>5, PlacedParts
<1>7. Placed(h, 0, ab) /\ Placed(h, size + size, c)
  BY <1>1, <1>2, <1>5, <1>6, PlacedParts DEF abc
<1>8. Placed(h, 0, a) /\ Placed(h, size, b)
  BY <1>1, <1>5, <1>7, PlacedParts DEF ab
<1>. QED  BY <1>6, <1>7, <1>8 DEF h, abc, ab

(* The loop of a client over the payload, which starts anew at each frame: *)
(* after k messages it has them and is where the next one begins.          *)
LEMMA DecodeFacts ==
  ASSUME NEW q \in Seq(WireMessages), Len(q) < Values[SizeOf32]
  PROVE  LET fr == Finalize(q, 0)
             d  == Decode(fr)
         IN  /\ d.magic = kBinaryFrameMagic /\ d.flags = 0
             /\ d.uncompressed_size = Len(fr.zstd) % Values[SizeOf32]
             /\ d.length = Len(fr.zstd)
             /\ d.msgs = [i \in DOMAIN q |-> Cut(q[i])]
<1>. DEFINE n == Len(q)
            ss == [i \in DOMAIN q |-> Serialize(q[i])]
            z == FlattenSeq(ss)
            fr == Finalize(q, 0)
            field(k) == ReadLe(fr.header, k * SizeOf32, SizeOf32)
<1>1. /\ n \in Nat /\ DOMAIN q = 1..n /\ \A i \in 1..n : q[i] \in WireMessages
      /\ SizeOf32 \in Nat /\ n < Values[SizeOf32]
  BY WidthAssumption
<1>2. /\ ss \in Seq(Seq(Bytes)) /\ Len(ss) = n
      /\ \A i \in 1..n : ss[i] = Serialize(q[i]) /\ ss[i] \in Seq(Bytes)
  <2>1. \A i \in 1..n : Serialize(q[i]) \in Seq(Bytes)
    BY <1>1, ReadMessageFacts
  <2>. HIDE DEF n
  <2>. QED  BY <1>1, <2>1
<1>3. fr.zstd = z /\ fr.header = WriteLe(kBinaryFrameMagic, SizeOf32) \o WriteLe(Cast(n, SizeOf32), SizeOf32)
                                   \o WriteLe(Cast(Len(z), SizeOf32), SizeOf32) \o WriteLe(0, SizeOf32)
  BY DEF Finalize
<1>. HIDE DEF ss, fr, n
<1>4. z \in Seq(Bytes) /\ Len(z) \in Nat
  <2>1. z \in Seq(Bytes)
    BY <1>2, FlattenFacts
  <2>. HIDE DEF z
  <2>. QED  BY <2>1
<1>5. /\ field(0) = kBinaryFrameMagic /\ field(1) = n
      /\ field(2) = Len(z) % Values[SizeOf32] /\ field(3) = 0
  <2>. DEFINE u == Cast(n, SizeOf32)
              v == Cast(Len(z), SizeOf32)
              p == Values[SizeOf32]
  <2>1. p \in Nat \ {0} /\ u = n /\ u \in Nat /\ u % p = u /\ v \in Nat /\ v % p = v /\ v = Len(z) % p
    <3>1. p \in Nat \ {0} /\ u = n /\ u \in Nat /\ u % p = u
      BY <1>1, CastFacts
    <3>2. v \in Nat /\ v % p = v
      <4>. DEFINE l == Len(z)
      <4>1. l \in Nat
        BY <1>4
      <4>. HIDE DEF l
      <4>2. Cast(l, SizeOf32) \in Nat /\ Cast(l, SizeOf32) % p = Cast(l, SizeOf32)
        BY <1>1, <4>1, CastFacts
      <4>. QED  BY <4>2 DEF l
    <3>. QED  BY <3>1, <3>2 DEF Cast
  <2>2. kBinaryFrameMagic \in Nat /\ kBinaryFrameMagic % p = kBinaryFrameMagic /\ 0 % p = 0
    <3>1. kBinaryFrameMagic \in 0 .. p - 1
      BY WidthAssumption
    <3>. HIDE DEF p, u, v
    <3>. QED  BY <2>1, <3>1
  <2>3. fr.header = WriteLe(kBinaryFrameMagic, SizeOf32) \o WriteLe(u, SizeOf32)
                      \o WriteLe(v, SizeOf32) \o WriteLe(0, SizeOf32)
    BY <1>3
  <2>. HIDE DEF u, v
  <2>4. /\ field(0) = kBinaryFrameMagic % p /\ field(1) = u % p
        /\ field(2) = v % p /\ field(3) = 0 % p
    <3>. DEFINE a == WriteLe(kBinaryFrameMagic, SizeOf32)
                b == WriteLe(u, SizeOf32)
                c == WriteLe(v, SizeOf32)
                d == WriteLe(0, SizeOf32)
                h == fr.header
    <3>1. kBinaryFrameMagic \in Nat /\ 0 \in Nat /\ u \in Nat /\ v \in Nat /\ SizeOf32 \in Nat
      BY <1>1, <2>1, <2>2
    <3>2. /\ a \in Seq(Bytes) /\ Len(a) = SizeOf32 /\ b \in Seq(Bytes) /\ Len(b) = SizeOf32
          /\ c \in Seq(Bytes) /\ Len(c) = SizeOf32 /\ d \in Seq(Bytes)
      BY <3>1, WriteFacts DEF Bytes
    <3>3. h = a \o b \o c \o d
      BY <2>3
    <3>. HIDE DEF a, b, c, d, h, p
    <3>4. /\ Placed(h, 0, a) /\ Placed(h, SizeOf32, b)
          /\ Placed(h, SizeOf32 + SizeOf32, c) /\ Placed(h, (SizeOf32 + SizeOf32) + SizeOf32, d)
      BY <3>1, <3>2, <3>3, HeaderParts
    <3>5. SizeOf32 + SizeOf32 \in Nat /\ (SizeOf32 + SizeOf32) + SizeOf32 \in Nat
      BY <3>1
    <3>6. /\ ReadLe(h, 0, SizeOf32) = kBinaryFrameMagic % p
          /\ ReadLe(h, SizeOf32, SizeOf32) = u % p
          /\ ReadLe(h, SizeOf32 + SizeOf32, SizeOf32) = v % p
          /\ ReadLe(h, (SizeOf32 + SizeOf32) + SizeOf32, SizeOf32) = 0 % p
      BY <3>1, <3>4, <3>5, ReadFacts DEF a, b, c, d, p
    <3>7. /\ 0 * SizeOf32 = 0 /\ 1 * SizeOf32 = SizeOf32 /\ 2 * SizeOf32 = SizeOf32 + SizeOf32
          /\ 3 * SizeOf32 = (SizeOf32 + SizeOf32) + SizeOf32
      BY <3>1
    <3>. QED  BY <3>6, <3>7, Zenon DEF h
  <2>. HIDE DEF p
  <2>5. field(0) = kBinaryFrameMagic /\ field(1) = n /\ field(2) = v /\ field(3) = 0
    BY <2>1, <2>2, <2>4
  <2>. QED  BY <2>1, <2>5 DEF p
<1>. HIDE DEF z
<1>6. PICK off \in [0..n -> Nat] :
        /\ off[0] = 0 /\ off[n] = Len(z)
        /\ \A k \in 1..n : off[k] = off[k - 1] + Len(ss[k]) /\ off[k] <= Len(z) /\ Placed(z, off[k - 1], ss[k])
  BY <1>2, FlattenOffsets DEF z
<1>7. ASSUME NEW k \in 1..n
      PROVE  ReadMessage(z, off[k - 1]) = [msg |-> Cut(q[k]), next |-> off[k]]
  <2>1. k - 1 \in 0..n
    BY <1>1
  <2>2. off[k - 1] \in Nat
    BY <1>6, <2>1
  <2>3. /\ off[k] = off[k - 1] + Len(Serialize(q[k])) /\ off[k] <= Len(z)
        /\ Placed(z, off[k - 1], Serialize(q[k])) /\ q[k] \in WireMessages
    BY <1>1, <1>2, <1>6
  <2>. QED  BY <1>4, <2>2, <2>3, ReadMessageFacts
<1>. DEFINE Step(g, i) == IF i = 0 THEN [out |-> <<>>, next |-> 0]
                          ELSE [out |-> Append(g[i - 1].out, ReadMessage(z, g[i - 1].next).msg),
                                next |-> ReadMessage(z, g[i - 1].next).next]
            IsRead(g) == g = [i \in 0..n |-> Step(g, i)]
            R == CHOOSE g : IsRead(g)
            first(k) == [i \in 1..k |-> Cut(q[i])]
            w == [k \in 0..n |-> [out |-> first(k), next |-> off[k]]]
<1>8. /\ first(0) = <<>>
      /\ \A k \in 1..n : first(k) = Append(first(k - 1), Cut(q[k]))
  <2>. DEFINE C(i) == Cut(q[i])
              X == {C(i) : i \in 1..n}
  <2>1. first(0) = <<>>
    OBVIOUS
  <2>2. ASSUME NEW k \in 1..n PROVE first(k) = Append(first(k - 1), C(k))
    <3>1. k - 1 \in Nat /\ (k - 1) + 1 = k /\ \A i \in 1..(k - 1) : C(i) \in X
      BY <1>1
    <3>2. C(k) \in X
      OBVIOUS
    <3>3. first(k - 1) = [i \in 1..(k - 1) |-> C(i)] /\ first(k) = [i \in 1..k |-> C(i)]
      OBVIOUS
    <3>. HIDE DEF C, X, first
    <3>4. first(k - 1) \in Seq(X) /\ Len(first(k - 1)) = k - 1
      BY <3>1, <3>3
    <3>. DEFINE a == Append(first(k - 1), C(k))
    <3>5. /\ a \in Seq(X) /\ Len(a) = k
          /\ \A i \in 1..k : a[i] = C(i)
      BY <3>1, <3>2, <3>3, <3>4
    <3>. HIDE DEF a
    <3>6. a = [i \in 1..k |-> C(i)]
      BY <3>5
    <3>. QED  BY <3>3, <3>6 DEF a
  <2>. QED  BY <2>1, <2>2
<1>. HIDE DEF first
<1>9. IsRead(w)
  <2>1. ASSUME NEW i \in 0..n PROVE w[i] = Step(w, i)
    <3>1. CASE i = 0
      BY <1>6, <1>8, <3>1
    <3>2. CASE i # 0
      <4>1. i \in 1..n /\ i - 1 \in 0..n
        BY <1>1, <3>2
      <4>2. /\ w[i - 1].out = first(i - 1) /\ w[i - 1].next = off[i - 1]
            /\ w[i] = [out |-> first(i), next |-> off[i]]
        BY <4>1
      <4>. HIDE DEF w
      <4>3. ReadMessage(z, w[i - 1].next) = [msg |-> Cut(q[i]), next |-> off[i]]
        BY <1>7, <4>1, <4>2, Zenon
      <4>4. ReadMessage(z, w[i - 1].next).msg = Cut(q[i]) /\ ReadMessage(z, w[i - 1].next).next = off[i]
        BY <4>3
      <4>5. Step(w, i) = [out |-> Append(first(i - 1), Cut(q[i])), next |-> off[i]]
        BY <3>2, <4>2, <4>4, Zenon
      <4>6. Step(w, i) = [out |-> first(i), next |-> off[i]]
        BY <1>8, <4>1, <4>5, Zenon
      <4>. QED  BY <4>2, <4>6, Zenon
    <3>. QED  BY <3>1, <3>2
  <2>2. w = [i \in 0..n |-> w[i]]
    OBVIOUS
  <2>. HIDE DEF w, Step
  <2>. QED  BY <2>1, <2>2
<1>10. IsRead(R)
  <2>1. \E g : IsRead(g)
    <3>. HIDE DEF IsRead, w
    <3>. QED  BY <1>9
  <2>. HIDE DEF IsRead
  <2>. QED  BY <2>1
<1>11. Decode(fr) = [magic |-> field(0), uncompressed_size |-> field(2), flags |-> field(3),
                     msgs |-> R[n].out, length |-> R[n].next]
  <2>1. Decode(fr) = [magic |-> field(0), uncompressed_size |-> field(2), flags |-> field(3),
                      msgs |-> (CHOOSE g : g = [i \in 0..field(1) |-> Step(g, i)])[field(1)].out,
                      length |-> (CHOOSE g : g = [i \in 0..field(1) |-> Step(g, i)])[field(1)].next]
    BY <1>3 DEF Decode
  <2>. HIDE DEF Step, field
  <2>. QED  BY <1>5, <2>1
<1>. HIDE DEF R
<1>12. \A i \in 0..n : R[i] = Step(R, i)
  <2>. HIDE DEF Step
  <2>. QED  BY <1>10
<1>. HIDE DEF IsRead
<1>. DEFINE N == {k \in Nat : k <= n => R[k] = [out |-> first(k), next |-> off[k]]}
<1>13. 0 \in N
  <2>1. 0 \in 0..n
    BY <1>1
  <2>2. R[0] = [out |-> <<>>, next |-> 0]
    BY <1>12, <2>1
  <2>. QED  BY <1>6, <1>8, <2>2
<1>14. ASSUME NEW k \in N PROVE k + 1 \in N
  <2>. SUFFICES ASSUME k + 1 <= n PROVE R[k + 1] = [out |-> first(k + 1), next |-> off[k + 1]]
    OBVIOUS
  <2>1. k \in Nat /\ k <= n /\ k + 1 # 0 /\ k + 1 \in 0..n /\ k + 1 \in 1..n /\ (k + 1) - 1 = k
    BY <1>1
  <2>2. R[k].out = first(k) /\ R[k].next = off[k]
    BY <2>1
  <2>. HIDE DEF N
  <2>3. R[k + 1] = [out |-> Append(R[(k + 1) - 1].out, ReadMessage(z, R[(k + 1) - 1].next).msg),
                    next |-> ReadMessage(z, R[(k + 1) - 1].next).next]
    BY <1>12, <2>1
  <2>4. R[k + 1] = [out |-> Append(R[k].out, ReadMessage(z, R[k].next).msg),
                    next |-> ReadMessage(z, R[k].next).next]
    BY <2>1, <2>3
  <2>5. ReadMessage(z, off[k]) = [msg |-> Cut(q[k + 1]), next |-> off[k + 1]]
    BY <1>7, <2>1
  <2>6. first(k + 1) = Append(first(k), Cut(q[k + 1]))
    BY <1>8, <2>1
  <2>7. ReadMessage(z, R[k].next) = [msg |-> Cut(q[k + 1]), next |-> off[k + 1]]
    BY <2>2, <2>5, Zenon
  <2>8. ReadMessage(z, R[k].next).msg = Cut(q[k + 1]) /\ ReadMessage(z, R[k].next).next = off[k + 1]
    BY <2>7
  <2>. QED  BY <2>2, <2>4, <2>6, <2>8, Zenon
<1>15. N = Nat
  BY <1>13, <1>14, NatSetInduction
<1>16. R[n].out = first(n) /\ R[n].next = off[n]
  <2>1. n \in N /\ n <= n
    BY <1>1, <1>15
  <2>. QED  BY <2>1
<1>17. first(n) = [i \in DOMAIN q |-> Cut(q[i])]
  BY <1>1 DEF first
<1>18. /\ Decode(fr).magic = kBinaryFrameMagic /\ Decode(fr).flags = 0
       /\ Decode(fr).uncompressed_size = Len(z) % Values[SizeOf32]
       /\ Decode(fr).length = Len(z)
       /\ Decode(fr).msgs = [i \in DOMAIN q |-> Cut(q[i])]
  <2>. HIDE DEF field
  <2>. QED  BY <1>5, <1>6, <1>11, <1>16, <1>17
<1>. QED  BY <1>3, <1>18 DEF fr

-----------------------------------------------------------------------------
(* The order of messages and frames.                                       *)

(* The messages of each topic are in the order of their numbers.           *)
InTopicOrder(q) ==
  \A i, j \in 1..Len(q) : i < j /\ q[i][1] = q[j][1] => q[i][2].n < q[j][2].n

(* Whichever topic comes first, a cycle routes the messages of each in     *)
(* the order of the buffer.                                                *)
LEMMA RoutedInOrder ==
  ASSUME CycleTypes, NEW r \in Clients, \A t \in Topics : Increasing(messages[t])
  PROVE  InTopicOrder(RoutedTo(r))
<1>. DEFINE out(t) == RouteTopic(r, t).out
            routed(t) == [i \in DOMAIN out(t) |-> <<t, out(t)[i]>>]
            order == SetToSeq(Topics)
            ss == [k \in DOMAIN order |-> routed(order[k])]
            q == FlattenSeq(ss)
<1>1. RoutedTo(r) = q
  BY DEF RoutedTo
<1>2. order \in Seq(Topics) /\ \A i, j \in DOMAIN order : i # j => order[i] # order[j]
  BY BoundsAssumption, SetToSeqFacts
<1>. HIDE DEF order
<1>3. \A t \in Topics : out(t) \in Seq(Messages) /\ Increasing(out(t))
  BY RouteTopicFacts
<1>. HIDE DEF out
<1>4. ASSUME NEW t \in Topics
      PROVE  /\ routed(t) \in Seq(Routed) /\ Len(routed(t)) = Len(out(t)) /\ Len(out(t)) \in Nat
             /\ \A i \in 1..Len(out(t)) : routed(t)[i][1] = t /\ routed(t)[i][2] = out(t)[i]
  <2>1. /\ DOMAIN out(t) = 1..Len(out(t)) /\ Len(out(t)) \in Nat
        /\ \A i \in 1..Len(out(t)) : out(t)[i] \in Messages
    BY <1>3
  <2>2. \A i \in 1..Len(out(t)) : <<t, out(t)[i]>> \in Routed
    BY <2>1 DEF Routed
  <2>. QED  BY <2>1, <2>2
<1>. HIDE DEF routed
<1>5. /\ ss \in Seq(Seq(Routed)) /\ Len(ss) = Len(order) /\ DOMAIN order = 1..Len(order)
      /\ \A k \in 1..Len(order) : ss[k] = routed(order[k]) /\ order[k] \in Topics
  <2>1. DOMAIN order = 1..Len(order) /\ Len(order) \in Nat /\ \A k \in 1..Len(order) : order[k] \in Topics
    BY <1>2
  <2>. QED  BY <1>4, <2>1
<1>. HIDE DEF ss, q
<1>6. PICK part, at : Indexes(q, ss, part, at)
  BY <1>5, FlattenIndex DEF q
<1>7. ASSUME NEW x \in 1..Len(q)
      PROVE  LET t == order[part[x]] IN
             /\ t \in Topics /\ at[x] \in 1..Len(out(t)) /\ q[x][1] = t /\ q[x][2] = out(t)[at[x]]
             /\ part[x] \in DOMAIN order
  <2>1. part[x] \in 1..Len(order) /\ ss[part[x]] = routed(order[part[x]]) /\ order[part[x]] \in Topics
    BY <1>5, <1>6 DEF Indexes
  <2>2. at[x] \in 1..Len(routed(order[part[x]])) /\ q[x] = routed(order[part[x]])[at[x]]
    BY <1>6, <2>1 DEF Indexes
  <2>. QED  BY <1>4, <1>5, <2>1, <2>2
<1>8. ASSUME NEW x \in 1..Len(q), NEW y \in 1..Len(q), x < y, q[x][1] = q[y][1]
      PROVE  q[x][2].n < q[y][2].n
  <2>. DEFINE t == order[part[x]]
  <2>1. part[x] = part[y]
    BY <1>2, <1>7, <1>8
  <2>2. at[x] < at[y]
    <3>1. part[x] \in Nat
      BY <1>6 DEF Indexes
    <3>2. part[x] < part[y] \/ (part[x] = part[y] /\ at[x] < at[y])
      BY <1>6, <1>8, Zenon DEF Indexes
    <3>3. ~(part[x] < part[y])
      BY <2>1, <3>1
    <3>. QED  BY <3>2, <3>3
  <2>3. t \in Topics /\ at[x] \in 1..Len(out(t)) /\ at[y] \in 1..Len(out(t))
    BY <1>7, <2>1
  <2>4. q[x][2] = out(t)[at[x]] /\ q[y][2] = out(t)[at[y]]
    BY <1>7, <2>1
  <2>. HIDE DEF t
  <2>5. Increasing(out(t))
    BY <1>3, <2>3
  <2>. QED  BY <2>2, <2>3, <2>4, <2>5 DEF Increasing
<1>. QED  BY <1>1, <1>8 DEF InTopicOrder

(* Nor does the split into light and heavy messages change the order.      *)
LEMMA ClassInOrder ==
  ASSUME NEW q \in Seq(Routed), InTopicOrder(q), NEW heavy
  PROVE  InTopicOrder(OfClass(q, heavy))
<1>. DEFINE pick(x) == IF IsHeavy(x) = heavy THEN <<x>> ELSE <<>>
            ss == [i \in DOMAIN q |-> pick(q[i])]
            p == FlattenSeq(ss)
<1>1. DOMAIN q = 1..Len(q) /\ Len(q) \in Nat /\ \A i \in 1..Len(q) : q[i] \in Routed
  OBVIOUS
<1>2. OfClass(q, heavy) = p
  BY DEF OfClass
<1>3. ASSUME NEW x \in Routed
      PROVE  pick(x) \in Seq(Routed) /\ \A k \in 1..Len(pick(x)) : k = 1 /\ pick(x)[k] = x
  <2>1. <<x>> \in Seq(Routed) /\ \A k \in 1..Len(<<x>>) : k = 1 /\ <<x>>[k] = x
    OBVIOUS
  <2>2. <<>> \in Seq(Routed) /\ \A k \in 1..Len(<<>>) : FALSE
    OBVIOUS
  <2>3. pick(x) = <<x>> \/ pick(x) = <<>>
    OBVIOUS
  <2>. HIDE DEF pick
  <2>. QED  BY <2>1, <2>2, <2>3
<1>. HIDE DEF pick
<1>4. ss \in Seq(Seq(Routed)) /\ Len(ss) = Len(q) /\ \A i \in 1..Len(q) : ss[i] = pick(q[i])
  BY <1>1, <1>3
<1>. HIDE DEF ss, p
<1>5. PICK part, at : Indexes(p, ss, part, at)
  BY <1>4, FlattenIndex DEF p
<1>6. ASSUME NEW x \in 1..Len(p) PROVE part[x] \in 1..Len(q) /\ at[x] = 1 /\ p[x] = q[part[x]]
  <2>1. part[x] \in 1..Len(q) /\ ss[part[x]] = pick(q[part[x]]) /\ q[part[x]] \in Routed
    BY <1>1, <1>4, <1>5 DEF Indexes
  <2>2. at[x] \in 1..Len(pick(q[part[x]])) /\ p[x] = pick(q[part[x]])[at[x]]
    BY <1>5, <2>1 DEF Indexes
  <2>. QED  BY <1>3, <2>1, <2>2
<1>7. ASSUME NEW x \in 1..Len(p), NEW y \in 1..Len(p), x < y, p[x][1] = p[y][1]
      PROVE  p[x][2].n < p[y][2].n
  <2>1. part[x] < part[y]
    <3>1. at[x] = 1 /\ at[y] = 1
      BY <1>6
    <3>. QED  BY <1>5, <1>7, <3>1 DEF Indexes
  <2>2. part[x] \in 1..Len(q) /\ part[y] \in 1..Len(q) /\ p[x] = q[part[x]] /\ p[y] = q[part[y]]
    BY <1>6
  <2>. QED  BY <1>7, <2>1, <2>2 DEF InTopicOrder
<1>. QED  BY <1>2, <1>7 DEF InTopicOrder

(* A sequence of messages that all have numbers of their own is short.     *)
LEMMA FewMessages ==
  ASSUME NEW q \in Seq(Routed), InTopicOrder(q),
         \A x, y \in ToSet(q) : x[1] # y[1] => x[2].n # y[2].n
  PROVE  Len(q) <= MaxMessages
<1>. DEFINE L == Len(q)
            g == [i \in 1..L |-> q[i][2].n]
            M == 1..MaxMessages
<1>1. L \in Nat /\ MaxMessages \in Nat
  BY BoundsAssumption
<1>2. ASSUME NEW i \in 1..L
      PROVE  q[i] \in ToSet(q) /\ q[i][2].n \in M /\ q[i][2].n \in Nat
  <2>1. q[i] \in Routed /\ DOMAIN q = 1..L
    OBVIOUS
  <2>2. q[i][2] \in Messages
    BY <2>1 DEF Routed
  <2>3. q[i] \in ToSet(q)
    BY <2>1 DEF ToSet
  <2>. QED  BY <2>2, <2>3, MessageFacts DEF Messages
<1>3. ASSUME NEW i \in 1..L, NEW j \in 1..L, i # j PROVE q[i][2].n # q[j][2].n
  <2>1. CASE q[i][1] # q[j][1]
    BY <1>2, <2>1
  <2>2. CASE q[i][1] = q[j][1]
    <3>1. i < j \/ j < i
      BY <1>1, <1>3
    <3>2. q[i][2].n < q[j][2].n \/ q[j][2].n < q[i][2].n
      BY <2>2, <3>1 DEF InTopicOrder
    <3>3. q[i][2].n \in Nat /\ q[j][2].n \in Nat
      BY <1>2
    <3>. QED  BY <3>2, <3>3
  <2>. QED  BY <2>1, <2>2
<1>4. g \in Injection(1..L, M)
  <2>1. g \in [1..L -> M]
    BY <1>2
  <2>2. \A i, j \in 1..L : i # j => g[i] # g[j]
    BY <1>3
  <2>. HIDE DEF g, L, M
  <2>. QED  BY <2>1, <2>2 DEF Injection, IsInjective
<1>. HIDE DEF g, L
<1>5. /\ IsFiniteSet(1..L) /\ Cardinality(1..L) = L
      /\ IsFiniteSet(M) /\ Cardinality(M) = MaxMessages
  <2>1. \A k \in Nat : IsFiniteSet(1..k) /\ Cardinality(1..k) = k
    <3>. SUFFICES ASSUME NEW k \in Nat PROVE IsFiniteSet(1..k) /\ Cardinality(1..k) = k
      OBVIOUS
    <3>1. IsFiniteSet(1..k) /\ Cardinality(1..k) = IF 1 > k THEN 0 ELSE k - 1 + 1
      BY FS_Interval
    <3>. QED  BY <3>1
  <2>. QED  BY <1>1, <2>1
<1>. HIDE DEF M
<1>6. Cardinality(1..L) <= Cardinality(M)
  BY <1>4, <1>5, FS_Injection
<1>. QED  BY <1>5, <1>6 DEF L

(* The frames of one group: each holds messages of its class, in order,    *)
(* and all but the first are heavy; a heavy frame follows those with       *)
(* earlier messages of its topic.                                          *)
InClass(f) ==
  \A p \in ToSet(f.msgs) : f.heavy <=> /\ heavy_frame_threshold_bytes # 0
                                       /\ Size[p[2].stamp] >= heavy_frame_threshold_bytes
WellFormed(f) == (f.heavy => Len(f.msgs) = 1) /\ InClass(f) /\ InTopicOrder(f.msgs)
Follows(f, g) ==
  /\ g.heavy
  /\ f.heavy => \A p \in ToSet(f.msgs), q \in ToSet(g.msgs) : p[1] = q[1] => p[2].n < q[2].n

(* The size that route_message compares is the size of the message.        *)
LEMMA HeavyFacts ==
  ASSUME NEW p \in Routed
  PROVE  IsHeavy(p) <=> /\ heavy_frame_threshold_bytes # 0
                        /\ Size[p[2].stamp] >= heavy_frame_threshold_bytes
<1>1. p[2] \in Messages
  BY DEF Routed
<1>2. Size[p[2].stamp] \in Nat
  BY <1>1, MessageFacts, SizesAssumption
<1>3. Len(Payload(p[2])) = Size[p[2].stamp]
  <2>. DEFINE n == Size[p[2].stamp]
              x == p[2].n % Byte
  <2>1. n \in Nat
    BY <1>2
  <2>. HIDE DEF n, x
  <2>2. Len([i \in 1..n |-> x]) = n
    BY <2>1
  <2>. QED  BY <2>2 DEF Payload, n, x
<1>. QED  BY <1>3 DEF IsHeavy

(* The frames of a group are such.                                         *)
LEMMA FramesOfOrder ==
  ASSUME NEW q \in Seq(Routed), NEW cl \in SUBSET Clients, InTopicOrder(q)
  PROVE  LET fs == FramesOf(q, cl) IN
         /\ \A a \in 1..Len(fs) : WellFormed(fs[a]) /\ ToSet(fs[a].msgs) \subseteq ToSet(q)
         /\ \A a, b \in 1..Len(fs) : a < b => Follows(fs[a], fs[b])
<1>. DEFINE light == OfClass(q, FALSE)
            heavy == OfClass(q, TRUE)
            F == IF light = <<>> THEN <<>> ELSE <<Frame(light, cl, FALSE)>>
            H == [i \in DOMAIN heavy |-> Frame(<<heavy[i]>>, cl, TRUE)]
            fs == F \o H
<1>1. FramesOf(q, cl) = fs
  BY DEF FramesOf
<1>2. /\ light \in Seq(Routed) /\ heavy \in Seq(Routed)
      /\ InTopicOrder(light) /\ InTopicOrder(heavy)
      /\ \A x \in ToSet(light) : x \in ToSet(q) /\ ~IsHeavy(x) /\ x \in Routed
      /\ \A x \in ToSet(heavy) : x \in ToSet(q) /\ IsHeavy(x) /\ x \in Routed
  <2>1. \A x : IsHeavy(x) \in BOOLEAN
    BY DEF IsHeavy
  <2>2. /\ light \in Seq(Routed) /\ InTopicOrder(light)
        /\ \A x : x \in ToSet(light) => x \in ToSet(q) /\ (IsHeavy(x) = FALSE)
    BY OfClassFacts, ClassInOrder
  <2>3. /\ heavy \in Seq(Routed) /\ InTopicOrder(heavy)
        /\ \A x : x \in ToSet(heavy) => x \in ToSet(q) /\ (IsHeavy(x) = TRUE)
    BY OfClassFacts, ClassInOrder
  <2>. HIDE DEF light, heavy
  <2>4. \A x : (IsHeavy(x) = TRUE <=> IsHeavy(x)) /\ (IsHeavy(x) = FALSE <=> ~IsHeavy(x))
    BY <2>1, Zenon
  <2>5. ToSet(q) \subseteq Routed
    BY ToSetFinite
  <2>. QED  BY <2>2, <2>3, <2>4, <2>5, Zenon
<1>. HIDE DEF light, heavy
<1>. DEFINE lf == Frame(light, cl, FALSE)
            hf(x) == Frame(<<x>>, cl, TRUE)
<1>3. WellFormed(lf) /\ lf.msgs = light /\ ~lf.heavy
  <2>1. lf.msgs = light
    BY FrameFacts
  <2>2. ~lf.heavy
    BY DEF Frame
  <2>. HIDE DEF lf
  <2>3. InClass(lf)
    <3>1. \A p \in ToSet(light) : ~(heavy_frame_threshold_bytes # 0 /\ Size[p[2].stamp] >= heavy_frame_threshold_bytes)
      BY <1>2, HeavyFacts
    <3>. QED  BY <2>1, <2>2, <3>1, Zenon DEF InClass
  <2>. QED  BY <1>2, <2>1, <2>2, <2>3 DEF WellFormed
<1>4. ASSUME NEW x \in ToSet(heavy) PROVE WellFormed(hf(x)) /\ ToSet(hf(x).msgs) = {x} /\ hf(x).heavy
  <2>. DEFINE f == hf(x)
  <2>1. f.msgs = <<x>> /\ f.heavy = TRUE
    BY FrameFacts
  <2>. HIDE DEF f, hf
  <2>2. ToSet(<<x>>) = {x} /\ Len(<<x>>) = 1
    BY DEF ToSet
  <2>3. InClass(f)
    BY <1>2, <2>1, <2>2, HeavyFacts DEF InClass
  <2>4. InTopicOrder(<<x>>)
    BY DEF InTopicOrder
  <2>5. WellFormed(f)
    BY <2>1, <2>2, <2>3, <2>4 DEF WellFormed
  <2>. QED  BY <2>1, <2>2, <2>5 DEF f
<1>. DEFINE X == {lf} \cup {hf(x) : x \in ToSet(heavy)}
<1>5. F \in Seq(X) /\ (F = <<>> \/ F = <<lf>>)
  <2>1. F = <<>> \/ F = <<lf>>
    OBVIOUS
  <2>2. lf \in X
    OBVIOUS
  <2>. HIDE DEF F, X, lf
  <2>3. <<>> \in Seq(X) /\ <<lf>> \in Seq(X)
    BY <2>2
  <2>. QED  BY <2>1, <2>3
<1>6. DOMAIN heavy = 1..Len(heavy) /\ Len(heavy) \in Nat /\ \A i \in 1..Len(heavy) : heavy[i] \in ToSet(heavy)
  BY <1>2 DEF ToSet
<1>7. H \in Seq(X) /\ Len(H) = Len(heavy) /\ \A i \in 1..Len(heavy) : H[i] = hf(heavy[i])
  <2>. HIDE DEF hf
  <2>1. H = [i \in 1..Len(heavy) |-> hf(heavy[i])]
    BY <1>6 DEF hf
  <2>2. \A i \in 1..Len(heavy) : hf(heavy[i]) \in X
    BY <1>6
  <2>. HIDE DEF X, H
  <2>. QED  BY <1>6, <2>1, <2>2
<1>. HIDE DEF F, H, X, lf, hf
<1>8. Len(F) \in {0, 1} /\ \A i \in 1..Len(F) : F[i] = lf
  <2>1. Len(<<>>) = 0 /\ Len(<<lf>>) = 1 /\ \A i \in 1..1 : <<lf>>[i] = lf
    OBVIOUS
  <2>. QED  BY <1>5, <2>1
<1>9. /\ fs \in Seq(X) /\ Len(fs) = Len(F) + Len(H)
      /\ \A i \in 1..Len(F) : fs[i] = F[i]
      /\ \A i \in 1..Len(H) : fs[Len(F) + i] = H[i]
  <2>1. F \in Seq(X) /\ H \in Seq(X)
    BY <1>5, <1>7
  <2>. QED  BY ONLY <2>1, JoinFacts
<1>. HIDE DEF fs
<1>10. ASSUME NEW a \in 1..Len(fs)
       PROVE  \/ a = 1 /\ fs[a] = lf
              \/ \E i \in 1..Len(heavy) : a = Len(F) + i /\ fs[a] = hf(heavy[i])
  <2>1. CASE a \in 1..Len(F)
    <3>1. a = 1
      BY <1>8, <2>1
    <3>. QED  BY <1>8, <1>9, <2>1, <3>1
  <2>2. CASE a \notin 1..Len(F)
    <3>. DEFINE i == a - Len(F)
    <3>1. i \in 1..Len(heavy) /\ a = Len(F) + i
      BY <1>6, <1>7, <1>8, <1>9, <2>2
    <3>. HIDE DEF i
    <3>2. fs[Len(F) + i] = H[i] /\ H[i] = hf(heavy[i])
      BY <1>7, <1>9, <3>1
    <3>3. fs[a] = hf(heavy[i])
      BY <3>1, <3>2
    <3>. QED  BY <3>1, <3>3
  <2>. QED  BY <2>1, <2>2
<1>11. ASSUME NEW a \in 1..Len(fs) PROVE WellFormed(fs[a]) /\ ToSet(fs[a].msgs) \subseteq ToSet(q)
  <2>1. CASE fs[a] = lf
    BY <1>2, <1>3, <2>1
  <2>2. ASSUME NEW i \in 1..Len(heavy), fs[a] = hf(heavy[i])
        PROVE  WellFormed(fs[a]) /\ ToSet(fs[a].msgs) \subseteq ToSet(q)
    <3>1. heavy[i] \in ToSet(heavy)
      BY <1>6
    <3>. QED  BY <1>2, <1>4, <2>2, <3>1
  <2>. QED  BY <1>10, <2>1, <2>2
<1>12. ASSUME NEW a \in 1..Len(fs), NEW b \in 1..Len(fs), a < b PROVE Follows(fs[a], fs[b])
  <2>1. PICK j \in 1..Len(heavy) : b = Len(F) + j /\ fs[b] = hf(heavy[j])
    <3>1. b # 1
      <4>1. Len(fs) \in Nat
        BY <1>6, <1>7, <1>8, <1>9
      <4>. QED  BY <1>12, <4>1
    <3>. QED  BY <1>10, <3>1
  <2>2. heavy[j] \in ToSet(heavy)
    BY <1>6
  <2>3. fs[b].heavy /\ ToSet(fs[b].msgs) = {heavy[j]}
    BY <1>4, <2>1, <2>2
  <2>4. CASE fs[a] = lf
    BY <1>3, <2>3, <2>4 DEF Follows
  <2>5. ASSUME NEW i \in 1..Len(heavy), a = Len(F) + i, fs[a] = hf(heavy[i])
        PROVE  Follows(fs[a], fs[b])
    <3>1. i < j
      <4>1. Len(F) \in Nat
        BY <1>8
      <4>. QED  BY <1>6, <1>12, <2>1, <2>5, <4>1
    <3>2. heavy[i] \in ToSet(heavy)
      BY <1>6
    <3>3. ToSet(fs[a].msgs) = {heavy[i]}
      BY <1>4, <2>5, <3>2
    <3>4. heavy[i][1] = heavy[j][1] => heavy[i][2].n < heavy[j][2].n
      BY <1>2, <3>1 DEF InTopicOrder
    <3>. QED  BY <2>3, <3>3, <3>4 DEF Follows
  <2>. QED  BY <1>10, <2>4, <2>5
<1>. QED  BY <1>1, <1>11, <1>12

(* The frames of a cycle are those of its groups, one after the other, and *)
(* a client is in one of these only.                                       *)
LEMMA PublishRouteOrder ==
  ASSUME CycleTypes, \A t \in Topics : Increasing(messages[t]), PublishRoute
  PROVE  /\ \A a \in 1..Len(frames') :
              /\ WellFormed(frames'[a])
              /\ \A p \in ToSet(frames'[a].msgs) : p[1] \in Topics /\ p[2] \in ToSet(messages[p[1]])
         /\ \A a, b \in 1..Len(frames') :
              a < b /\ frames'[a].clients \cap frames'[b].clients # {} => Follows(frames'[a], frames'[b])
<1>. DEFINE grouped == {c \in ToSet(active) : client_subs[c] # NoSubs}
            R(c) == RepIn(active, client_subs, c)
            G(c) == GroupIn(active, client_subs, c)
            Reps == {R(c) : c \in grouped}
            reps == SetToSeq(Reps)
            fr(r) == FramesOf(RoutedTo(r), G(r))
            ss == [i \in DOMAIN reps |-> fr(reps[i])]
<1>1. ToSet(active) \subseteq Clients /\ IsFiniteSet(ToSet(active)) /\ active \in Seq(Clients)
  BY ToSetFinite DEF CycleTypes
<1>2. frames' = FlattenSeq(ss)
  BY GroupForms DEF PublishRoute
<1>3. ASSUME NEW c \in ToSet(active)
      PROVE  R(c) \in G(c) /\ R(c) \in ToSet(active) /\ \A d \in G(c) : R(d) = R(c)
  BY <1>1, GroupFacts
<1>4. \A c : G(c) \in SUBSET ToSet(active)
  BY DEF GroupIn
<1>. HIDE DEF R, G
<1>5. Reps \subseteq ToSet(active) /\ IsFiniteSet(Reps) /\ \A r \in Reps : R(r) = r
  <2>1. Reps \in SUBSET ToSet(active) /\ \A r \in Reps : R(r) = r
    BY <1>3
  <2>. HIDE DEF Reps
  <2>2. IsFiniteSet(Reps)
    BY <1>1, <2>1, FS_Subset
  <2>. QED  BY <2>1, <2>2
<1>. HIDE DEF Reps
<1>6. reps \in Seq(Reps) /\ \A i, j \in DOMAIN reps : i # j => reps[i] # reps[j]
  BY <1>5, SetToSeqFacts
<1>. HIDE DEF reps
<1>7. ASSUME NEW r \in Reps
      PROVE  /\ fr(r) \in Seq(AllFrames) /\ \A f \in ToSet(fr(r)) : f.clients = G(r)
             /\ \A a \in 1..Len(fr(r)) : WellFormed(fr(r)[a]) /\ ToSet(fr(r)[a].msgs) \subseteq ToSet(RoutedTo(r))
             /\ \A a, b \in 1..Len(fr(r)) : a < b => Follows(fr(r)[a], fr(r)[b])
             /\ \A p \in ToSet(RoutedTo(r)) : p[1] \in Topics /\ p[2] \in ToSet(messages[p[1]])
  <2>. DEFINE q == RoutedTo(r)
              cl == G(r)
  <2>1. r \in Clients
    BY <1>1, <1>5
  <2>2. /\ q \in Seq(Routed)
        /\ \A p : p \in ToSet(q) <=> \E t \in Topics : \E m \in ToSet(RouteTopic(r, t).out) : p = <<t, m>>
    BY <2>1, RoutedFacts
  <2>3. InTopicOrder(q)
    BY <2>1, RoutedInOrder
  <2>4. cl \in SUBSET Clients
    BY <1>1, <1>4
  <2>. HIDE DEF q, cl
  <2>5. FramesOf(q, cl) \in Seq(AllFrames) /\ \A f \in ToSet(FramesOf(q, cl)) : f.clients = cl
    BY <2>2, <2>4, FramesOfFacts
  <2>6. /\ \A a \in 1..Len(FramesOf(q, cl)) :
             WellFormed(FramesOf(q, cl)[a]) /\ ToSet(FramesOf(q, cl)[a].msgs) \subseteq ToSet(q)
        /\ \A a, b \in 1..Len(FramesOf(q, cl)) : a < b => Follows(FramesOf(q, cl)[a], FramesOf(q, cl)[b])
    BY <2>2, <2>3, <2>4, FramesOfOrder
  <2>7. \A t \in Topics : ToSet(RouteTopic(r, t).out) \subseteq ToSet(messages[t])
    BY <2>1, RouteTopicFacts
  <2>8. ASSUME NEW p \in ToSet(q) PROVE p[1] \in Topics /\ p[2] \in ToSet(messages[p[1]])
    <3>1. PICK t \in Topics : \E m \in ToSet(RouteTopic(r, t).out) : p = <<t, m>>
      BY <2>2
    <3>2. PICK m \in ToSet(RouteTopic(r, t).out) : p = <<t, m>>
      BY <3>1
    <3>3. p[1] = t /\ p[2] = m
      BY <3>2
    <3>. QED  BY <2>7, <3>2, <3>3
  <2>. QED  BY <2>5, <2>6, <2>8 DEF q, cl
<1>. HIDE DEF fr
<1>8. /\ ss \in Seq(Seq(AllFrames)) /\ Len(ss) = Len(reps) /\ DOMAIN reps = 1..Len(reps)
      /\ \A i \in 1..Len(reps) : reps[i] \in Reps /\ ss[i] = fr(reps[i])
  <2>1. DOMAIN reps = 1..Len(reps) /\ Len(reps) \in Nat /\ \A i \in 1..Len(reps) : reps[i] \in Reps
    BY <1>6
  <2>. QED  BY <1>7, <2>1
<1>. HIDE DEF ss
<1>. DEFINE F == FlattenSeq(ss)
<1>. HIDE DEF F
<1>9. PICK part, at : Indexes(F, ss, part, at)
  BY <1>8, FlattenIndex DEF F
<1>10. ASSUME NEW a \in 1..Len(F)
       PROVE  LET r == reps[part[a]] IN
              /\ part[a] \in DOMAIN reps /\ r \in Reps /\ at[a] \in 1..Len(fr(r)) /\ F[a] = fr(r)[at[a]]
              /\ F[a].clients = G(r)
  <2>. DEFINE r == reps[part[a]]
  <2>1. /\ part[a] \in 1..Len(reps) /\ at[a] \in 1..Len(ss[part[a]]) /\ F[a] = ss[part[a]][at[a]]
    BY <1>8, <1>9 DEF Indexes
  <2>2. r \in Reps /\ ss[part[a]] = fr(r)
    BY <1>8, <2>1
  <2>. HIDE DEF r
  <2>3. at[a] \in 1..Len(fr(r)) /\ F[a] = fr(r)[at[a]]
    BY <2>1, <2>2
  <2>4. fr(r) \in Seq(AllFrames)
    BY <1>7, <2>2
  <2>5. F[a] \in ToSet(fr(r))
    <3>1. DOMAIN fr(r) = 1..Len(fr(r))
      BY <2>4
    <3>. QED  BY <2>3, <3>1 DEF ToSet
  <2>6. F[a].clients = G(r)
    BY <1>7, <2>2, <2>5
  <2>. QED  BY <1>8, <2>1, <2>2, <2>3, <2>6 DEF r
<1>11. ASSUME NEW a \in 1..Len(F)
       PROVE  /\ WellFormed(F[a])
              /\ \A p \in ToSet(F[a].msgs) : p[1] \in Topics /\ p[2] \in ToSet(messages[p[1]])
  <2>. DEFINE r == reps[part[a]]
  <2>1. r \in Reps /\ at[a] \in 1..Len(fr(r)) /\ F[a] = fr(r)[at[a]]
    BY <1>10
  <2>. HIDE DEF r
  <2>2. WellFormed(F[a]) /\ ToSet(F[a].msgs) \subseteq ToSet(RoutedTo(r))
    BY <1>7, <2>1
  <2>. QED  BY <1>7, <2>1, <2>2
<1>12. ASSUME NEW a \in 1..Len(F), NEW b \in 1..Len(F), a < b, NEW c, c \in F[a].clients, c \in F[b].clients
       PROVE  Follows(F[a], F[b])
  <2>. DEFINE r == reps[part[a]]
              s == reps[part[b]]
  <2>1. /\ part[a] \in DOMAIN reps /\ r \in Reps /\ at[a] \in 1..Len(fr(r)) /\ F[a] = fr(r)[at[a]]
        /\ F[a].clients = G(r)
    BY <1>10
  <2>2. /\ part[b] \in DOMAIN reps /\ s \in Reps /\ at[b] \in 1..Len(fr(s)) /\ F[b] = fr(s)[at[b]]
        /\ F[b].clients = G(s)
    BY <1>10
  <2>3. r = s
    <3>. HIDE DEF r, s
    <3>1. c \in G(r) /\ c \in G(s) /\ r \in ToSet(active) /\ s \in ToSet(active) /\ R(r) = r /\ R(s) = s
      BY <1>5, <1>12, <2>1, <2>2
    <3>2. R(c) = R(r) /\ R(c) = R(s)
      BY <1>3, <3>1
    <3>. QED  BY <3>1, <3>2
  <2>4. part[a] = part[b]
    BY <1>6, <2>1, <2>2, <2>3
  <2>5. at[a] < at[b]
    <3>1. part[a] \in Nat
      BY <1>9 DEF Indexes
    <3>2. part[a] < part[b] \/ (part[a] = part[b] /\ at[a] < at[b])
      BY <1>9, <1>12, Zenon DEF Indexes
    <3>3. ~(part[a] < part[b])
      BY <2>4, <3>1
    <3>. QED  BY <3>2, <3>3
  <2>. HIDE DEF r, s
  <2>. QED  BY <1>7, <2>1, <2>2, <2>3, <2>5
<1>13. frames' = F
  BY <1>2 DEF F
<1>. QED  BY <1>11, <1>12, <1>13

-----------------------------------------------------------------------------
(* The invariant of frames.                                                *)

(* No two messages have the same number, of whichever topics.              *)
NumbersDiffer ==
  \A t, u \in Topics : t # u =>
    /\ \A m \in ToSet(buffer[t]), k \in ToSet(buffer[u]) : m.n # k.n
    /\ \A m \in ToSet(messages[t]), k \in ToSet(messages[u]) : m.n # k.n

(* What the frames of a cycle are proved from.                             *)
FramesInv == CycleInv /\ NumbersDiffer /\ SizeClassesKeepOrder /\ FramesDecode

(* Numbers stay different, for a message gets one that is new.             *)
LEMMA DifferStep ==
  ASSUME CycleInv, NumbersDiffer, [Next]_vars
  PROVE  NumbersDiffer'
<1>. USE DEF CycleInv
<1>1. ASSUME NEW c \in Clients, Request(c) PROVE NumbersDiffer'
  <2>1. UNCHANGED <<buffer, messages>>
    BY <1>1, RequestFacts
  <2>. QED  BY <2>1 DEF NumbersDiffer
<1>2. ASSUME NEW t \in Topics, NEW s \in Stamps, Receive(t, s) PROVE NumbersDiffer'
  <2>1. received \in Nat /\ messages' = messages /\ \A u \in Topics : u # t => buffer'[u] = buffer[u]
    BY <1>2, ReceiveFacts
  <2>2. PICK m \in Messages : m.n = received + 1 /\ buffer'[t] = Append(buffer[t], m)
    BY <1>2, ReceiveFacts
  <2>3. buffer[t] \in Seq(Messages)
    BY DEF CycleTypes
  <2>4. ToSet(buffer'[t]) = ToSet(buffer[t]) \cup {m}
    BY <2>2, <2>3, AppendFacts
  <2>5. ASSUME NEW u \in Topics, NEW k \in ToSet(buffer[u]) PROVE k.n # m.n
    <3>1. k.n <= received
      BY DEF NumbersGrow
    <3>2. buffer[u] \in Seq(Messages)
      BY DEF CycleTypes
    <3>3. k \in Messages
      BY <3>2, ToSetFinite
    <3>4. k.n \in Nat
      BY <3>3, MessageFacts
    <3>. QED  BY <2>1, <2>2, <3>1, <3>4
  <2>6. \A u, w \in Topics : u # w => \A x \in ToSet(buffer[u]), y \in ToSet(buffer[w]) : x.n # y.n
    BY DEF NumbersDiffer
  <2>7. \A u, w \in Topics : u # w => \A x \in ToSet(buffer'[u]), y \in ToSet(buffer'[w]) : x.n # y.n
    BY <2>1, <2>4, <2>5, <2>6
  <2>. QED  BY <2>1, <2>7 DEF NumbersDiffer
<1>3. CASE PublishSnapshot
  <2>1. \A t \in Topics : ToSet(buffer'[t]) = {}
    BY <1>3, SnapshotFacts, EmptyTypes
  <2>2. messages' = messages \/ messages' = buffer
    BY <1>3, SnapshotFacts
  <2>. QED  BY <2>1, <2>2 DEF NumbersDiffer
<1>4. CASE PublishRoute
  <2>1. UNCHANGED <<buffer, messages>>
    BY <1>4 DEF PublishRoute
  <2>. QED  BY <2>1 DEF NumbersDiffer
<1>5. CASE PublishSend
  <2>1. \A t \in Topics : ToSet(messages'[t]) = {}
    BY <1>5, SendFacts, EmptyTypes
  <2>2. buffer' = buffer
    BY <1>5, SendFacts
  <2>. QED  BY <2>1, <2>2 DEF NumbersDiffer
<1>6. CASE UNCHANGED vars
  BY <1>6 DEF NumbersDiffer, vars
<1>. QED  BY <1>1, <1>2, <1>3, <1>4, <1>5, <1>6, NextCases

(* Frames are built by PublishRoute and let go by PublishSend.             *)
LEMMA FramesCases ==
  ASSUME CycleInv, [Next]_vars
  PROVE  PublishRoute \/ frames' = <<>> \/ frames' = frames
<1>. USE DEF CycleInv
<1>1. ASSUME NEW c \in Clients, Request(c) PROVE frames' = frames
  BY <1>1, RequestFacts
<1>2. ASSUME NEW t \in Topics, NEW s \in Stamps, Receive(t, s) PROVE frames' = frames
  BY <1>2, ReceiveFacts
<1>3. CASE PublishSnapshot
  BY <1>3, SnapshotFacts
<1>4. CASE PublishSend
  BY <1>4, SendFacts
<1>5. CASE UNCHANGED vars
  BY <1>5 DEF vars
<1>. QED  BY <1>1, <1>2, <1>3, <1>4, <1>5, NextCases

(* Well-formed frames of which each follows the ones before it.            *)
LEMMA OrderFacts ==
  ASSUME frames' \in Seq(AllFrames),
         \A a \in 1..Len(frames') : WellFormed(frames'[a]),
         \A a, b \in 1..Len(frames') :
           a < b /\ frames'[a].clients \cap frames'[b].clients # {} => Follows(frames'[a], frames'[b])
  PROVE  SizeClassesKeepOrder'
<1>1. DOMAIN frames' = 1..Len(frames') /\ Len(frames') \in Nat
  OBVIOUS
<1>. SUFFICES ASSUME NEW c \in Clients, NEW a \in 1..Len(frames'), NEW b \in 1..Len(frames'),
                     c \in frames'[a].clients, c \in frames'[b].clients
              PROVE  /\ frames'[a].heavy \/ a <= b
                     /\ frames'[a].heavy => Len(frames'[a].msgs) = 1
                     /\ InClass(frames'[a])
                     /\ \A i \in DOMAIN frames'[a].msgs, j \in DOMAIN frames'[b].msgs :
                          /\ frames'[a].heavy = frames'[b].heavy /\ frames'[a].msgs[i][1] = frames'[b].msgs[j][1]
                          /\ a < b \/ (a = b /\ i < j)
                          => frames'[a].msgs[i][2].n < frames'[b].msgs[j][2].n
  BY <1>1 DEF SizeClassesKeepOrder, InClass
<1>2. WellFormed(frames'[a]) /\ a \in Nat /\ b \in Nat
  BY <1>1
<1>3. frames'[a].heavy \/ a <= b
  <2>1. CASE b < a
    BY <2>1 DEF Follows
  <2>. QED  BY <1>2, <2>1
<1>4. ASSUME NEW i \in DOMAIN frames'[a].msgs, NEW j \in DOMAIN frames'[b].msgs,
             frames'[a].heavy = frames'[b].heavy, frames'[a].msgs[i][1] = frames'[b].msgs[j][1],
             a < b \/ (a = b /\ i < j)
      PROVE  frames'[a].msgs[i][2].n < frames'[b].msgs[j][2].n
  <2>1. CASE a < b
    <3>1. Follows(frames'[a], frames'[b])
      BY <2>1
    <3>2. frames'[b].heavy
      BY <3>1 DEF Follows
    <3>3. frames'[a].heavy
      BY <1>4, <3>2, Zenon
    <3>4. frames'[a].msgs[i] \in ToSet(frames'[a].msgs) /\ frames'[b].msgs[j] \in ToSet(frames'[b].msgs)
      BY DEF ToSet
    <3>. QED  BY <1>4, <3>1, <3>3, <3>4 DEF Follows
  <2>2. CASE a = b /\ i < j
    <3>1. InTopicOrder(frames'[a].msgs)
      BY <1>2 DEF WellFormed
    <3>2. DOMAIN frames'[a].msgs = 1..Len(frames'[a].msgs)
      <4>1. frames'[a] \in AllFrames
        BY <1>1
      <4>2. PICK q \in Seq(Routed), cl \in SUBSET Clients, h \in BOOLEAN : frames'[a] = Frame(q, cl, h)
        BY <4>1 DEF AllFrames
      <4>3. frames'[a].msgs = q
        BY <4>2, FrameFacts
      <4>. QED  BY <4>2, <4>3
    <3>. QED  BY <1>4, <2>2, <3>1, <3>2 DEF InTopicOrder
  <2>. QED  BY <1>4, <2>1, <2>2
<1>. QED  BY <1>2, <1>3, <1>4 DEF WellFormed

(* A routed message, as it is given to serialize_message, fits the fields. *)
LEMMA WireFacts ==
  ASSUME NEW p \in Routed
  PROVE  /\ OnWire(p) \in WireMessages
         /\ Cut(OnWire(p)) = [OnWire(p) EXCEPT !.data = SubSeq(@, 1, Len(@) % Values[SizeOf32])]
<1>. DEFINE m == p[2]
            n == Size[m.stamp]
            x == m.n % Byte
<1>1. p[1] \in Topics /\ m \in Messages
  BY DEF Routed
<1>2. m.n \in Nat /\ m.stamp \in Nat /\ m.stamp \in Stamps
  BY <1>1, MessageFacts
<1>3. n \in Nat
  BY <1>2, SizesAssumption
<1>4. x \in Bytes
  <2>1. Byte \in Nat \ {0}
    BY WidthAssumption
  <2>. DEFINE k == m.n
  <2>2. k \in Nat
    BY <1>2
  <2>. HIDE DEF k
  <2>3. k % Byte \in 0 .. Byte - 1
    BY <2>1, <2>2
  <2>. QED  BY <2>3 DEF Bytes, k
<1>. HIDE DEF n, x
<1>5. Payload(m) \in Seq(Bytes)
  <2>1. Payload(m) = [i \in 1..n |-> x]
    BY DEF Payload, n, x
  <2>2. [i \in 1..n |-> x] \in Seq(Bytes)
    BY <1>3, <1>4
  <2>. QED  BY <2>1, <2>2
<1>6. /\ Name[p[1]] \in Seq(Bytes) /\ Len(Name[p[1]]) < Values[SizeOf16]
      /\ m.stamp < Values[SizeOf64]
  BY <1>1, <1>2, FieldsAssumption DEF Bytes
<1>7. OnWire(p) = [name |-> Name[p[1]], stamp |-> m.stamp, data |-> Payload(m)]
  BY DEF OnWire
<1>. DEFINE d == Payload(m)
            nm == Name[p[1]]
            st == m.stamp
            w == [name |-> nm, stamp |-> st, data |-> d]
<1>8. d \in Seq(Bytes) /\ nm \in Seq(Bytes) /\ Len(nm) < Values[SizeOf16] /\ st \in Nat /\ st < Values[SizeOf64]
  BY <1>2, <1>5, <1>6
<1>. HIDE DEF d, nm, st
<1>9. w \in WireMessages /\ Cut(w) = [w EXCEPT !.data = SubSeq(@, 1, Len(@) % Values[SizeOf32])]
  <2>1. w \in WireMessages
    BY <1>8 DEF WireMessages
  <2>2. Cut(w) = [name |-> nm, stamp |-> st, data |-> SubSeq(d, 1, Len(d) % Values[SizeOf32])]
    BY DEF Cut
  <2>. DEFINE e == SubSeq(d, 1, Len(d) % Values[SizeOf32])
  <2>3. w.data = d
    OBVIOUS
  <2>4. \A y : [w EXCEPT !.data = y] = [name |-> nm, stamp |-> st, data |-> y]
    OBVIOUS
  <2>5. [w EXCEPT !.data = e] = [name |-> nm, stamp |-> st, data |-> e]
    BY <2>4
  <2>. HIDE DEF w
  <2>. QED  BY <2>1, <2>2, <2>3, <2>5
<1>. QED  BY <1>7, <1>9 DEF d, nm, st

(* A frame of few enough messages decodes to them.                         *)
LEMMA FrameDecodes ==
  ASSUME NEW q \in Seq(Routed), Len(q) <= MaxMessages, NEW cl, NEW h
  PROVE  LET f == Frame(q, cl, h)
             d == Decode(f.data)
         IN  /\ d.magic = kBinaryFrameMagic /\ d.flags = 0
             /\ d.uncompressed_size = Len(f.data.zstd) % Values[SizeOf32]
             /\ d.length = Len(f.data.zstd)
             /\ d.msgs = [i \in DOMAIN f.msgs |->
                  [OnWire(f.msgs[i]) EXCEPT !.data = SubSeq(@, 1, Len(@) % Values[SizeOf32])]]
<1>. DEFINE w == [i \in DOMAIN q |-> OnWire(q[i])]
            f == Frame(q, cl, h)
            wire(p) == [OnWire(p) EXCEPT !.data = SubSeq(@, 1, Len(@) % Values[SizeOf32])]
<1>1. f.data = Finalize(w, 0) /\ f.msgs = q
  <2>. DEFINE fr == Finalize(w, 0)
  <2>1. f = [data |-> fr, msgs |-> q, clients |-> cl, heavy |-> h]
    BY DEF Frame
  <2>. HIDE DEF fr, f
  <2>. QED  BY <2>1 DEF fr
<1>. HIDE DEF f
<1>2. /\ DOMAIN q = 1..Len(q) /\ Len(q) \in Nat
      /\ \A i \in 1..Len(q) : OnWire(q[i]) \in WireMessages /\ Cut(OnWire(q[i])) = wire(q[i])
  <2>1. DOMAIN q = 1..Len(q) /\ Len(q) \in Nat /\ \A i \in 1..Len(q) : q[i] \in Routed
    OBVIOUS
  <2>2. \A p \in Routed : OnWire(p) \in WireMessages /\ Cut(OnWire(p)) = wire(p)
    BY WireFacts, Zenon
  <2>. HIDE DEF wire
  <2>. QED  BY <2>1, <2>2
<1>. HIDE DEF wire
<1>3. w \in Seq(WireMessages) /\ Len(w) = Len(q) /\ DOMAIN w = DOMAIN q /\ \A i \in 1..Len(q) : w[i] = OnWire(q[i])
  BY <1>2
<1>. HIDE DEF w
<1>4. Len(w) < Values[SizeOf32]
  <2>1. Values[SizeOf32] \in Nat /\ MaxMessages < Values[SizeOf32] /\ MaxMessages \in Nat
    BY FieldsAssumption, BoundsAssumption, ValuesFacts, WidthAssumption
  <2>. QED  BY <1>2, <1>3, <2>1
<1>. DEFINE fr == Finalize(w, 0)
<1>5. /\ Decode(fr).magic = kBinaryFrameMagic /\ Decode(fr).flags = 0
      /\ Decode(fr).uncompressed_size = Len(fr.zstd) % Values[SizeOf32]
      /\ Decode(fr).length = Len(fr.zstd)
      /\ Decode(fr).msgs = [i \in DOMAIN w |-> Cut(w[i])]
  BY <1>3, <1>4, DecodeFacts
<1>. HIDE DEF fr
<1>6. [i \in DOMAIN w |-> Cut(w[i])] = [i \in DOMAIN q |-> wire(q[i])]
  BY <1>2, <1>3
<1>7. /\ Decode(f.data).magic = kBinaryFrameMagic /\ Decode(f.data).flags = 0
      /\ Decode(f.data).uncompressed_size = Len(f.data.zstd) % Values[SizeOf32]
      /\ Decode(f.data).length = Len(f.data.zstd)
      /\ Decode(f.data).msgs = [i \in DOMAIN f.msgs |-> wire(f.msgs[i])]
  BY <1>1, <1>5, <1>6 DEF fr
<1>. QED  BY <1>7 DEF f, wire

(* The frames of a cycle.                                                  *)
LEMMA FramesInvStep ==
  ASSUME FramesInv, [Next]_vars
  PROVE  SizeClassesKeepOrder' /\ FramesDecode'
<1>. USE DEF FramesInv
<1>1. CASE frames' = frames
  BY <1>1 DEF SizeClassesKeepOrder, FramesDecode
<1>2. CASE frames' = <<>>
  <2>1. DOMAIN frames' = {} /\ ToSet(frames') = {}
    BY <1>2 DEF ToSet
  <2>. QED  BY <2>1 DEF SizeClassesKeepOrder, FramesDecode
<1>3. CASE PublishRoute
  <2>1. CycleTypes /\ \A t \in Topics : Increasing(messages[t])
    BY DEF CycleInv, NumbersGrow
  <2>2. frames' \in Seq(AllFrames)
    BY <1>3, <2>1, PublishRouteFacts
  <2>3. /\ \A a \in 1..Len(frames') :
              /\ WellFormed(frames'[a])
              /\ \A p \in ToSet(frames'[a].msgs) : p[1] \in Topics /\ p[2] \in ToSet(messages[p[1]])
        /\ \A a, b \in 1..Len(frames') :
              a < b /\ frames'[a].clients \cap frames'[b].clients # {} => Follows(frames'[a], frames'[b])
    BY <1>3, <2>1, PublishRouteOrder
  <2>4. SizeClassesKeepOrder'
    BY <2>2, <2>3, OrderFacts
  <2>5. ASSUME NEW f \in ToSet(frames')
        PROVE  \E q \in Seq(Routed), cl \in SUBSET Clients, h \in BOOLEAN :
                 f = Frame(q, cl, h) /\ Len(q) <= MaxMessages
    <3>1. PICK a \in 1..Len(frames') : f = frames'[a]
      BY <2>2 DEF ToSet
    <3>2. f \in AllFrames
      BY <2>2, <3>1
    <3>3. PICK q \in Seq(Routed), cl \in SUBSET Clients, h \in BOOLEAN : f = Frame(q, cl, h)
      BY <3>2 DEF AllFrames
    <3>4. f.msgs = q
      BY <3>3, FrameFacts
    <3>5. InTopicOrder(q) /\ \A p \in ToSet(q) : p[1] \in Topics /\ p[2] \in ToSet(messages[p[1]])
      BY <2>3, <3>1, <3>4 DEF WellFormed
    <3>6. \A x, y \in ToSet(q) : x[1] # y[1] => x[2].n # y[2].n
      BY <3>5 DEF NumbersDiffer
    <3>7. Len(q) <= MaxMessages
      BY <3>5, <3>6, FewMessages
    <3>. QED  BY <3>3, <3>7
  <2>6. FramesDecode'
    <3>. SUFFICES ASSUME NEW f \in ToSet(frames')
                  PROVE  LET d == Decode(f.data)
                         IN  /\ d.magic = kBinaryFrameMagic /\ d.flags = 0
                             /\ d.uncompressed_size = Len(f.data.zstd) % Values[SizeOf32]
                             /\ d.length = Len(f.data.zstd)
                             /\ d.msgs = [i \in DOMAIN f.msgs |->
                                  [OnWire(f.msgs[i]) EXCEPT !.data = SubSeq(@, 1, Len(@) % Values[SizeOf32])]]
      BY DEF FramesDecode
    <3>1. PICK q \in Seq(Routed), cl \in SUBSET Clients, h \in BOOLEAN :
            f = Frame(q, cl, h) /\ Len(q) <= MaxMessages
      BY <2>5
    <3>. QED  BY <3>1, FrameDecodes
  <2>. QED  BY <2>4, <2>6
<1>. QED  BY <1>1, <1>2, <1>3, FramesCases

(* The invariant of frames holds in every behaviour.                       *)
LEMMA FramesInvariant == Spec => []FramesInv
<1>1. Init => FramesInv
  <2>. SUFFICES ASSUME Init PROVE FramesInv
    OBVIOUS
  <2>1. CycleInv
    BY CycleInit
  <2>2. frames = <<>> /\ \A t \in Topics : ToSet(buffer[t]) = {} /\ ToSet(messages[t]) = {}
    BY EmptyTypes DEF Init
  <2>3. DOMAIN frames = {} /\ ToSet(frames) = {}
    BY <2>2, EmptyTypes
  <2>. QED  BY <2>1, <2>2, <2>3 DEF FramesInv, NumbersDiffer, SizeClassesKeepOrder, FramesDecode
<1>2. FramesInv /\ CycleInv' /\ [Next]_vars => FramesInv'
  BY DifferStep, FramesInvStep DEF FramesInv
<1>. QED  BY <1>1, <1>2, CycleInvariant, PTL DEF Spec

-----------------------------------------------------------------------------
(* What follows.                                                           *)

(* Every variable of the cycle keeps its type.                             *)
THEOREM CycleTypeCorrect == Spec => []TypeOK
<1>1. CycleInv => TypeOK
  <2>. SUFFICES ASSUME CycleInv PROVE TypeOK
    OBVIOUS
  <2>. USE DEF CycleInv, CycleTypes
  <2>1. sessions \in UNION {SetToSeqs(S) : S \in SUBSET Clients}
    <3>1. ToSet(sessions) \in SUBSET Clients
      BY ToSetFinite
    <3>. QED  BY <3>1
  <2>2. active \in UNION {SetToSeqs(S) : S \in SUBSET Clients}
    <3>1. ToSet(active) \in SUBSET Clients
      BY ToSetFinite
    <3>. QED  BY <3>1
  <2>3. ASSUME NEW f \in ToSet(frames)
        PROVE  f.msgs \in Seq(Topics \X Messages) /\ f.clients \in SUBSET Clients /\ f.heavy \in BOOLEAN
    <3>1. f \in AllFrames
      BY ToSetFinite
    <3>2. PICK q \in Seq(Routed), cl \in SUBSET Clients, h \in BOOLEAN : f = Frame(q, cl, h)
      BY <3>1 DEF AllFrames
    <3>. QED  BY <3>2, FrameFacts DEF Routed
  <2>. QED  BY <2>1, <2>2, <2>3 DEF TypeOK
<1>. QED  BY <1>1, CycleInvariant, PTL

(* docs/API.md: a rate of 0 forwards all messages, whatever groups form    *)
(* and whoever leaves between the steps of a cycle.                        *)
THEOREM UnlimitedTopicsAreComplete == Spec => []UnlimitedIsComplete
<1>1. CycleInv => UnlimitedIsComplete
  BY DEF CycleInv
<1>. QED  BY <1>1, CycleInvariant, PTL

(* Who was handed anything of a limited topic, while the groups are fixed, *)
(* was paced.                                                              *)
LEMMA HandedIsPaced ==
  ASSUME CycleInv, groups # "changed", NEW c \in Clients, NEW t \in Topics, subs[c][t] \notin {0, NoRate}
  PROVE  /\ subs[c][t] \in Rates /\ subs[c][t] # 0 /\ min_interval(subs[c][t]) \in Nat
         /\ handed[c][t] \subseteq Messages /\ offered[c][t] \subseteq Messages
         /\ \/ handed[c][t] = {} /\ offered[c][t] = {}
            \/ \E last : Paced(Reached(c, t), Found(c, t), last, min_interval(subs[c][t]))
<1>1. subs[c][t] \in Rates /\ subs[c][t] # 0 /\ handed[c][t] \subseteq Messages /\ offered[c][t] \subseteq Messages
  BY DEF CycleInv, CycleTypes
<1>2. min_interval(subs[c][t]) \in Nat
  BY <1>1, RateFacts
<1>3. CASE c \in paused \/ c \notin ToSet(sessions)
  BY <1>1, <1>2, <1>3 DEF CycleInv, FixedGroups
<1>4. CASE c \in ToSet(sessions) \ paused
  BY <1>1, <1>2, <1>4 DEF CycleInv, FixedGroups
<1>. QED  BY <1>3, <1>4

(* docs/API.md: with max_rate_hz set, at most one message per interval, as *)
(* long as the groups and their representatives stay what they were at the *)
(* first cycle.                                                            *)
THEOREM FixedGroupsKeepTheLimit == Spec => []RateLimitOfFixedGroups
<1>1. CycleInv => RateLimitOfFixedGroups
  <2>. SUFFICES ASSUME CycleInv, groups # "changed", NEW c \in Clients, NEW t \in Topics,
                       subs[c][t] \notin {0, NoRate},
                       NEW m \in handed[c][t], NEW k \in handed[c][t], m.n < k.n
                PROVE  /\ (k.stamp - m.stamp + 1) * subs[c][t] > Second * RateUnits
                       /\ k.stamp >= m.stamp + min_interval(subs[c][t])
    BY DEF RateLimitOfFixedGroups
  <2>. DEFINE v == min_interval(subs[c][t])
  <2>1. /\ subs[c][t] \in Rates /\ subs[c][t] # 0 /\ v \in Nat
        /\ m \in Messages /\ k \in Messages
        /\ \E last : Paced(Reached(c, t), Found(c, t), last, v)
    BY HandedIsPaced
  <2>2. m \in Reached(c, t) /\ k \in Reached(c, t)
    BY DEF Reached
  <2>3. k.stamp >= m.stamp + v
    BY <2>1, <2>2 DEF Paced
  <2>4. k.stamp \in Nat /\ m.stamp \in Nat
    BY <2>1, MessageFacts
  <2>. DEFINE d == k.stamp - m.stamp
  <2>5. d \in Nat /\ d >= v
    <3>. HIDE DEF v
    <3>. QED  BY <2>1, <2>3, <2>4
  <2>. HIDE DEF d
  <2>6. (d + 1) * subs[c][t] > Second * RateUnits
    BY <2>1, <2>5, IntervalIsLong
  <2>. QED  BY <2>3, <2>6 DEF d
<1>. QED  BY <1>1, CycleInvariant, PTL

(* docs/API.md: the first eligible message is sent: while the groups are   *)
(* fixed, one that is withheld comes too soon after one that was sent.     *)
THEOREM FixedGroupsWithholdLittle == Spec => []DecimationIsTight
<1>1. CycleInv => DecimationIsTight
  <2>. SUFFICES ASSUME CycleInv, groups # "changed", NEW c \in Clients, NEW t \in Topics,
                       subs[c][t] \notin {0, NoRate},
                       NEW k \in offered[c][t] \ handed[c][t]
                PROVE  \E m \in handed[c][t] : m.n < k.n /\ k.stamp < m.stamp + min_interval(subs[c][t])
    BY DEF DecimationIsTight
  <2>. DEFINE v == min_interval(subs[c][t])
  <2>1. PICK last : Paced(Reached(c, t), Found(c, t), last, v)
    BY HandedIsPaced
  <2>2. /\ \A m \in Reached(c, t) \ handed[c][t] : m \in ToSet(messages[t])
        /\ k \in Found(c, t)
    BY DEF Reached, Found, CycleInv, FramesAreOfCycle
  <2>3. ASSUME NEW m \in ToSet(messages[t]) PROVE k.n < m.n /\ k.n \in Nat /\ m.n \in Nat
    <3>1. ToSet(messages[t]) \subseteq Messages /\ k \in Messages
      BY ToSetFinite DEF CycleInv, CycleTypes
    <3>2. k.n < m.n
      BY DEF CycleInv, NumbersGrow
    <3>. QED  BY <3>1, <3>2, MessageFacts
  <2>4. k \notin Reached(c, t)
    <3>. SUFFICES ASSUME k \in Reached(c, t) PROVE FALSE
      OBVIOUS
    <3>1. k.n < k.n /\ k.n \in Nat
      BY <2>2, <2>3
    <3>. QED  BY <3>1
  <2>5. PICK m \in Reached(c, t) : m.n < k.n /\ k.stamp < m.stamp + v
    BY <2>1, <2>2, <2>4 DEF Paced
  <2>6. m \in handed[c][t]
    <3>. SUFFICES ASSUME m \notin handed[c][t] PROVE FALSE
      OBVIOUS
    <3>1. k.n < m.n /\ k.n \in Nat /\ m.n \in Nat
      BY <2>2, <2>3, <2>5
    <3>. QED  BY <2>5, <3>1
  <2>. QED  BY <2>5, <2>6
<1>. QED  BY <1>1, CycleInvariant, PTL

(* What a client decodes from a frame is what was routed to it, field by   *)
(* field: PublishRoute, finalize and write_le, for any sizes.              *)
THEOREM FramesDecodeToWhatWasRouted == Spec => []FramesDecode
BY FramesInvariant, PTL DEF FramesInv

(* The frames of a client come light before heavy, each message in a frame *)
(* of its size class and in the order of its topic.                        *)
THEOREM SizeClassesKeepTheOrder == Spec => []SizeClassesKeepOrder
BY FramesInvariant, PTL DEF FramesInv

(* Both: the light and heavy frames of a cycle are what was routed.        *)
THEOREM ClientsReadWhatWasRouted == Spec => []FramesAreFaithful
BY FramesDecodeToWhatWasRouted, SizeClassesKeepTheOrder, PTL DEF FramesAreFaithful
=============================================================================
