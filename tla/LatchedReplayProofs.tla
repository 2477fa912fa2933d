------------------------ MODULE LatchedReplayProofs ------------------------
(***************************************************************************)
(* First, what MessageBuffer guarantees for every set of topics and        *)
(* samples, every time-to-live and every behaviour of the clock.  Then the *)
(* bridge that drives it, with its ingest thread, publish cycle, joins and *)
(* leaves: it calls MessageBuffer as the specification of the buffer says, *)
(* so that whatever is proved of the buffer for any caller holds of the    *)
(* latched topic and the others (ReplayImplementsBuffer); no sample is     *)
(* sent twice (StreamInv), and who holds the latched topic is up to date   *)
(* once nothing is on its way (CurrencyInv).                               *)
(***************************************************************************)
EXTENDS LatchedReplay, SequenceTheorems, WellFoundedInduction, TLAPS

(***************************************************************************)
(* The buffer.                                                             *)
(***************************************************************************)
(* The deque of a topic, unless empty, ends with the newest message of the *)
(* topic: cleanup removes from the front only.                             *)
BufferEndsWithNewest ==
  \A t \in Topics :
    topic_buffers[t] # <<>> => topic_buffers[t][Len(topic_buffers[t])] = newest[t]

(* The inductive invariant.  RetainedIsNewest alone is not inductive:      *)
(* set_latched retains the last message of the deque, which must be known  *)
(* to be the newest.                                                       *)
BufferInv ==
  /\ TypeOK
  /\ BufferEndsWithNewest
  /\ RetainedIsNewest

-----------------------------------------------------------------------------
(* Induction over the natural numbers, for a set of them.                  *)
LEMMA NatSetInduction ==
  ASSUME NEW S \in SUBSET Nat, 0 \in S, \A n \in S : n + 1 \in S
  PROVE  S = Nat
<1>. DEFINE R == OpToRel(<, Nat)
            T == Nat \ S
<1>1. R = {ss \in Nat \X Nat : ss[1] < ss[2]}
  BY DEF OpToRel
<1>2. IsWellFoundedOn(R, Nat)
  BY NatLessThanWellFounded
<1>. HIDE DEF R
<1>3. SUFFICES ASSUME T # {} PROVE FALSE
  OBVIOUS
<1>4. PICK x \in T : \A y \in T : ~(<<y, x>> \in R)
  BY <1>2, <1>3, WFMin
<1>5. x \in Nat /\ x # 0 /\ x - 1 \in Nat /\ (x - 1) + 1 = x
  BY <1>4
<1>6. <<x - 1, x>> \in R
  BY <1>1, <1>5
<1>7. x - 1 \in S
  BY <1>4, <1>5, <1>6
<1>. QED  BY <1>4, <1>5, <1>7

(* A non-empty set of natural numbers has a least element, which Min is.   *)
LEMMA MinOfNaturals ==
  ASSUME NEW S \in SUBSET Nat, S # {}
  PROVE  Min(S) \in S /\ \A i \in S : Min(S) <= i
<1>. DEFINE R == OpToRel(<, Nat)
<1>1. R = {ss \in Nat \X Nat : ss[1] < ss[2]}
  BY DEF OpToRel
<1>2. IsWellFoundedOn(R, Nat)
  BY NatLessThanWellFounded
<1>. HIDE DEF R
<1>3. PICK x \in S : \A y \in S : ~(<<y, x>> \in R)
  BY <1>2, WFMin
<1>4. ASSUME NEW y \in S PROVE x <= y
  <2>1. <<y, x>> \in Nat \X Nat /\ <<y, x>>[1] = y /\ <<y, x>>[2] = x
    OBVIOUS
  <2>2. ~(y < x)
    BY <1>1, <1>3, <2>1
  <2>. QED  BY <2>2
<1>. QED  BY <1>4 DEF Min

(* What cleanup_old_messages leaves of a deque: everything from the first  *)
(* message k that is not expired.                                          *)
LEMMA CleanupKeepsSuffix ==
  ASSUME NEW q \in Seq(Messages)
  PROVE  \E k \in 1..(Len(q) + 1) :
           /\ WithoutExpired(q) \in Seq(Messages)
           /\ Len(WithoutExpired(q)) = Len(q) + 1 - k
           /\ \A i \in 1..Len(WithoutExpired(q)) : WithoutExpired(q)[i] = q[k + i - 1]
           /\ \A i \in 1..(k - 1) : Expired(q[i])
           /\ k <= Len(q) => ~Expired(q[k])
<1>. DEFINE fresh == {i \in 1..Len(q) : ~Expired(q[i])}
<1>1. CASE fresh = {}
  <2>1. WithoutExpired(q) = <<>>
    BY <1>1 DEF WithoutExpired
  <2>2. Len(q) + 1 \in 1..(Len(q) + 1)
    OBVIOUS
  <2>. QED  BY <1>1, <2>1, <2>2
<1>2. CASE fresh # {}
  <2>. DEFINE k == Min(fresh)
  <2>1. k \in fresh /\ \A i \in fresh : k <= i
    <3>1. fresh \in SUBSET Nat
      OBVIOUS
    <3>. HIDE DEF fresh
    <3>. QED  BY <1>2, <3>1, MinOfNaturals
  <2>2. WithoutExpired(q) = SubSeq(q, k, Len(q))
    BY <1>2 DEF WithoutExpired
  <2>. HIDE DEF k
  <2>3. k \in 1..Len(q) /\ ~Expired(q[k])
    BY <2>1
  <2>4. \A i \in 1..(k - 1) : Expired(q[i])
    BY <2>1, <2>3
  <2>5. /\ SubSeq(q, k, Len(q)) \in Seq(Messages)
        /\ Len(SubSeq(q, k, Len(q))) = Len(q) + 1 - k
        /\ \A i \in 1..(Len(q) + 1 - k) : SubSeq(q, k, Len(q))[i] = q[k + i - 1]
    BY <2>3
  <2>. QED  BY <2>2, <2>3, <2>4, <2>5
<1>. QED  BY <1>1, <1>2

(* The message AddMessage makes is a message, and not NoMessage.           *)
LEMMA NewMessage ==
  ASSUME TypeOK, NEW d \in Samples
  PROVE  [data |-> d, received_at |-> clock] \in Messages
BY DEF TypeOK, Messages

(* add_message preserves the invariant.                                    *)
LEMMA AddKeepsInv ==
  ASSUME BufferInv, NEW t \in Topics, NEW d \in Samples, AddMessage(t, d)
  PROVE  BufferInv'
<1>. DEFINE msg == [data |-> d, received_at |-> clock]
            w(u) == WithoutExpired(topic_buffers[u])
<1>1. msg \in Messages /\ msg # NoMessage
  BY NewMessage, NoMessageAssumption DEF BufferInv, Messages
<1>2. /\ topic_buffers' = [u \in Topics |-> IF u = t THEN Append(w(u), msg) ELSE w(u)]
      /\ latched_last' = IF t \in latched_topics
                         THEN [latched_last EXCEPT ![t] = msg] ELSE latched_last
      /\ newest' = [newest EXCEPT ![t] = msg]
      /\ UNCHANGED <<clock, latched_topics>>
  BY DEF AddMessage
<1>. HIDE DEF msg
<1>3. ASSUME NEW u \in Topics
      PROVE  /\ w(u) \in Seq(Messages)
             /\ w(u) # <<>> => /\ topic_buffers[u] # <<>>
                               /\ w(u)[Len(w(u))] = newest[u]
  <2>1. topic_buffers[u] \in Seq(Messages)
    BY DEF BufferInv, TypeOK
  <2>2. PICK k \in 1..(Len(topic_buffers[u]) + 1) :
          /\ w(u) \in Seq(Messages)
          /\ Len(w(u)) = Len(topic_buffers[u]) + 1 - k
          /\ \A i \in 1..Len(w(u)) : w(u)[i] = topic_buffers[u][k + i - 1]
    BY <2>1, CleanupKeepsSuffix
  <2>. HIDE DEF w
  <2>3. ASSUME w(u) # <<>>
        PROVE  topic_buffers[u] # <<>> /\ w(u)[Len(w(u))] = topic_buffers[u][Len(topic_buffers[u])]
    BY <2>1, <2>2, <2>3
  <2>. QED  BY <2>2, <2>3 DEF BufferInv, BufferEndsWithNewest
<1>. HIDE DEF w
<1>4. TypeOK'
  BY <1>1, <1>2, <1>3 DEF BufferInv, TypeOK
<1>5. ASSUME NEW u \in Topics, topic_buffers'[u] # <<>>
      PROVE  topic_buffers'[u][Len(topic_buffers'[u])] = newest'[u]
  <2>1. CASE u = t
    BY <1>1, <1>2, <1>3, <2>1 DEF BufferInv, TypeOK
  <2>2. CASE u # t
    BY <1>2, <1>3, <1>5, <2>2 DEF BufferInv, TypeOK
  <2>. QED  BY <2>1, <2>2
<1>6. RetainedIsNewest'
  BY <1>1, <1>2, <1>3 DEF BufferInv, TypeOK, RetainedIsNewest
<1>. QED  BY <1>4, <1>5, <1>6 DEF BufferInv, BufferEndsWithNewest

(* Every step of the buffer preserves the invariant.                       *)
LEMMA StepKeepsInv == BufferInv /\ [Next]_vars => BufferInv'
<1>. SUFFICES ASSUME BufferInv, [Next]_vars PROVE BufferInv'
  OBVIOUS
<1>. USE DEF BufferInv, TypeOK, BufferEndsWithNewest, RetainedIsNewest
<1>1. ASSUME NEW t \in Topics, NEW d \in Samples, AddMessage(t, d)
      PROVE  BufferInv'
  BY <1>1, AddKeepsInv
<1>2. ASSUME NEW t \in Topics, SetLatched(t)
      PROVE  BufferInv'
  <2>1. NoMessage \notin Messages
    BY NoMessageAssumption DEF Messages
  <2>2. topic_buffers[t] # <<>> => topic_buffers[t][Len(topic_buffers[t])] \in Messages
    OBVIOUS
  <2>. QED  BY <1>2, <2>1, <2>2 DEF SetLatched
<1>3. ASSUME NEW t \in Topics, ClearLatched(t)
      PROVE  BufferInv'
  BY <1>3 DEF ClearLatched
<1>4. CASE MoveMessages
  BY <1>4 DEF MoveMessages
<1>5. CASE Clear
  BY <1>5 DEF Clear
<1>6. ASSUME NEW now \in 0..MaxTime, SetClock(now)
      PROVE  BufferInv'
  BY <1>6 DEF SetClock
<1>7. CASE UNCHANGED vars
  BY <1>7 DEF vars
<1>. QED  BY <1>1, <1>2, <1>3, <1>4, <1>5, <1>6, <1>7 DEF Next

-----------------------------------------------------------------------------
(* The invariant holds in every state, however the clock is set.           *)
THEOREM BufferInvariant == Spec => []BufferInv
<1>1. Init => BufferInv
  BY ClockAssumption
     DEF Init, BufferInv, TypeOK, BufferEndsWithNewest, RetainedIsNewest
<1>. QED  BY <1>1, StepKeepsInv, PTL DEF Spec

(* Every state of the buffer is well typed.                                *)
THEOREM BufferTypeCorrect == Spec => []TypeOK
<1>1. BufferInv => TypeOK
  BY DEF BufferInv
<1>. QED  BY <1>1, BufferInvariant, PTL

(* set_latched and add_message: the sample replayed to a later subscriber  *)
(* is the newest of its topic, in whichever order the threads come.        *)
THEOREM ReplayedIsNewest == Spec => []RetainedIsNewest
<1>1. BufferInv => RetainedIsNewest
  BY DEF BufferInv
<1>. QED  BY <1>1, BufferInvariant, PTL

(* cleanup_old_messages removes only what has outlived max_message_age,    *)
(* even if the clock was set back.                                         *)
LEMMA CleanupRemovesExpired ==
  ASSUME BufferInv
  PROVE  Adding =>
           \A t \in Topics : \A m \in SeqSet(topic_buffers[t]) \ SeqSet(topic_buffers'[t]) :
             clock - m.received_at > max_message_age
<1>. SUFFICES ASSUME NEW t \in Topics, NEW d \in Samples, AddMessage(t, d),
                     NEW u \in Topics,
                     NEW m \in SeqSet(topic_buffers[u]) \ SeqSet(topic_buffers'[u])
              PROVE  clock - m.received_at > max_message_age
  BY DEF Adding
<1>. DEFINE q == topic_buffers[u]
            w == WithoutExpired(q)
            msg == [data |-> d, received_at |-> clock]
<1>1. q \in Seq(Messages) /\ msg \in Messages
  BY NewMessage DEF BufferInv, TypeOK
<1>2. topic_buffers'[u] = IF u = t THEN Append(w, msg) ELSE w
  BY DEF AddMessage
<1>3. PICK k \in 1..(Len(q) + 1) :
        /\ w \in Seq(Messages)
        /\ Len(w) = Len(q) + 1 - k
        /\ \A i \in 1..Len(w) : w[i] = q[k + i - 1]
        /\ \A i \in 1..(k - 1) : Expired(q[i])
  BY <1>1, CleanupKeepsSuffix
<1>4. PICK j \in 1..Len(q) : m = q[j]
  BY <1>1 DEF SeqSet
<1>. HIDE DEF w, msg
<1>5. ~\E i \in 1..Len(w) : w[i] = m
  <2>. SUFFICES ASSUME NEW i \in 1..Len(w), w[i] = m PROVE FALSE
    OBVIOUS
  <2>1. i \in DOMAIN topic_buffers'[u] /\ topic_buffers'[u][i] = m
    BY <1>1, <1>2, <1>3
  <2>. QED  BY <2>1 DEF SeqSet
<1>6. j < k
  <2>. SUFFICES ASSUME j >= k PROVE FALSE
    BY <1>3, <1>4
  <2>1. j - k + 1 \in 1..Len(w) /\ w[j - k + 1] = q[j]
    BY <1>1, <1>3, <1>4
  <2>. QED  BY <1>4, <1>5, <2>1
<1>. QED  BY <1>3, <1>4, <1>6 DEF Expired

(* The comment in cleanup_old_messages: a clock set back purges nothing    *)
(* that is fresh.                                                          *)
THEOREM ClockStepsPurgeNothing == Spec => FreshNeverPurged
<1>1. BufferInv => [Adding =>
        \A t \in Topics : \A m \in SeqSet(topic_buffers[t]) \ SeqSet(topic_buffers'[t]) :
          clock - m.received_at > max_message_age]_vars
  BY CleanupRemovesExpired
<1>. QED  BY <1>1, BufferInvariant, PTL DEF FreshNeverPurged

-----------------------------------------------------------------------------
(* Ages.  What lies behind a message that has not expired has not expired  *)
(* either, where the messages are in order.                                *)

(* The deque of a topic after add_message: what cleanup left, and at the   *)
(* end perhaps the new message.                                            *)
LEMMA BufferAfterAdd ==
  ASSUME BufferInv, NEW t \in Topics, NEW d \in Samples, AddMessage(t, d),
         NEW u \in Topics, InOrder(u)
  PROVE  \A i \in 1..Len(topic_buffers'[u]) :
           /\ topic_buffers'[u][i].received_at \in 0..clock
           /\ clock - topic_buffers'[u][i].received_at <= max_message_age
           /\ \A j \in i..Len(topic_buffers'[u]) :
                topic_buffers'[u][i].received_at <= topic_buffers'[u][j].received_at
<1>. DEFINE q == topic_buffers[u]
            w == WithoutExpired(q)
            msg == [data |-> d, received_at |-> clock]
<1>1. q \in Seq(Messages) /\ msg \in Messages /\ clock \in Nat /\ msg.received_at = clock
  BY NewMessage, ClockAssumption DEF BufferInv, TypeOK
<1>2. topic_buffers'[u] = IF u = t THEN Append(w, msg) ELSE w
  BY DEF AddMessage
<1>3. PICK k \in 1..(Len(q) + 1) :
        /\ w \in Seq(Messages)
        /\ Len(w) = Len(q) + 1 - k
        /\ \A i \in 1..Len(w) : w[i] = q[k + i - 1]
        /\ k <= Len(q) => ~Expired(q[k])
  BY <1>1, CleanupKeepsSuffix
<1>4. ASSUME NEW i \in 1..Len(q)
      PROVE  q[i].received_at \in 0..clock
  <2>1. q[i] \in Messages /\ q[i].received_at <= clock
    BY <1>1 DEF InOrder
  <2>2. q[i].received_at \in Nat
    BY <2>1 DEF Messages
  <2>. QED  BY <1>1, <2>1, <2>2
<1>5. ASSUME NEW i \in 1..Len(q), NEW j \in i..Len(q)
      PROVE  q[i].received_at <= q[j].received_at
  BY DEF InOrder
<1>6. k <= Len(q) => clock - q[k].received_at <= max_message_age
  <2>. SUFFICES ASSUME k <= Len(q) PROVE clock - q[k].received_at <= max_message_age
    OBVIOUS
  <2>1. ~Expired(q[k]) /\ q[k].received_at \in 0..clock
    BY <1>1, <1>3, <1>4
  <2>. HIDE DEF q
  <2>. QED  BY <1>1, <2>1, AgeAssumption DEF Expired
<1>. HIDE DEF q, w, msg
<1>. w \in Seq(Messages) /\ Len(w) \in Nat
  BY <1>3
<1>. clock \in Nat
  BY <1>1
<1>7. ASSUME NEW i \in 1..Len(w), NEW j \in i..Len(w)
      PROVE  /\ w[i].received_at \in 0..clock
             /\ clock - w[i].received_at <= max_message_age
             /\ w[i].received_at <= w[j].received_at
  <2>1. Len(q) \in Nat /\ Len(w) \in Nat /\ j \in 1..Len(w)
    BY <1>1, <1>3
  <2>2. /\ k + i - 1 \in 1..Len(q) /\ k + j - 1 \in (k + i - 1)..Len(q)
        /\ k \in 1..Len(q) /\ k + i - 1 \in k..Len(q)
    BY <1>3, <2>1
  <2>3. w[i] = q[k + i - 1] /\ w[j] = q[k + j - 1]
    BY <1>3, <2>1
  <2>4. /\ q[k + i - 1].received_at <= q[k + j - 1].received_at
        /\ q[k].received_at <= q[k + i - 1].received_at
        /\ q[k].received_at \in 0..clock
        /\ q[k + i - 1].received_at \in 0..clock
        /\ clock - q[k].received_at <= max_message_age
    <3>1. q[k + i - 1].received_at <= q[k + j - 1].received_at
      BY <1>5, <2>2
    <3>2. q[k].received_at <= q[k + i - 1].received_at
      BY <1>5, <2>2
    <3>3. q[k].received_at \in 0..clock /\ q[k + i - 1].received_at \in 0..clock
      BY <1>4, <2>2
    <3>4. clock - q[k].received_at <= max_message_age
      <4>1. k <= Len(q)
        BY <2>1, <2>2
      <4>. QED  BY <1>6, <4>1
    <3>. QED  BY <3>1, <3>2, <3>3, <3>4
  <2>5. clock - q[k + i - 1].received_at <= max_message_age
    <3>. DEFINE x == q[k].received_at
                y == q[k + i - 1].received_at
    <3>1. x \in Int /\ y \in Int /\ x <= y /\ clock - x <= max_message_age
      BY <2>4
    <3>. HIDE DEF x, y
    <3>2. clock - y <= max_message_age
      BY <3>1, AgeAssumption
    <3>. QED  BY <3>2 DEF y
  <2>. QED  BY <2>3, <2>4, <2>5
<1>8. CASE u # t
  <2>1. topic_buffers'[u] = w
    BY <1>2, <1>8
  <2>. QED  BY <1>7, <2>1
<1>9. CASE u = t
  <2>1. /\ topic_buffers'[u] = Append(w, msg)
        /\ Len(topic_buffers'[u]) = Len(w) + 1
        /\ \A i \in 1..Len(w) : topic_buffers'[u][i] = w[i]
        /\ topic_buffers'[u][Len(w) + 1] = msg
    <3>1. topic_buffers'[u] = Append(w, msg) /\ msg \in Messages
      BY <1>1, <1>2, <1>9
    <3>. QED  BY <3>1
  <2>2. ASSUME NEW i \in 1..(Len(w) + 1)
        PROVE  /\ topic_buffers'[u][i].received_at \in 0..clock
               /\ clock - topic_buffers'[u][i].received_at <= max_message_age
    <3>1. CASE i \in 1..Len(w)
      BY <1>3, <1>7, <2>1, <3>1
    <3>2. CASE i = Len(w) + 1
      BY <1>1, <2>1, <3>2, AgeAssumption
    <3>. QED  BY <3>1, <3>2
  <2>3. ASSUME NEW i \in 1..(Len(w) + 1), NEW j \in i..(Len(w) + 1)
        PROVE  topic_buffers'[u][i].received_at <= topic_buffers'[u][j].received_at
    <3>1. CASE j = Len(w) + 1
      BY <1>1, <2>1, <2>2, <3>1
    <3>2. CASE j # Len(w) + 1
      <4>1. i \in 1..Len(w) /\ j \in i..Len(w) /\ j \in 1..Len(w)
        BY <3>2
      <4>. QED  BY <1>7, <2>1, <4>1
    <3>. QED  BY <3>1, <3>2
  <2>. QED  BY <2>1, <2>2, <2>3
<1>. QED  BY <1>8, <1>9

(* message_buffer.hpp, "Stale messages older than max_message_age_ns are   *)
(* automatically removed on each add_message() call": of every topic whose *)
(* messages are in order, whatever the clock did before.                   *)
THEOREM OrderBoundsAge == Spec => StaleRemovedByAdd
<1>1. BufferInv => [Adding =>
        \A t \in Topics : InOrder(t) => \A m \in SeqSet(topic_buffers'[t]) :
          clock - m.received_at <= max_message_age]_vars
  <2>. SUFFICES ASSUME BufferInv, NEW t \in Topics, NEW d \in Samples, AddMessage(t, d),
                       NEW u \in Topics, InOrder(u), NEW m \in SeqSet(topic_buffers'[u])
                PROVE  clock - m.received_at <= max_message_age
    BY DEF Adding
  <2>1. BufferInv'
    BY AddKeepsInv
  <2>2. PICK i \in 1..Len(topic_buffers'[u]) : m = topic_buffers'[u][i]
    BY <2>1 DEF SeqSet, BufferInv, TypeOK
  <2>. QED  BY <2>2, BufferAfterAdd
<1>. QED  BY <1>1, BufferInvariant, PTL DEF StaleRemovedByAdd

-----------------------------------------------------------------------------
(* With a clock that is never set back all messages are in order.          *)
SteadyInv == BufferInv /\ ReceivedInOrder

(* With a steady clock every step keeps the messages in order.             *)
LEMMA SteadyStep == SteadyInv /\ [Next /\ clock' >= clock]_vars => SteadyInv'
<1>. SUFFICES ASSUME SteadyInv, [Next /\ clock' >= clock]_vars PROVE ReceivedInOrder'
  BY StepKeepsInv DEF SteadyInv
<1>1. ASSUME NEW t \in Topics, NEW d \in Samples, AddMessage(t, d)
      PROVE  ReceivedInOrder'
  <2>1. clock' = clock /\ clock \in Nat
    BY <1>1, ClockAssumption DEF AddMessage, SteadyInv, BufferInv, TypeOK
  <2>2. BufferInv /\ \A u \in Topics : InOrder(u)
    BY DEF SteadyInv, ReceivedInOrder
  <2>. QED  BY <1>1, <2>1, <2>2, BufferAfterAdd DEF ReceivedInOrder, InOrder
<1>2. CASE (\E t \in Topics : SetLatched(t) \/ ClearLatched(t)) \/ UNCHANGED vars
  BY <1>2 DEF SetLatched, ClearLatched, vars, SteadyInv, ReceivedInOrder, InOrder
<1>3. CASE MoveMessages \/ Clear
  BY <1>3 DEF MoveMessages, Clear, ReceivedInOrder, InOrder
<1>4. ASSUME NEW now \in 0..MaxTime, SetClock(now), clock' >= clock
      PROVE  ReceivedInOrder'
  <2>1. topic_buffers' = topic_buffers /\ clock' \in Nat /\ clock \in Nat
    BY <1>4, ClockAssumption DEF SetClock, SteadyInv, BufferInv, TypeOK
  <2>2. \A t \in Topics : \A i \in 1..Len(topic_buffers[t]) :
          topic_buffers[t][i].received_at \in Nat
    <3>1. \A t \in Topics : \A i \in 1..Len(topic_buffers[t]) : topic_buffers[t][i] \in Messages
      BY DEF SteadyInv, BufferInv, TypeOK
    <3>. QED  BY <3>1 DEF Messages
  <2>. QED  BY <1>4, <2>1, <2>2 DEF SteadyInv, ReceivedInOrder, InOrder
<1>. QED  BY <1>1, <1>2, <1>3, <1>4 DEF Next

(* While the wall clock is never set back, the messages of every topic are *)
(* in order: so, by OrderBoundsAge, none outlives max_message_age by more  *)
(* than the time to the next add_message.                                  *)
THEOREM SteadyClockKeepsOrder == SteadySpec => []ReceivedInOrder
<1>1. Init => SteadyInv
  <2>1. Init => BufferInv
    BY ClockAssumption
       DEF Init, BufferInv, TypeOK, BufferEndsWithNewest, RetainedIsNewest
  <2>. QED  BY <2>1 DEF Init, SteadyInv, ReceivedInOrder, InOrder
<1>2. SteadyInv => ReceivedInOrder
  BY DEF SteadyInv
<1>. QED  BY <1>1, <1>2, SteadyStep, PTL DEF SteadySpec

-----------------------------------------------------------------------------
(***************************************************************************)
(* The bridge.                                                             *)
(***************************************************************************)

(* The samples between the publisher and the buffer.                       *)
PipelineOK ==
  /\ version \in 0..MaxVersions
  /\ subscription \in 0..MaxSubscriptions
  /\ inbox \in Seq(0..MaxVersions)
  /\ inflight \in VersionedSamples \cup {NoSample}

(* The pipeline holds samples initially, ...                               *)
LEMMA PipelineInit == ASSUME ReplayInit PROVE PipelineOK
BY BoundsAssumption DEF ReplayInit, PipelineOK

(* ... and every step leaves it so.                                        *)
LEMMA PipelineStep ==
  ASSUME PipelineOK, [ReplayNext]_allVars
  PROVE  PipelineOK'
<1>. USE BoundsAssumption DEF PipelineOK, VersionedSamples
<1>1. CASE NodePublish
  <2>1. version' \in 0..MaxVersions
    BY <1>1 DEF NodePublish
  <2>2. Append(inbox, version') \in Seq(0..MaxVersions)
    BY <2>1
  <2>3. inbox' \in {inbox, Append(inbox, version')}
    BY <1>1 DEF NodePublish
  <2>. QED  BY <1>1, <2>1, <2>2, <2>3 DEF NodePublish
<1>2. CASE IngestTake
  <2>1. Head(inbox) \in 0..MaxVersions /\ Tail(inbox) \in Seq(0..MaxVersions)
    BY <1>2 DEF IngestTake
  <2>. QED  BY <1>2, <2>1 DEF IngestTake
<1>3. CASE IngestAdd
  BY <1>3 DEF IngestAdd
<1>4. ASSUME NEW c \in Clients, JoinSubscribe(c) PROVE PipelineOK'
  <2>1. CASE live
    BY <1>4, <2>1 DEF JoinSubscribe
  <2>2. CASE ~live
    <3>1. <<>> \in Seq(0..MaxVersions) /\ <<version>> \in Seq(0..MaxVersions)
      OBVIOUS
    <3>2. inbox' \in {<<>>, <<version>>}
      BY <1>4, <2>2 DEF JoinSubscribe
    <3>3. subscription' \in 0..MaxSubscriptions
      BY <1>4, <2>2 DEF JoinSubscribe
    <3>. QED  BY <1>4, <3>1, <3>2, <3>3 DEF JoinSubscribe
  <2>. QED  BY <2>1, <2>2
<1>5. ASSUME NEW c \in Clients, LeaveUnsubscribe(c) PROVE PipelineOK'
  <2>1. inbox' \in {<<>>, inbox}
    BY <1>5 DEF LeaveUnsubscribe
  <2>2. <<>> \in Seq(0..MaxVersions) /\ inbox \in Seq(0..MaxVersions)
    OBVIOUS
  <2>3. inbox' \in Seq(0..MaxVersions)
    BY <2>1, <2>2
  <2>. QED  BY <1>5, <2>3 DEF LeaveUnsubscribe
<1>6. ASSUME UNCHANGED ddsVars PROVE PipelineOK'
  BY <1>6 DEF ddsVars
<1>7. CASE \/ \E t \in Topics : IngestOther(t)
           \/ \E now \in 0..MaxTime : ClockStep(now)
           \/ JoinLatch \/ JoinReplay \/ LeaveUnlatch \/ Publish
           \/ \E c \in Clients : EndSession(c) \/ \E i \in Intervals : SetRate(c, i)
           \/ UNCHANGED allVars
  BY <1>6, <1>7 DEF IngestOther, ClockStep, JoinLatch, JoinReplay, LeaveUnlatch, Publish, EndSession,
     SetRate, allVars
<1>. QED  BY <1>1, <1>2, <1>3, <1>4, <1>5, <1>7 DEF ReplayNext

(* A step of the bridge is one of the buffer, or leaves it alone.          *)
LEMMA BufferStep ==
  ASSUME PipelineOK, [ReplayNext]_allVars
  PROVE  [Next]_vars
<1>1. CASE IngestAdd
  <2>1. inflight \in Samples
    BY <1>1, SamplesAssumption DEF PipelineOK, IngestAdd
  <2>. QED  BY <1>1, <2>1, LatchedAssumption DEF IngestAdd, Next
<1>2. ASSUME NEW t \in Topics, IngestOther(t) PROVE Next
  <2>1. [version |-> 0, subscription |-> 0] \in Samples
    BY BoundsAssumption, SamplesAssumption DEF VersionedSamples
  <2>. QED  BY <1>2, <2>1 DEF IngestOther, Next
<1>3. CASE \E now \in 0..MaxTime : ClockStep(now)
  BY <1>3 DEF ClockStep, Next
<1>4. CASE JoinLatch
  BY <1>4, LatchedAssumption DEF JoinLatch, Next
<1>5. CASE LeaveUnlatch
  BY <1>5, LatchedAssumption DEF LeaveUnlatch, Next
<1>6. CASE Publish
  BY <1>6 DEF Publish, Next
<1>7. CASE \/ NodePublish \/ IngestTake \/ JoinReplay
           \/ \E c \in Clients : JoinSubscribe(c) \/ LeaveUnsubscribe(c) \/ EndSession(c)
           \/ \E c \in Clients, i \in Intervals : SetRate(c, i)
           \/ UNCHANGED allVars
  BY <1>7 DEF NodePublish, IngestTake, JoinReplay, JoinSubscribe, LeaveUnsubscribe, EndSession, SetRate,
     allVars
<1>. QED  BY <1>1, <1>2, <1>3, <1>4, <1>5, <1>6, <1>7 DEF ReplayNext

(* What the threads of the bridge do to the buffer, its own methods do:    *)
(* LatchedReplay implements MessageBuffer.                                 *)
THEOREM ReplayImplementsBuffer == ReplaySpec => Spec
<1>1. ReplayInit => Init
  BY DEF ReplayInit
<1>. QED  BY <1>1, BufferStep, PipelineInit, PipelineStep, PTL DEF ReplaySpec, Spec

(* In the bridge, the sample retained of a latched topic is its newest,    *)
(* and there is one as soon as one is buffered.                            *)
THEOREM ReplayRetainsNewest == ReplaySpec => []RetainedIsNewest
BY ReplayImplementsBuffer, ReplayedIsNewest, PTL

(* In the bridge, however the clock is set, the cleanup that ingest sets   *)
(* off removes only messages that have outlived the maximum age.           *)
THEOREM ReplayPurgesNothingFresh == ReplaySpec => FreshNeverPurged
BY ReplayImplementsBuffer, ClockStepsPurgeNothing, PTL

(* And it leaves none that has, in a topic whose messages are in order of  *)
(* time.                                                                   *)
THEOREM ReplayPurgesStale == ReplaySpec => StaleRemovedByAdd
BY ReplayImplementsBuffer, OrderBoundsAge, PTL

-----------------------------------------------------------------------------
(* The samples of the latched topic on their way to the clients.  A sample *)
(* comes before another if it is older, or the same and received by an     *)
(* earlier subscription.                                                   *)
UpTo(a, b)   == a.version <= b.version /\ a.subscription <= b.subscription
Before(a, b) == UpTo(a, b) /\ (a.version < b.version \/ a.subscription < b.subscription)

Buffered   == topic_buffers[LatchedTopic]
Newest     == newest[LatchedTopic]
Retained   == latched_last[LatchedTopic]
Arriving(n) == [version |-> inbox[n], subscription |-> subscription]

(* What reaches the buffer next is later than all that did before: the     *)
(* reader holds the versions in order, the ingest thread an earlier one,   *)
(* even if it took it from a subscription that is gone.                    *)
ArrivalOrder ==
  /\ \A i, j \in 1..Len(inbox) : i < j => inbox[i] < inbox[j]
  /\ \A i \in 1..Len(inbox) : inbox[i] <= version
  /\ ~live => inbox = <<>>
  /\ inflight # NoSample =>
       /\ inflight.version <= version /\ inflight.subscription <= subscription
       /\ \A i \in 1..Len(inbox) : Before(inflight, Arriving(i))
  /\ Newest # NoMessage =>
       /\ Newest.data \in VersionedSamples
       /\ Newest.data.version <= version /\ Newest.data.subscription <= subscription
       /\ inflight # NoSample => Before(Newest.data, inflight)
       /\ \A i \in 1..Len(inbox) : Before(Newest.data, Arriving(i))

(* The deque is in that order, ...                                         *)
BufferOrder ==
  /\ \A i \in 1..Len(Buffered) :
       /\ Newest # NoMessage
       /\ Buffered[i].data \in VersionedSamples
       /\ UpTo(Buffered[i].data, Newest.data)
  /\ \A i, j \in 1..Len(Buffered) : i < j => Before(Buffered[i].data, Buffered[j].data)

(* ... and so is what a client was sent, all of it before the deque.       *)
DeliveryOrder ==
  \A c \in Clients :
    /\ delivered[c] \in Seq(VersionedSamples)
    /\ \A i \in 1..Len(delivered[c]) :
         /\ Newest # NoMessage
         /\ UpTo(delivered[c][i], Newest.data)
         /\ \A j \in 1..Len(Buffered) : Before(delivered[c][i], Buffered[j].data)
    /\ \A i, j \in 1..Len(delivered[c]) : i < j => Before(delivered[c][i], delivered[c][j])

DeliveryDomain == delivered = [c \in Clients |-> delivered[c]]

(* A client that joins has been sent nothing before its replay: the event  *)
(* loop, which joins it, does not publish meanwhile.                       *)
JoinState ==
  /\ holders \in SUBSET Clients
  /\ pc \in {"idle", "latch", "replay", "unlatch"}
  /\ pc \in {"latch", "replay"} => on_loop /\ client \in holders /\ delivered[client] = <<>>
  /\ pc = "unlatch" => ~live
  /\ live /\ pc # "latch" => LatchedTopic \in latched_topics

StreamInv ==
  BufferInv /\ PipelineOK /\ ArrivalOrder /\ BufferOrder /\ DeliveryDomain /\ DeliveryOrder
    /\ JoinState

(* The two orders are transitive.                                          *)
LEMMA OrderFacts ==
  ASSUME NEW x \in VersionedSamples, NEW y \in VersionedSamples, NEW z \in VersionedSamples
  PROVE  /\ UpTo(x, x)
         /\ Before(x, y) => UpTo(x, y) /\ x # y
         /\ UpTo(x, y) /\ UpTo(y, z) => UpTo(x, z)
         /\ UpTo(x, y) /\ Before(y, z) => Before(x, z)
         /\ Before(x, y) /\ UpTo(y, z) => Before(x, z)
<1>1. /\ x.version \in Nat /\ y.version \in Nat /\ z.version \in Nat
      /\ x.subscription \in Nat /\ y.subscription \in Nat /\ z.subscription \in Nat
  BY BoundsAssumption DEF VersionedSamples
<1>. QED  BY <1>1 DEF UpTo, Before

(* Steps of the reader and the ingest thread are in order.                 *)
LEMMA ArrivingFacts ==
  ASSUME PipelineOK, NEW n \in 1..Len(inbox)
  PROVE  Arriving(n) \in VersionedSamples /\ inbox[n] \in 0..MaxVersions /\ inbox[n] \in Nat
<1>1. inbox[n] \in 0..MaxVersions
  <2>. DEFINE V == 0..MaxVersions
  <2>1. inbox \in Seq(V)
    BY DEF PipelineOK
  <2>. HIDE DEF V
  <2>2. inbox[n] \in V
    BY <2>1
  <2>. QED  BY <2>2 DEF V
<1>2. inbox[n] \in Nat
  BY <1>1, BoundsAssumption
<1>. QED  BY <1>1, <1>2 DEF PipelineOK, Arriving, VersionedSamples

(* The deque of the latched topic after add_message: what the cleanup left *)
(* of it and, if the message is its own, that message.                     *)
LEMMA BufferedAfterAdd ==
  ASSUME BufferInv, NEW t \in Topics, NEW d \in Samples, AddMessage(t, d)
  PROVE  LET msg == [data |-> d, received_at |-> clock]
             own == t = LatchedTopic
         IN  \E k \in 0..Len(Buffered) :
               /\ Len(Buffered') = Len(Buffered) - k + (IF own THEN 1 ELSE 0)
               /\ \A i \in 1..(Len(Buffered) - k) : Buffered'[i] = Buffered[i + k]
               /\ own => Buffered'[Len(Buffered')] = msg
               /\ Newest' = IF own THEN msg ELSE Newest
               /\ Retained' = IF own /\ LatchedTopic \in latched_topics THEN msg ELSE Retained
               /\ msg \in Messages /\ msg # NoMessage /\ msg.data = d
<1>. DEFINE msg == [data |-> d, received_at |-> clock]
            q == Buffered
            w == WithoutExpired(q)
<1>1. q \in Seq(Messages) /\ msg \in Messages /\ msg # NoMessage /\ msg.data = d
  BY NewMessage, LatchedAssumption, NoMessageAssumption DEF BufferInv, TypeOK, Messages, Buffered
<1>2. PICK m \in 1..(Len(q) + 1) :
        /\ w \in Seq(Messages)
        /\ Len(w) = Len(q) + 1 - m
        /\ \A i \in 1..Len(w) : w[i] = q[m + i - 1]
  BY <1>1, CleanupKeepsSuffix
<1>3. Buffered' = IF t = LatchedTopic THEN Append(w, msg) ELSE w
  BY LatchedAssumption DEF AddMessage, Buffered
<1>4. /\ Newest' = IF t = LatchedTopic THEN msg ELSE Newest
      /\ Retained' = IF t = LatchedTopic /\ LatchedTopic \in latched_topics THEN msg ELSE Retained
  BY LatchedAssumption DEF AddMessage, Newest, Retained, BufferInv, TypeOK
<1>. HIDE DEF msg, w, q
<1>. DEFINE k == m - 1
<1>5. k \in 0..Len(q) /\ Len(w) = Len(q) - k /\ \A i \in 1..(Len(q) - k) : w[i] = q[i + k]
  <2>1. Len(q) \in Nat
    BY <1>1
  <2>. QED  BY <1>2, <2>1
<1>. HIDE DEF k
<1>6. /\ Len(Buffered') = Len(q) - k + (IF t = LatchedTopic THEN 1 ELSE 0)
      /\ \A i \in 1..(Len(q) - k) : Buffered'[i] = q[i + k]
      /\ t = LatchedTopic => Buffered'[Len(Buffered')] = msg
  <2>1. Len(q) \in Nat /\ w \in Seq(Messages)
    BY <1>1, <1>2
  <2>2. CASE t = LatchedTopic
    <3>1. /\ Len(Append(w, msg)) = Len(w) + 1 /\ Append(w, msg)[Len(w) + 1] = msg
          /\ \A i \in 1..Len(w) : Append(w, msg)[i] = w[i]
      BY <1>1, <2>1
    <3>. QED  BY <1>3, <1>5, <2>2, <3>1
  <2>3. CASE t # LatchedTopic
    <3>1. Len(q) - k = Len(q) - k + 0
      BY <1>5, <2>1
    <3>. QED  BY <1>3, <1>5, <2>3, <3>1
  <2>. QED  BY <2>2, <2>3
<1>. QED  BY <1>1, <1>4, <1>5, <1>6 DEF msg, q

(* What a step leaves alone, it leaves in order.                           *)
LEMMA QuietOrders ==
  ASSUME StreamInv
  PROVE  /\ UNCHANGED <<inbox, version, holders, inflight, subscription, newest>> => ArrivalOrder'
         /\ UNCHANGED <<topic_buffers, newest>> => BufferOrder'
         /\ UNCHANGED <<delivered, topic_buffers, newest>> => DeliveryOrder'
         /\ UNCHANGED <<holders, pc, on_loop, client, delivered, latched_topics>> => JoinState'
<1>1. UNCHANGED <<inbox, version, holders, inflight, subscription, newest>> => ArrivalOrder'
  BY DEF StreamInv, ArrivalOrder, live, Newest, Before, UpTo, Arriving
<1>2. UNCHANGED <<topic_buffers, newest>> => BufferOrder'
  BY DEF StreamInv, BufferOrder, Buffered, Newest, Before, UpTo
<1>3. UNCHANGED <<delivered, topic_buffers, newest>> => DeliveryOrder'
  BY DEF StreamInv, DeliveryOrder, Buffered, Newest, Before, UpTo
<1>4. UNCHANGED <<holders, pc, on_loop, client, delivered, latched_topics>> => JoinState'
  BY DEF StreamInv, JoinState, live
<1>. QED  BY <1>1, <1>2, <1>3, <1>4

(* A node publishes: the new version is later than every sample so far.    *)
LEMMA NodePublishKeepsOrder ==
  ASSUME StreamInv, NodePublish
  PROVE  (ArrivalOrder /\ BufferOrder /\ DeliveryOrder /\ JoinState)'
<1>1. BufferOrder' /\ DeliveryOrder' /\ JoinState'
  BY QuietOrders DEF NodePublish, vars, clientVars, sentVars, joinVars
<1>2. /\ version \in Nat /\ version' = version + 1 /\ subscription \in Nat /\ Len(inbox) \in Nat
      /\ UNCHANGED <<subscription, inflight, newest, holders>>
      /\ inbox' = IF live THEN Append(inbox, version') ELSE inbox
  BY BoundsAssumption DEF NodePublish, StreamInv, PipelineOK, vars, clientVars, sentVars
<1>3. \A i \in 1..Len(inbox) : inbox[i] <= version /\ inbox[i] \in Nat
  BY ArrivingFacts DEF StreamInv, ArrivalOrder
<1>4. inflight # NoSample =>
        inflight \in VersionedSamples /\ inflight.version \in Nat /\ inflight.subscription \in Nat
  BY BoundsAssumption DEF StreamInv, PipelineOK, VersionedSamples
<1>5. Newest # NoMessage => Newest.data.version \in Nat /\ Newest.data.subscription \in Nat
  BY BoundsAssumption DEF StreamInv, ArrivalOrder, VersionedSamples
<1>6. ASSUME ~live PROVE ArrivalOrder'
  <2>1. inbox = <<>> /\ inbox' = <<>> /\ 1..Len(inbox') = {}
    BY <1>2, <1>6 DEF StreamInv, ArrivalOrder
  <2>2. Newest' = Newest /\ inflight' = inflight
    BY <1>2 DEF Newest
  <2>3. inflight # NoSample => inflight.version <= version' /\ inflight.subscription <= subscription'
    BY <1>2, <1>4 DEF StreamInv, ArrivalOrder
  <2>4. Newest # NoMessage =>
          /\ Newest.data \in VersionedSamples
          /\ Newest.data.version <= version' /\ Newest.data.subscription <= subscription'
          /\ inflight # NoSample => Before(Newest.data, inflight)
    BY <1>2, <1>5 DEF StreamInv, ArrivalOrder
  <2>. QED  BY <2>1, <2>2, <2>3, <2>4 DEF ArrivalOrder, Before, UpTo
<1>7. ASSUME live PROVE ArrivalOrder'
  <2>1. /\ Len(inbox') = Len(inbox) + 1 /\ inbox'[Len(inbox) + 1] = version + 1
        /\ \A i \in 1..Len(inbox) : inbox'[i] = inbox[i]
    BY <1>2, <1>7 DEF StreamInv, PipelineOK
  <2>2. \A i \in 1..Len(inbox') : i \in 1..Len(inbox) \/ i = Len(inbox) + 1
    BY <1>2, <2>1
  <2>3. \A i \in 1..Len(inbox') : inbox'[i] <= version'
    BY <1>2, <1>3, <2>1, <2>2
  <2>4. ASSUME NEW i \in 1..Len(inbox'), NEW j \in 1..Len(inbox'), i < j PROVE inbox'[i] < inbox'[j]
    <3>1. i \in 1..Len(inbox)
      BY <1>2, <2>1, <2>4
    <3>2. CASE j \in 1..Len(inbox)
      BY <2>1, <2>4, <3>1, <3>2 DEF StreamInv, ArrivalOrder
    <3>3. CASE j = Len(inbox) + 1
      <4>1. inbox'[i] <= version /\ inbox'[i] \in Nat
        BY <1>3, <2>1, <3>1
      <4>. QED  BY <1>2, <2>1, <3>3, <4>1
    <3>. QED  BY <2>2, <3>2, <3>3
  <2>5. ASSUME NEW x, x.version \in Nat, x.subscription \in Nat,
               x.version <= version, x.subscription <= subscription,
               \A i \in 1..Len(inbox) : Before(x, Arriving(i))
        PROVE  \A i \in 1..Len(inbox') : Before(x, Arriving(i)')
    <3>. SUFFICES ASSUME NEW i \in 1..Len(inbox') PROVE Before(x, Arriving(i)')
      OBVIOUS
    <3>1. CASE i \in 1..Len(inbox)
      <4>1. Arriving(i)' = Arriving(i)
        BY <1>2, <2>1, <3>1 DEF Arriving
      <4>. QED  BY <2>5, <3>1, <4>1
    <3>2. CASE i = Len(inbox) + 1
      <4>1. Arriving(i)' = [version |-> version + 1, subscription |-> subscription]
        BY <1>2, <2>1, <3>2 DEF Arriving
      <4>2. x.version < version + 1
        BY <1>2, <2>5
      <4>. QED  BY <1>2, <2>5, <4>1, <4>2 DEF Before, UpTo
    <3>. QED  BY <2>2, <3>1, <3>2
  <2>6. inflight' # NoSample =>
          /\ inflight'.version <= version' /\ inflight'.subscription <= subscription'
          /\ \A i \in 1..Len(inbox') : Before(inflight', Arriving(i)')
    BY <1>2, <1>4, <2>5 DEF StreamInv, ArrivalOrder
  <2>7. Newest' # NoMessage =>
          /\ Newest'.data \in VersionedSamples
          /\ Newest'.data.version <= version' /\ Newest'.data.subscription <= subscription'
          /\ inflight' # NoSample => Before(Newest'.data, inflight')
          /\ \A i \in 1..Len(inbox') : Before(Newest'.data, Arriving(i)')
    <3>1. Newest' = Newest
      BY <1>2 DEF Newest
    <3>2. Newest # NoMessage =>
            /\ Newest.data \in VersionedSamples
            /\ Newest.data.version <= version /\ Newest.data.subscription <= subscription
            /\ inflight # NoSample => Before(Newest.data, inflight)
            /\ \A i \in 1..Len(inbox) : Before(Newest.data, Arriving(i))
      BY DEF StreamInv, ArrivalOrder
    <3>. QED  BY <1>2, <1>5, <2>5, <3>1, <3>2
  <2>8. live'
    BY <1>2, <1>7 DEF live
  <2>. QED  BY <2>3, <2>4, <2>6, <2>7, <2>8 DEF ArrivalOrder, Before, UpTo
<1>. QED  BY <1>1, <1>6, <1>7

(* From the reader to the ingest thread.                                   *)
LEMMA IngestTakeKeepsOrder ==
  ASSUME StreamInv, IngestTake
  PROVE  (ArrivalOrder /\ BufferOrder /\ DeliveryOrder /\ JoinState)'
<1>1. BufferOrder' /\ DeliveryOrder' /\ JoinState'
  BY QuietOrders DEF IngestTake, vars, clientVars, sentVars, joinVars
<1>2. /\ inbox # <<>> /\ inbox' = Tail(inbox) /\ inflight' = Arriving(1)
      /\ UNCHANGED <<version, subscription, newest, holders>>
      /\ 1 \in 1..Len(inbox) /\ Len(inbox) \in Nat
  <2>1. inbox # <<>> /\ inbox \in Seq(0..MaxVersions)
    BY DEF IngestTake, StreamInv, PipelineOK
  <2>2. Head(inbox) = inbox[1] /\ 1 \in 1..Len(inbox) /\ Len(inbox) \in Nat
    BY <2>1
  <2>. QED  BY <2>1, <2>2 DEF IngestTake, Arriving, vars, clientVars, sentVars
<1>3. /\ Len(inbox') = Len(inbox) - 1
      /\ \A i \in 1..Len(inbox') : i + 1 \in 1..Len(inbox) /\ inbox'[i] = inbox[i + 1]
  BY <1>2 DEF StreamInv, PipelineOK
<1>4. \A i \in 1..Len(inbox') : Arriving(i)' = Arriving(i + 1)
  BY <1>2, <1>3 DEF Arriving
<1>5. \A i \in 1..Len(inbox') : inbox'[i] <= version'
  BY <1>2, <1>3 DEF StreamInv, ArrivalOrder
<1>6. \A i, j \in 1..Len(inbox') : i < j => inbox'[i] < inbox'[j]
  <2>. SUFFICES ASSUME NEW i \in 1..Len(inbox'), NEW j \in 1..Len(inbox'), i < j
                PROVE  inbox'[i] < inbox'[j]
    OBVIOUS
  <2>1. i + 1 < j + 1 /\ i + 1 \in 1..Len(inbox) /\ j + 1 \in 1..Len(inbox)
    BY <1>2, <1>3
  <2>. QED  BY <1>3, <2>1 DEF StreamInv, ArrivalOrder
<1>7. /\ inflight'.version <= version' /\ inflight'.subscription <= subscription'
      /\ \A i \in 1..Len(inbox') : Before(inflight', Arriving(i)')
  <2>1. inbox[1] <= version /\ subscription \in Nat
    BY <1>2, BoundsAssumption DEF StreamInv, ArrivalOrder, PipelineOK
  <2>2. \A i \in 1..Len(inbox') : inbox[1] < inbox[i + 1] /\ inbox[1] \in Nat /\ inbox[i + 1] \in Nat
    <3>. SUFFICES ASSUME NEW i \in 1..Len(inbox')
                  PROVE  inbox[1] < inbox[i + 1] /\ inbox[1] \in Nat /\ inbox[i + 1] \in Nat
      OBVIOUS
    <3>1. 1 < i + 1 /\ i + 1 \in 1..Len(inbox)
      BY <1>2, <1>3
    <3>. QED  BY <1>2, <3>1, ArrivingFacts DEF StreamInv, ArrivalOrder
  <2>3. \A i \in 1..Len(inbox') : Before(Arriving(1), Arriving(i + 1))
    BY <2>1, <2>2 DEF Before, UpTo, Arriving
  <2>4. Arriving(1).version = inbox[1] /\ Arriving(1).subscription = subscription
    BY DEF Arriving
  <2>. QED  BY <1>2, <1>4, <2>1, <2>3, <2>4
<1>8. Newest' # NoMessage =>
        /\ Newest'.data \in VersionedSamples
        /\ Newest'.data.version <= version' /\ Newest'.data.subscription <= subscription'
        /\ inflight' # NoSample => Before(Newest'.data, inflight')
        /\ \A i \in 1..Len(inbox') : Before(Newest'.data, Arriving(i)')
  <2>1. Newest' = Newest
    BY <1>2 DEF Newest
  <2>. QED  BY <1>2, <1>3, <1>4, <2>1 DEF StreamInv, ArrivalOrder
<1>9. live'
  BY <1>2 DEF StreamInv, ArrivalOrder, live
<1>10. ArrivalOrder'
  BY <1>5, <1>6, <1>7, <1>8, <1>9 DEF ArrivalOrder, Before, UpTo
<1>. QED  BY <1>1, <1>10

(* add_message for any topic: the cleanup takes a beginning of the deque   *)
(* and, if the message is the one the ingest thread holds, it comes last.  *)
LEMMA AddKeepsBufferOrder ==
  ASSUME StreamInv, NEW t \in Topics, NEW d \in Samples, AddMessage(t, d), delivered' = delivered,
         t = LatchedTopic => /\ d = inflight /\ d \in VersionedSamples /\ inflight # NoSample
  PROVE  BufferOrder' /\ DeliveryOrder'
<1>. DEFINE msg == [data |-> d, received_at |-> clock]
            L == Len(Buffered)
<1>1. PICK k \in 0..L :
        /\ Len(Buffered') = L - k + (IF t = LatchedTopic THEN 1 ELSE 0)
        /\ \A i \in 1..(L - k) : Buffered'[i] = Buffered[i + k]
        /\ t = LatchedTopic => Buffered'[Len(Buffered')] = msg
        /\ Newest' = IF t = LatchedTopic THEN msg ELSE Newest
        /\ msg # NoMessage /\ msg.data = d
  BY BufferedAfterAdd DEF StreamInv
<1>2. L \in Nat
  BY LatchedAssumption DEF StreamInv, BufferInv, TypeOK, Buffered
<1>. HIDE DEF msg, L
<1>3. \A i \in 1..Len(Buffered') : \/ i \in 1..(L - k) /\ i + k \in 1..L
                                   \/ t = LatchedTopic /\ i = Len(Buffered') /\ i = L - k + 1
  BY <1>1, <1>2
<1>4. \A i \in 1..L : /\ Newest # NoMessage /\ Newest.data \in VersionedSamples
                      /\ Buffered[i].data \in VersionedSamples /\ UpTo(Buffered[i].data, Newest.data)
  BY DEF StreamInv, BufferOrder, ArrivalOrder, L
<1>5. t = LatchedTopic /\ Newest # NoMessage => Before(Newest.data, d)
  BY DEF StreamInv, ArrivalOrder
<1>6. t = LatchedTopic => \A i \in 1..L : Before(Buffered[i].data, d)
  BY <1>4, <1>5, OrderFacts
<1>7. BufferOrder'
  <2>1. ASSUME NEW i \in 1..Len(Buffered')
        PROVE  /\ Newest' # NoMessage /\ Buffered'[i].data \in VersionedSamples
               /\ UpTo(Buffered'[i].data, Newest'.data)
    <3>1. CASE i \in 1..(L - k) /\ i + k \in 1..L
      <4>1. Buffered'[i] = Buffered[i + k]
        BY <1>1, <3>1
      <4>2. t = LatchedTopic => UpTo(Buffered[i + k].data, d)
        BY <1>4, <1>6, <3>1, OrderFacts
      <4>. QED  BY <1>1, <1>4, <3>1, <4>1, <4>2
    <3>2. CASE t = LatchedTopic /\ i = Len(Buffered')
      BY <1>1, <3>2, OrderFacts
    <3>. QED  BY <1>3, <3>1, <3>2
  <2>2. ASSUME NEW i \in 1..Len(Buffered'), NEW j \in 1..Len(Buffered'), i < j
        PROVE  Before(Buffered'[i].data, Buffered'[j].data)
    <3>1. i \in 1..(L - k) /\ i + k \in 1..L
      BY <1>1, <1>2, <1>3, <2>2
    <3>2. Buffered'[i] = Buffered[i + k]
      BY <1>1, <3>1
    <3>3. CASE j \in 1..(L - k) /\ j + k \in 1..L
      <4>1. Buffered'[j] = Buffered[j + k] /\ i + k < j + k
        BY <1>1, <2>2, <3>1, <3>3
      <4>. QED  BY <3>1, <3>2, <3>3, <4>1 DEF StreamInv, BufferOrder, L
    <3>4. CASE t = LatchedTopic /\ j = Len(Buffered')
      BY <1>1, <1>6, <3>1, <3>2, <3>4
    <3>. QED  BY <1>3, <3>3, <3>4
  <2>. QED  BY <2>1, <2>2 DEF BufferOrder, UpTo, Before
<1>8. DeliveryOrder'
  <2>. SUFFICES ASSUME NEW c \in Clients
                PROVE  \A i \in 1..Len(delivered[c]) :
                         /\ Newest' # NoMessage
                         /\ UpTo(delivered[c][i], Newest'.data)
                         /\ \A j \in 1..Len(Buffered') : Before(delivered[c][i], Buffered'[j].data)
    BY DEF StreamInv, DeliveryOrder, UpTo, Before
  <2>. SUFFICES ASSUME NEW i \in 1..Len(delivered[c])
                PROVE  /\ Newest' # NoMessage
                       /\ UpTo(delivered[c][i], Newest'.data)
                       /\ \A j \in 1..Len(Buffered') : Before(delivered[c][i], Buffered'[j].data)
    OBVIOUS
  <2>1. /\ delivered[c][i] \in VersionedSamples /\ Newest # NoMessage /\ Newest.data \in VersionedSamples
        /\ UpTo(delivered[c][i], Newest.data)
        /\ \A j \in 1..L : Before(delivered[c][i], Buffered[j].data)
    <3>1. delivered[c] \in Seq(VersionedSamples)
      BY DEF StreamInv, DeliveryOrder
    <3>2. delivered[c][i] \in VersionedSamples
      BY <3>1
    <3>. QED  BY <3>2 DEF StreamInv, DeliveryOrder, ArrivalOrder, L
  <2>2. t = LatchedTopic => Before(delivered[c][i], d) /\ UpTo(delivered[c][i], d)
    BY <1>5, <2>1, OrderFacts
  <2>3. Newest' # NoMessage /\ UpTo(delivered[c][i], Newest'.data)
    BY <1>1, <2>1, <2>2
  <2>4. ASSUME NEW j \in 1..Len(Buffered') PROVE Before(delivered[c][i], Buffered'[j].data)
    <3>1. CASE j \in 1..(L - k) /\ j + k \in 1..L
      BY <1>1, <2>1, <3>1
    <3>2. CASE t = LatchedTopic /\ j = Len(Buffered')
      BY <1>1, <2>2, <3>2
    <3>. QED  BY <1>3, <3>1, <3>2
  <2>. QED  BY <2>3, <2>4
<1>. QED  BY <1>7, <1>8

(* From the ingest thread to the deque.                                    *)
LEMMA IngestAddKeepsOrder ==
  ASSUME StreamInv, IngestAdd
  PROVE  (ArrivalOrder /\ BufferOrder /\ DeliveryOrder /\ JoinState)'
<1>1. /\ inflight # NoSample /\ inflight \in VersionedSamples /\ inflight \in Samples
      /\ AddMessage(LatchedTopic, inflight) /\ inflight' = NoSample
      /\ UNCHANGED <<version, subscription, inbox, holders, delivered, pc, on_loop, client, latched_topics>>
  BY SamplesAssumption DEF IngestAdd, AddMessage, StreamInv, PipelineOK, sentVars, joinVars
<1>2. BufferOrder' /\ DeliveryOrder'
  BY <1>1, AddKeepsBufferOrder, LatchedAssumption
<1>3. JoinState'
  BY <1>1, QuietOrders
<1>4. ArrivalOrder'
  <2>1. Newest'.data = inflight
    BY <1>1, LatchedAssumption DEF AddMessage, Newest, StreamInv, BufferInv, TypeOK
  <2>2. /\ inflight.version <= version /\ inflight.subscription <= subscription
        /\ \A i \in 1..Len(inbox) : Before(inflight, Arriving(i)')
    BY <1>1 DEF StreamInv, ArrivalOrder, Arriving
  <2>3. /\ \A i, j \in 1..Len(inbox) : i < j => inbox[i] < inbox[j]
        /\ \A i \in 1..Len(inbox) : inbox[i] <= version
        /\ ~live' => inbox = <<>>
    BY <1>1 DEF StreamInv, ArrivalOrder, live
  <2>. QED  BY <1>1, <2>1, <2>2, <2>3 DEF ArrivalOrder, Before, UpTo
<1>. QED  BY <1>2, <1>3, <1>4

(* A message of another topic.                                             *)
LEMMA IngestOtherKeepsOrder ==
  ASSUME StreamInv, NEW t \in Topics, IngestOther(t)
  PROVE  (ArrivalOrder /\ BufferOrder /\ DeliveryOrder /\ JoinState)'
<1>. DEFINE d == [version |-> 0, subscription |-> 0]
<1>1. d \in Samples
  BY BoundsAssumption, SamplesAssumption DEF VersionedSamples
<1>. HIDE DEF d
<1>2. /\ t # LatchedTopic /\ AddMessage(t, d)
      /\ UNCHANGED <<version, subscription, inbox, inflight, holders, delivered, pc, on_loop, client,
                     latched_topics>>
  BY DEF IngestOther, AddMessage, ddsVars, sentVars, joinVars, d
<1>3. BufferOrder' /\ DeliveryOrder'
  BY <1>1, <1>2, AddKeepsBufferOrder
<1>4. JoinState'
  BY <1>2, QuietOrders
<1>5. ArrivalOrder'
  <2>1. Newest' = Newest
    BY <1>2, LatchedAssumption DEF AddMessage, Newest, StreamInv, BufferInv, TypeOK
  <2>. QED  BY <1>2, <2>1 DEF StreamInv, ArrivalOrder, live, Before, UpTo, Arriving
<1>. QED  BY <1>3, <1>4, <1>5

(* A client joins: its record is empty, and a new subscription is later    *)
(* than the ones before it.                                                *)
LEMMA JoinSubscribeKeepsOrder ==
  ASSUME StreamInv, NEW c \in Clients, JoinSubscribe(c)
  PROVE  (ArrivalOrder /\ BufferOrder /\ DeliveryDomain /\ DeliveryOrder /\ JoinState)'
<1>1. /\ UNCHANGED <<topic_buffers, latched_topics, newest, version, inflight>>
      /\ pc = "idle" /\ pc' = "latch" /\ on_loop' /\ client' = c /\ holders' = holders \cup {c}
      /\ delivered' = [delivered EXCEPT ![c] = <<>>]
  BY DEF JoinSubscribe, vars
<1>2. BufferOrder'
  BY <1>1, QuietOrders
<1>3. delivered'[c] = <<>> /\ \A e \in Clients : e # c => delivered'[e] = delivered[e]
  BY <1>1 DEF StreamInv, DeliveryDomain
<1>4. DeliveryDomain' /\ DeliveryOrder'
  <2>1. ASSUME NEW e \in Clients
        PROVE  delivered'[e] = <<>> \/ delivered'[e] = delivered[e]
    BY <1>3
  <2>2. Buffered' = Buffered /\ Newest' = Newest
    BY <1>1 DEF Buffered, Newest
  <2>3. <<>> \in Seq(VersionedSamples) /\ 1..Len(<<>>) = {}
    OBVIOUS
  <2>. QED  BY <1>1, <2>1, <2>2, <2>3 DEF StreamInv, DeliveryDomain, DeliveryOrder, Before, UpTo
<1>5. JoinState'
  BY <1>1, <1>3 DEF StreamInv, JoinState, live
<1>6. ArrivalOrder'
  <2>1. CASE live
    <3>1. UNCHANGED <<subscription, inbox>> /\ live'
      BY <1>1, <2>1 DEF JoinSubscribe, live
    <3>. QED  BY <1>1, <2>1, <3>1 DEF StreamInv, ArrivalOrder, Newest, Before, UpTo, Arriving
  <2>2. CASE ~live
    <3>1. /\ subscription' = subscription + 1 /\ inbox' = (IF version = 0 THEN <<>> ELSE <<version>>)
          /\ live' /\ subscription \in Nat /\ version \in Nat
      BY <1>1, <2>2, BoundsAssumption DEF JoinSubscribe, live, StreamInv, PipelineOK
    <3>2. \A i \in 1..Len(inbox') : i = 1 /\ inbox'[i] = version /\ inbox'[i] <= version'
      BY <1>1, <3>1
    <3>3. \A i \in 1..Len(inbox') : Arriving(i)' = [version |-> version, subscription |-> subscription + 1]
      BY <3>1, <3>2 DEF Arriving
    <3>4. ASSUME NEW x \in VersionedSamples, x.version <= version, x.subscription <= subscription
          PROVE  /\ x.version <= version' /\ x.subscription <= subscription'
                 /\ \A i \in 1..Len(inbox') : Before(x, Arriving(i)')
      <4>1. x.version \in Nat /\ x.subscription \in Nat
        BY BoundsAssumption DEF VersionedSamples
      <4>2. x.subscription < subscription + 1
        BY <3>1, <3>4, <4>1
      <4>. QED  BY <1>1, <3>1, <3>3, <3>4, <4>1, <4>2 DEF Before, UpTo
    <3>5. \A i, j \in 1..Len(inbox') : i < j => inbox'[i] < inbox'[j]
      BY <3>2
    <3>6. inflight' # NoSample =>
            /\ inflight'.version <= version' /\ inflight'.subscription <= subscription'
            /\ \A i \in 1..Len(inbox') : Before(inflight', Arriving(i)')
      BY <1>1, <3>4 DEF StreamInv, PipelineOK, ArrivalOrder
    <3>7. Newest' # NoMessage =>
            /\ Newest'.data \in VersionedSamples
            /\ Newest'.data.version <= version' /\ Newest'.data.subscription <= subscription'
            /\ inflight' # NoSample => Before(Newest'.data, inflight')
            /\ \A i \in 1..Len(inbox') : Before(Newest'.data, Arriving(i)')
      <4>1. Newest' = Newest
        BY <1>1 DEF Newest
      <4>. QED  BY <1>1, <3>4, <4>1 DEF StreamInv, ArrivalOrder
    <3>. QED  BY <3>1, <3>2, <3>5, <3>6, <3>7 DEF ArrivalOrder, Before, UpTo
  <2>. QED  BY <2>1, <2>2
<1>. QED  BY <1>2, <1>4, <1>5, <1>6

(* The replay: the retained sample is the newest and, with the deque       *)
(* empty, before all that comes.                                           *)
LEMMA JoinReplayKeepsOrder ==
  ASSUME StreamInv, JoinReplay
  PROVE  (ArrivalOrder /\ BufferOrder /\ DeliveryDomain /\ DeliveryOrder /\ JoinState)'
<1>1. /\ UNCHANGED <<topic_buffers, latched_topics, newest, version, inflight, subscription, inbox,
                     holders, on_loop>>
      /\ pc = "replay" /\ pc' = "idle"
  BY DEF JoinReplay, vars, ddsVars
<1>2. ArrivalOrder' /\ BufferOrder'
  BY <1>1, QuietOrders
<1>3. JoinState'
  BY <1>1 DEF StreamInv, JoinState, live
<1>4. client \in Clients /\ delivered[client] = <<>>
  BY <1>1 DEF StreamInv, JoinState
<1>5. \/ delivered' = delivered
      \/ /\ Buffered = <<>> /\ Retained # NoMessage
         /\ delivered' = [delivered EXCEPT ![client] = Append(@, Retained.data)]
  BY DEF JoinReplay, LatchedForReplay, Buffered, Retained
<1>6. DeliveryDomain' /\ DeliveryOrder'
  <2>1. CASE delivered' = delivered
    BY <1>1, <2>1, QuietOrders DEF StreamInv, DeliveryDomain
  <2>2. CASE /\ Buffered = <<>> /\ Retained # NoMessage
             /\ delivered' = [delivered EXCEPT ![client] = Append(@, Retained.data)]
    <3>1. Retained = Newest /\ Newest.data \in VersionedSamples /\ Newest # NoMessage
      BY <2>2, LatchedAssumption
         DEF StreamInv, BufferInv, RetainedIsNewest, Retained, Newest, ArrivalOrder
    <3>2. /\ delivered'[client] = <<Newest.data>>
          /\ \A e \in Clients : e # client => delivered'[e] = delivered[e]
      BY <1>4, <2>2, <3>1 DEF StreamInv, DeliveryDomain
    <3>3. Buffered' = <<>> /\ Newest' = Newest /\ 1..Len(Buffered') = {}
      BY <1>1, <2>2 DEF Buffered, Newest
    <3>4. UpTo(Newest.data, Newest.data)
      BY <3>1, OrderFacts
    <3>5. /\ <<Newest.data>> \in Seq(VersionedSamples)
          /\ \A i \in 1..Len(<<Newest.data>>) : i = 1 /\ <<Newest.data>>[i] = Newest.data
      BY <3>1
    <3>6. DeliveryDomain'
      BY <2>2 DEF StreamInv, DeliveryDomain
    <3>7. ASSUME NEW e \in Clients, e # client
          PROVE  /\ delivered'[e] \in Seq(VersionedSamples)
                 /\ \A i \in 1..Len(delivered'[e]) : Newest' # NoMessage /\ UpTo(delivered'[e][i], Newest'.data)
                 /\ \A i, j \in 1..Len(delivered'[e]) : i < j => Before(delivered'[e][i], delivered'[e][j])
      BY <3>2, <3>3, <3>7 DEF StreamInv, DeliveryOrder
    <3>8. /\ delivered'[client] \in Seq(VersionedSamples)
          /\ \A i \in 1..Len(delivered'[client]) :
               Newest' # NoMessage /\ UpTo(delivered'[client][i], Newest'.data)
          /\ \A i, j \in 1..Len(delivered'[client]) :
               i < j => Before(delivered'[client][i], delivered'[client][j])
      BY <3>1, <3>2, <3>3, <3>4, <3>5
    <3>9. DeliveryOrder'
      BY <3>3, <3>7, <3>8 DEF DeliveryOrder, UpTo, Before
    <3>. QED  BY <3>6, <3>9
  <2>. QED  BY <1>5, <2>1, <2>2
<1>. QED  BY <1>2, <1>3, <1>6

(* A client leaves.                                                        *)
LEMMA LeaveKeepsOrder ==
  ASSUME StreamInv, NEW c \in Clients, LeaveUnsubscribe(c)
  PROVE  (ArrivalOrder /\ BufferOrder /\ DeliveryOrder /\ JoinState)'
<1>1. /\ UNCHANGED <<topic_buffers, latched_topics, newest, version, inflight, subscription, delivered>>
      /\ pc = "idle" /\ holders' = holders \ {c} /\ c \in holders
      /\ inbox' = (IF holders' = {} THEN <<>> ELSE inbox)
      /\ pc' = (IF holders' = {} THEN "unlatch" ELSE "idle")
  BY DEF LeaveUnsubscribe, vars
<1>2. BufferOrder' /\ DeliveryOrder'
  BY <1>1, QuietOrders
<1>3. JoinState'
  BY <1>1 DEF StreamInv, JoinState, live
<1>4. ArrivalOrder'
  <2>1. CASE holders' = {}
    <3>1. inbox' = <<>> /\ 1..Len(inbox') = {} /\ Newest' = Newest
      BY <1>1, <2>1 DEF Newest
    <3>2. inflight' # NoSample => inflight'.version <= version' /\ inflight'.subscription <= subscription'
      BY <1>1 DEF StreamInv, ArrivalOrder
    <3>3. Newest' # NoMessage =>
            /\ Newest'.data \in VersionedSamples
            /\ Newest'.data.version <= version' /\ Newest'.data.subscription <= subscription'
            /\ inflight' # NoSample => Before(Newest'.data, inflight')
      BY <1>1, <3>1 DEF StreamInv, ArrivalOrder
    <3>. QED  BY <3>1, <3>2, <3>3 DEF ArrivalOrder, Before, UpTo
  <2>2. CASE holders' # {}
    BY <1>1, <2>2 DEF StreamInv, ArrivalOrder, live, Newest, Before, UpTo, Arriving
  <2>. QED  BY <2>1, <2>2
<1>. QED  BY <1>2, <1>3, <1>4

(* The rate gate, message by message.                                      *)
GateStep(q, last, min_interval, gate, n) ==
  IF n = 0 THEN [out |-> <<>>, last_sent |-> last]
  ELSE IF min_interval = 0
  THEN [out |-> Append(gate[n - 1].out, q[n].data), last_sent |-> gate[n - 1].last_sent]
  ELSE IF Stamp(q[n]) >= gate[n - 1].last_sent + min_interval
  THEN [out |-> Append(gate[n - 1].out, q[n].data), last_sent |-> Stamp(q[n])]
  ELSE gate[n - 1]

(* The recursive function exists.                                          *)
LEMMA GateExists ==
  ASSUME NEW q, NEW last, NEW i
  PROVE  \A n \in Nat : \E g : g = [k \in 0..n |-> GateStep(q, last, i, g, k)]
<1>. DEFINE Rest(f, k) == GateStep(q, last, i, f, k)
            Has(n) == \E f : f = [k \in 0..n |-> Rest(f, k)]
            N == {n \in Nat : Has(n)}
<1>1. 0 \in N
  <2>. DEFINE f == [k \in 0..0 |-> [out |-> <<>>, last_sent |-> last]]
  <2>1. \A k \in 0..0 : k = 0
    OBVIOUS
  <2>2. \A k \in 0..0 : Rest(f, k) = [out |-> <<>>, last_sent |-> last]
    BY <2>1 DEF GateStep
  <2>3. f = [k \in 0..0 |-> Rest(f, k)]
    <3>. HIDE DEF Rest
    <3>. QED  BY <2>2
  <2>. QED  BY <2>3
<1>2. ASSUME NEW n \in N PROVE n + 1 \in N
  <2>1. PICK f : f = [k \in 0..n |-> Rest(f, k)]
    OBVIOUS
  <2>. DEFINE h == [k \in 0..(n + 1) |-> Rest(f, k)]
  <2>2. n \in Nat /\ \A k \in 0..n : k \in 0..(n + 1)
    OBVIOUS
  <2>3. \A k \in 0..n : h[k] = f[k]
    <3>. HIDE DEF Rest
    <3>. QED  BY <2>1, <2>2
  <2>4. \A k \in 0..(n + 1) : k = 0 \/ k - 1 \in 0..n
    BY <2>2
  <2>5. \A k \in 0..(n + 1) : Rest(h, k) = Rest(f, k)
    <3>. HIDE DEF h
    <3>. QED  BY <2>3, <2>4 DEF GateStep
  <2>6. h = [k \in 0..(n + 1) |-> Rest(h, k)]
    <3>. HIDE DEF Rest
    <3>. QED  BY <2>5
  <2>7. Has(n + 1)
    <3>. HIDE DEF h
    <3>. QED  BY <2>6
  <2>. HIDE DEF Has
  <2>. QED  BY <2>2, <2>7
<1>3. N = Nat
  <2>. HIDE DEF Has
  <2>. QED  BY <1>1, <1>2, NatSetInduction
<1>4. \A n \in Nat : Has(n)
  <2>. HIDE DEF Has
  <2>. QED  BY <1>3
<1>. QED  BY <1>4

(* The samples o are of the first n messages of q, in order, and all of    *)
(* them if the interval i is 0.                                            *)
Gated(o, q, n, i) ==
  /\ o \in Seq(VersionedSamples)
  /\ \A a \in 1..Len(o) : \E k \in 1..n : o[a] = q[k].data
  /\ \A a, b \in 1..Len(o) : a < b => Before(o[a], o[b])
  /\ i = 0 => \A k \in 1..n : \E a \in 1..Len(o) : o[a] = q[k].data

(* What the gate lets through is a part of the deque in its order, and all *)
(* of it if there is no rate.                                              *)
LEMMA AdmitFacts ==
  ASSUME NEW q, Len(q) \in Nat, \A k \in 1..Len(q) : q[k].data \in VersionedSamples,
         \A k, m \in 1..Len(q) : k < m => Before(q[k].data, q[m].data), NEW last, NEW i
  PROVE  Gated(Admit(q, last, i).out, q, Len(q), i)
<1>. DEFINE V == VersionedSamples
            L == Len(q)
            gate == CHOOSE g : g = [k \in 0..L |-> GateStep(q, last, i, g, k)]
            Good(o, n) == Gated(o, q, n, i)
<1>1. gate = [k \in 0..L |-> GateStep(q, last, i, gate, k)]
  BY GateExists
<1>2. Admit(q, last, i) = gate[L]
  BY DEF Admit, GateStep
<1>. HIDE DEF gate
<1>3. ASSUME NEW o, NEW n \in Nat, n + 1 \in 1..L, Good(o, n)
      PROVE  Good(Append(o, q[n + 1].data), n + 1)
  <2>. USE DEF Gated
  <2>. DEFINE d == q[n + 1].data
              p == Append(o, d)
  <2>1. d \in V /\ o \in Seq(V)
    BY <1>3
  <2>. HIDE DEF V, d
  <2>2. /\ p \in Seq(V) /\ Len(p) = Len(o) + 1 /\ p[Len(o) + 1] = d /\ Len(o) \in Nat
        /\ \A a \in 1..Len(o) : p[a] = o[a] /\ a \in 1..Len(p)
    BY <2>1
  <2>. HIDE DEF p
  <2>3. \A a \in 1..Len(p) : a \in 1..Len(o) \/ a = Len(o) + 1
    BY <2>2
  <2>4. /\ \A k \in 1..n : k \in 1..(n + 1) /\ k \in 1..L /\ k < n + 1
        /\ \A k \in 1..(n + 1) : k \in 1..n \/ k = n + 1
        /\ n + 1 \in 1..(n + 1)
    BY <1>3
  <2>5. \A a \in 1..Len(p) : \E k \in 1..(n + 1) : p[a] = q[k].data
    BY <1>3, <2>2, <2>3, <2>4 DEF d
  <2>6. ASSUME NEW a \in 1..Len(p), NEW b \in 1..Len(p), a < b PROVE Before(p[a], p[b])
    <3>1. a \in 1..Len(o)
      BY <2>2, <2>3, <2>6
    <3>2. CASE b \in 1..Len(o)
      BY <1>3, <2>2, <2>6, <3>1, <3>2
    <3>3. CASE b = Len(o) + 1
      <4>1. PICK k \in 1..n : o[a] = q[k].data
        BY <1>3, <3>1
      <4>. QED  BY <1>3, <2>2, <2>4, <3>1, <3>3, <4>1 DEF d
    <3>. QED  BY <2>3, <3>2, <3>3
  <2>7. i = 0 => \A k \in 1..(n + 1) : \E a \in 1..Len(p) : p[a] = q[k].data
    <3>1. Len(o) + 1 \in 1..Len(p)
      BY <2>2
    <3>. QED  BY <1>3, <2>2, <2>4, <3>1 DEF d
  <2>8. Good(p, n + 1)
    BY <2>2, <2>5, <2>6, <2>7 DEF V
  <2>. QED  BY <2>8 DEF p, d
<1>4. ASSUME NEW o, NEW n \in Nat, Good(o, n), i # 0 PROVE Good(o, n + 1)
  <2>1. \A k \in 1..n : k \in 1..(n + 1)
    OBVIOUS
  <2>. QED  BY <1>4, <2>1 DEF Gated
<1>5. Good(<<>>, 0)
  <2>1. <<>> \in Seq(V) /\ 1..Len(<<>>) = {} /\ 1..0 = {}
    OBVIOUS
  <2>. QED  BY <2>1 DEF Gated
<1>. HIDE DEF Good
<1>. DEFINE P(n) == n \in 0..L => Good(gate[n].out, n)
            S == {n \in Nat : P(n)}
<1>6. 0 \in S
  <2>1. 0 \in 0..L
    OBVIOUS
  <2>2. gate[0] = [out |-> <<>>, last_sent |-> last]
    BY <1>1, <2>1 DEF GateStep
  <2>. QED  BY <1>5, <2>2
<1>7. ASSUME NEW n \in S PROVE n + 1 \in S
  <2>. SUFFICES ASSUME n + 1 \in 0..L PROVE Good(gate[n + 1].out, n + 1)
    OBVIOUS
  <2>1. n \in Nat /\ n \in 0..L /\ n + 1 \in 1..L /\ n + 1 # 0 /\ (n + 1) - 1 = n
    BY <1>7
  <2>2. Good(gate[n].out, n)
    BY <1>7, <2>1
  <2>3. gate[n + 1] = GateStep(q, last, i, gate, n + 1)
    BY <1>1
  <2>4. \/ gate[n + 1].out = Append(gate[n].out, q[n + 1].data)
        \/ i # 0 /\ gate[n + 1].out = gate[n].out
    BY <2>1, <2>3 DEF GateStep
  <2>. QED  BY <1>3, <1>4, <2>1, <2>2, <2>4
<1>8. S = Nat
  <2>. HIDE DEF P
  <2>. QED  BY <1>6, <1>7, NatSetInduction
<1>9. Good(gate[L].out, L)
  <2>1. L \in S /\ L \in 0..L
    BY <1>8
  <2>. QED  BY <2>1
<1>. QED  BY <1>2, <1>9 DEF Good

(* What a cycle sends to the holders: parts of the deque in its order; a   *)
(* sample that is left out is recorded as withheld.                        *)
LEMMA PublishFacts ==
  ASSUME StreamInv, Publish
  PROVE  \E out \in [holders -> Seq(VersionedSamples)] :
           /\ delivered' = [c \in Clients |->
                 IF c \in holders THEN delivered[c] \o out[c] ELSE delivered[c]]
           /\ withheld \subseteq withheld'
           /\ \A c \in holders :
                /\ \A a \in 1..Len(out[c]) : \E k \in 1..Len(Buffered) : out[c][a] = Buffered[k].data
                /\ \A a, b \in 1..Len(out[c]) : a < b => Before(out[c][a], out[c][b])
                /\ \A k \in 1..Len(Buffered) : Buffered[k].data.version \in 1..MaxVersions =>
                     \/ \E a \in 1..Len(out[c]) : out[c][a] = Buffered[k].data
                     \/ <<c, Buffered[k].data.version>> \in withheld'
<1>. DEFINE B == Buffered
            A(c, rep) == Admit(B, last_sent[rep[c]], interval[c])
<1>1. PICK rep \in Groupings :
        LET gate == [c \in DOMAIN rep |-> A(c, rep)]
        IN  /\ delivered' = [c \in Clients |->
                 IF c \in holders THEN delivered[c] \o gate[c].out ELSE delivered[c]]
            /\ withheld' = withheld \cup {p \in holders \X (1..MaxVersions) :
                 /\ interval[p[1]] # 0
                 /\ \E m \in SeqSet(B) : m.data.version = p[2] /\ m.data \notin SeqSet(gate[p[1]].out)}
  BY DEF Publish, Buffered
<1>2. holders \subseteq DOMAIN rep
  BY DEF Groupings
<1>. DEFINE out == [c \in holders |-> A(c, rep).out]
<1>3. /\ Len(B) \in Nat /\ DOMAIN B = 1..Len(B)
      /\ \A k \in 1..Len(B) : B[k].data \in VersionedSamples
      /\ \A k, m \in 1..Len(B) : k < m => Before(B[k].data, B[m].data)
  BY LatchedAssumption DEF StreamInv, BufferInv, TypeOK, BufferOrder, Buffered
<1>. HIDE DEF B
<1>4. ASSUME NEW c \in holders
      PROVE  /\ out[c] \in Seq(VersionedSamples)
             /\ \A a \in 1..Len(out[c]) : \E k \in 1..Len(B) : out[c][a] = B[k].data
             /\ \A a, b \in 1..Len(out[c]) : a < b => Before(out[c][a], out[c][b])
             /\ interval[c] = 0 => \A k \in 1..Len(B) : \E a \in 1..Len(out[c]) : out[c][a] = B[k].data
  <2>. DEFINE o == Admit(B, last_sent[rep[c]], interval[c]).out
  <2>1. Gated(o, B, Len(B), interval[c])
    BY <1>3, AdmitFacts
  <2>2. out[c] = o
    OBVIOUS
  <2>. HIDE DEF o, out
  <2>. QED  BY <2>1, <2>2 DEF Gated
<1>. HIDE DEF A
<1>5. \A c \in holders : [d \in DOMAIN rep |-> A(d, rep)][c].out = out[c]
  BY <1>2
<1>6. delivered' = [c \in Clients |->
        IF c \in holders THEN delivered[c] \o out[c] ELSE delivered[c]]
  BY <1>1, <1>5
<1>7. withheld' = withheld \cup {p \in holders \X (1..MaxVersions) :
        /\ interval[p[1]] # 0
        /\ \E m \in SeqSet(B) : m.data.version = p[2] /\ m.data \notin SeqSet(out[p[1]])}
  BY <1>1, <1>5
<1>. HIDE DEF out
<1>8. ASSUME NEW c \in holders, NEW k \in 1..Len(B), B[k].data.version \in 1..MaxVersions,
             ~ \E a \in 1..Len(out[c]) : out[c][a] = B[k].data
      PROVE  <<c, B[k].data.version>> \in withheld'
  <2>1. interval[c] # 0
    BY <1>4, <1>8
  <2>2. DOMAIN out[c] = 1..Len(out[c])
    BY <1>4
  <2>3. B[k] \in SeqSet(B) /\ B[k].data \notin SeqSet(out[c])
    BY <1>3, <1>8, <2>2 DEF SeqSet
  <2>. QED  BY <1>7, <1>8, <2>1, <2>3
<1>9. out \in [holders -> Seq(VersionedSamples)]
  BY <1>4 DEF out
<1>10. withheld \subseteq withheld'
  BY <1>7
<1>. QED  BY <1>4, <1>6, <1>8, <1>9, <1>10 DEF B

(* The publish cycle moves the deque to the end of what was sent.          *)
LEMMA PublishKeepsOrder ==
  ASSUME StreamInv, Publish
  PROVE  (ArrivalOrder /\ BufferOrder /\ DeliveryDomain /\ DeliveryOrder /\ JoinState)'
<1>. DEFINE B == Len(Buffered)
<1>1. /\ UNCHANGED <<latched_topics, newest, version, inflight, subscription, inbox, holders,
                     pc, client, on_loop>>
      /\ topic_buffers' = [t \in Topics |-> <<>>]
      /\ pc = "idle" \/ ~on_loop
  BY DEF Publish, MoveMessages, ddsVars, joinVars
<1>2. ArrivalOrder'
  BY <1>1, QuietOrders
<1>3. Buffered' = <<>> /\ Newest' = Newest /\ 1..Len(Buffered') = {}
  BY <1>1, LatchedAssumption DEF Buffered, Newest
<1>4. BufferOrder'
  BY <1>3 DEF BufferOrder
<1>5. JoinState'
  BY <1>1 DEF StreamInv, JoinState, live
<1>6. B \in Nat /\ \A k \in 1..B : Buffered[k].data \in VersionedSamples
  BY LatchedAssumption DEF StreamInv, BufferInv, TypeOK, BufferOrder, Buffered
<1>7. PICK sent \in [holders -> Seq(VersionedSamples)] :
        /\ delivered' = [c \in Clients |-> IF c \in holders THEN delivered[c] \o sent[c] ELSE delivered[c]]
        /\ \A c \in holders :
             /\ \A a \in 1..Len(sent[c]) : \E k \in 1..B : sent[c][a] = Buffered[k].data
             /\ \A a, b \in 1..Len(sent[c]) : a < b => Before(sent[c][a], sent[c][b])
  BY PublishFacts
<1>8. ASSUME NEW c \in Clients
      PROVE  /\ delivered'[c] \in Seq(VersionedSamples)
             /\ \A i \in 1..Len(delivered'[c]) : Newest # NoMessage /\ UpTo(delivered'[c][i], Newest.data)
             /\ \A i, j \in 1..Len(delivered'[c]) : i < j => Before(delivered'[c][i], delivered'[c][j])
  <2>. DEFINE q == delivered[c]
              D == Len(q)
              out == sent[c]
              O == Len(out)
  <2>1. q \in Seq(VersionedSamples) /\ D \in Nat
    BY DEF StreamInv, DeliveryOrder
  <2>2. /\ \A i \in 1..D : Newest # NoMessage /\ UpTo(q[i], Newest.data)
        /\ \A i, j \in 1..D : i < j => Before(q[i], q[j])
        /\ \A i \in 1..D, n \in 1..B : Before(q[i], Buffered[n].data)
    BY DEF StreamInv, DeliveryOrder
  <2>4. CASE c \notin holders
    <3>1. delivered'[c] = q
      BY <1>7, <2>4
    <3>. QED  BY <2>1, <2>2, <3>1
  <2>5. CASE c \in holders
    <3>1. /\ delivered'[c] = q \o out /\ out \in Seq(VersionedSamples) /\ O \in Nat
          /\ \A a \in 1..O : \E k \in 1..B : out[a] = Buffered[k].data
          /\ \A n, m \in 1..O : n < m => Before(out[n], out[m])
      <4>1. delivered'[c] = q \o out
        BY <1>7, <2>5, Zenon
      <4>2. out \in Seq(VersionedSamples) /\ O \in Nat
        BY <2>5
      <4>3. /\ \A a \in 1..O : \E k \in 1..B : out[a] = Buffered[k].data
            /\ \A n, m \in 1..O : n < m => Before(out[n], out[m])
        BY <1>7, <2>5, Zenon
      <4>. QED  BY <4>1, <4>2, <4>3, Zenon
    <3>. HIDE DEF q, out
    <3>2. /\ q \o out \in Seq(VersionedSamples) /\ Len(q \o out) = D + O
          /\ \A i \in 1..D : (q \o out)[i] = q[i]
          /\ \A i \in (D + 1)..(D + O) : (q \o out)[i] = out[i - D] /\ i - D \in 1..O
      BY <2>1, <3>1
    <3>. DEFINE r == q \o out
    <3>. HIDE DEF r, B, O, D
    <3>3. \A i \in 1..Len(r) : i \in 1..D \/ i \in (D + 1)..(D + O)
      BY <2>1, <3>1, <3>2 DEF r
    <3>4. /\ \A a \in 1..O : Newest # NoMessage /\ UpTo(out[a], Newest.data)
          /\ \A i \in 1..D, a \in 1..O : Before(q[i], out[a])
      <4>1. \A k \in 1..B : Newest # NoMessage /\ UpTo(Buffered[k].data, Newest.data)
        BY DEF StreamInv, BufferOrder, B
      <4>. QED  BY <2>2, <3>1, <4>1
    <3>5. \A i \in 1..Len(r) : Newest # NoMessage /\ UpTo(r[i], Newest.data)
      BY <2>2, <3>2, <3>3, <3>4 DEF r
    <3>6. ASSUME NEW i \in 1..Len(r), NEW j \in 1..Len(r), i < j PROVE Before(r[i], r[j])
      <4>1. CASE i \in 1..D /\ j \in 1..D
        BY <2>2, <3>2, <3>6, <4>1 DEF r
      <4>2. CASE i \in 1..D /\ j \in (D + 1)..(D + O)
        BY <3>2, <3>4, <4>2 DEF r
      <4>3. CASE i \in (D + 1)..(D + O) /\ j \in (D + 1)..(D + O)
        <5>1. i - D < j - D
          BY <2>1, <3>1, <3>6
        <5>. QED  BY <3>1, <3>2, <4>3, <5>1 DEF r
      <4>. QED  BY <2>1, <3>1, <3>3, <3>6, <4>1, <4>2, <4>3
    <3>. QED  BY <3>1, <3>2, <3>5, <3>6 DEF r
  <2>. QED  BY <2>4, <2>5
<1>9. DeliveryDomain'
  BY <1>7 DEF DeliveryDomain
<1>10. DeliveryOrder'
  BY <1>3, <1>8 DEF DeliveryOrder, UpTo, Before
<1>. QED  BY <1>2, <1>4, <1>5, <1>9, <1>10

(* All of it holds throughout.                                             *)
LEMMA StreamInvariant == ReplaySpec => []StreamInv
<1>1. ReplayInit => StreamInv
  <2>. SUFFICES ASSUME ReplayInit PROVE StreamInv
    OBVIOUS
  <2>1. BufferInv
    BY ClockAssumption
       DEF ReplayInit, Init, BufferInv, TypeOK, BufferEndsWithNewest, RetainedIsNewest
  <2>2. Newest = NoMessage /\ Buffered = <<>> /\ 1..Len(Buffered) = {}
    BY LatchedAssumption DEF ReplayInit, Init, Newest, Buffered
  <2>3. ArrivalOrder /\ BufferOrder /\ JoinState
    BY <2>2 DEF ReplayInit, ArrivalOrder, BufferOrder, JoinState, live
  <2>4. DeliveryDomain /\ DeliveryOrder
    <3>1. \A c \in Clients : delivered[c] = <<>> /\ 1..Len(delivered[c]) = {}
      BY DEF ReplayInit
    <3>2. <<>> \in Seq(VersionedSamples)
      OBVIOUS
    <3>3. DeliveryOrder
      BY <3>1, <3>2 DEF DeliveryOrder
    <3>. QED  BY <3>3 DEF DeliveryDomain, ReplayInit
  <2>. QED  BY <2>1, <2>3, <2>4, PipelineInit DEF StreamInv
<1>2. StreamInv /\ [ReplayNext]_allVars => StreamInv'
  <2>. SUFFICES ASSUME StreamInv, [ReplayNext]_allVars PROVE StreamInv'
    OBVIOUS
  <2>. DEFINE Orders == ArrivalOrder /\ BufferOrder /\ DeliveryOrder /\ JoinState
  <2>1. PipelineOK' /\ BufferInv'
    BY PipelineStep, BufferStep, StepKeepsInv DEF StreamInv
  <2>2. DeliveryDomain'
    <3>1. CASE JoinReplay \/ Publish \/ \E c \in Clients : JoinSubscribe(c)
      BY <3>1, JoinReplayKeepsOrder, PublishKeepsOrder, JoinSubscribeKeepsOrder
    <3>2. CASE ~(JoinReplay \/ Publish \/ \E c \in Clients : JoinSubscribe(c))
      <4>1. delivered' = delivered
        BY <3>2 DEF ReplayNext, NodePublish, IngestTake, IngestAdd, IngestOther, ClockStep, JoinLatch,
           LeaveUnsubscribe, LeaveUnlatch, EndSession, SetRate, clientVars, sentVars, allVars
      <4>. QED  BY <4>1 DEF StreamInv, DeliveryDomain
    <3>. QED  BY <3>1, <3>2
  <2>3. ASSUME NodePublish \/ IngestTake \/ IngestAdd \/ JoinReplay \/ Publish PROVE Orders'
    BY <2>3, NodePublishKeepsOrder, IngestTakeKeepsOrder, IngestAddKeepsOrder, JoinReplayKeepsOrder,
       PublishKeepsOrder DEF Orders
  <2>4. ASSUME NEW t \in Topics, IngestOther(t) PROVE Orders'
    BY <2>4, IngestOtherKeepsOrder
  <2>5. ASSUME NEW c \in Clients, JoinSubscribe(c) \/ LeaveUnsubscribe(c) PROVE Orders'
    BY <2>5, JoinSubscribeKeepsOrder, LeaveKeepsOrder
  <2>6. ASSUME (\E now \in 0..MaxTime : ClockStep(now)) \/ JoinLatch \/ LeaveUnlatch \/ UNCHANGED allVars
        PROVE  Orders'
    <3>1. UNCHANGED <<topic_buffers, newest, inbox, version, holders, inflight, subscription,
                      delivered, client, on_loop>>
      BY <2>6 DEF ClockStep, SetClock, JoinLatch, SetLatched, LeaveUnlatch, ClearLatched, ddsVars,
         clientVars, sentVars, joinVars, allVars, vars
    <3>2. JoinState'
      <4>1. CASE JoinLatch
        BY <3>1, <4>1 DEF JoinLatch, SetLatched, StreamInv, JoinState, live
      <4>2. CASE LeaveUnlatch
        BY <3>1, <4>2 DEF LeaveUnlatch, StreamInv, JoinState, live
      <4>3. CASE (\E now \in 0..MaxTime : ClockStep(now)) \/ UNCHANGED allVars
        BY <3>1, <4>3, QuietOrders DEF ClockStep, SetClock, joinVars, allVars, vars
      <4>. QED  BY <2>6, <4>1, <4>2, <4>3
    <3>. QED  BY <3>1, <3>2, QuietOrders
  <2>. HIDE DEF Orders
  <2>7. ASSUME NEW c \in Clients, EndSession(c) \/ \E i \in Intervals : SetRate(c, i) PROVE Orders'
    <3>1. UNCHANGED <<vars, ddsVars, clientVars, joinVars>>
      BY <2>7 DEF EndSession, SetRate
    <3>. QED  BY <3>1, QuietOrders DEF vars, ddsVars, clientVars, sentVars, joinVars, Orders
  <2>8. Orders'
    BY <2>3, <2>4, <2>5, <2>6, <2>7 DEF ReplayNext
  <2>. QED  BY <2>1, <2>2, <2>8 DEF StreamInv, Orders
<1>. QED  BY <1>1, <1>2, PTL DEF ReplaySpec

(* No client is sent a sample of a DDS subscription twice, whichever way:  *)
(* by the publish cycle or as a replay.                                    *)
THEOREM SamplesAreSentOnce == ReplaySpec => []NothingSentTwice
<1>1. StreamInv => NothingSentTwice
  <2>. SUFFICES ASSUME StreamInv, NEW c \in Clients,
                       NEW i \in DOMAIN delivered[c], NEW j \in DOMAIN delivered[c], i # j
                PROVE  delivered[c][i] # delivered[c][j]
    BY DEF NothingSentTwice
  <2>1. /\ delivered[c] \in Seq(VersionedSamples)
        /\ \A n, m \in 1..Len(delivered[c]) : n < m => Before(delivered[c][n], delivered[c][m])
    BY DEF StreamInv, DeliveryOrder
  <2>2. i \in 1..Len(delivered[c]) /\ j \in 1..Len(delivered[c])
    BY <2>1
  <2>3. delivered[c][i] \in VersionedSamples /\ delivered[c][j] \in VersionedSamples
    BY <2>1, <2>2
  <2>4. i < j \/ j < i
    BY <2>2
  <2>. QED  BY <2>1, <2>2, <2>3, <2>4, OrderFacts
<1>. QED  BY <1>1, StreamInvariant, PTL

-----------------------------------------------------------------------------
(* Where the current version is.                                           *)
UnderWay ==
  \/ \E i \in 1..Len(Buffered) : Buffered[i].data.version = version
  \/ inflight # NoSample /\ inflight.version = version
  \/ \E i \in 1..Len(inbox) : inbox[i] = version

CurrentIsRetained == Retained # NoMessage /\ Retained.data.version = version

WasSent(c) == \E i \in 1..Len(delivered[c]) : delivered[c][i].version = version

Joining(c) == pc \in {"latch", "replay"} /\ c = client

(* While the topic is subscribed to, the current version is under way or   *)
(* retained, or it expired when none was retained and nobody gets it.  And *)
(* a holder was sent it, gets it from the publish cycle or, while it       *)
(* joins, from the replay, unless it missed it or its rate withheld it.    *)
CurrencyInv ==
  /\ \A c \in Clients, v \in 1..MaxVersions :
       <<c, v>> \in lost => Newest # NoMessage /\ v <= Newest.data.version
  /\ live /\ version > 0 =>
       \/ UnderWay
       \/ CurrentIsRetained
       \/ Retained = NoMessage /\ \A c \in Clients : <<c, version>> \in lost
  /\ version > 0 => \A c \in holders :
       \/ UnderWay
       \/ <<c, version>> \in lost \cup withheld
       \/ Joining(c) /\ CurrentIsRetained
       \/ ~Joining(c) /\ WasSent(c)

(* The newest sample is at the end of the deque and is the retained one,   *)
(* if there are such; it has the current version if any in the deque does. *)
LEMMA NewestFacts ==
  ASSUME StreamInv
  PROVE  /\ version \in Nat
         /\ Newest # NoMessage => Newest.data.version \in Nat /\ Newest.data.version <= version
         /\ Buffered # <<>> => /\ Len(Buffered) \in 1..Len(Buffered)
                               /\ Buffered[Len(Buffered)] = Newest /\ Newest # NoMessage
         /\ Retained # NoMessage => Retained = Newest
         /\ LatchedTopic \in latched_topics /\ Buffered # <<>> => Retained # NoMessage
         /\ \A i \in 1..Len(Buffered) :
              /\ Newest # NoMessage /\ Buffered[i].data.version \in Nat
              /\ Buffered[i].data.version <= Newest.data.version
              /\ Buffered[i].data.version = version => Newest.data.version = version
<1>1. version \in Nat
  BY BoundsAssumption DEF StreamInv, PipelineOK
<1>2. Newest # NoMessage => Newest.data.version \in Nat /\ Newest.data.version <= version
  BY BoundsAssumption DEF StreamInv, ArrivalOrder, VersionedSamples
<1>3. \A i \in 1..Len(Buffered) :
        /\ Newest # NoMessage /\ Buffered[i].data.version \in Nat
        /\ Buffered[i].data.version <= Newest.data.version
  <2>1. \A i \in 1..Len(Buffered) : Buffered[i].data.version \in Nat
    BY BoundsAssumption DEF StreamInv, BufferOrder, VersionedSamples
  <2>. QED  BY <2>1 DEF StreamInv, BufferOrder, UpTo
<1>4. \A i \in 1..Len(Buffered) : Buffered[i].data.version = version => Newest.data.version = version
  BY <1>1, <1>2, <1>3
<1>5. Buffered # <<>> => Len(Buffered) \in 1..Len(Buffered) /\ Buffered[Len(Buffered)] = Newest
  <2>1. Buffered \in Seq(Messages)
    BY LatchedAssumption DEF StreamInv, BufferInv, TypeOK, Buffered
  <2>2. Buffered # <<>> => Len(Buffered) \in 1..Len(Buffered)
    BY <2>1
  <2>. QED  BY <2>2, LatchedAssumption DEF StreamInv, BufferInv, BufferEndsWithNewest, Buffered, Newest
<1>6. /\ Retained # NoMessage => Retained = Newest
      /\ LatchedTopic \in latched_topics /\ Buffered # <<>> => Retained # NoMessage
  BY LatchedAssumption DEF StreamInv, BufferInv, RetainedIsNewest, Buffered, Newest, Retained
<1>. QED  BY <1>1, <1>2, <1>3, <1>4, <1>5, <1>6

(* A version published while somebody holds the topic is in the reader.    *)
LEMMA NodePublishKeepsCurrency ==
  ASSUME StreamInv, CurrencyInv, NodePublish
  PROVE  CurrencyInv'
<1>1. /\ inbox \in Seq(0..MaxVersions) /\ version' \in 0..MaxVersions
      /\ inbox' = IF live THEN Append(inbox, version') ELSE inbox
      /\ UNCHANGED <<holders, lost, newest>>
  <2>1. inbox \in Seq(0..MaxVersions) /\ version \in 0..MaxVersions
    BY DEF StreamInv, PipelineOK
  <2>2. version' \in 0..MaxVersions
    BY <2>1, BoundsAssumption DEF NodePublish
  <2>. QED  BY <2>1, <2>2 DEF NodePublish, clientVars, sentVars, vars
<1>2. live => UnderWay'
  <2>. SUFFICES ASSUME live PROVE UnderWay'
    OBVIOUS
  <2>1. Len(inbox') \in 1..Len(inbox') /\ inbox'[Len(inbox')] = version'
    BY <1>1
  <2>. QED  BY <2>1 DEF UnderWay
<1>3. live' = live /\ (holders' # {} => live)
  BY <1>1 DEF live
<1>4. \A c \in Clients, v \in 1..MaxVersions :
        <<c, v>> \in lost' => Newest' # NoMessage /\ v <= Newest'.data.version
  BY <1>1 DEF CurrencyInv, Newest
<1>. QED  BY <1>2, <1>3, <1>4 DEF CurrencyInv

(* From the reader to the ingest thread.                                   *)
LEMMA IngestTakeKeepsCurrency ==
  ASSUME StreamInv, CurrencyInv, IngestTake
  PROVE  CurrencyInv'
<1>1. /\ inbox # <<>> /\ inbox \in Seq(0..MaxVersions) /\ inflight = NoSample
      /\ inbox' = Tail(inbox)
      /\ inflight' = [version |-> Head(inbox), subscription |-> subscription]
      /\ UNCHANGED <<topic_buffers, latched_last, newest, version, holders, delivered, lost, withheld,
                     pc, client>>
  BY DEF IngestTake, StreamInv, PipelineOK, vars, clientVars, sentVars, joinVars
<1>2. /\ Head(inbox) = inbox[1] /\ 1 \in 1..Len(inbox)
      /\ \A i \in 1..Len(inbox) : i = 1 \/ (i - 1 \in 1..Len(inbox') /\ inbox'[i - 1] = inbox[i])
  BY <1>1
<1>3. inflight' # NoSample /\ inflight'.version = inbox[1]
  <2>1. Arriving(1) \in VersionedSamples
    BY <1>2, ArrivingFacts DEF StreamInv
  <2>. QED  BY <1>1, <1>2, <2>1, NoSampleAssumption DEF Arriving
<1>4. UnderWay => UnderWay'
  <2>1. (\E i \in 1..Len(inbox) : inbox[i] = version) => UnderWay'
    BY <1>1, <1>2, <1>3 DEF UnderWay
  <2>2. (\E i \in 1..Len(Buffered) : Buffered[i].data.version = version) => UnderWay'
    BY <1>1 DEF UnderWay, Buffered
  <2>. QED  BY <1>1, <2>1, <2>2 DEF UnderWay
<1>. QED  BY <1>1, <1>4 DEF CurrencyInv, CurrentIsRetained, WasSent, Joining, live, Newest, Retained

(* What a cleanup purges is not newer than the newest.                     *)
LEMMA LoseKeepsOld ==
  ASSUME StreamInv, CurrencyInv, Lose, Newest # NoMessage => Newest' # NoMessage,
         Newest # NoMessage => Newest'.data.version \in Nat /\ Newest.data.version <= Newest'.data.version
  PROVE  /\ lost \subseteq lost'
         /\ \A c \in Clients, v \in 1..MaxVersions :
              <<c, v>> \in lost' => Newest' # NoMessage /\ v <= Newest'.data.version
         /\ \A i \in 1..Len(Buffered), c \in Clients :
              \/ Buffered[i] \in SeqSet(Buffered')
              \/ /\ c \in holders \/ Retained' = NoMessage
                 /\ holders \in SUBSET Clients
                 => <<c, Buffered[i].data.version>> \in lost'
<1>. DEFINE purged == SeqSet(Buffered) \ SeqSet(Buffered')
            missedBy == IF Retained' = NoMessage THEN Clients ELSE holders
<1>1. lost' = lost \cup (missedBy \X {m.data.version : m \in purged})
  BY DEF Lose, Buffered, Retained
<1>2. DOMAIN Buffered = 1..Len(Buffered)
  BY LatchedAssumption DEF StreamInv, BufferInv, TypeOK, Buffered
<1>3. \A m \in SeqSet(Buffered) : \E i \in 1..Len(Buffered) : m = Buffered[i]
  BY <1>2 DEF SeqSet
<1>4. \A i \in 1..Len(Buffered) : Buffered[i] \in SeqSet(Buffered)
  BY <1>2 DEF SeqSet
<1>. HIDE DEF missedBy
<1>5. ASSUME NEW c \in Clients, NEW v \in 1..MaxVersions, <<c, v>> \in lost'
      PROVE  Newest' # NoMessage /\ v <= Newest'.data.version
  <2>1. Newest # NoMessage /\ v <= Newest.data.version
    <3>1. CASE <<c, v>> \in lost
      BY <3>1 DEF CurrencyInv
    <3>2. CASE <<c, v>> \notin lost
      <4>1. PICK m \in purged : v = m.data.version
        BY <1>1, <1>5, <3>2
      <4>2. PICK i \in 1..Len(Buffered) : m = Buffered[i]
        BY <1>3, <4>1
      <4>. QED  BY <4>1, <4>2, NewestFacts
    <3>. QED  BY <3>1, <3>2
  <2>2. v \in Nat /\ Newest.data.version \in Nat /\ Newest'.data.version \in Nat
    BY <2>1, NewestFacts
  <2>. QED  BY <2>1, <2>2
<1>6. ASSUME NEW i \in 1..Len(Buffered), NEW c \in Clients, Buffered[i] \notin SeqSet(Buffered'),
             c \in holders \/ Retained' = NoMessage
      PROVE  <<c, Buffered[i].data.version>> \in lost'
  <2>1. Buffered[i] \in purged /\ c \in missedBy
    BY <1>4, <1>6 DEF missedBy
  <2>. QED  BY <1>1, <2>1
<1>. QED  BY <1>1, <1>5, <1>6

(* From the ingest thread to the deque: whatever was current is now under  *)
(* way, for what comes is not older.                                       *)
LEMMA IngestAddKeepsCurrency ==
  ASSUME StreamInv, CurrencyInv, IngestAdd
  PROVE  CurrencyInv'
<1>1. /\ inflight # NoSample /\ inflight \in VersionedSamples /\ inflight \in Samples
      /\ AddMessage(LatchedTopic, inflight) /\ Lose /\ inflight' = NoSample
      /\ UNCHANGED <<version, subscription, inbox, holders, delivered>>
  BY SamplesAssumption DEF IngestAdd, StreamInv, PipelineOK, sentVars
<1>2. /\ Len(Buffered') \in 1..Len(Buffered') /\ Buffered'[Len(Buffered')].data = inflight
      /\ Newest' # NoMessage /\ Newest'.data = inflight
  <2>. DEFINE msg == [data |-> inflight, received_at |-> clock]
  <2>1. PICK k \in 0..Len(Buffered) :
          /\ Len(Buffered') = Len(Buffered) - k + 1
          /\ Buffered'[Len(Buffered')] = msg /\ Newest' = msg
          /\ msg # NoMessage /\ msg.data = inflight
    BY <1>1, LatchedAssumption, BufferedAfterAdd DEF StreamInv
  <2>2. Len(Buffered) \in Nat
    BY LatchedAssumption DEF StreamInv, BufferInv, TypeOK, Buffered
  <2>. HIDE DEF msg
  <2>3. Len(Buffered') \in 1..Len(Buffered')
    BY <2>1, <2>2
  <2>. QED  BY <2>1, <2>3
<1>3. inflight.version \in Nat /\ inflight.version <= version
  BY <1>1, BoundsAssumption DEF StreamInv, ArrivalOrder, VersionedSamples
<1>4. Newest # NoMessage => Newest.data.version <= inflight.version
  BY <1>1 DEF StreamInv, ArrivalOrder, Before, UpTo
<1>5. \A c \in Clients, v \in 1..MaxVersions :
        <<c, v>> \in lost' => Newest' # NoMessage /\ v <= Newest'.data.version
  BY <1>1, <1>2, <1>3, <1>4, LoseKeepsOld
<1>6. ASSUME live, version > 0 PROVE UnderWay'
  <2>1. ASSUME inflight.version = version PROVE UnderWay'
    BY <1>1, <1>2, <2>1 DEF UnderWay
  <2>2. ASSUME Newest # NoMessage, version <= Newest.data.version PROVE inflight.version = version
    BY <1>3, <1>4, <2>2, NewestFacts
  <2>3. CASE \E i \in 1..Len(inbox) : inbox[i] = version
    BY <1>1, <2>3 DEF UnderWay
  <2>4. CASE \E i \in 1..Len(Buffered) : Buffered[i].data.version = version
    BY <2>1, <2>2, <2>4, NewestFacts
  <2>5. CASE CurrentIsRetained
    BY <2>1, <2>2, <2>5, NewestFacts DEF CurrentIsRetained
  <2>6. CASE \A c \in Clients : <<c, version>> \in lost
    <3>1. PICK c \in Clients : TRUE
      BY <1>6 DEF live, StreamInv, JoinState
    <3>2. version \in 1..MaxVersions
      BY <1>6, BoundsAssumption DEF StreamInv, PipelineOK
    <3>. QED  BY <2>1, <2>2, <2>6, <3>1, <3>2 DEF CurrencyInv
  <2>. QED  BY <1>6, <2>1, <2>3, <2>4, <2>5, <2>6 DEF CurrencyInv, UnderWay
<1>7. live' = live /\ version' = version /\ (holders' # {} => live)
  BY <1>1 DEF live
<1>. QED  BY <1>5, <1>6, <1>7 DEF CurrencyInv

(* A message of another topic: a purged sample is missed by all holders,   *)
(* and by everybody if it is not retained.                                 *)
LEMMA IngestOtherKeepsCurrency ==
  ASSUME StreamInv, CurrencyInv, NEW t \in Topics, IngestOther(t)
  PROVE  CurrencyInv'
<1>1. /\ t # LatchedTopic /\ Lose
      /\ UNCHANGED <<version, subscription, inbox, inflight, holders, delivered, withheld, pc, client>>
      /\ Newest' = Newest /\ Retained' = Retained
  BY LatchedAssumption DEF IngestOther, AddMessage, ddsVars, sentVars, joinVars, Newest, Retained, StreamInv,
     BufferInv, TypeOK
<1>2. /\ lost \subseteq lost'
      /\ \A c \in Clients, v \in 1..MaxVersions :
           <<c, v>> \in lost' => Newest' # NoMessage /\ v <= Newest'.data.version
      /\ \A i \in 1..Len(Buffered), c \in Clients :
           \/ Buffered[i] \in SeqSet(Buffered')
           \/ /\ c \in holders \/ Retained' = NoMessage
              /\ holders \in SUBSET Clients
              => <<c, Buffered[i].data.version>> \in lost'
  BY <1>1, NewestFacts, LoseKeepsOld
<1>3. DOMAIN Buffered' = 1..Len(Buffered')
  <2>1. BufferInv'
    BY BufferStep, StepKeepsInv DEF StreamInv, ReplayNext
  <2>. QED  BY <2>1, LatchedAssumption DEF BufferInv, TypeOK, Buffered
<1>4. holders \in SUBSET Clients
  BY DEF StreamInv, JoinState
<1>5. ASSUME UnderWay, ~UnderWay'
      PROVE  /\ \A c \in Clients : c \in holders \/ Retained = NoMessage => <<c, version>> \in lost'
             /\ Newest.data.version = version
  <2>1. PICK i \in 1..Len(Buffered) : Buffered[i].data.version = version
    BY <1>1, <1>5 DEF UnderWay
  <2>2. Buffered[i] \notin SeqSet(Buffered')
    BY <1>1, <1>3, <1>5, <2>1 DEF UnderWay, SeqSet
  <2>. QED  BY <1>1, <1>2, <1>4, <2>1, <2>2, NewestFacts
<1>6. live' = live /\ (CurrentIsRetained' <=> CurrentIsRetained)
      /\ \A c : (Joining(c)' <=> Joining(c)) /\ (WasSent(c)' <=> WasSent(c))
  BY <1>1 DEF live, CurrentIsRetained, Joining, WasSent
<1>7. ASSUME live, version > 0
      PROVE  \/ UnderWay'
             \/ CurrentIsRetained
             \/ Retained = NoMessage /\ \A c \in Clients : <<c, version>> \in lost'
  <2>1. CASE UnderWay
    BY <1>5, <2>1, NewestFacts DEF CurrentIsRetained
  <2>2. CASE ~UnderWay
    BY <1>2, <1>7, <2>2 DEF CurrencyInv
  <2>. QED  BY <2>1, <2>2
<1>8. ASSUME version > 0, NEW c \in holders
      PROVE  \/ UnderWay'
             \/ <<c, version>> \in lost' \cup withheld'
             \/ Joining(c) /\ CurrentIsRetained
             \/ ~Joining(c) /\ WasSent(c)
  <2>1. CASE UnderWay
    BY <1>4, <1>5, <2>1
  <2>2. CASE ~UnderWay
    BY <1>1, <1>2, <1>8, <2>2 DEF CurrencyInv
  <2>. QED  BY <2>1, <2>2
<1>. QED  BY <1>1, <1>2, <1>6, <1>7, <1>8 DEF CurrencyInv

(* A client joins: a fresh subscription redelivers the current version;    *)
(* otherwise it is where it was before.                                    *)
LEMMA JoinSubscribeKeepsCurrency ==
  ASSUME StreamInv, CurrencyInv, NEW c \in Clients, JoinSubscribe(c)
  PROVE  CurrencyInv'
<1>1. /\ UNCHANGED <<topic_buffers, latched_last, newest, version, inflight>>
      /\ pc = "idle" /\ pc' = "latch" /\ client' = c /\ holders' = holders \cup {c}
      /\ delivered' = [delivered EXCEPT ![c] = <<>>]
  BY DEF JoinSubscribe, vars
<1>2. Buffered' = Buffered /\ Newest' = Newest /\ Retained' = Retained /\ version' = version
  BY <1>1 DEF Buffered, Newest, Retained
<1>3. lost' \subseteq lost
  BY DEF JoinSubscribe
<1>4. \A e \in Clients, v \in 1..MaxVersions :
        <<e, v>> \in lost' => Newest' # NoMessage /\ v <= Newest'.data.version
  BY <1>2, <1>3 DEF CurrencyInv
<1>5. ASSUME ~live, version > 0 PROVE UnderWay'
  <2>1. inbox' = <<version>>
    BY <1>5, NewestFacts DEF JoinSubscribe, live
  <2>2. 1 \in 1..Len(inbox') /\ inbox'[1] = version
    BY <2>1
  <2>. QED  BY <1>2, <2>2 DEF UnderWay
<1>6. ASSUME live, version > 0
      PROVE  /\ \/ UnderWay'
                \/ CurrentIsRetained'
                \/ Retained' = NoMessage /\ \A e \in Clients : <<e, version>> \in lost'
             /\ \A e \in holders' :
                  \/ UnderWay'
                  \/ <<e, version>> \in lost' \cup withheld'
                  \/ Joining(e)' /\ CurrentIsRetained'
                  \/ ~Joining(e)' /\ WasSent(e)'
  <2>1. /\ inbox' = inbox
        /\ Retained = NoMessage => lost' = lost
        /\ \A e \in Clients :
             e # c /\ <<e, version>> \in lost \cup withheld => <<e, version>> \in lost' \cup withheld'
    BY <1>6 DEF JoinSubscribe, live, Retained
  <2>2. (UnderWay' <=> UnderWay) /\ (CurrentIsRetained' <=> CurrentIsRetained)
    BY <1>1, <1>2, <2>1 DEF UnderWay, CurrentIsRetained
  <2>3. \/ UnderWay
        \/ CurrentIsRetained
        \/ Retained = NoMessage /\ \A e \in Clients : <<e, version>> \in lost
    BY <1>6 DEF CurrencyInv
  <2>4. \/ UnderWay'
        \/ CurrentIsRetained'
        \/ Retained' = NoMessage /\ \A e \in Clients : <<e, version>> \in lost'
    BY <1>2, <2>1, <2>2, <2>3
  <2>5. Joining(c)'
    BY <1>1 DEF Joining
  <2>6. ASSUME NEW e \in holders, e # c
        PROVE  UnderWay' \/ <<e, version>> \in lost' \cup withheld' \/ (~Joining(e)' /\ WasSent(e)')
    <3>1. e \in Clients /\ ~Joining(e) /\ ~Joining(e)'
      BY <1>1, <2>6 DEF Joining, StreamInv, JoinState
    <3>2. delivered'[e] = delivered[e]
      BY <1>1, <2>6, <3>1 DEF StreamInv, DeliveryDomain
    <3>3. WasSent(e) => WasSent(e)'
      BY <1>1, <3>2 DEF WasSent
    <3>. QED  BY <1>6, <2>1, <2>2, <2>6, <3>1, <3>3 DEF CurrencyInv
  <2>. QED  BY <1>1, <2>4, <2>5, <2>6
<1>. QED  BY <1>2, <1>4, <1>5, <1>6 DEF CurrencyInv

(* set_latched retains the newest: if the current version was lost, then   *)
(* the newest is not older.                                                *)
LEMMA JoinLatchKeepsCurrency ==
  ASSUME StreamInv, CurrencyInv, JoinLatch
  PROVE  CurrencyInv'
<1>1. /\ UNCHANGED <<topic_buffers, newest, version, inflight, inbox, holders, delivered, lost, withheld,
                     client>>
      /\ pc = "latch" /\ pc' = "replay"
  BY DEF JoinLatch, SetLatched, ddsVars, clientVars, sentVars
<1>2. Buffered' = Buffered /\ Newest' = Newest /\ live' = live /\ (UnderWay' <=> UnderWay)
  BY <1>1 DEF Buffered, Newest, UnderWay, live
<1>3. \A c : (Joining(c)' <=> Joining(c)) /\ (WasSent(c)' <=> WasSent(c))
  BY <1>1 DEF Joining, WasSent
<1>4. \/ Retained' = Retained
      \/ Retained = NoMessage /\ Buffered # <<>> /\ Retained' = Buffered[Len(Buffered)]
  BY LatchedAssumption DEF JoinLatch, SetLatched, Retained, Buffered, StreamInv, BufferInv, TypeOK
<1>5. CurrentIsRetained => CurrentIsRetained'
  BY <1>1, <1>4 DEF CurrentIsRetained
<1>6. ASSUME live, version > 0, \A c \in Clients : <<c, version>> \in lost, Retained = NoMessage
      PROVE  CurrentIsRetained' \/ Retained' = NoMessage
  <2>1. CASE Retained' = Retained
    BY <1>6, <2>1
  <2>2. CASE Buffered # <<>> /\ Retained' = Buffered[Len(Buffered)]
    <3>1. Retained' = Newest /\ Newest # NoMessage
      BY <2>2, NewestFacts
    <3>2. PICK c \in Clients : TRUE
      BY <1>6 DEF live, StreamInv, JoinState
    <3>3. version \in 1..MaxVersions
      BY <1>6, BoundsAssumption DEF StreamInv, PipelineOK
    <3>4. version <= Newest.data.version
      BY <1>6, <3>2, <3>3 DEF CurrencyInv
    <3>5. Newest.data.version = version
      BY <3>1, <3>4, NewestFacts
    <3>. QED  BY <1>1, <3>1, <3>5 DEF CurrentIsRetained
  <2>. QED  BY <1>4, <2>1, <2>2
<1>7. /\ \A c \in Clients, v \in 1..MaxVersions :
           <<c, v>> \in lost' => Newest' # NoMessage /\ v <= Newest'.data.version
      /\ live' /\ version' > 0 =>
           \/ UnderWay'
           \/ CurrentIsRetained'
           \/ Retained' = NoMessage /\ \A c \in Clients : <<c, version'>> \in lost'
  BY <1>1, <1>2, <1>5, <1>6 DEF CurrencyInv
<1>. QED  BY <1>1, <1>2, <1>3, <1>5, <1>7 DEF CurrencyInv

(* The replay sends the retained sample, or leaves it to the cycle.        *)
LEMMA JoinReplayKeepsCurrency ==
  ASSUME StreamInv, CurrencyInv, JoinReplay
  PROVE  CurrencyInv'
<1>1. /\ UNCHANGED <<topic_buffers, latched_last, newest, version, inflight, inbox, holders, lost,
                     withheld>>
      /\ pc = "replay" /\ pc' = "idle"
  BY DEF JoinReplay, vars, ddsVars
<1>2. /\ Newest' = Newest /\ Retained' = Retained /\ live' = live
      /\ (UnderWay' <=> UnderWay) /\ (CurrentIsRetained' <=> CurrentIsRetained)
  BY <1>1 DEF Buffered, Newest, Retained, UnderWay, CurrentIsRetained, live
<1>3. client \in Clients /\ delivered[client] = <<>>
  BY <1>1 DEF StreamInv, JoinState
<1>4. \A c : ~Joining(c)' /\ (Joining(c) <=> c = client)
  BY <1>1 DEF Joining
<1>5. ASSUME NEW c \in Clients, c # client, WasSent(c) PROVE WasSent(c)'
  <2>1. delivered'[c] = delivered[c]
    BY <1>3, <1>5 DEF JoinReplay, StreamInv, DeliveryDomain
  <2>. QED  BY <1>1, <1>5, <2>1 DEF WasSent
<1>6. ASSUME CurrentIsRetained, NEW c \in Clients, c = client PROVE UnderWay \/ WasSent(c)'
  <2>1. CASE Buffered # <<>>
    <3>1. Buffered[Len(Buffered)] = Retained /\ Len(Buffered) \in 1..Len(Buffered)
      BY <1>6, <2>1, NewestFacts DEF CurrentIsRetained
    <3>. QED  BY <1>6, <3>1 DEF UnderWay, CurrentIsRetained
  <2>2. CASE Buffered = <<>>
    <3>1. delivered' = [delivered EXCEPT ![client] = Append(@, Retained.data)]
      BY <1>6, <2>2 DEF JoinReplay, LatchedForReplay, Buffered, Retained, CurrentIsRetained
    <3>2. delivered'[c] = <<Retained.data>>
      BY <1>3, <1>6, <3>1 DEF StreamInv, DeliveryDomain
    <3>3. 1 \in 1..Len(delivered'[c]) /\ delivered'[c][1] = Retained.data
      BY <3>2
    <3>. QED  BY <1>1, <1>6, <3>3 DEF WasSent, CurrentIsRetained
  <2>. QED  BY <2>1, <2>2
<1>7. holders \in SUBSET Clients
  BY DEF StreamInv, JoinState
<1>8. /\ \A c \in Clients, v \in 1..MaxVersions :
           <<c, v>> \in lost' => Newest' # NoMessage /\ v <= Newest'.data.version
      /\ live' /\ version' > 0 =>
           \/ UnderWay'
           \/ CurrentIsRetained'
           \/ Retained' = NoMessage /\ \A c \in Clients : <<c, version'>> \in lost'
  BY <1>1, <1>2 DEF CurrencyInv
<1>9. ASSUME version > 0, NEW c \in holders
      PROVE  UnderWay' \/ <<c, version>> \in lost' \cup withheld' \/ WasSent(c)'
  <2>1. \/ UnderWay
        \/ <<c, version>> \in lost \cup withheld
        \/ Joining(c) /\ CurrentIsRetained
        \/ ~Joining(c) /\ WasSent(c)
    BY <1>9 DEF CurrencyInv
  <2>. QED  BY <1>1, <1>2, <1>4, <1>5, <1>6, <1>7, <2>1
<1>. QED  BY <1>1, <1>4, <1>8, <1>9 DEF CurrencyInv

(* A client leaves: the others keep what they had.                         *)
LEMMA LeaveKeepsCurrency ==
  ASSUME StreamInv, CurrencyInv, NEW c \in Clients, LeaveUnsubscribe(c)
  PROVE  CurrencyInv'
<1>1. /\ UNCHANGED <<topic_buffers, latched_last, newest, version, inflight, delivered, lost, withheld>>
      /\ pc = "idle" /\ holders' = holders \ {c} /\ c \in holders
      /\ holders' # {} => inbox' = inbox /\ pc' = "idle"
  BY DEF LeaveUnsubscribe, vars
<1>2. /\ Newest' = Newest /\ Retained' = Retained /\ (CurrentIsRetained' <=> CurrentIsRetained)
      /\ \A e : WasSent(e)' <=> WasSent(e)
  BY <1>1 DEF Newest, Retained, CurrentIsRetained, WasSent
<1>3. holders' # {} => /\ (UnderWay' <=> UnderWay) /\ live
                       /\ \A e : ~Joining(e) /\ ~Joining(e)'
  BY <1>1 DEF UnderWay, Buffered, live, Joining
<1>4. live' <=> holders' # {}
  BY DEF live
<1>5. \A e \in holders' : e \in holders /\ holders' # {}
  BY <1>1
<1>. QED  BY <1>1, <1>2, <1>3, <1>4, <1>5 DEF CurrencyInv

(* The publish cycle sends the deque to all holders, but for what a rate   *)
(* withholds; nobody is joining, and what was in the deque stays retained. *)
LEMMA PublishKeepsCurrency ==
  ASSUME StreamInv, CurrencyInv, Publish
  PROVE  CurrencyInv'
<1>1. /\ UNCHANGED <<latched_last, newest, version, inflight, inbox, holders, lost, pc, client>>
      /\ pc = "idle" \/ ~on_loop
  BY DEF Publish, MoveMessages, ddsVars, joinVars
<1>2. /\ Newest' = Newest /\ Retained' = Retained /\ live' = live
      /\ CurrentIsRetained' <=> CurrentIsRetained
  BY <1>1 DEF Newest, Retained, live, CurrentIsRetained
<1>3. pc \notin {"latch", "replay"} /\ \A c : ~Joining(c) /\ ~Joining(c)'
  BY <1>1 DEF Joining, StreamInv, JoinState
<1>4. UnderWay => UnderWay' \/ \E i \in 1..Len(Buffered) : Buffered[i].data.version = version
  BY <1>1 DEF UnderWay
<1>5. ASSUME live, NEW i \in 1..Len(Buffered), Buffered[i].data.version = version
      PROVE  CurrentIsRetained
  <2>1. Newest.data.version = version /\ Newest # NoMessage
    BY <1>5, NewestFacts
  <2>2. Buffered # <<>>
    BY <1>5
  <2>3. LatchedTopic \in latched_topics
    BY <1>3, <1>5 DEF StreamInv, JoinState
  <2>4. Retained = Newest
    BY <2>2, <2>3, NewestFacts
  <2>. QED  BY <2>1, <2>4 DEF CurrentIsRetained
<1>6. ASSUME NEW c \in holders
      PROVE  /\ WasSent(c) => WasSent(c)'
             /\ <<c, version>> \in withheld => <<c, version>> \in withheld'
             /\ \A k \in 1..Len(Buffered) : version > 0 /\ Buffered[k].data.version = version =>
                  WasSent(c)' \/ <<c, version>> \in withheld'
  <2>. DEFINE q == delivered[c]
              V == VersionedSamples
  <2>1. c \in Clients /\ q \in Seq(V)
    BY DEF StreamInv, JoinState, DeliveryOrder
  <2>2. PICK sent \in [holders -> Seq(V)] :
          /\ delivered' = [e \in Clients |->
                IF e \in holders THEN delivered[e] \o sent[e] ELSE delivered[e]]
          /\ withheld \subseteq withheld'
          /\ \A k \in 1..Len(Buffered) : Buffered[k].data.version \in 1..MaxVersions =>
               \/ \E a \in 1..Len(sent[c]) : sent[c][a] = Buffered[k].data
               \/ <<c, Buffered[k].data.version>> \in withheld'
    BY PublishFacts
  <2>. DEFINE out == sent[c]
  <2>3. delivered'[c] = q \o out /\ out \in Seq(V)
    BY <2>1, <2>2
  <2>. HIDE DEF V, out, q
  <2>4. /\ \A i \in 1..Len(q) : i \in 1..Len(q \o out) /\ (q \o out)[i] = q[i]
        /\ \A n \in 1..Len(out) : Len(q) + n \in 1..Len(q \o out) /\ (q \o out)[Len(q) + n] = out[n]
    BY <2>1, <2>3
  <2>5. WasSent(c) => WasSent(c)'
    BY <1>1, <2>3, <2>4 DEF WasSent, q
  <2>6. ASSUME NEW k \in 1..Len(Buffered), version > 0, Buffered[k].data.version = version
        PROVE  WasSent(c)' \/ <<c, version>> \in withheld'
    <3>1. version \in 1..MaxVersions
      BY <2>6, BoundsAssumption DEF StreamInv, PipelineOK
    <3>2. CASE <<c, version>> \in withheld'
      BY <3>2
    <3>3. CASE \E a \in 1..Len(out) : out[a] = Buffered[k].data
      <4>1. PICK a \in 1..Len(out) : out[a].version = version
        BY <2>6, <3>3
      <4>. QED  BY <1>1, <2>3, <2>4, <4>1 DEF WasSent
    <3>. QED  BY <2>2, <2>6, <3>1, <3>2, <3>3 DEF out
  <2>. QED  BY <2>2, <2>5, <2>6
<1>7. /\ \A c \in Clients, v \in 1..MaxVersions :
           <<c, v>> \in lost' => Newest' # NoMessage /\ v <= Newest'.data.version
      /\ live' /\ version' > 0 =>
           \/ UnderWay'
           \/ CurrentIsRetained'
           \/ Retained' = NoMessage /\ \A c \in Clients : <<c, version'>> \in lost'
  BY <1>1, <1>2, <1>4, <1>5 DEF CurrencyInv
<1>8. ASSUME version > 0, NEW c \in holders
      PROVE  UnderWay' \/ <<c, version>> \in lost' \cup withheld' \/ WasSent(c)'
  BY <1>1, <1>3, <1>4, <1>6, <1>8 DEF CurrencyInv
<1>. QED  BY <1>1, <1>3, <1>7, <1>8 DEF CurrencyInv

(* The rest leaves the samples and the holders alone, or there are none.   *)
LEMMA CurrencyInvariant == ReplaySpec => [](StreamInv /\ CurrencyInv)
<1>1. ReplayInit => CurrencyInv
  BY DEF ReplayInit, CurrencyInv, live
<1>2. StreamInv /\ CurrencyInv /\ [ReplayNext]_allVars => CurrencyInv'
  <2>. SUFFICES ASSUME StreamInv, CurrencyInv, [ReplayNext]_allVars PROVE CurrencyInv'
    OBVIOUS
  <2>1. CASE NodePublish \/ IngestTake \/ IngestAdd \/ \E t \in Topics : IngestOther(t)
    BY <2>1, NodePublishKeepsCurrency, IngestTakeKeepsCurrency, IngestAddKeepsCurrency,
       IngestOtherKeepsCurrency
  <2>2. CASE \/ \E c \in Clients : JoinSubscribe(c) \/ LeaveUnsubscribe(c)
             \/ JoinLatch \/ JoinReplay \/ Publish
    BY <2>2, JoinSubscribeKeepsCurrency, LeaveKeepsCurrency, JoinLatchKeepsCurrency,
       JoinReplayKeepsCurrency, PublishKeepsCurrency
  <2>3. CASE LeaveUnlatch
    <3>1. UNCHANGED <<newest, version, holders, lost>> /\ holders = {}
      BY <2>3 DEF LeaveUnlatch, ClearLatched, ddsVars, clientVars, sentVars, StreamInv, JoinState, live
    <3>. QED  BY <3>1 DEF CurrencyInv, Newest, live
  <2>4. CASE \/ \E now \in 0..MaxTime : ClockStep(now)
             \/ \E c \in Clients : EndSession(c) \/ \E i \in Intervals : SetRate(c, i)
             \/ UNCHANGED allVars
    <3>1. UNCHANGED <<topic_buffers, latched_last, newest, version, inbox, inflight, holders,
                      delivered, lost, withheld, pc, client>>
      BY <2>4 DEF ClockStep, SetClock, EndSession, SetRate, ddsVars, clientVars, sentVars, joinVars, allVars, vars
    <3>. QED  BY <3>1 DEF CurrencyInv, UnderWay, CurrentIsRetained, WasSent, Joining, live, Newest,
                          Retained, Buffered
  <2>. QED  BY <2>1, <2>2, <2>3, <2>4 DEF ReplayNext
<1>. QED  BY <1>1, <1>2, StreamInvariant, PTL DEF ReplaySpec

(* When nothing is under way, every client of the latched topic has been   *)
(* sent the current sample, by DDS redelivery and the publish cycle or by  *)
(* a replay, except one that expired unsent or that the rate the client    *)
(* asked for withheld from it.                                             *)
THEOREM HoldersStayCurrent == ReplaySpec => []EveryHolderIsCurrent
<1>1. StreamInv /\ CurrencyInv => EveryHolderIsCurrent
  <2>. SUFFICES ASSUME StreamInv, CurrencyInv, pc = "idle", inbox = <<>>, inflight = NoSample,
                       Buffered = <<>>, NEW c \in holders, version > 0
                PROVE  \/ \E i \in DOMAIN delivered[c] : delivered[c][i].version = version
                       \/ <<c, version>> \in lost
                       \/ <<c, version>> \in withheld
    BY DEF EveryHolderIsCurrent, Buffered
  <2>1. ~UnderWay
    BY DEF UnderWay
  <2>2. DOMAIN delivered[c] = 1..Len(delivered[c])
    BY DEF StreamInv, JoinState, DeliveryOrder
  <2>. QED  BY <2>1, <2>2 DEF CurrencyInv, Joining, WasSent
<1>. QED  BY <1>1, CurrencyInvariant, PTL

=============================================================================
