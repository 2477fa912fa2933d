------------------------- MODULE BridgeServerProofs -------------------------
(***************************************************************************)
(* Proofs about BridgeServer, for any finite sets of clients and topics.   *)
(*                                                                         *)
(* None of the safety properties is inductive alone: that a reference is   *)
(* never counted twice needs the snapshot handle_subscribe took before the *)
(* lock to be still valid under it, which needs the client it serves to be *)
(* a known one, and so on.  Their conjunction, with HandlerContext, is.    *)
(***************************************************************************)
EXTENDS BridgeServer, FiniteSetTheorems, TLAPS

IInv ==
  /\ TypeOK
  /\ RefCountMatchesHolders
  /\ SessionConsistent
  /\ LatchedFollowsSubscription
  /\ NoReplayStrands
  /\ ToldIsTrue
  /\ BacklogBelongsToSession
  /\ HandlerContext

-----------------------------------------------------------------------------
(* How a step can move references.                                         *)

Takes(c, T) ==
  /\ T \cap ref_held[c] = {}
  /\ reference_count' = [t \in Topics |-> reference_count[t] + IF t \in T THEN 1 ELSE 0]
  /\ ref_held' = [ref_held EXCEPT ![c] = @ \cup T]

Drops(c, T) ==
  /\ T \subseteq ref_held[c]
  /\ reference_count' = [t \in Topics |-> reference_count[t] - IF t \in T THEN 1 ELSE 0]
  /\ ref_held' = [ref_held EXCEPT ![c] = @ \ T]

(* The holders of a topic are a finite set, so their number is a natural   *)
(* number, zero exactly for nobody and one exactly for a single client.    *)
LEMMA HoldersFinite ==
  ASSUME NEW t \in Topics
  PROVE  /\ IsFiniteSet(Holders(t))
         /\ Cardinality(Holders(t)) \in Nat
         /\ Cardinality(Holders(t)) = 0 <=> Holders(t) = {}
         /\ \A c \in Holders(t) : Cardinality(Holders(t)) = 1 <=> Holders(t) = {c}
<1>1. IsFiniteSet(Holders(t))
  BY FS_Subset, ClientsAssumption DEF Holders
<1>2. Cardinality(Holders(t)) \in Nat
  BY <1>1, FS_CardinalityType
<1>3. Cardinality(Holders(t)) = 0 <=> Holders(t) = {}
  BY <1>1, FS_EmptySet
<1>4. ASSUME NEW c \in Holders(t)
      PROVE  Cardinality(Holders(t)) = 1 <=> Holders(t) = {c}
  <2>1. Cardinality(Holders(t)) = 1 => Holders(t) = {c}
    <3>1. CASE Cardinality(Holders(t)) = 1
      <4>1. Cardinality(Holders(t) \ {c}) = 0
        BY <1>1, <1>2, <3>1, FS_RemoveElement
      <4>2. IsFiniteSet(Holders(t) \ {c})
        BY <1>1, FS_RemoveElement
      <4>3. Holders(t) \ {c} = {}
        BY <4>1, <4>2, FS_EmptySet
      <4>. QED  BY <4>3
    <3>. QED  BY <3>1
  <2>2. Cardinality({c}) = 1
    BY FS_Singleton
  <2>. QED  BY <2>1, <2>2
<1>. QED  BY <1>1, <1>2, <1>3, <1>4

(* Whoever takes or drops references moves the count of each topic with    *)
(* the number of its holders.                                              *)
LEMMA TakeKeepsCount ==
  ASSUME TypeOK, RefCountMatchesHolders,
         NEW c \in Clients, NEW T \in SUBSET Topics, Takes(c, T)
  PROVE  RefCountMatchesHolders'
<1>. SUFFICES ASSUME NEW t \in Topics
              PROVE  reference_count'[t] = Cardinality(Holders(t)')
  BY DEF RefCountMatchesHolders
<1>1. CASE t \in T
  <2>1. Holders(t)' = Holders(t) \cup {c}
    BY <1>1 DEF Takes, TypeOK, Holders
  <2>2. c \notin Holders(t)
    BY <1>1 DEF Takes, Holders
  <2>3. Cardinality(Holders(t) \cup {c}) = Cardinality(Holders(t)) + 1
    BY <2>2, HoldersFinite, FS_AddElement
  <2>. QED  BY <1>1, <2>1, <2>3 DEF Takes, RefCountMatchesHolders
<1>2. CASE t \notin T
  <2>1. Holders(t)' = Holders(t)
    BY <1>2 DEF Takes, TypeOK, Holders
  <2>. QED  BY <1>2, <2>1, HoldersFinite DEF Takes, RefCountMatchesHolders
<1>. QED  BY <1>1, <1>2

(* Releasing references one client holds (CleanupSession, pause,           *)
(* unsubscribe) keeps the counts equal to the number of holders and        *)
(* natural.                                                                *)
LEMMA DropKeepsCount ==
  ASSUME TypeOK, RefCountMatchesHolders,
         NEW c \in Clients, NEW T \in SUBSET Topics, Drops(c, T)
  PROVE  RefCountMatchesHolders' /\ reference_count' \in [Topics -> Nat]
<1>1. ASSUME NEW t \in Topics
      PROVE  reference_count'[t] = Cardinality(Holders(t)') /\ reference_count'[t] \in Nat
  <2>1. CASE t \in T
    <3>1. Holders(t)' = Holders(t) \ {c}
      BY <2>1 DEF Drops, TypeOK, Holders
    <3>2. c \in Holders(t)
      BY <2>1 DEF Drops, Holders
    <3>3. Cardinality(Holders(t) \ {c}) = Cardinality(Holders(t)) - 1
      BY <3>2, HoldersFinite, FS_RemoveElement
    <3>4. Cardinality(Holders(t) \ {c}) \in Nat
      BY HoldersFinite, FS_RemoveElement, FS_CardinalityType
    <3>. QED  BY <2>1, <3>1, <3>3, <3>4 DEF Drops, RefCountMatchesHolders
  <2>2. CASE t \notin T
    <3>1. Holders(t)' = Holders(t)
      BY <2>2 DEF Drops, TypeOK, Holders
    <3>. QED  BY <2>2, <3>1, HoldersFinite DEF Drops, RefCountMatchesHolders
  <2>. QED  BY <2>1, <2>2
<1>. QED  BY <1>1 DEF RefCountMatchesHolders, Drops

(* The actions that take references, drop them, or leave them alone.       *)
LEMMA StepMovesRefs ==
  ASSUME IInv, [Next]_vars
  PROVE  \/ UNCHANGED <<reference_count, ref_held>>
         \/ \E c \in Clients, T \in SUBSET Topics : Takes(c, T)
         \/ \E c \in Clients, T \in SUBSET Topics : Drops(c, T)
<1>. USE DEF IInv, subVars, sessVars
<1>1. ASSUME NEW c \in Clients, CleanupSession(c)
      PROVE  Drops(c, ref_held[c])
  BY <1>1 DEF CleanupSession, ReleaseRefs, Drops, TypeOK
<1>2. CASE SubscribeLocked
  <2>1. client \in Clients /\ topics \cap ref_held[client] = {}
    BY <1>2 DEF SubscribeLocked, HandlerContext, SessionConsistent
  <2>2. CASE client \in paused
    BY <1>2, <2>2 DEF SubscribeLocked
  <2>3. CASE client \notin paused
    <3>1. PICK acquired \in CanAcquire(topics) :
            /\ AcquireRefs(acquired)
            /\ ref_held' = [ref_held EXCEPT ![client] = @ \cup acquired]
      BY <1>2, <2>3 DEF SubscribeLocked
    <3>2. Takes(client, acquired) /\ acquired \in SUBSET Topics
      BY <2>1, <3>1 DEF Takes, AcquireRefs, CanAcquire, TypeOK
    <3>. QED  BY <2>1, <3>2
  <2>. QED  BY <2>2, <2>3
<1>3. CASE UnsubscribeLocked
  <2>1. PICK requested \in SUBSET Topics :
          /\ ReleaseRefs(ref_held[client] \cap requested)
          /\ ref_held' = [ref_held EXCEPT ![client] = @ \ requested]
    BY <1>3 DEF UnsubscribeLocked
  <2>2. client \in Clients
    BY <1>3 DEF UnsubscribeLocked, HandlerContext
  <2>3. Drops(client, ref_held[client] \cap requested)
    BY <2>1, <2>2 DEF Drops, ReleaseRefs, TypeOK
  <2>. QED  BY <2>2, <2>3
<1>4. CASE PauseLocked
  <2>1. client \in Clients
    BY <1>4 DEF PauseLocked, HandlerContext
  <2>2. CASE client \in paused
    BY <1>4, <2>2 DEF PauseLocked
  <2>3. CASE client \notin paused
    <3>1. Drops(client, ref_held[client])
      BY <1>4, <2>1, <2>3 DEF PauseLocked, Drops, ReleaseRefs, TypeOK
    <3>. QED  BY <2>1, <3>1 DEF TypeOK
  <2>. QED  BY <2>2, <2>3
<1>5. CASE ResumeLocked
  <2>1. client \in Clients
    BY <1>5 DEF ResumeLocked, HandlerContext
  <2>2. CASE client \notin paused
    BY <1>5, <2>2 DEF ResumeLocked
  <2>3. CASE client \in paused
    <3>1. PICK acquired \in SUBSET (subscribed[client] \ ref_held[client]) :
            /\ AcquireRefs(acquired)
            /\ ref_held' = [ref_held EXCEPT ![client] = @ \cup acquired]
      BY <1>5, <2>3 DEF ResumeLocked, CanAcquire
    <3>2. Takes(client, acquired) /\ acquired \in SUBSET Topics
      BY <2>1, <3>1 DEF Takes, AcquireRefs, TypeOK
    <3>. QED  BY <2>1, <3>2
  <2>. QED  BY <2>2, <2>3
<1>6. ASSUME NEW c \in Clients, WebSocketThread(c)
      PROVE  UNCHANGED <<reference_count, ref_held>> \/ Drops(c, ref_held[c])
  BY <1>1, <1>6 DEF WebSocketThread, CloseCleanup, CloseDrop, CloseErase
<1>7. CASE CleanupLocked
  <2>1. PICK c \in targets : CleanupSession(c)
    BY <1>7 DEF CleanupLocked
  <2>. QED  BY <1>1, <2>1 DEF TypeOK
<1>8. ASSUME NEW c \in Clients, Connect(c) \/ QueueRequest(c) \/ Disconnect(c) \/ Age(c)
      PROVE  UNCHANGED <<reference_count, ref_held>>
  BY <1>8 DEF Connect, QueueRequest, Disconnect, Age
<1>9. Requests => UNCHANGED <<reference_count, ref_held>>
  BY DEF Requests, EmptyRequest, RejectRequest, TouchRequest, BeginRequest, TakeRequest, EnsureSession
<1>10. CASE SubscribeSnapshot \/ SubscribeSessionGone \/ ReplySent \/ ReplyFailed
            \/ FlushTake \/ FlushSend \/ CleanupDrop \/ PublishSend
            \/ CheckTimeouts \/ PublishSnapshot \/ PublishPausedState
  BY <1>10 DEF SubscribeSnapshot, SubscribeSessionGone, ReplySent, ReplyFailed, FlushTake,
               FlushSend, CleanupDrop, PublishSend, CheckTimeouts, PublishSnapshot, PublishPausedState
<1>11. CASE UNCHANGED vars
  BY <1>11 DEF vars
<1>. QED
  BY <1>2, <1>3, <1>4, <1>5, <1>6, <1>7, <1>8, <1>9, <1>10, <1>11 DEF Next, LoopStep, TypeOK

-----------------------------------------------------------------------------
(* The reference counts.                                                   *)
LEMMA RefCountStep ==
  ASSUME IInv, [Next]_vars
  PROVE  RefCountMatchesHolders' /\ reference_count' \in [Topics -> Nat]
<1>. USE DEF IInv
<1>1. CASE UNCHANGED <<reference_count, ref_held>>
  <2>1. \A t \in Topics : Holders(t)' = Holders(t)
    BY <1>1 DEF Holders
  <2>. QED  BY <1>1, <2>1 DEF TypeOK, RefCountMatchesHolders
<1>2. ASSUME NEW c \in Clients, NEW T \in SUBSET Topics, Takes(c, T)
      PROVE  RefCountMatchesHolders' /\ reference_count' \in [Topics -> Nat]
  <2>1. RefCountMatchesHolders'
    BY <1>2, TakeKeepsCount
  <2>2. reference_count' = [t \in Topics |-> reference_count[t] + IF t \in T THEN 1 ELSE 0]
    BY <1>2 DEF Takes
  <2>3. \A t \in Topics : reference_count[t] + (IF t \in T THEN 1 ELSE 0) \in Nat
    BY DEF TypeOK
  <2>. QED  BY <2>1, <2>2, <2>3
<1>3. ASSUME NEW c \in Clients, NEW T \in SUBSET Topics, Drops(c, T)
      PROVE  RefCountMatchesHolders' /\ reference_count' \in [Topics -> Nat]
  BY <1>3, DropKeepsCount
<1>. QED  BY <1>1, <1>2, <1>3, StepMovesRefs

-----------------------------------------------------------------------------
(* Every variable keeps its type.                                          *)
LEMMA TypeStep ==
  ASSUME IInv, [Next]_vars
  PROVE  TypeOK'
<1>. USE RefCountStep DEF IInv, TypeOK, PcStates, ConnStates,
                         mwVars, sessVars, subVars, loopVars
<1>1. ASSUME NEW c \in Clients, CleanupSession(c)
      PROVE  /\ sessions' \in SUBSET Clients /\ paused' \in SUBSET Clients
             /\ stale' \in SUBSET Clients
             /\ subscribed' \in [Clients -> SUBSET Topics]
             /\ ref_held' \in [Clients -> SUBSET Topics]
             /\ pending_replays' \in [Clients -> SUBSET Topics]
             /\ transient_local' \in SUBSET Topics /\ latched_topics' \in SUBSET Topics
  BY <1>1 DEF CleanupSession, ReleaseRefs
<1>2. ASSUME NEW c \in Clients, Connect(c) \/ Disconnect(c) \/ Age(c)
      PROVE  TypeOK'
  BY <1>2 DEF Connect, Disconnect, Age
<1>3. ASSUME NEW c \in Clients, QueueRequest(c)
      PROVE  TypeOK'
  BY <1>3 DEF QueueRequest
<1>4. ASSUME NEW c \in Clients, WebSocketThread(c)
      PROVE  TypeOK'
  <2>1. CASE CloseCleanup(c)
    BY <1>1, <2>1 DEF CloseCleanup
  <2>2. CASE CloseDrop(c) \/ CloseErase(c)
    BY <2>2 DEF CloseDrop, CloseErase
  <2>. QED  BY <1>4, <2>1, <2>2 DEF WebSocketThread
<1>5. CASE Requests
  <2>1. /\ incoming_queue # <<>>
        /\ client' \in {client, Head(incoming_queue)}
        /\ incoming_queue' = Tail(incoming_queue)
        /\ pc' \in PcStates
        /\ UNCHANGED <<conn, pending_frames, subVars, pending_replays, topics, reported, targets>>
    BY <1>5 DEF Requests, EmptyRequest, RejectRequest, TouchRequest, BeginRequest, TakeRequest
  <2>2. /\ client' \in Clients \cup {NoClient}
        /\ Head(incoming_queue) \in Clients
        /\ incoming_queue' \in Seq(Clients)
    BY <2>1
  <2>3. UNCHANGED sessVars \/ EnsureSession(Head(incoming_queue))
    BY <1>5, <2>1 DEF Requests, EmptyRequest, RejectRequest, TouchRequest, BeginRequest
  <2>. QED  BY <2>1, <2>2, <2>3 DEF EnsureSession
<1>6. CASE SubscribeSnapshot \/ SubscribeSessionGone \/ ReplySent \/ ReplyFailed \/ FlushTake
  BY <1>6 DEF SubscribeSnapshot, SubscribeSessionGone, ReplySent, ReplyFailed, FlushTake,
              HandlerContext
<1>7. CASE SubscribeLocked
  <2>1. client \in Clients
    BY <1>7 DEF SubscribeLocked, HandlerContext
  <2>2. CASE client \in paused
    BY <1>7, <2>1, <2>2 DEF SubscribeLocked
  <2>3. CASE client \notin paused
    <3>1. PICK acquired \in SUBSET topics :
            /\ AcquireRefs(acquired)
            /\ subscribed' = [subscribed EXCEPT ![client] = @ \cup acquired]
            /\ ref_held' = [ref_held EXCEPT ![client] = @ \cup acquired]
            /\ reported' = acquired
            /\ \E retained \in SUBSET (acquired \cap transient_local') :
                 pending_replays' = [pending_replays EXCEPT ![client] = @ \cup retained]
      BY <1>7, <2>3 DEF SubscribeLocked, CanAcquire
    <3>2. transient_local' \in SUBSET Topics /\ latched_topics' \in SUBSET Topics
      BY <3>1 DEF AcquireRefs
    <3>3. pending_replays' \in [Clients -> SUBSET Topics]
      BY <2>1, <3>1
    <3>. QED  BY <1>7, <3>1, <3>2, <3>3 DEF SubscribeLocked
  <2>. QED  BY <2>2, <2>3
<1>8. CASE UnsubscribeLocked
  <2>1. transient_local' \in SUBSET Topics /\ latched_topics' \in SUBSET Topics
    BY <1>8 DEF UnsubscribeLocked, ReleaseRefs
  <2>2. PICK requested \in SUBSET Topics :
          /\ subscribed' = [subscribed EXCEPT ![client] = @ \ requested]
          /\ ref_held' = [ref_held EXCEPT ![client] = @ \ requested]
    BY <1>8 DEF UnsubscribeLocked
  <2>. QED  BY <1>8, <2>1, <2>2 DEF UnsubscribeLocked
<1>9. CASE PauseLocked
  BY <1>9 DEF PauseLocked, ReleaseRefs
<1>10. CASE ResumeLocked
  <2>1. client \in Clients
    BY <1>10 DEF ResumeLocked, HandlerContext
  <2>2. CASE client \notin paused
    BY <1>10, <2>2 DEF ResumeLocked
  <2>3. CASE client \in paused
    <3>1. PICK acquired \in SUBSET subscribed[client] :
            /\ AcquireRefs(acquired)
            /\ ref_held' = [ref_held EXCEPT ![client] = @ \cup acquired]
            /\ \E retained \in SUBSET (acquired \cap transient_local') :
                 pending_replays' = [pending_replays EXCEPT ![client] = @ \cup retained]
      BY <1>10, <2>3 DEF ResumeLocked, CanAcquire
    <3>2. transient_local' \in SUBSET Topics /\ latched_topics' \in SUBSET Topics
      BY <2>1, <3>1 DEF AcquireRefs
    <3>3. pending_replays' \in [Clients -> SUBSET Topics]
      BY <2>1, <3>1
    <3>. QED  BY <1>10, <2>1, <2>3, <3>1, <3>2, <3>3 DEF ResumeLocked
  <2>. QED  BY <2>2, <2>3
<1>11. CASE CleanupLocked
  BY <1>1, <1>11 DEF CleanupLocked
<1>12. CASE FlushSend \/ CleanupDrop \/ PublishSend \/ CheckTimeouts \/ PublishSnapshot \/ PublishPausedState
  BY <1>12 DEF FlushSend, CleanupDrop, PublishSend, CheckTimeouts, PublishSnapshot, PublishPausedState, HandlerContext
<1>13. CASE UNCHANGED vars
  BY <1>13 DEF vars
<1>. QED
  BY <1>2, <1>3, <1>4, <1>5, <1>6, <1>7, <1>8, <1>9, <1>10, <1>11, <1>12, <1>13
     DEF Next, LoopStep

-----------------------------------------------------------------------------
(* Sessions stay consistent.                                               *)
LEMMA SessionStep ==
  ASSUME IInv, [Next]_vars
  PROVE  SessionConsistent'
<1>. USE DEF IInv, TypeOK, SessionConsistent, mwVars, sessVars, subVars, loopVars
<1>1. ASSUME NEW c \in Clients, CleanupSession(c)
      PROVE  SessionConsistent'
  BY <1>1 DEF CleanupSession
<1>2. ASSUME NEW c \in Clients, Connect(c) \/ QueueRequest(c) \/ Disconnect(c) \/ Age(c)
      PROVE  SessionConsistent'
  BY <1>2 DEF Connect, QueueRequest, Disconnect, Age
<1>3. ASSUME NEW c \in Clients, WebSocketThread(c)
      PROVE  SessionConsistent'
  BY <1>1, <1>3 DEF WebSocketThread, CloseCleanup, CloseDrop, CloseErase
<1>4. CASE Requests
  BY <1>4 DEF Requests, EmptyRequest, RejectRequest, TouchRequest, BeginRequest, TakeRequest, EnsureSession
<1>5. CASE SubscribeLocked
  <2>1. client \in Clients
    BY <1>5 DEF SubscribeLocked, HandlerContext
  <2>2. CASE client \in paused
    BY <1>5, <2>1, <2>2 DEF SubscribeLocked
  <2>3. CASE client \notin paused
    <3>1. PICK acquired \in SUBSET topics :
            /\ subscribed' = [subscribed EXCEPT ![client] = @ \cup acquired]
            /\ ref_held' = [ref_held EXCEPT ![client] = @ \cup acquired]
      BY <1>5, <2>3 DEF SubscribeLocked, CanAcquire
    <3>. QED  BY <1>5, <2>1, <2>3, <3>1 DEF SubscribeLocked
  <2>. QED  BY <2>2, <2>3
<1>6. CASE UnsubscribeLocked
  <2>1. PICK requested \in SUBSET Topics :
          /\ subscribed' = [subscribed EXCEPT ![client] = @ \ requested]
          /\ ref_held' = [ref_held EXCEPT ![client] = @ \ requested]
    BY <1>6 DEF UnsubscribeLocked
  <2>. QED  BY <1>6, <2>1 DEF UnsubscribeLocked
<1>7. CASE PauseLocked
  BY <1>7 DEF PauseLocked, HandlerContext
<1>8. CASE ResumeLocked
  <2>1. client \in Clients
    BY <1>8 DEF ResumeLocked, HandlerContext
  <2>2. CASE client \notin paused
    BY <1>8, <2>2 DEF ResumeLocked
  <2>3. CASE client \in paused
    <3>1. PICK acquired \in SUBSET subscribed[client] :
            ref_held' = [ref_held EXCEPT ![client] = @ \cup acquired]
      BY <1>8, <2>3 DEF ResumeLocked, CanAcquire
    <3>. QED  BY <1>8, <2>1, <2>3, <3>1 DEF ResumeLocked
  <2>. QED  BY <2>2, <2>3
<1>9. CASE CleanupLocked
  BY <1>1, <1>9 DEF CleanupLocked
<1>10. CASE SubscribeSnapshot \/ SubscribeSessionGone \/ ReplySent \/ ReplyFailed
            \/ FlushTake \/ FlushSend \/ CleanupDrop \/ PublishSend
            \/ CheckTimeouts \/ PublishSnapshot \/ PublishPausedState
  BY <1>10 DEF SubscribeSnapshot, SubscribeSessionGone, ReplySent, ReplyFailed, FlushTake,
               FlushSend, CleanupDrop, PublishSend, CheckTimeouts, PublishSnapshot, PublishPausedState
<1>11. CASE UNCHANGED vars
  BY <1>11 DEF vars
<1>. QED
  BY <1>2, <1>3, <1>4, <1>5, <1>6, <1>7, <1>8, <1>9, <1>10, <1>11 DEF Next, LoopStep

-----------------------------------------------------------------------------
(* Latched state follows the subscriptions.                                *)

(* ReleaseRefs clears the latched state of exactly the topics whose count  *)
(* reaches 0; AcquireRefs sets it for live subscriptions only.             *)
LEMMA ReleaseKeepsLatched ==
  ASSUME TypeOK, LatchedFollowsSubscription, NEW T \in SUBSET Topics, ReleaseRefs(T),
         reference_count' \in [Topics -> Nat]
  PROVE  LatchedFollowsSubscription'
BY DEF TypeOK, LatchedFollowsSubscription, ReleaseRefs

(* Taking references keeps the latched topics equal to the transient_local *)
(* subscriptions.                                                          *)
LEMMA AcquireKeepsLatched ==
  ASSUME TypeOK, LatchedFollowsSubscription, NEW T \in SUBSET Topics, AcquireRefs(T)
  PROVE  LatchedFollowsSubscription'
<1>1. PICK offered \in SUBSET {t \in T : reference_count[t] = 0} :
        transient_local' = transient_local \cup offered
  BY DEF AcquireRefs
<1>2. latched_topics' = transient_local'
  BY <1>1 DEF AcquireRefs, LatchedFollowsSubscription
<1>3. \A t \in transient_local' : reference_count'[t] > 0
  BY <1>1 DEF AcquireRefs, LatchedFollowsSubscription, TypeOK
<1>. QED  BY <1>2, <1>3 DEF LatchedFollowsSubscription

(* The latched topics follow the subscriptions through every step.         *)
LEMMA LatchedStep ==
  ASSUME IInv, [Next]_vars
  PROVE  LatchedFollowsSubscription'
<1>. USE DEF IInv, mwVars, sessVars, subVars, loopVars
<1>1. reference_count' \in [Topics -> Nat]
  BY RefCountStep
<1>2. ASSUME NEW c \in Clients, CleanupSession(c)
      PROVE  LatchedFollowsSubscription'
  BY <1>1, <1>2, ReleaseKeepsLatched DEF CleanupSession, TypeOK
<1>3. CASE UNCHANGED subVars
  BY <1>3 DEF LatchedFollowsSubscription
<1>4. ASSUME NEW c \in Clients, Connect(c) \/ QueueRequest(c) \/ Disconnect(c) \/ Age(c)
      PROVE  UNCHANGED subVars
  BY <1>4 DEF Connect, QueueRequest, Disconnect, Age
<1>5. ASSUME NEW c \in Clients, WebSocketThread(c)
      PROVE  LatchedFollowsSubscription'
  BY <1>2, <1>3, <1>5 DEF WebSocketThread, CloseCleanup, CloseDrop, CloseErase
<1>6. Requests => UNCHANGED subVars
  BY DEF Requests, EmptyRequest, RejectRequest, TouchRequest, BeginRequest, TakeRequest
<1>7. CASE SubscribeLocked
  <2>1. CASE client \in paused
    BY <1>3, <1>7, <2>1 DEF SubscribeLocked
  <2>2. CASE client \notin paused
    <3>1. PICK acquired \in SUBSET topics : AcquireRefs(acquired)
      BY <1>7, <2>2 DEF SubscribeLocked, CanAcquire
    <3>. QED  BY <3>1, AcquireKeepsLatched DEF TypeOK
  <2>. QED  BY <2>1, <2>2
<1>8. CASE UnsubscribeLocked
  <2>1. PICK requested \in SUBSET Topics : ReleaseRefs(ref_held[client] \cap requested)
    BY <1>8 DEF UnsubscribeLocked
  <2>. QED  BY <1>1, <2>1, ReleaseKeepsLatched
<1>9. CASE PauseLocked
  <2>1. CASE client \in paused
    BY <1>3, <1>9, <2>1 DEF PauseLocked
  <2>2. CASE client \notin paused
    <3>1. ref_held[client] \in SUBSET Topics /\ ReleaseRefs(ref_held[client])
      BY <1>9, <2>2 DEF PauseLocked, HandlerContext, TypeOK
    <3>. QED  BY <1>1, <3>1, ReleaseKeepsLatched
  <2>. QED  BY <2>1, <2>2
<1>10. CASE ResumeLocked
  <2>1. CASE client \notin paused
    BY <1>3, <1>10, <2>1 DEF ResumeLocked
  <2>2. CASE client \in paused
    <3>1. PICK acquired \in SUBSET subscribed[client] : AcquireRefs(acquired)
      BY <1>10, <2>2 DEF ResumeLocked, CanAcquire
    <3>2. acquired \in SUBSET Topics
      BY <1>10, <3>1 DEF ResumeLocked, HandlerContext, TypeOK
    <3>. QED  BY <3>1, <3>2, AcquireKeepsLatched
  <2>. QED  BY <2>1, <2>2
<1>11. CASE CleanupLocked
  BY <1>2, <1>11 DEF CleanupLocked, TypeOK
<1>12. CASE SubscribeSnapshot \/ SubscribeSessionGone \/ ReplySent \/ ReplyFailed
            \/ FlushTake \/ FlushSend \/ CleanupDrop \/ PublishSend
            \/ CheckTimeouts \/ PublishSnapshot \/ PublishPausedState
  BY <1>3, <1>12 DEF SubscribeSnapshot, SubscribeSessionGone, ReplySent, ReplyFailed, FlushTake,
               FlushSend, CleanupDrop, PublishSend, CheckTimeouts, PublishSnapshot, PublishPausedState
<1>13. CASE UNCHANGED vars
  BY <1>3, <1>13 DEF vars
<1>. QED
  BY <1>3, <1>4, <1>5, <1>6, <1>7, <1>8, <1>9, <1>10, <1>11, <1>12, <1>13 DEF Next, LoopStep

-----------------------------------------------------------------------------
(* Replay frames, responses and backlogs.                                  *)

(* A step leaves replay frames only with the client being served.          *)
LEMMA ReplayStep ==
  ASSUME IInv, [Next]_vars
  PROVE  /\ NoReplayStrands'
         /\ \A c \in Clients : pending_replays'[c] \subseteq ref_held'[c]
<1>. DEFINE Goal == /\ NoReplayStrands'
                    /\ \A c \in Clients : pending_replays'[c] \subseteq ref_held'[c]
<1>. USE DEF IInv, TypeOK, NoReplayStrands, HandlerContext, mwVars, sessVars, subVars, loopVars
<1>1. CASE UNCHANGED <<pending_replays, ref_held, pc, client>>
  BY <1>1
<1>2. ASSUME NEW c \in Clients, Connect(c) \/ QueueRequest(c) \/ Disconnect(c) \/ Age(c)
      PROVE  Goal
  BY <1>1, <1>2 DEF Connect, QueueRequest, Disconnect, Age
<1>3. ASSUME NEW c \in Clients, WebSocketThread(c)
      PROVE  Goal
  <2>1. CASE CloseCleanup(c)
    BY <2>1 DEF CloseCleanup, CleanupSession
  <2>2. CASE CloseDrop(c) \/ CloseErase(c)
    BY <1>1, <2>2 DEF CloseDrop, CloseErase
  <2>. QED  BY <1>3, <2>1, <2>2 DEF WebSocketThread
<1>4. CASE Requests
  BY <1>4 DEF Requests, EmptyRequest, RejectRequest, TouchRequest, BeginRequest, TakeRequest, EnsureSession
<1>5. CASE SubscribeLocked
  <2>1. client \in Clients /\ \A c \in Clients : pending_replays[c] = {}
    BY <1>5 DEF SubscribeLocked
  <2>2. CASE client \in paused
    BY <1>5, <2>1, <2>2 DEF SubscribeLocked
  <2>3. CASE client \notin paused
    <3>1. PICK acquired \in SUBSET topics :
            /\ ref_held' = [ref_held EXCEPT ![client] = @ \cup acquired]
            /\ \E retained \in SUBSET (acquired \cap transient_local') :
                 pending_replays' = [pending_replays EXCEPT ![client] = @ \cup retained]
      BY <1>5, <2>3 DEF SubscribeLocked, CanAcquire
    <3>. QED  BY <1>5, <2>1, <3>1 DEF SubscribeLocked
  <2>. QED  BY <2>2, <2>3
<1>6. CASE UnsubscribeLocked
  <2>1. \A c \in Clients : pending_replays'[c] = {}
    BY <1>6 DEF UnsubscribeLocked
  <2>. QED  BY <2>1
<1>7. CASE PauseLocked
  <2>1. \A c \in Clients : pending_replays'[c] = {}
    BY <1>7 DEF PauseLocked
  <2>. QED  BY <2>1
<1>8. CASE ResumeLocked
  <2>1. client \in Clients /\ \A c \in Clients : pending_replays[c] = {}
    BY <1>8 DEF ResumeLocked
  <2>2. CASE client \notin paused
    BY <1>8, <2>1, <2>2 DEF ResumeLocked
  <2>3. CASE client \in paused
    <3>1. PICK acquired \in SUBSET subscribed[client] :
            /\ ref_held' = [ref_held EXCEPT ![client] = @ \cup acquired]
            /\ \E retained \in SUBSET (acquired \cap transient_local') :
                 pending_replays' = [pending_replays EXCEPT ![client] = @ \cup retained]
      BY <1>8, <2>3 DEF ResumeLocked, CanAcquire
    <3>. QED  BY <1>8, <2>1, <3>1 DEF ResumeLocked
  <2>. QED  BY <2>2, <2>3
<1>9. CASE CleanupLocked
  <2>1. PICK c \in targets : CleanupSession(c)
    BY <1>9 DEF CleanupLocked
  <2>2. \A d \in Clients : pending_replays[d] # {} => d = c
    BY <1>9, <2>1, ClientsAssumption DEF CleanupLocked
  <2>3. \A d \in Clients : pending_replays'[d] = {}
    BY <2>1, <2>2 DEF CleanupSession
  <2>. QED  BY <2>3
<1>10. CASE ReplySent \/ ReplyFailed
  BY <1>10 DEF ReplySent, ReplyFailed
<1>11. CASE FlushTake
  BY <1>11 DEF FlushTake
<1>12. CASE SubscribeSnapshot \/ SubscribeSessionGone \/ FlushSend \/ CleanupDrop \/ PublishSend
            \/ CheckTimeouts \/ PublishSnapshot \/ PublishPausedState
  BY <1>12 DEF SubscribeSnapshot, SubscribeSessionGone, FlushSend, CleanupDrop, PublishSend,
               CheckTimeouts, PublishSnapshot, PublishPausedState
<1>13. CASE UNCHANGED vars
  BY <1>1, <1>13 DEF vars
<1>. QED
  BY <1>2, <1>3, <1>4, <1>5, <1>6, <1>7, <1>8, <1>9, <1>10, <1>11, <1>12, <1>13
     DEF Next, LoopStep

(* What a response reports, and what is replayed after it, stays true      *)
(* until it is sent.                                                       *)
LEMMA ToldStep ==
  ASSUME IInv, [Next]_vars
  PROVE  ToldIsTrue'
<1>. USE DEF IInv, TypeOK, ToldIsTrue, HandlerContext, mwVars, sessVars, subVars, loopVars
<1>1. CASE pc' \notin {"reply", "flush_send"}
  BY <1>1
<1>2. ASSUME NEW c \in Clients, Connect(c) \/ QueueRequest(c) \/ Disconnect(c) \/ Age(c)
      PROVE  ToldIsTrue'
  BY <1>2 DEF Connect, QueueRequest, Disconnect, Age
<1>3. ASSUME NEW c \in Clients, WebSocketThread(c)
      PROVE  ToldIsTrue'
  <2>1. CASE CloseCleanup(c)
    BY <2>1 DEF CloseCleanup, CleanupSession
  <2>2. CASE CloseDrop(c) \/ CloseErase(c)
    BY <2>2 DEF CloseDrop, CloseErase
  <2>. QED  BY <1>3, <2>1, <2>2 DEF WebSocketThread
<1>4. CASE Requests
  BY <1>4 DEF Requests, EmptyRequest, RejectRequest, TouchRequest, BeginRequest, TakeRequest
<1>5. CASE SubscribeLocked
  <2>1. client \in Clients
    BY <1>5 DEF SubscribeLocked
  <2>2. PICK recorded \in SUBSET topics :
          subscribed' = [subscribed EXCEPT ![client] = @ \cup recorded] /\ reported' = recorded
    BY <1>5 DEF SubscribeLocked, CanAcquire
  <2>. QED  BY <1>5, <2>1, <2>2 DEF SubscribeLocked
<1>6. CASE SubscribeSessionGone \/ UnsubscribeLocked \/ PauseLocked \/ ResumeLocked
  BY <1>6 DEF SubscribeSessionGone, UnsubscribeLocked, PauseLocked, ResumeLocked
<1>7. CASE FlushTake
  <2>1. client \in Clients
    BY <1>7 DEF FlushTake
  <2>2. pending_replays[client] \subseteq subscribed[client]
    BY <2>1 DEF SessionConsistent
  <2>. QED  BY <1>7, <2>2 DEF FlushTake
<1>8. CASE SubscribeSnapshot \/ ReplySent \/ ReplyFailed \/ FlushSend \/ CleanupLocked
           \/ CleanupDrop \/ PublishSend \/ CheckTimeouts \/ PublishSnapshot \/ PublishPausedState
  BY <1>1, <1>8 DEF SubscribeSnapshot, ReplySent, ReplyFailed, FlushSend, CleanupLocked,
                    CleanupDrop, PublishSend, CheckTimeouts, PublishSnapshot, PublishPausedState
<1>9. CASE UNCHANGED vars
  BY <1>9 DEF vars
<1>. QED
  BY <1>2, <1>3, <1>4, <1>5, <1>6, <1>7, <1>8, <1>9 DEF Next, LoopStep

(* A step leaves backlogs only with live sessions, or with closing         *)
(* connections.                                                            *)
LEMMA BacklogStep ==
  ASSUME IInv, [Next]_vars
  PROVE  BacklogBelongsToSession'
<1>. USE DEF IInv, TypeOK, BacklogBelongsToSession, Connected,
            mwVars, sessVars, subVars, loopVars
<1>1. ASSUME NEW c \in Clients, Connect(c) \/ QueueRequest(c) \/ Disconnect(c) \/ Age(c)
      PROVE  BacklogBelongsToSession'
  BY <1>1 DEF Connect, QueueRequest, Disconnect, Age
<1>2. ASSUME NEW c \in Clients, WebSocketThread(c)
      PROVE  BacklogBelongsToSession'
  BY <1>2 DEF WebSocketThread, CloseCleanup, CleanupSession, CloseDrop, CloseErase
<1>3. CASE Requests
  BY <1>3 DEF Requests, EmptyRequest, RejectRequest, TouchRequest, BeginRequest, TakeRequest, EnsureSession
<1>4. CASE SubscribeLocked \/ UnsubscribeLocked \/ PauseLocked \/ ResumeLocked
  BY <1>4 DEF SubscribeLocked, UnsubscribeLocked, PauseLocked, ResumeLocked
<1>5. CASE CleanupLocked
  BY <1>5 DEF CleanupLocked, CleanupSession
<1>6. CASE CleanupDrop
  BY <1>6 DEF CleanupDrop
<1>7. CASE FlushSend
  <2>1. client \in Clients
    BY <1>7 DEF FlushSend, HandlerContext
  <2>2. topics # {} /\ conn[client] = "open" => client \in sessions
    BY <1>7, <2>1 DEF FlushSend, ToldIsTrue, SessionConsistent
  <2>3. pending_frames' \subseteq pending_frames
        \/ (pending_frames' = pending_frames \cup {client} /\ topics # {} /\ client \in Connected)
    BY <1>7 DEF FlushSend
  <2>. QED  BY <1>7, <2>1, <2>2, <2>3 DEF FlushSend
<1>8. CASE PublishSend
  <2>1. PICK flushed \in SUBSET (targets \cap Connected),
             queued \in SUBSET (targets \cap Connected) :
          pending_frames' = (pending_frames \ flushed) \cup queued
    BY <1>8 DEF PublishSend
  <2>. QED  BY <1>8, <2>1 DEF PublishSend, HandlerContext
<1>9. CASE SubscribeSnapshot \/ SubscribeSessionGone \/ ReplySent \/ ReplyFailed \/ FlushTake
           \/ CheckTimeouts \/ PublishSnapshot \/ PublishPausedState
  BY <1>9 DEF SubscribeSnapshot, SubscribeSessionGone, ReplySent, ReplyFailed, FlushTake,
              CheckTimeouts, PublishSnapshot, PublishPausedState
<1>10. CASE UNCHANGED vars
  BY <1>10 DEF vars
<1>. QED
  BY <1>1, <1>2, <1>3, <1>4, <1>5, <1>6, <1>7, <1>8, <1>9, <1>10 DEF Next, LoopStep

(* What the event loop counts on between two steps survives the steps of   *)
(* the WebSocket threads.                                                  *)
LEMMA ContextStep ==
  ASSUME IInv, [Next]_vars
  PROVE  HandlerContext'
<1>. USE ReplayStep DEF IInv, TypeOK, HandlerContext, mwVars, sessVars, subVars, loopVars
<1>1. ASSUME NEW c \in Clients, Connect(c) \/ Disconnect(c) \/ Age(c)
      PROVE  HandlerContext'
  BY <1>1 DEF Connect, Disconnect, Age
<1>2. ASSUME NEW c \in Clients, QueueRequest(c)
      PROVE  HandlerContext'
  <2>1. \A d \in Clients :
          conn[d] = "new" => \A i \in 1..Len(incoming_queue') : incoming_queue'[i] # d
    BY <1>2 DEF QueueRequest
  <2>. QED  BY <1>2, <2>1 DEF QueueRequest
<1>3. ASSUME NEW c \in Clients, WebSocketThread(c)
      PROVE  HandlerContext'
  <2>1. CASE CloseCleanup(c)
    <3>1. /\ conn' = [conn EXCEPT ![c] = "dropping"]
          /\ sessions' = sessions \ {c}
          /\ subscribed' = [subscribed EXCEPT ![c] = {}]
          /\ UNCHANGED <<incoming_queue, loopVars>>
      BY <2>1 DEF CloseCleanup, CleanupSession
    <3>. QED  BY <3>1
  <2>2. CASE CloseDrop(c) \/ CloseErase(c)
    BY <2>2 DEF CloseDrop, CloseErase
  <2>. QED  BY <1>3, <2>1, <2>2 DEF WebSocketThread
<1>4. CASE Requests
  <2>1. incoming_queue # <<>> /\ pc = "idle" /\ incoming_queue' = Tail(incoming_queue)
    BY <1>4 DEF Requests, EmptyRequest, RejectRequest, TouchRequest, BeginRequest, TakeRequest
  <2>2. \A i \in 1..Len(incoming_queue') : incoming_queue'[i] = incoming_queue[i + 1]
                                           /\ i + 1 \in 1..Len(incoming_queue)
    BY <2>1
  <2>3. CASE EmptyRequest
    BY <2>1, <2>2, <2>3 DEF EmptyRequest
  <2>4. CASE ~EmptyRequest
    <3>1. /\ client' = Head(incoming_queue)
          /\ pc' \in {"subscribe", "unsubscribe", "pause", "resume", "reply"}
          /\ sessions' \subseteq sessions \cup {client'}
          /\ UNCHANGED <<conn, reported, targets>>
      BY <1>4, <2>4 DEF Requests, RejectRequest, TouchRequest, BeginRequest, TakeRequest,
                        EnsureSession
    <3>2. client' \in Clients /\ conn[client'] # "new"
      BY <2>1, <3>1
    <3>. QED  BY <2>1, <2>2, <3>1, <3>2
  <2>. QED  BY <2>3, <2>4
<1>5. CASE SubscribeSnapshot
  BY <1>5 DEF SubscribeSnapshot
<1>6. CASE SubscribeLocked \/ UnsubscribeLocked \/ PauseLocked \/ ResumeLocked
  BY <1>6 DEF SubscribeLocked, UnsubscribeLocked, PauseLocked, ResumeLocked
<1>7. CASE CleanupLocked
  <2>1. PICK c \in targets : CleanupSession(c) /\ client' = c
    BY <1>7 DEF CleanupLocked
  <2>2. client' \in Clients /\ conn[client'] # "new" /\ sessions' \subseteq sessions
    BY <2>1 DEF CleanupSession
  <2>. QED  BY <1>7, <2>2 DEF CleanupLocked
<1>8. CASE SubscribeSessionGone \/ ReplySent \/ ReplyFailed \/ FlushTake \/ FlushSend
           \/ CleanupDrop \/ PublishSend
  BY <1>8, ClientsAssumption DEF SubscribeSessionGone, ReplySent, ReplyFailed, FlushTake,
              FlushSend, CleanupDrop, PublishSend
<1>9. CASE CheckTimeouts \/ PublishSnapshot \/ PublishPausedState
  BY <1>9 DEF CheckTimeouts, PublishSnapshot, PublishPausedState
<1>10. CASE UNCHANGED vars
  BY <1>10 DEF vars
<1>. QED
  BY <1>1, <1>2, <1>3, <1>4, <1>5, <1>6, <1>7, <1>8, <1>9, <1>10 DEF Next, LoopStep

-----------------------------------------------------------------------------
(* The theorems.                                                           *)

(* The inductive invariant holds when the server starts.                   *)
LEMMA InitInv == Init => IInv
<1>. SUFFICES ASSUME Init PROVE IInv
  OBVIOUS
<1>1. \A t \in Topics : Holders(t) = {}
  BY DEF Init, Holders
<1>2. RefCountMatchesHolders
  BY <1>1, FS_EmptySet DEF Init, RefCountMatchesHolders
<1>3. TypeOK
  BY DEF Init, TypeOK, ConnStates, PcStates
<1>4. HandlerContext /\ NoReplayStrands /\ ToldIsTrue
  BY ClientsAssumption DEF Init, HandlerContext, NoReplayStrands, ToldIsTrue
<1>5. SessionConsistent /\ LatchedFollowsSubscription /\ BacklogBelongsToSession
  BY DEF Init, SessionConsistent, LatchedFollowsSubscription, BacklogBelongsToSession
<1>. QED  BY <1>2, <1>3, <1>4, <1>5 DEF IInv

(* Every step preserves the inductive invariant.                           *)
LEMMA NextInv == IInv /\ [Next]_vars => IInv'
BY TypeStep, RefCountStep, SessionStep, LatchedStep, ReplayStep, ToldStep, BacklogStep,
   ContextStep DEF IInv

(* The conjunction of the safety properties holds in every state of every  *)
(* behaviour, for any finite sets of clients and topics and any queue      *)
(* bound.                                                                  *)
THEOREM InductiveInvariant == Spec => []IInv
BY InitInv, NextInv, PTL DEF Spec

(* Every variable keeps its type; in particular no reference count is      *)
(* decremented below zero by a double release.                             *)
THEOREM TypeCorrect == Spec => []TypeOK
<1>1. IInv => TypeOK
  BY DEF IInv
<1>. QED  BY <1>1, InductiveInvariant, PTL

(* The comment of handle_subscribe, "a middleware ref is held iff          *)
(* set_ref_held": the reference count of a topic is the number of sessions *)
(* that hold it, in every interleaving of requests, timeouts and Close     *)
(* callbacks.                                                              *)
THEOREM RefCountsAreExact == Spec => []RefCountMatchesHolders
<1>1. IInv => RefCountMatchesHolders
  BY DEF IInv
<1>. QED  BY <1>1, InductiveInvariant, PTL

(* A paused or removed session holds no reference.                         *)
THEOREM SessionsAreConsistent == Spec => []SessionConsistent
<1>1. IInv => SessionConsistent
  BY DEF IInv
<1>. QED  BY <1>1, InductiveInvariant, PTL

(* release_subscription_ref clears latched state with the last reference.  *)
THEOREM LatchedStateIsLive == Spec => []LatchedFollowsSubscription
<1>1. IInv => LatchedFollowsSubscription
  BY DEF IInv
<1>. QED  BY <1>1, InductiveInvariant, PTL

(* collect_latched_replay's comment, "nothing strands".                    *)
THEOREM ReplaysNeverStrand == Spec => []NoReplayStrands
<1>1. IInv => NoReplayStrands
  BY DEF IInv
<1>. QED  BY <1>1, InductiveInvariant, PTL

(* A response and the replay frames behind it agree with the session of    *)
(* the client that reads them.                                             *)
THEOREM ResponsesAreTrue == Spec => []ToldIsTrue
<1>1. IInv => ToldIsTrue
  BY DEF IInv
<1>. QED  BY <1>1, InductiveInvariant, PTL

(* cleanup_session's drop_pending comment: no backlog outlives its session *)
(* on a connection that stays open.                                        *)
THEOREM BacklogsAreOwned == Spec => []BacklogBelongsToSession
<1>1. IInv => BacklogBelongsToSession
  BY DEF IInv
<1>. QED  BY <1>1, InductiveInvariant, PTL

(* A session of an open connection ends only by a missed heartbeat or an   *)
(* unsendable response: the action property LiveSessionsSurvive, which     *)
(* holds of every step once check_session_timeouts' targets are known to   *)
(* be stale or removed.                                                    *)
TargetsAreStale ==
  pc \in {"cleanup", "drop"} =>
    \A c \in targets \cap sessions : conn[c] = "open" => c \in stale \/ client = c

(* The sessions that check_session_timeouts has collected stay timed out   *)
(* until they are cleaned up.                                              *)
LEMMA TargetsStep ==
  ASSUME IInv, TargetsAreStale, [Next]_vars
  PROVE  TargetsAreStale'
<1>. USE DEF IInv, TypeOK, TargetsAreStale, mwVars, sessVars, subVars, loopVars
<1>1. CASE pc' \notin {"cleanup", "drop"}
  BY <1>1
<1>2. ASSUME NEW c \in Clients, Connect(c) \/ QueueRequest(c) \/ Disconnect(c) \/ Age(c)
      PROVE  TargetsAreStale'
  BY <1>2 DEF Connect, QueueRequest, Disconnect, Age, HandlerContext
<1>3. ASSUME NEW c \in Clients, WebSocketThread(c)
      PROVE  TargetsAreStale'
  BY <1>3 DEF WebSocketThread, CloseCleanup, CleanupSession, CloseDrop, CloseErase
<1>4. CASE Requests
  BY <1>1, <1>4 DEF Requests, EmptyRequest, RejectRequest, TouchRequest, BeginRequest, TakeRequest
<1>5. CASE ReplyFailed
  BY <1>5 DEF ReplyFailed
<1>6. CASE CheckTimeouts
  BY <1>6 DEF CheckTimeouts
<1>7. CASE SubscribeSnapshot \/ SubscribeLocked \/ SubscribeSessionGone \/ UnsubscribeLocked
           \/ PauseLocked \/ ResumeLocked \/ ReplySent \/ FlushTake \/ FlushSend
           \/ PublishSend \/ PublishSnapshot \/ PublishPausedState
  BY <1>1, <1>7 DEF SubscribeSnapshot, SubscribeLocked, SubscribeSessionGone, UnsubscribeLocked,
        PauseLocked, ResumeLocked, ReplySent, FlushTake, FlushSend, PublishSend,
        PublishSnapshot, PublishPausedState
<1>8. CASE UNCHANGED vars
  BY <1>8 DEF vars
<1>9. CASE CleanupDrop
  BY <1>9 DEF CleanupDrop
<1>10. CASE CleanupLocked
  <2>1. PICK c \in targets : CleanupSession(c) /\ client' = c
    BY <1>10 DEF CleanupLocked
  <2>2. \A d \in targets : d # c => client # d
    BY <1>10, <2>1, ClientsAssumption DEF CleanupLocked, HandlerContext
  <2>. QED  BY <1>10, <2>1, <2>2 DEF CleanupLocked, CleanupSession
<1>. QED
  BY <1>2, <1>3, <1>4, <1>5, <1>6, <1>7, <1>8, <1>9, <1>10 DEF Next, LoopStep

(* Only a timeout or a failed reply removes the session of an open         *)
(* connection.                                                             *)
LEMMA SessionsSurviveStep ==
  ASSUME IInv, TargetsAreStale, Next
  PROVE  \A c \in sessions \ sessions' :
           conn[c] = "open" => c \in stale \/ (pc = "cleanup" /\ client = c)
<1>. USE DEF IInv, TypeOK, mwVars, sessVars, subVars, loopVars
<1>1. ASSUME NEW c \in Clients, Connect(c) \/ QueueRequest(c) \/ Disconnect(c) \/ Age(c)
      PROVE  sessions' = sessions
  BY <1>1 DEF Connect, QueueRequest, Disconnect, Age
<1>2. ASSUME NEW c \in Clients, WebSocketThread(c)
      PROVE  sessions' = sessions \/ (sessions' = sessions \ {c} /\ conn[c] # "open")
  BY <1>2 DEF WebSocketThread, CloseCleanup, CleanupSession, CloseDrop, CloseErase
<1>3. Requests => sessions \subseteq sessions'
  BY DEF Requests, EmptyRequest, RejectRequest, TouchRequest, BeginRequest, EnsureSession
<1>4. CASE CleanupLocked
  BY <1>4 DEF CleanupLocked, CleanupSession, TargetsAreStale
<1>5. CASE SubscribeSnapshot \/ SubscribeLocked \/ SubscribeSessionGone \/ UnsubscribeLocked
           \/ PauseLocked \/ ResumeLocked \/ ReplySent \/ ReplyFailed \/ FlushTake \/ FlushSend
           \/ CleanupDrop \/ PublishSend \/ CheckTimeouts \/ PublishSnapshot \/ PublishPausedState
  BY <1>5 DEF SubscribeSnapshot, SubscribeLocked, SubscribeSessionGone, UnsubscribeLocked,
        PauseLocked, ResumeLocked, ReplySent, ReplyFailed, FlushTake, FlushSend, CleanupDrop,
        PublishSend, CheckTimeouts, PublishSnapshot, PublishPausedState
<1>. QED  BY <1>1, <1>2, <1>3, <1>4, <1>5 DEF Next, LoopStep

(* check_session_timeouts and a failed send_reply are the only ways for a  *)
(* connected client to lose its session; another client's disconnection,   *)
(* pause or unsubscribe never takes it away.                               *)
THEOREM ConnectedSessionsSurvive == Spec => LiveSessionsSurvive
<1>1. Init => TargetsAreStale
  BY DEF Init, TargetsAreStale
<1>2. IInv /\ TargetsAreStale /\ [Next]_vars => TargetsAreStale'
  BY TargetsStep
<1>3. IInv /\ TargetsAreStale /\ [Next]_vars =>
        [\A c \in sessions \ sessions' :
           conn[c] = "open" => c \in stale \/ (pc = "cleanup" /\ client = c)]_vars
  BY SessionsSurviveStep
<1>. QED  BY <1>1, <1>2, <1>3, InductiveInvariant, PTL DEF Spec, LiveSessionsSurvive

-----------------------------------------------------------------------------
(* The refinement.                                                         *)

(* Taking references is the abstract Acquire.                              *)
LEMMA TakeIsAcquire ==
  ASSUME TypeOK, RefCountMatchesHolders,
         NEW c \in Clients, NEW T \in SUBSET Topics, Takes(c, T)
  PROVE  Shared!Next
<1>. DEFINE H == [t \in Topics |-> Holders(t)]
            L == {t \in Topics : reference_count[t] > 0}
<1>1. \A t \in T : c \notin H[t]
  BY DEF Takes, Holders
<1>2. ASSUME NEW t \in Topics
      PROVE  Holders(t)' = IF t \in T THEN Holders(t) \cup {c} ELSE Holders(t)
  BY DEF Takes, TypeOK, Holders
<1>3. H' = [t \in Topics |-> IF t \in T THEN H[t] \cup {c} ELSE H[t]]
  BY <1>2
<1>4. L' = L \cup T
  BY DEF Takes, TypeOK
<1>5. Shared!Acquire(c, T)
  BY <1>1, <1>3, <1>4 DEF Shared!Acquire
<1>. QED  BY <1>5 DEF Shared!Next

(* Releasing references is the abstract Release.                           *)
LEMMA DropIsRelease ==
  ASSUME TypeOK, RefCountMatchesHolders,
         NEW c \in Clients, NEW T \in SUBSET Topics, Drops(c, T)
  PROVE  Shared!Next
<1>. DEFINE H == [t \in Topics |-> Holders(t)]
            L == {t \in Topics : reference_count[t] > 0}
<1>1. \A t \in T : c \in H[t]
  BY DEF Drops, Holders
<1>2. ASSUME NEW t \in Topics
      PROVE  Holders(t)' = IF t \in T THEN Holders(t) \ {c} ELSE Holders(t)
  BY DEF Drops, TypeOK, Holders
<1>3. H' = [t \in Topics |-> IF t \in T THEN H[t] \ {c} ELSE H[t]]
  BY <1>2
<1>4. \A t \in T : reference_count[t] = 1 <=> H[t] = {c}
  BY <1>1, HoldersFinite DEF RefCountMatchesHolders
<1>5. \A t \in T : reference_count[t] > 0
  <2>. SUFFICES ASSUME NEW t \in T PROVE reference_count[t] > 0
    OBVIOUS
  <2>1. Cardinality(Holders(t)) # 0
    BY <1>1, HoldersFinite
  <2>. QED  BY <2>1 DEF RefCountMatchesHolders, TypeOK
<1>6. L' = L \ {t \in T : H[t] = {c}}
  <2>. HIDE DEF H
  <2>1. ASSUME NEW t \in Topics \ T
        PROVE  reference_count'[t] = reference_count[t]
    BY DEF Drops, TypeOK
  <2>2. ASSUME NEW t \in T
        PROVE  reference_count'[t] > 0 <=> H[t] # {c}
    BY <1>4, <1>5 DEF Drops, TypeOK
  <2>. QED  BY <1>5, <2>1, <2>2
<1>7. Shared!Release(c, T)
  BY <1>1, <1>3, <1>6 DEF Shared!Release
<1>. QED  BY <1>7 DEF Shared!Next

(* Every step is a step of SharedSubscriptions, or leaves its variables    *)
(* alone.                                                                  *)
LEMMA StepRefines == IInv /\ [Next]_vars => [Shared!Next]_(Shared!vars)
<1>. SUFFICES ASSUME IInv, [Next]_vars PROVE [Shared!Next]_(Shared!vars)
  OBVIOUS
<1>1. CASE UNCHANGED <<reference_count, ref_held>>
  <2>1. UNCHANGED [t \in Topics |-> Holders(t)]
    BY <1>1 DEF Holders
  <2>2. UNCHANGED {t \in Topics : reference_count[t] > 0}
    BY <1>1
  <2>. QED  BY <2>1, <2>2 DEF Shared!vars
<1>2. ASSUME NEW c \in Clients, NEW T \in SUBSET Topics, Takes(c, T)
      PROVE  Shared!Next
  BY <1>2, TakeIsAcquire DEF IInv
<1>3. ASSUME NEW c \in Clients, NEW T \in SUBSET Topics, Drops(c, T)
      PROVE  Shared!Next
  BY <1>3, DropIsRelease DEF IInv
<1>. QED  BY <1>1, <1>2, <1>3, StepMovesRefs

(* BridgeServer implements SharedSubscriptions: a DDS subscription is      *)
(* created with its first holder and destroyed with its last, and one      *)
(* step moves the references of one client only.                           *)
THEOREM Refinement == Spec => ImplementsSharedSubscriptions
<1>1. Init => Shared!Init
  BY DEF Init, Shared!Init, Holders
<1>. QED
  BY <1>1, StepRefines, InductiveInvariant, PTL
     DEF Spec, ImplementsSharedSubscriptions, Shared!Spec
=============================================================================
