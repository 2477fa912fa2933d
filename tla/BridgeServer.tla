---------------------------- MODULE BridgeServer ----------------------------
(***************************************************************************)
(* The request path of pj_bridge: BridgeServer (app/src/bridge_server.cpp) *)
(* with the parts of SessionManager, WebSocketMiddleware, MessageBuffer    *)
(* and the subscription manager it drives.                                 *)
(*                                                                         *)
(* Threads.  One event-loop thread runs process_requests, the publish      *)
(* cycle and check_session_timeouts, one after the other; its position is  *)
(* pc.  Every connection has a WebSocket thread, which queues requests and *)
(* runs the Close callback; its position is conn[c].  Both run             *)
(* cleanup_session.  A section under cleanup_mutex_ is one action: all     *)
(* the state it writes is written under that lock only, by these threads.  *)
(* State read before the lock (SubscribeSnapshot, PublishSnapshot,         *)
(* CheckTimeouts) is kept in topics or targets and used by a later action. *)
(*                                                                         *)
(* Data left out: payloads and JSON; the rate of a subscription and        *)
(* last_sent_times_; which sample is retained (whether a replay frame is   *)
(* queued for a latched topic is a choice); the topic_updates flags; the   *)
(* number of frames in a backlog.                                          *)
(***************************************************************************)
EXTENDS Naturals, Sequences, FiniteSets

CONSTANTS
  Clients,       \* connection ids; IXWebSocket never uses one twice
  Topics,
  Whitelist,     \* the topics the whitelist filter matches
  MaxIncoming,   \* kMaxIncomingQueueSize
  NoClient

ASSUME ClientsAssumption == IsFiniteSet(Clients) /\ NoClient \notin Clients
ASSUME TopicsAssumption  == IsFiniteSet(Topics) /\ Whitelist \subseteq Topics
ASSUME QueueAssumption   == MaxIncoming \in Nat

VARIABLES
  (* WebSocketMiddleware *)
  conn,             \* life of a connection and of its Close callback
  incoming_queue,   \* clients whose requests wait, oldest first
  pending_frames,   \* clients with a backpressure backlog
  (* SessionManager *)
  sessions,         \* clients that have a session
  subscribed,       \* subscribed_topics of the session, {} without one
  ref_held,         \* ref_held_topics of the session
  paused,           \* clients whose session is paused
  stale,            \* last_heartbeat is older than timeout_duration_
  (* GenericSubscriptionManager *)
  reference_count,  \* 0: the topic has no entry in subscriptions_
  transient_local,  \* the subscriptions created with TRANSIENT_LOCAL QoS
  (* MessageBuffer and BridgeServer *)
  latched_topics,   \* latched_topics_
  pending_replays,  \* pending_replays_: topics with a replay frame queued
  (* the event-loop thread *)
  pc,
  client,           \* the client being served or cleaned up
  topics,           \* validated topics, or replay frames moved out
  reported,         \* the topics whose schemas the response carries
  targets           \* timed-out sessions, or receivers of a publish cycle

mwVars   == <<conn, incoming_queue, pending_frames>>
sessVars == <<sessions, subscribed, ref_held, paused, stale>>
subVars  == <<reference_count, transient_local, latched_topics>>
loopVars == <<pc, client, topics, reported, targets>>
vars     == <<mwVars, sessVars, subVars, pending_replays, loopVars>>

(* conn: "open" until the socket closes; then the Close callback runs the  *)
(* locked part of cleanup_session ("closing"), drop_pending ("dropping")   *)
(* and the erasure from clients_ ("erasing").                              *)
ConnStates == {"new", "open", "closing", "dropping", "erasing", "gone"}

PcStates == {"idle", "subscribe", "subscribe_locked", "unsubscribe", "pause",
             "resume", "reply", "flush", "flush_send", "cleanup", "drop",
             "publish_paused", "publish"}

(* clients_ *)
Connected == {c \in Clients : conn[c] \notin {"new", "gone"}}

TypeOK ==
  /\ conn \in [Clients -> ConnStates]
  /\ incoming_queue \in Seq(Clients)
  /\ pending_frames \in SUBSET Clients
  /\ sessions \in SUBSET Clients
  /\ subscribed \in [Clients -> SUBSET Topics]
  /\ ref_held \in [Clients -> SUBSET Topics]
  /\ paused \in SUBSET Clients
  /\ stale \in SUBSET Clients
  /\ reference_count \in [Topics -> Nat]
  /\ transient_local \in SUBSET Topics
  /\ latched_topics \in SUBSET Topics
  /\ pending_replays \in [Clients -> SUBSET Topics]
  /\ pc \in PcStates
  /\ client \in Clients \cup {NoClient}
  /\ topics \in SUBSET Topics
  /\ reported \in SUBSET Topics
  /\ targets \in SUBSET Clients

Init ==
  /\ conn = [c \in Clients |-> "new"]
  /\ incoming_queue = <<>>
  /\ pending_frames = {}
  /\ sessions = {}
  /\ subscribed = [c \in Clients |-> {}]
  /\ ref_held = [c \in Clients |-> {}]
  /\ paused = {}
  /\ stale = {}
  /\ reference_count = [t \in Topics |-> 0]
  /\ transient_local = {}
  /\ latched_topics = {}
  /\ pending_replays = [c \in Clients |-> {}]
  /\ pc = "idle"
  /\ client = NoClient
  /\ topics = {}
  /\ reported = {}
  /\ targets = {}

-----------------------------------------------------------------------------
(* References to middleware subscriptions.                                 *)

(* SubscriptionManager::subscribe for the topics in T, then                *)
(* collect_latched_replay for each: set_latched(t, is_transient_local(t)). *)
(* The QoS of a subscription that must be created is whatever its          *)
(* publishers offer at that moment.                                        *)
AcquireRefs(T) ==
  /\ reference_count' = [t \in Topics |-> reference_count[t] + IF t \in T THEN 1 ELSE 0]
  /\ \E offered \in SUBSET {t \in T : reference_count[t] = 0} :
       transient_local' = transient_local \cup offered
  /\ latched_topics' = (latched_topics \ T) \cup (T \cap transient_local')

(* The topics of T for which subscribe() can return true, whatever DDS     *)
(* does: a shared subscription only has its count incremented, so just a   *)
(* subscription that must be created can fail.                             *)
CanAcquire(T) ==
  {A \in SUBSET T : \A t \in T : reference_count[t] > 0 => t \in A}

(* Faulty: the latched state survives the last reference. *)
ReleaseRefsKeepingLatched(T) ==
  /\ reference_count' = [t \in Topics |-> reference_count[t] - IF t \in T THEN 1 ELSE 0]
  /\ transient_local' = transient_local \ {t \in T : reference_count[t] = 1}
  /\ UNCHANGED latched_topics

(* release_subscription_ref for each topic in T: when the count reaches 0  *)
(* the subscription is destroyed and the topic's latched state cleared.    *)
ReleaseRefs(T) ==
  LET last == {t \in T : reference_count[t] = 1}
  IN  /\ reference_count' = [t \in Topics |-> reference_count[t] - IF t \in T THEN 1 ELSE 0]
      /\ transient_local' = transient_local \ last
      /\ latched_topics' = latched_topics \ last

(* The part of cleanup_session(c) under cleanup_mutex_.                    *)
CleanupSession(c) ==
  /\ pending_replays' = [pending_replays EXCEPT ![c] = {}]
  /\ ReleaseRefs(ref_held[c])
  /\ sessions' = sessions \ {c}
  /\ subscribed' = [subscribed EXCEPT ![c] = {}]
  /\ ref_held' = [ref_held EXCEPT ![c] = {}]
  /\ paused' = paused \ {c}
  /\ stale' = stale \ {c}

-----------------------------------------------------------------------------
(* WebSocket threads and clients.                                          *)

Connect(c) ==
  /\ conn[c] = "new"
  /\ conn' = [conn EXCEPT ![c] = "open"]
  /\ UNCHANGED <<incoming_queue, pending_frames, sessVars, subVars, pending_replays, loopVars>>

(* A request that finds the queue full is dropped.  Its contents are       *)
(* chosen when the event loop takes it out.                                *)
QueueRequest(c) ==
  /\ conn[c] = "open"
  /\ incoming_queue' = IF Len(incoming_queue) >= MaxIncoming
                       THEN incoming_queue ELSE Append(incoming_queue, c)
  /\ UNCHANGED <<conn, pending_frames, sessVars, subVars, pending_replays, loopVars>>

Disconnect(c) ==
  /\ conn[c] = "open"
  /\ conn' = [conn EXCEPT ![c] = "closing"]
  /\ UNCHANGED <<incoming_queue, pending_frames, sessVars, subVars, pending_replays, loopVars>>

(* The Close callback: on_disconnect_, i.e. cleanup_session, ...           *)
CloseCleanup(c) ==
  /\ conn[c] = "closing"
  /\ conn' = [conn EXCEPT ![c] = "dropping"]
  /\ CleanupSession(c)
  /\ UNCHANGED <<incoming_queue, pending_frames, loopVars>>

(* ... whose drop_pending runs after the lock is released, ...             *)
CloseDrop(c) ==
  /\ conn[c] = "dropping"
  /\ conn' = [conn EXCEPT ![c] = "erasing"]
  /\ pending_frames' = pending_frames \ {c}
  /\ UNCHANGED <<incoming_queue, sessVars, subVars, pending_replays, loopVars>>

(* ... and last the erasure from clients_ and pending_frames_.             *)
CloseErase(c) ==
  /\ conn[c] = "erasing"
  /\ conn' = [conn EXCEPT ![c] = "gone"]
  /\ pending_frames' = pending_frames \ {c}
  /\ UNCHANGED <<incoming_queue, sessVars, subVars, pending_replays, loopVars>>

(* timeout_duration_ passes without a request from c.                      *)
Age(c) ==
  /\ c \in sessions \ stale
  /\ stale' = stale \cup {c}
  /\ UNCHANGED <<mwVars, sessions, subscribed, ref_held, paused, subVars, pending_replays, loopVars>>

-----------------------------------------------------------------------------
(* Event loop: process_single_request.                                     *)

(* receive_request, and the dispatch on "command" that leads to next.      *)
TakeRequest(next) ==
  /\ pc = "idle"
  /\ incoming_queue # <<>>
  /\ client' = Head(incoming_queue)
  /\ incoming_queue' = Tail(incoming_queue)
  /\ pc' = next
  /\ UNCHANGED <<conn, pending_frames, subVars, pending_replays, topics, reported, targets>>

(* How every handler begins: create_session if there is none, then         *)
(* update_heartbeat.  The fields of an absent session are the defaults.    *)
EnsureSession(c) ==
  /\ sessions' = sessions \cup {c}
  /\ stale' = stale \ {c}
  /\ UNCHANGED <<subscribed, ref_held, paused>>

(* process_requests drops an empty request and ends its turn.              *)
EmptyRequest ==
  /\ pc = "idle"
  /\ incoming_queue # <<>>
  /\ incoming_queue' = Tail(incoming_queue)
  /\ UNCHANGED <<conn, pending_frames, sessVars, subVars, pending_replays, loopVars>>

(* Unparsable JSON, a missing or unknown command: no handler runs.         *)
RejectRequest ==
  /\ TakeRequest("reply")
  /\ UNCHANGED sessVars

(* get_topics, heartbeat, (un)subscribe_topic_updates, and a request whose *)
(* "topics" field is missing or no array.                                  *)
TouchRequest ==
  /\ TakeRequest("reply")
  /\ EnsureSession(Head(incoming_queue))

(* subscribe, unsubscribe, pause and resume, up to what they do next.      *)
BeginRequest(cmd) ==
  /\ TakeRequest(cmd)
  /\ EnsureSession(Head(incoming_queue))

(* handle_subscribe before the lock: current_subs is read, and the topics  *)
(* not in it are validated (whitelisted, discovered, with a schema).       *)
SubscribeSnapshot ==
  /\ pc = "subscribe"
  /\ \E requested \in SUBSET (Topics \ subscribed[client]) :
     \E validated \in SUBSET (requested \cap Whitelist) :
       topics' = validated
  /\ pc' = "subscribe_locked"
  /\ UNCHANGED <<mwVars, sessVars, subVars, pending_replays, client, reported, targets>>

(* Faulty: a paused client's topics are acquired at once. *)
SubscribeLockedIgnoringPause ==
  /\ pc = "subscribe_locked"
  /\ client \in sessions
  /\ AcquireRefs(topics)
  /\ subscribed' = [subscribed EXCEPT ![client] = @ \cup topics]
  /\ ref_held' = [ref_held EXCEPT ![client] = @ \cup topics]
  /\ reported' = topics
  /\ pc' = "reply"
  /\ topics' = {}
  /\ UNCHANGED <<mwVars, sessions, paused, stale, pending_replays, client, targets>>

(* Faulty: the response reports topics whose subscription failed. *)
SubscribeLockedReportingAll ==
  /\ pc = "subscribe_locked"
  /\ client \in sessions \ paused
  /\ \E acquired \in CanAcquire(topics) :
       /\ AcquireRefs(acquired)
       /\ subscribed' = [subscribed EXCEPT ![client] = @ \cup acquired]
       /\ ref_held' = [ref_held EXCEPT ![client] = @ \cup acquired]
  /\ reported' = topics
  /\ pc' = "reply"
  /\ topics' = {}
  /\ UNCHANGED <<mwVars, sessions, paused, stale, pending_replays, client, targets>>

(* handle_subscribe under the lock, for a session that is there.  A paused *)
(* client's topics are recorded without a reference.                       *)
SubscribeLocked ==
  /\ pc = "subscribe_locked"
  /\ client \in sessions
  /\ \/ /\ client \in paused
        /\ subscribed' = [subscribed EXCEPT ![client] = @ \cup topics]
        /\ reported' = topics
        /\ UNCHANGED <<ref_held, subVars, pending_replays>>
     \/ /\ client \notin paused
        /\ \E acquired \in CanAcquire(topics) :
             /\ AcquireRefs(acquired)
             /\ subscribed' = [subscribed EXCEPT ![client] = @ \cup acquired]
             /\ ref_held' = [ref_held EXCEPT ![client] = @ \cup acquired]
             /\ reported' = acquired
             /\ \E retained \in SUBSET (acquired \cap transient_local') :
                  pending_replays' = [pending_replays EXCEPT ![client] = @ \cup retained]
  /\ pc' = "reply"
  /\ topics' = {}
  /\ UNCHANGED <<mwVars, sessions, paused, stale, client, targets>>

(* Faulty: no roll-back of the references taken for a session that is gone. *)
SubscribeSessionGoneNoRollback ==
  /\ pc = "subscribe_locked"
  /\ client \notin sessions
  /\ \E acquired \in CanAcquire(topics) : AcquireRefs(acquired)
  /\ pc' = "reply"
  /\ topics' = {}
  /\ UNCHANGED <<mwVars, sessVars, pending_replays, client, reported, targets>>

(* handle_subscribe under the lock when the Close callback has removed the *)
(* session since the request was taken: add_subscription fails, and every  *)
(* reference just acquired is released again.                              *)
SubscribeSessionGone ==
  /\ pc = "subscribe_locked"
  /\ client \notin sessions
  /\ pc' = "reply"
  /\ topics' = {}
  /\ UNCHANGED <<mwVars, sessVars, subVars, pending_replays, client, reported, targets>>

(* handle_unsubscribe under the lock.                                      *)
UnsubscribeLocked ==
  /\ pc = "unsubscribe"
  /\ \E requested \in SUBSET Topics :
       /\ ReleaseRefs(ref_held[client] \cap requested)
       /\ subscribed' = [subscribed EXCEPT ![client] = @ \ requested]
       /\ ref_held' = [ref_held EXCEPT ![client] = @ \ requested]
  /\ pc' = "reply"
  /\ UNCHANGED <<mwVars, sessions, paused, stale, pending_replays, client, topics, reported, targets>>

(* Faulty: the references are forgotten, not released. *)
PauseForgettingRefs ==
  /\ pc = "pause"
  /\ paused' = paused \cup ({client} \cap sessions)
  /\ ref_held' = [ref_held EXCEPT ![client] = {}]
  /\ pc' = "reply"
  /\ UNCHANGED <<mwVars, sessions, subscribed, stale, subVars, pending_replays,
                 client, topics, reported, targets>>

(* handle_pause under the lock: the early return for a paused session, or  *)
(* the release of exactly the references held.  set_paused does nothing    *)
(* without a session.                                                      *)
PauseLocked ==
  /\ pc = "pause"
  /\ \/ /\ client \in paused
        /\ UNCHANGED <<paused, ref_held, subVars>>
     \/ /\ client \notin paused
        /\ paused' = paused \cup ({client} \cap sessions)
        /\ ReleaseRefs(ref_held[client])
        /\ ref_held' = [ref_held EXCEPT ![client] = {}]
  /\ pc' = "reply"
  /\ UNCHANGED <<mwVars, sessions, subscribed, stale, pending_replays, client, topics, reported, targets>>

(* handle_resume under the lock: references are taken for the subscribed   *)
(* topics not held, as far as they are discovered and DDS allows; the      *)
(* others stay subscribed without one.                                     *)
ResumeLocked ==
  /\ pc = "resume"
  /\ \/ /\ client \in paused
        /\ paused' = paused \ {client}
        /\ \E discovered \in SUBSET (subscribed[client] \ ref_held[client]) :
           \E acquired \in CanAcquire(discovered) :
             /\ AcquireRefs(acquired)
             /\ ref_held' = [ref_held EXCEPT ![client] = @ \cup acquired]
             /\ \E retained \in SUBSET (acquired \cap transient_local') :
                  pending_replays' = [pending_replays EXCEPT ![client] = @ \cup retained]
     \/ /\ client \notin paused
        /\ UNCHANGED <<paused, ref_held, subVars, pending_replays>>
  /\ pc' = "reply"
  /\ UNCHANGED <<mwVars, sessions, subscribed, stale, client, topics, reported, targets>>

(* send_reply succeeds: only for a client of clients_.                     *)
ReplySent ==
  /\ pc = "reply"
  /\ client \in Connected
  /\ pc' = "flush"
  /\ reported' = {}
  /\ UNCHANGED <<mwVars, sessVars, subVars, pending_replays, client, topics, targets>>

(* Faulty: the request is abandoned without a cleanup. *)
ReplyFailedNoCleanup ==
  /\ pc = "reply"
  /\ pc' = "idle"
  /\ reported' = {}
  /\ client' = NoClient
  /\ UNCHANGED <<mwVars, sessVars, subVars, pending_replays, topics, targets>>

(* send_reply fails: the client is not in clients_, or its socket refuses. *)
ReplyFailed ==
  /\ pc = "reply"
  /\ pc' = "cleanup"
  /\ reported' = {}
  /\ targets' = {client}
  /\ UNCHANGED <<mwVars, sessVars, subVars, pending_replays, client, topics>>

(* The replay frames are moved out of pending_replays_ ...                 *)
FlushTake ==
  /\ pc = "flush"
  /\ topics' = pending_replays[client]
  /\ pending_replays' = [pending_replays EXCEPT ![client] = {}]
  /\ pc' = "flush_send"
  /\ UNCHANGED <<mwVars, sessVars, subVars, client, reported, targets>>

(* ... and sent with no lock held; on a slow socket they join the backlog. *)
FlushSend ==
  /\ pc = "flush_send"
  /\ pending_frames' \in {pending_frames} \cup
       (IF topics # {} /\ client \in Connected
        THEN {pending_frames \cup {client}, pending_frames \ {client}} ELSE {})
  /\ pc' = "idle"
  /\ client' = NoClient
  /\ topics' = {}
  /\ UNCHANGED <<conn, incoming_queue, sessVars, subVars, pending_replays, reported, targets>>

-----------------------------------------------------------------------------
(* Event loop: timeouts and the publish cycle.                             *)

(* Faulty: every session has timed out. *)
CheckTimeoutsOfAll ==
  /\ pc = "idle"
  /\ targets' = sessions
  /\ pc' = IF targets' = {} THEN "idle" ELSE "cleanup"
  /\ UNCHANGED <<mwVars, sessVars, subVars, pending_replays, client, topics, reported>>

(* Faulty: only clients that are still connected can time out. *)
CheckTimeoutsOfConnected ==
  /\ pc = "idle"
  /\ targets' = sessions \cap stale \cap Connected
  /\ pc' = IF targets' = {} THEN "idle" ELSE "cleanup"
  /\ UNCHANGED <<mwVars, sessVars, subVars, pending_replays, client, topics, reported>>

(* get_timed_out_sessions *)
CheckTimeouts ==
  /\ pc = "idle"
  /\ targets' = sessions \cap stale
  /\ pc' = IF targets' = {} THEN "idle" ELSE "cleanup"
  /\ UNCHANGED <<mwVars, sessVars, subVars, pending_replays, client, topics, reported>>

(* cleanup_session of one client of targets: its locked part, ...          *)
CleanupLocked ==
  /\ pc = "cleanup"
  /\ \E c \in targets :
       /\ CleanupSession(c)
       /\ client' = c
  /\ pc' = "drop"
  /\ UNCHANGED <<mwVars, topics, reported, targets>>

(* Faulty: no drop_pending after the cleanup. *)
CleanupKeepingBacklog ==
  /\ pc = "drop"
  /\ targets' = targets \ {client}
  /\ client' = NoClient
  /\ pc' = IF targets' = {} THEN "idle" ELSE "cleanup"
  /\ UNCHANGED <<mwVars, sessVars, subVars, pending_replays, topics, reported>>

(* ... then drop_pending; then the next client.                            *)
CleanupDrop ==
  /\ pc = "drop"
  /\ pending_frames' = pending_frames \ {client}
  /\ targets' = targets \ {client}
  /\ client' = NoClient
  /\ pc' = IF targets' = {} THEN "idle" ELSE "cleanup"
  /\ UNCHANGED <<conn, incoming_queue, sessVars, subVars, pending_replays, topics, reported>>

(* publish_aggregated_messages reads the sessions and their subscriptions: *)
(* the receivers are clients of groups with messages ...                   *)
PublishSnapshot ==
  /\ pc = "idle"
  /\ \E receivers \in SUBSET {c \in sessions : subscribed[c] # {}} :
       /\ receivers # {}
       /\ targets' = receivers
  /\ pc' = "publish_paused"
  /\ UNCHANGED <<mwVars, sessVars, subVars, pending_replays, client, topics, reported>>

(* ... and, later, which of them are paused: a session closed in between   *)
(* no longer is.                                                           *)
PublishPausedState ==
  /\ pc = "publish_paused"
  /\ targets' = targets \ paused
  /\ pc' = "publish"
  /\ UNCHANGED <<mwVars, sessVars, subVars, pending_replays, client, topics, reported>>

(* send_binary to each receiver, with no lock held: nothing happens to a   *)
(* client missing from clients_; the backlog of another one is flushed,    *)
(* left alone, or takes the frame.                                         *)
PublishSend ==
  /\ pc = "publish"
  /\ \E flushed \in SUBSET (targets \cap Connected) :
     \E queued \in SUBSET (targets \cap Connected) :
       pending_frames' = (pending_frames \ flushed) \cup queued
  /\ pc' = "idle"
  /\ targets' = {}
  /\ UNCHANGED <<conn, incoming_queue, sessVars, subVars, pending_replays, client, topics, reported>>

-----------------------------------------------------------------------------
WebSocketThread(c) == CloseCleanup(c) \/ CloseDrop(c) \/ CloseErase(c)

Requests ==
  \/ EmptyRequest
  \/ RejectRequest
  \/ TouchRequest
  \/ \E cmd \in {"subscribe", "unsubscribe", "pause", "resume"} : BeginRequest(cmd)

(* The steps of a call that the event loop has begun. *)
LoopStep ==
  \/ SubscribeSnapshot
  \/ SubscribeLocked
  \/ SubscribeSessionGone
  \/ UnsubscribeLocked
  \/ PauseLocked
  \/ ResumeLocked
  \/ ReplySent
  \/ ReplyFailed
  \/ FlushTake
  \/ FlushSend
  \/ CleanupLocked
  \/ CleanupDrop
  \/ PublishPausedState
  \/ PublishSend

Next ==
  \/ \E c \in Clients : Connect(c) \/ QueueRequest(c) \/ Disconnect(c) \/ Age(c)
  \/ \E c \in Clients : WebSocketThread(c)
  \/ Requests
  \/ LoopStep
  \/ CheckTimeouts
  \/ PublishSnapshot

Spec == Init /\ [][Next]_vars

(* The event loop finishes what it began and comes back to each of its     *)
(* duties (process_requests is capped at 256 requests a turn, so it cannot *)
(* keep the timeout check from running); a WebSocket thread finishes its   *)
(* Close callback; time passes for a session that gets no request.         *)
Fairness ==
  /\ WF_vars(LoopStep)
  /\ SF_vars(Requests)
  /\ SF_vars(CheckTimeouts)
  /\ \A c \in Clients : WF_vars(WebSocketThread(c)) /\ WF_vars(Age(c))

FairSpec == Spec /\ Fairness

-----------------------------------------------------------------------------
(* Properties.                                                             *)

(* The clients whose session holds a reference to t. *)
Holders(t) == {c \in Clients : t \in ref_held[c]}

(* "A middleware ref is held iff set_ref_held(topic, true)"                *)
(* (handle_subscribe): whatever requests, pauses, timeouts and             *)
(* disconnections interleave, a topic's reference count is the number of   *)
(* sessions that hold it: no reference leaks, none is released twice.      *)
RefCountMatchesHolders ==
  \A t \in Topics : reference_count[t] = Cardinality(Holders(t))

(* The Session record's comment: references are held for subscribed topics *)
(* only, a paused session holds none, and a removed session leaves nothing *)
(* behind in the session table.                                            *)
SessionConsistent ==
  \A c \in Clients :
    /\ ref_held[c] \subseteq subscribed[c]
    /\ c \in paused => ref_held[c] = {}
    /\ c \notin sessions => subscribed[c] = {} /\ c \notin paused /\ c \notin stale

(* release_subscription_ref: the latched state of a topic is cleared with  *)
(* its last reference, and set for exactly the live subscriptions with     *)
(* TRANSIENT_LOCAL QoS, so that no retained sample outlives the            *)
(* subscription it came from.                                              *)
LatchedFollowsSubscription ==
  /\ latched_topics = transient_local
  /\ \A t \in transient_local : reference_count[t] > 0

(* collect_latched_replay's comment, "nothing strands": replay frames wait *)
(* only for the client whose response is about to go out, or whose cleanup *)
(* is about to erase them, never for one that left or that is not served.  *)
NoReplayStrands ==
  \A c \in Clients :
    pending_replays[c] # {} => client = c /\ pc \in {"reply", "flush", "cleanup"}

(* A client that is still there can rely on what it is sent: the topics    *)
(* whose schemas its response reports are subscribed in its session when   *)
(* the response goes out, and every replay frame that follows is for a     *)
(* topic its session is subscribed to.                                     *)
ToldIsTrue ==
  /\ pc = "reply" /\ conn[client] = "open" => reported \subseteq subscribed[client]
  /\ pc = "flush_send" /\ conn[client] = "open" => topics \subseteq subscribed[client]

(* cleanup_session's last comment: frames of a session never flush into a  *)
(* later one on the same connection.  A backlog exists only for a client   *)
(* of clients_, and while its socket is open only for a live session       *)
(* (drop_pending follows the cleanup).                                     *)
BacklogBelongsToSession ==
  \A c \in pending_frames :
    /\ c \in Connected
    /\ conn[c] = "open" => c \in sessions \/ (pc = "drop" /\ client = c)

(* What a thread may count on between two of its steps, whatever the       *)
(* others do meanwhile: a handler serves a client that has connected; the  *)
(* topics handle_subscribe validated before the lock are still not         *)
(* subscribed under it; a publish cycle's receivers still have a session   *)
(* or are being closed; a replay frame waits only while its topic's        *)
(* reference is held.                                                      *)
HandlerContext ==
  /\ pc \in {"idle", "publish_paused", "publish"} => client = NoClient
  /\ pc = "cleanup" => client = NoClient \/ (client \in Clients /\ targets = {client})
  /\ pc \notin {"idle", "publish_paused", "publish", "cleanup"} => client \in Clients
  /\ pc # "reply" => reported = {}
  /\ pc = "subscribe_locked" => topics \cap subscribed[client] = {}
  /\ pc \in {"publish_paused", "publish"} =>
       \A c \in targets : conn[c] = "open" => c \in sessions
  /\ \A c \in Clients :
       /\ pending_replays[c] \subseteq ref_held[c]
       /\ conn[c] = "new" => /\ c \notin sessions \cup targets
                              /\ c # client
                              /\ \A i \in 1..Len(incoming_queue) : incoming_queue[i] # c

(* A session of an open connection ends only by a missed heartbeat or by a *)
(* response that could not be sent, never because some other client left.  *)
LiveSessionsSurvive ==
  [][\A c \in sessions \ sessions' :
       conn[c] = "open" => c \in stale \/ (pc = "cleanup" /\ client = c)]_vars

(* A client that has disconnected is forgotten for good: even if a request *)
(* it left in the queue makes a new session, the timeout removes it.       *)
DisconnectedIsForgotten ==
  \A c \in Clients :
    conn[c] = "gone" ~> [](c \notin sessions /\ ref_held[c] = {})

-----------------------------------------------------------------------------
(* The refinement.                                                         *)
Shared == INSTANCE SharedSubscriptions WITH
            holders <- [t \in Topics |-> Holders(t)],
            live    <- {t \in Topics : reference_count[t] > 0}

(* The reference counts implement shared subscriptions: every step takes   *)
(* or releases the references of at most one client, and creates or        *)
(* destroys a DDS subscription exactly with the first or last holder.      *)
ImplementsSharedSubscriptions == Shared!Spec
=============================================================================
