-------------------------- MODULE DdsSubscriptions --------------------------
(***************************************************************************)
(* The subscription managers of the DDS backends (FastDdsSubscription-     *)
(* Manager, and DdsSubscriptionManager of RTI Connext, which is built the  *)
(* same way) with the discovery caches they read, the DDS listener threads *)
(* that call back into them and the ordered shutdown of the standalone     *)
(* event loop.                                                             *)
(*                                                                         *)
(* Callers are the threads of the bridge: the event loop subscribes and    *)
(* unsubscribes, WebSocket threads unsubscribe when a client has gone, all *)
(* of them under cleanup_mutex_; the shutdown runs on the event loop       *)
(* without it.  A caller unsubscribes from a topic only if a session holds *)
(* a reference (RefCountMatchesHolders of BridgeServer).                   *)
(*                                                                         *)
(* The critical sections of mutex_ are single steps, but for the one that  *)
(* closes entities while it holds the lock.  The DDS library is external:  *)
(* creating an entity may fail, a listener may be called whenever it is    *)
(* set, and set_listener(nullptr) returns when no callback runs any more.  *)
(***************************************************************************)
EXTENDS Integers, FiniteSets

CONSTANTS
  Loop,            \* the event-loop thread
  WsThreads,       \* WebSocket threads
  Topics,
  Domains,         \* DDS domains, each with a discovery listener thread
  Ents,            \* names for the entities of a subscription
  MaxRefs,         \* bound: references to a topic
  None

VARIABLES
  (* the topic source *)
  participants,    \* participants_: the domains whose participant could be created
  topics,          \* topics_: the domain a topic was discovered in, None if it was not
  discovering,     \* by domain, the topic its listener is about to cache
  (* the subscription manager *)
  ref,             \* reference_count of the subscriptions_ entry of a topic, 0 without entry
  ent,             \* the entities of the entry
  mutex,           \* the thread that keeps mutex_ over several steps
  callback,        \* callback_ is set
  (* DDS *)
  parts,           \* the entities that exist, and the listener of the reader
  of,              \* the topic they were created for
  src,             \* where their type and their participant come from
  abandoned,       \* those that subscribe has left behind after an exception
  listener,        \* the thread that calls the listener: idle, waiting for mutex_, in callback_
  (* callers *)
  cleanup_mutex,
  pc,
  arg,             \* the topic of the call
  new_sub,         \* the entities a subscribe has created
  to_close,        \* the entities a call has to close
  (* the bridge *)
  held,            \* references that sessions believe to hold
  stage            \* of the shutdown

discVars == <<participants, topics, discovering>>
mgrVars  == <<ref, ent, callback>>
ddsVars  == <<parts, of, src, abandoned>>
callVars == <<cleanup_mutex, pc, arg, new_sub, to_close>>
vars == <<discVars, mgrVars, mutex, ddsVars, listener, callVars, held, stage>>

Threads  == {Loop} \cup WsThreads
AllParts == {"topic", "subscriber", "reader", "listener"}
Stages   == {"running", "cleared", "closing", "unsubscribed", "stopped", "timed_out"}
NoSrc    == [type |-> None, domain |-> None]

ASSUME NamesAssumption == None \notin Threads \cup Topics \cup Domains \cup Ents
ASSUME RefsAssumption  == MaxRefs \in Nat \ {0}

TypeOK ==
  /\ participants \in SUBSET Domains
  /\ topics \in [Topics -> Domains \cup {None}]
  /\ discovering \in [Domains -> Topics \cup {None}]
  /\ ref \in [Topics -> 0..MaxRefs]
  /\ ent \in [Topics -> Ents \cup {None}]
  /\ mutex \in Threads \cup {None}
  /\ callback \in BOOLEAN
  /\ parts \in [Ents -> SUBSET AllParts]
  /\ of \in [Ents -> Topics \cup {None}]
  /\ src \in [Ents -> [type : Domains \cup {None}, domain : Domains \cup {None}]]
  /\ abandoned \in SUBSET Ents
  /\ listener \in [Ents -> {"idle", "lock", "call"}]
  /\ cleanup_mutex \in Threads \cup {None}
  /\ pc \in [Threads -> {"idle", "type", "domain", "topic", "subscriber", "reader", "insert",
                         "unsubscribe", "close"}]
  /\ arg \in [Threads -> Topics \cup {None}]
  /\ new_sub \in [Threads -> Ents \cup {None}]
  /\ to_close \in [Threads -> SUBSET Ents]
  /\ held \in [Topics -> 0..MaxRefs]
  /\ stage \in Stages

Init ==
  /\ participants \in SUBSET Domains
  /\ topics = [t \in Topics |-> None]
  /\ discovering = [d \in Domains |-> None]
  /\ ref = [t \in Topics |-> 0]
  /\ ent = [t \in Topics |-> None]
  /\ mutex = None
  /\ callback = TRUE
  /\ parts = [e \in Ents |-> {}]
  /\ of = [e \in Ents |-> None]
  /\ src = [e \in Ents |-> NoSrc]
  /\ abandoned = {}
  /\ listener = [e \in Ents |-> "idle"]
  /\ cleanup_mutex = None
  /\ pc = [th \in Threads |-> "idle"]
  /\ arg = [th \in Threads |-> None]
  /\ new_sub = [th \in Threads |-> None]
  /\ to_close = [th \in Threads |-> {}]
  /\ held = [t \in Topics |-> 0]
  /\ stage = "running"

-----------------------------------------------------------------------------
(* Discovery.                                                              *)

(* on_data_writer_discovery: a topic that is not cached yet.               *)
Discover(d, t) ==
  /\ d \in participants
  /\ discovering[d] = None
  /\ topics[t] = None
  /\ discovering' = [discovering EXCEPT ![d] = t]
  /\ UNCHANGED <<participants, topics, mgrVars, mutex, ddsVars, listener, callVars, held, stage>>

(* Faulty: the topic of another domain is overwritten. *)
CacheOverwriting(d) ==
  /\ discovering[d] # None
  /\ topics' = [topics EXCEPT ![discovering[d]] = d]
  /\ discovering' = [discovering EXCEPT ![d] = None]
  /\ UNCHANGED <<participants, mgrVars, mutex, ddsVars, listener, callVars, held, stage>>

(* on_topic_discovered; the topic stays with the domain that was first.    *)
Cache(d) ==
  /\ discovering[d] # None
  /\ topics' = [topics EXCEPT ![discovering[d]] = IF @ = None THEN d ELSE @]
  /\ discovering' = [discovering EXCEPT ![d] = None]
  /\ UNCHANGED <<participants, mgrVars, mutex, ddsVars, listener, callVars, held, stage>>

(* The writer's type is not known yet, or is no struct: the topic is left  *)
(* out, until another writer of it is discovered.                          *)
Skip(d) ==
  /\ discovering[d] # None
  /\ discovering' = [discovering EXCEPT ![d] = None]
  /\ UNCHANGED <<participants, topics, mgrVars, mutex, ddsVars, listener, callVars, held, stage>>

-----------------------------------------------------------------------------
(* The listener of a reader.                                               *)

DataAvailable(e) ==
  /\ "listener" \in parts[e]
  /\ listener[e] = "idle"
  /\ listener' = [listener EXCEPT ![e] = "lock"]
  /\ UNCHANGED <<discVars, mgrVars, mutex, ddsVars, callVars, held, stage>>

(* The callback is copied under mutex_.                                    *)
ListenerLock(e) ==
  /\ listener[e] = "lock"
  /\ mutex = None
  /\ listener' = [listener EXCEPT ![e] = IF callback THEN "call" ELSE "idle"]
  /\ UNCHANGED <<discVars, mgrVars, mutex, ddsVars, callVars, held, stage>>

(* The samples are taken and handed to the bridge.                         *)
ListenerCall(e) ==
  /\ listener[e] = "call"
  /\ listener' = [listener EXCEPT ![e] = "idle"]
  /\ UNCHANGED <<discVars, mgrVars, mutex, ddsVars, callVars, held, stage>>

-----------------------------------------------------------------------------
(* subscribe.                                                              *)

(* The call returns, and with it the caller's use of cleanup_mutex_.       *)
Return(th) ==
  /\ pc' = [pc EXCEPT ![th] = "idle"]
  /\ arg' = [arg EXCEPT ![th] = None]
  /\ new_sub' = [new_sub EXCEPT ![th] = None]
  /\ cleanup_mutex' = IF cleanup_mutex = th THEN None ELSE cleanup_mutex

Granted(th)  == Return(th) /\ held' = [held EXCEPT ![arg[th]] = @ + 1]
Rejected(th) == Return(th) /\ UNCHANGED held

(* Phase 1: an existing subscription is shared.                            *)
Subscribe(t) ==
  /\ stage = "running"
  /\ pc[Loop] = "idle"
  /\ cleanup_mutex = None
  /\ mutex = None
  /\ held[t] < MaxRefs /\ ref[t] < MaxRefs
  /\ \/ /\ ent[t] # None
        /\ ref' = [ref EXCEPT ![t] = @ + 1]
        /\ held' = [held EXCEPT ![t] = @ + 1]
        /\ UNCHANGED <<cleanup_mutex, pc, arg>>
     \/ /\ ent[t] = None
        /\ cleanup_mutex' = Loop
        /\ pc' = [pc EXCEPT ![Loop] = "type"]
        /\ arg' = [arg EXCEPT ![Loop] = t]
        /\ UNCHANGED <<ref, held>>
  /\ UNCHANGED <<discVars, ent, callback, mutex, ddsVars, listener, new_sub, to_close, stage>>

(* Names for new entities are interchangeable.                             *)
FreeEnts == {e \in Ents : parts[e] = {} /\ \A u \in Threads : e # new_sub[u] /\ e \notin to_close[u]}
NextEnt  == CHOOSE e \in FreeEnts : TRUE

(* Phase 2: the type, ...                                                  *)
GetType(th) ==
  /\ pc[th] = "type"
  /\ \/ /\ topics[arg[th]] = None
        /\ Rejected(th)
        /\ UNCHANGED src
     \/ /\ topics[arg[th]] # None
        /\ FreeEnts # {}
        /\ new_sub' = [new_sub EXCEPT ![th] = NextEnt]
        /\ src' = [src EXCEPT ![NextEnt] = [type |-> topics[arg[th]], domain |-> None]]
        /\ pc' = [pc EXCEPT ![th] = "domain"]
        /\ UNCHANGED <<cleanup_mutex, arg, held>>
  /\ UNCHANGED <<discVars, mgrVars, mutex, parts, of, abandoned, listener, to_close, stage>>

(* ... the domain and its participant, which are read under a lock of      *)
(* their own; the tests for a topic without domain and for a domain        *)
(* without participant fail for no topic that was discovered.              *)
GetParticipant(th) ==
  /\ pc[th] = "domain"
  /\ src' = [src EXCEPT ![new_sub[th]].domain = topics[arg[th]]]
  /\ pc' = [pc EXCEPT ![th] = "topic"]
  /\ UNCHANGED <<discVars, mgrVars, mutex, parts, of, abandoned, listener, cleanup_mutex, arg, new_sub,
                 to_close, held, stage>>

(* create_topic refuses the name of a topic that was left behind.          *)
CreateTopic(th) ==
  /\ pc[th] = "topic"
  /\ \/ /\ Rejected(th)
        /\ src' = [src EXCEPT ![new_sub[th]] = NoSrc]
        /\ UNCHANGED <<parts, of>>
     \/ /\ \A e \in abandoned : of[e] # arg[th]
        /\ parts' = [parts EXCEPT ![new_sub[th]] = {"topic"}]
        /\ of' = [of EXCEPT ![new_sub[th]] = arg[th]]
        /\ pc' = [pc EXCEPT ![th] = "subscriber"]
        /\ UNCHANGED <<src, cleanup_mutex, arg, new_sub, held>>
  /\ UNCHANGED <<discVars, mgrVars, mutex, abandoned, listener, to_close, stage>>

Delete(e) ==
  /\ parts' = [parts EXCEPT ![e] = {}]
  /\ of' = [of EXCEPT ![e] = None]
  /\ src' = [src EXCEPT ![e] = NoSrc]

(* A failure deletes the topic again.                                      *)
CreateSubscriber(th) ==
  /\ pc[th] = "subscriber"
  /\ \/ Rejected(th) /\ Delete(new_sub[th])
     \/ /\ parts' = [parts EXCEPT ![new_sub[th]] = @ \cup {"subscriber"}]
        /\ pc' = [pc EXCEPT ![th] = "reader"]
        /\ UNCHANGED <<of, src, cleanup_mutex, arg, new_sub, held>>
  /\ UNCHANGED <<discVars, mgrVars, mutex, abandoned, listener, to_close, stage>>

(* Faulty: a failure deletes the subscriber only. *)
CreateReaderKeepingTopic(th) ==
  /\ pc[th] = "reader"
  /\ \/ /\ Rejected(th)
        /\ parts' = [parts EXCEPT ![new_sub[th]] = {"topic"}]
        /\ UNCHANGED <<of, src>>
     \/ /\ parts' = [parts EXCEPT ![new_sub[th]] = AllParts]
        /\ pc' = [pc EXCEPT ![th] = "insert"]
        /\ UNCHANGED <<of, src, cleanup_mutex, arg, new_sub, held>>
  /\ UNCHANGED <<discVars, mgrVars, mutex, abandoned, listener, to_close, stage>>

(* The reader is made with its listener; a failure deletes the subscriber  *)
(* and the topic.                                                          *)
CreateReader(th) ==
  /\ pc[th] = "reader"
  /\ \/ Rejected(th) /\ Delete(new_sub[th])
     \/ /\ parts' = [parts EXCEPT ![new_sub[th]] = AllParts]
        /\ pc' = [pc EXCEPT ![th] = "insert"]
        /\ UNCHANGED <<of, src, cleanup_mutex, arg, new_sub, held>>
  /\ UNCHANGED <<discVars, mgrVars, mutex, abandoned, listener, to_close, stage>>

(* Phase 3: the entry is made, or, if there is one by now, shared and the  *)
(* new entities closed before mutex_ is released.                          *)
Insert(th) ==
  LET t == arg[th]
  IN  /\ pc[th] = "insert"
      /\ mutex = None
      /\ ref' = [ref EXCEPT ![t] = @ + 1]
      /\ IF ent[t] = None
         THEN /\ ent' = [ent EXCEPT ![t] = new_sub[th]]
              /\ Granted(th)
              /\ UNCHANGED <<mutex, to_close>>
         ELSE /\ mutex' = th
              /\ to_close' = [to_close EXCEPT ![th] = {new_sub[th]}]
              /\ pc' = [pc EXCEPT ![th] = "close"]
              /\ held' = [held EXCEPT ![t] = @ + 1]
              /\ UNCHANGED <<ent, cleanup_mutex, arg, new_sub>>
      /\ UNCHANGED <<discVars, callback, ddsVars, listener, stage>>

(* Exceptions after create_topic: of create_subscriber, of the allocation  *)
(* of the listener or of create_datareader, and of that of the entry.      *)
Throws(th) ==
  \/ pc[th] \in {"subscriber", "reader"}
  \/ pc[th] = "insert" /\ mutex = None /\ ent[arg[th]] = None

(* Fast DDS: the catch block returns false, and nothing deletes what has   *)
(* been created.  The listener is destroyed with new_sub while the reader  *)
(* goes on calling it, which is undefined: it may still work, as here, or  *)
(* end the process.                                                        *)
SubscribeAbandons(th) ==
  /\ Throws(th)
  /\ Rejected(th)
  /\ abandoned' = abandoned \cup {new_sub[th]}
  /\ UNCHANGED <<discVars, mgrVars, mutex, parts, of, src, listener, to_close, stage>>

(* RTI: the destructors of the handles close them.  (Without a listener to *)
(* wait for, CreateSubscriber and CreateReader fail.)                      *)
SubscribeUnwinds(th) ==
  /\ Throws(th)
  /\ pc[th] = "insert"
  /\ to_close' = [to_close EXCEPT ![th] = {new_sub[th]}]
  /\ new_sub' = [new_sub EXCEPT ![th] = None]
  /\ pc' = [pc EXCEPT ![th] = "close"]
  /\ UNCHANGED <<discVars, mgrVars, mutex, ddsVars, listener, cleanup_mutex, arg, held, stage>>

-----------------------------------------------------------------------------
(* unsubscribe, and closing what a call took out of the table.             *)

(* Faulty: release_subscription_ref without cleanup_mutex_. *)
BeginUnsubscribeUnlocked(th, t) ==
  /\ pc[th] = "idle"
  /\ th = Loop => stage = "running"
  /\ stage # "stopped"
  /\ held[t] > 0
  /\ held' = [held EXCEPT ![t] = @ - 1]
  /\ pc' = [pc EXCEPT ![th] = "unsubscribe"]
  /\ arg' = [arg EXCEPT ![th] = t]
  /\ UNCHANGED <<discVars, mgrVars, mutex, ddsVars, listener, cleanup_mutex, new_sub, to_close, stage>>

(* A session gives up a reference, under cleanup_mutex_.                   *)
BeginUnsubscribe(th, t) ==
  /\ pc[th] = "idle"
  /\ th = Loop => stage = "running"
  /\ stage # "stopped"
  /\ cleanup_mutex = None
  /\ held[t] > 0
  /\ cleanup_mutex' = th
  /\ held' = [held EXCEPT ![t] = @ - 1]
  /\ pc' = [pc EXCEPT ![th] = "unsubscribe"]
  /\ arg' = [arg EXCEPT ![th] = t]
  /\ UNCHANGED <<discVars, mgrVars, mutex, ddsVars, listener, new_sub, to_close, stage>>

(* Faulty: the entities are closed under mutex_. *)
UnsubscribeClosingLocked(th) ==
  LET t == arg[th]
  IN  /\ pc[th] = "unsubscribe"
      /\ mutex = None
      /\ ref' = [ref EXCEPT ![t] = IF @ = 0 THEN 0 ELSE @ - 1]
      /\ IF ref[t] = 1
         THEN /\ ent' = [ent EXCEPT ![t] = None]
              /\ to_close' = [to_close EXCEPT ![th] = {ent[t]}]
              /\ pc' = [pc EXCEPT ![th] = "close"]
              /\ mutex' = th
              /\ UNCHANGED <<cleanup_mutex, arg, new_sub>>
         ELSE Return(th) /\ UNCHANGED <<ent, to_close, mutex>>
      /\ UNCHANGED <<discVars, callback, ddsVars, listener, held, stage>>

(* Faulty: the entry goes one reference too early. *)
UnsubscribeTooEarly(th) ==
  LET t == arg[th]
  IN  /\ pc[th] = "unsubscribe"
      /\ mutex = None
      /\ IF ref[t] \in 1..2
         THEN /\ ref' = [ref EXCEPT ![t] = 0]
              /\ ent' = [ent EXCEPT ![t] = None]
              /\ to_close' = [to_close EXCEPT ![th] = {ent[t]}]
              /\ pc' = [pc EXCEPT ![th] = "close"]
              /\ UNCHANGED <<cleanup_mutex, arg, new_sub>>
         ELSE Return(th) /\ UNCHANGED <<ref, ent, to_close>>
      /\ UNCHANGED <<discVars, callback, mutex, ddsVars, listener, held, stage>>

(* Without an entry (after unsubscribe_all) nothing happens; the last      *)
(* reference takes the entities out of the table, to be closed after       *)
(* mutex_ is released.                                                     *)
Unsubscribe(th) ==
  LET t == arg[th]
  IN  /\ pc[th] = "unsubscribe"
      /\ mutex = None
      /\ ref' = [ref EXCEPT ![t] = IF @ = 0 THEN 0 ELSE @ - 1]
      /\ IF ref[t] = 1
         THEN /\ ent' = [ent EXCEPT ![t] = None]
              /\ to_close' = [to_close EXCEPT ![th] = {ent[t]}]
              /\ pc' = [pc EXCEPT ![th] = "close"]
              /\ UNCHANGED <<cleanup_mutex, arg, new_sub>>
         ELSE Return(th) /\ UNCHANGED <<ent, to_close>>
      /\ UNCHANGED <<discVars, callback, mutex, ddsVars, listener, held, stage>>

(* close_subscription, close_reader: set_listener(nullptr) stops new       *)
(* callbacks ...                                                           *)
DetachListener(th, e) ==
  /\ pc[th] = "close"
  /\ e \in to_close[th]
  /\ "listener" \in parts[e]
  /\ parts' = [parts EXCEPT ![e] = @ \ {"listener"}]
  /\ UNCHANGED <<discVars, mgrVars, mutex, of, src, abandoned, listener, callVars, held, stage>>

(* ... and waits for a running one, then the entities are deleted.         *)
CloseEntities(th, e) ==
  /\ pc[th] = "close"
  /\ e \in to_close[th]
  /\ "listener" \notin parts[e]
  /\ listener[e] = "idle"
  /\ Delete(e)
  /\ to_close' = [to_close EXCEPT ![th] = @ \ {e}]
  /\ UNCHANGED <<discVars, mgrVars, mutex, abandoned, listener, cleanup_mutex, pc, arg, new_sub, held,
                 stage>>

(* Everything is closed: the call returns.                                 *)
Closed(th) ==
  /\ pc[th] = "close"
  /\ to_close[th] = {}
  /\ mutex' = IF mutex = th THEN None ELSE mutex
  /\ stage' = IF th = Loop /\ stage = "closing" THEN "unsubscribed" ELSE stage
  /\ Return(th)
  /\ UNCHANGED <<discVars, mgrVars, ddsVars, listener, to_close, held>>

-----------------------------------------------------------------------------
(* The shutdown, on the event loop.                                        *)

(* set_message_callback(nullptr) *)
ClearCallback ==
  /\ stage = "running"
  /\ pc[Loop] = "idle"
  /\ mutex = None
  /\ callback' = FALSE
  /\ stage' = "cleared"
  /\ UNCHANGED <<discVars, ref, ent, mutex, ddsVars, listener, callVars, held>>

(* unsubscribe_all *)
UnsubscribeAll ==
  /\ stage = "cleared"
  /\ mutex = None
  /\ to_close' = [to_close EXCEPT ![Loop] = {ent[t] : t \in Topics} \ {None}]
  /\ ref' = [t \in Topics |-> 0]
  /\ ent' = [t \in Topics |-> None]
  /\ pc' = [pc EXCEPT ![Loop] = "close"]
  /\ stage' = "closing"
  /\ UNCHANGED <<discVars, callback, mutex, ddsVars, listener, cleanup_mutex, arg, new_sub, held>>

(* Faulty: the server is taken to be stopped at once. *)
StopServerAtOnce ==
  /\ stage = "unsubscribed"
  /\ stage' = "stopped"
  /\ UNCHANGED <<discVars, mgrVars, mutex, ddsVars, listener, callVars, held>>

(* middleware->shutdown() stops the WebSocket server, which joins its      *)
(* threads.                                                                *)
StopServer ==
  /\ stage = "unsubscribed"
  /\ \A th \in WsThreads : pc[th] = "idle"
  /\ stage' = "stopped"
  /\ UNCHANGED <<discVars, mgrVars, mutex, ddsVars, listener, callVars, held>>

(* ... or gives up after kShutdownTimeoutSeconds on a thread that is still *)
(* in a callback; ServerLifecycle shows what that leaves behind.           *)
StopTimesOut ==
  /\ stage = "unsubscribed"
  /\ \E th \in WsThreads : pc[th] # "idle"
  /\ stage' = "timed_out"
  /\ UNCHANGED <<discVars, mgrVars, mutex, ddsVars, listener, callVars, held>>

(* ~FastDdsTopicSource, ~DdsTopicDiscovery, the last of the destructors:   *)
(* the discovery listener is detached, which waits for a call that runs,   *)
(* and the participant goes, with whatever it still contains.              *)
DeleteParticipant(d) ==
  LET contained == {e \in abandoned : src[e].domain = d}
  IN  /\ stage = "stopped"
      /\ d \in participants
      /\ discovering[d] = None
      /\ \A e \in contained : listener[e] = "idle"
      /\ participants' = participants \ {d}
      /\ parts' = [e \in Ents |-> IF e \in contained THEN {} ELSE parts[e]]
      /\ of' = [e \in Ents |-> IF e \in contained THEN None ELSE of[e]]
      /\ src' = [e \in Ents |-> IF e \in contained THEN NoSrc ELSE src[e]]
      /\ abandoned' = abandoned \ contained
      /\ UNCHANGED <<topics, discovering, mgrVars, mutex, listener, callVars, held, stage>>

-----------------------------------------------------------------------------
CallStep(th) ==
  \/ GetType(th) \/ GetParticipant(th)
  \/ CreateTopic(th) \/ CreateSubscriber(th) \/ CreateReader(th)
  \/ Insert(th) \/ SubscribeAbandons(th) \/ SubscribeUnwinds(th)
  \/ Unsubscribe(th)
  \/ \E e \in Ents : DetachListener(th, e) \/ CloseEntities(th, e)
  \/ Closed(th)

ListenerStep(e) == ListenerLock(e) \/ ListenerCall(e)

Next ==
  \/ \E d \in Domains :
       Cache(d) \/ Skip(d) \/ DeleteParticipant(d) \/ \E t \in Topics : Discover(d, t)
  \/ \E e \in Ents : DataAvailable(e) \/ ListenerStep(e)
  \/ \E t \in Topics : Subscribe(t) \/ \E th \in Threads : BeginUnsubscribe(th, t)
  \/ \E th \in Threads : CallStep(th)
  \/ ClearCallback
  \/ UnsubscribeAll
  \/ StopServer \/ StopTimesOut

Spec == Init /\ [][Next]_vars

(* The threads are scheduled: a call goes on, and so does a listener that  *)
(* has been called.  Nothing is assumed of the data that arrives.          *)
Fairness ==
  /\ \A th \in Threads : WF_vars(CallStep(th))
  /\ \A e \in Ents : WF_vars(ListenerStep(e))

FairSpec == Spec /\ Fairness

-----------------------------------------------------------------------------
(* Properties.                                                             *)

InUse == {ent[t] : t \in Topics} \cup {new_sub[th] : th \in Threads}
           \cup UNION {to_close[th] : th \in Threads}

(* What exists in DDS belongs to an entry of subscriptions_ or to a call   *)
(* that is still to insert or to close it, after any failure that DDS      *)
(* reports and in any order of calls.  Only what Fast DDS leaves after an  *)
(* exception has no owner: it was made for a topic that has no entry since *)
(* then, and goes with the participant.                                    *)
NoEntityLeaks ==
  /\ \A e \in Ents : parts[e] # {} => e \in InUse \cup abandoned
  /\ \A e \in abandoned : of[e] # None /\ ent[of[e]] = None /\ src[e].domain \in participants

(* Reference counts are those of the sessions: whenever no call is in      *)
(* progress and until the shutdown, a topic has as many references as      *)
(* sessions hold, and with one it has a reader.                            *)
CountsMatchSessions ==
  (stage = "running" /\ \A th \in Threads : pc[th] = "idle") =>
    \A t \in Topics :
      /\ ref[t] = held[t]
      /\ ref[t] > 0 <=> ent[t] # None
      /\ ent[t] # None => parts[ent[t]] = AllParts /\ of[ent[t]] = t

(* A DDS participant has at most one topic of a name: create_topic refuses *)
(* a second one, and the client would be told that the topic cannot be     *)
(* subscribed to, though it can.  None is refused but for one that an      *)
(* exception left behind.                                                  *)
NoTopicClash ==
  \A e, f \in Ents : e # f /\ parts[e] # {} /\ parts[f] # {} => of[e] # of[f]

(* A reader is made with the type and in the domain of one and the same    *)
(* discovery, though subscribe reads them one after the other.             *)
ReaderFromOneDiscovery ==
  \A e \in Ents : src[e].domain # None => src[e].type = src[e].domain

(* run_standalone_event_loop: "Explicit ordered shutdown to avoid          *)
(* use-after-free": when it returns with the server stopped and the bridge *)
(* is destroyed, there is no reader and no listener thread left that could *)
(* call into it, but for a reader that an exception left behind in Fast    *)
(* DDS; at no time is a listener called whose reader is deleted, or is     *)
(* there an entity whose participant is gone.                              *)
QuietAfterShutdown ==
  /\ stage = "stopped" => \A e \in Ents \ abandoned : parts[e] = {} /\ listener[e] = "idle"
  /\ \A e \in Ents : listener[e] # "idle" => "reader" \in parts[e]
  /\ \A e \in Ents : src[e].domain # None => src[e].domain \in participants

(* Every call returns, whatever data arrives: no caller waits for a        *)
(* listener that waits for the caller.                                     *)
CallsReturn == \A th \in Threads : pc[th] # "idle" ~> pc[th] = "idle"
=============================================================================
