---------------------------- MODULE TopicUpdates ----------------------------
(***************************************************************************)
(* Topic lists and the topics_changed notifications of the bridge:         *)
(* get_topics, (un)subscribe_topic_updates and the poll of the topic graph *)
(* (app/src/bridge_server.cpp), the flags of a session                     *)
(* (app/src/session_manager.cpp) and the ROS 2 topic source with its cache *)
(* of topic types (ros2/src/ros2_topic_source.cpp).                        *)
(*                                                                         *)
(* The graph of topics changes at any time.  Handlers and polls run on the *)
(* event-loop thread; a session may end at any time, when its client goes  *)
(* or is timed out.  A client keeps the list it was last given and applies *)
(* every notification to it: first what was removed, then what was added.  *)
(* Polling is on, so the first snapshot is taken before any request.       *)
(***************************************************************************)
EXTENDS Naturals, FiniteSets

CONSTANTS
  Clients,
  Topics,
  Types,
  Whitelisted,     \* topics that match the whitelist
  Unparsable,      \* types whose definition cannot be extracted
  MaxChanges,      \* bound: changes of the graph
  None

ASSUME SetsAssumption == Whitelisted \subseteq Topics /\ Unparsable \subseteq Types /\ None \notin Types
ASSUME ChangesAssumption == MaxChanges \in Nat

VARIABLES
  graph,           \* the types of the topics that exist now
  changes,         \* number of changes of the graph
  topic_type_cache,
  known_topics,
  sessions,
  topic_updates,   \* sessions that opted in
  include_schemas, \* sessions that want schemas in updates
  (* the event loop *)
  pc,
  asked,           \* the get_topics request that is served
  added,           \* types of the topics the notification adds
  removed,
  todo,            \* active sessions that have not had their turn
  (* clients *)
  view,            \* the entries a client knows
  (* history *)
  in_step          \* clients that opted in and had the list of the last poll

srvVars == <<topic_type_cache, known_topics>>
sesVars == <<sessions, topic_updates, include_schemas>>
vars == <<graph, changes, srvVars, sesVars, pc, asked, added, removed, todo, view, in_step>>

Graphs  == [Topics -> Types \cup {None}]
NoGraph == [t \in Topics |-> None]
NoEntry == [type |-> None, definition |-> None]
NoAsk   == [client |-> None, schemas |-> FALSE]

TypeOK ==
  /\ graph \in Graphs
  /\ changes \in 0..MaxChanges
  /\ topic_type_cache \in Graphs
  /\ known_topics \in Graphs
  /\ sessions \in SUBSET Clients
  /\ topic_updates \in SUBSET sessions
  /\ include_schemas \in SUBSET sessions
  /\ pc \in {"start", "idle", "list", "notify"}
  /\ asked \in [client : Clients \cup {None}, schemas : BOOLEAN]
  /\ added \in Graphs
  /\ removed \in SUBSET Topics
  /\ todo \in SUBSET Clients
  /\ view \in [Clients -> [Topics -> [type : Types \cup {None}, definition : Types \cup {None}]]]
  /\ in_step \in SUBSET Clients

Init ==
  /\ graph \in Graphs
  /\ changes = 0
  /\ topic_type_cache = NoGraph
  /\ known_topics = NoGraph
  /\ sessions = {}
  /\ topic_updates = {}
  /\ include_schemas = {}
  /\ pc = "start"
  /\ asked = NoAsk
  /\ added = NoGraph
  /\ removed = {}
  /\ todo = {}
  /\ view = [c \in Clients |-> [t \in Topics |-> NoEntry]]
  /\ in_step = {}

-----------------------------------------------------------------------------
(* The environment.                                                        *)

(* A topic appears, disappears or changes its type.                        *)
Change(t, ty) ==
  /\ changes < MaxChanges
  /\ ty # graph[t]
  /\ changes' = changes + 1
  /\ graph' = [graph EXCEPT ![t] = ty]
  /\ UNCHANGED <<srvVars, sesVars, pc, asked, added, removed, todo, view, in_step>>

(* cleanup_session, also on a WebSocket thread.                            *)
EndSession(c) ==
  /\ c \in sessions
  /\ sessions' = sessions \ {c}
  /\ topic_updates' = topic_updates \ {c}
  /\ include_schemas' = include_schemas \ {c}
  /\ in_step' = in_step \ {c}
  /\ UNCHANGED <<graph, changes, srvVars, pc, asked, added, removed, todo, view>>

-----------------------------------------------------------------------------
(* Lists.                                                                  *)

(* whitelist_.matches *)
Visible(g) == [t \in Topics |-> IF t \in Whitelisted THEN g[t] ELSE None]

TypesOf(entries) == [t \in Topics |-> entries[t].type]

(* Faulty: the definition of the type the topic has now. *)
GetSchemaOfGraph(t) == IF graph[t] \in Unparsable THEN None ELSE graph[t]

(* Ros2TopicSource::get_schema, for a type in the cache.                   *)
get_schema(t) == IF topic_type_cache[t] \in Unparsable THEN None ELSE topic_type_cache[t]

(* attach_schema_fields: without definition if it cannot be extracted.     *)
Entry(t, type, schemas) == [type |-> type, definition |-> IF schemas THEN get_schema(t) ELSE None]

(* get_topics of the topic source reads the graph, and replaces the cache. *)
GetTopics(c, schemas) ==
  /\ pc = "idle"
  /\ sessions' = sessions \cup {c}
  /\ topic_type_cache' = graph
  /\ asked' = [client |-> c, schemas |-> schemas]
  /\ pc' = "list"
  /\ UNCHANGED <<graph, changes, known_topics, topic_updates, include_schemas, added, removed,
                 todo, view, in_step>>

(* The response, with definitions if they were asked for.                  *)
ListReply ==
  LET c    == asked.client
      list == Visible(topic_type_cache)
  IN  /\ pc = "list"
      /\ view' = [view EXCEPT ![c] = [t \in Topics |->
           IF list[t] = None THEN NoEntry ELSE Entry(t, list[t], asked.schemas)]]
      /\ in_step' = IF c \in topic_updates /\ list = known_topics THEN in_step \cup {c}
                    ELSE in_step \ {c}
      /\ pc' = "idle"
      /\ asked' = NoAsk
      /\ UNCHANGED <<graph, changes, srvVars, sesVars, added, removed, todo>>

(* handle_subscribe reads the topics too.                                  *)
SubscribeReads(c) ==
  /\ pc = "idle"
  /\ sessions' = sessions \cup {c}
  /\ topic_type_cache' = graph
  /\ UNCHANGED <<graph, changes, known_topics, topic_updates, include_schemas, pc, asked, added,
                 removed, todo, view, in_step>>

SubscribeTopicUpdates(c, schemas) ==
  /\ pc = "idle"
  /\ sessions' = sessions \cup {c}
  /\ topic_updates' = topic_updates \cup {c}
  /\ include_schemas' = IF schemas THEN include_schemas \cup {c} ELSE include_schemas \ {c}
  /\ in_step' = IF TypesOf(view[c]) = known_topics THEN in_step \cup {c} ELSE in_step
  /\ UNCHANGED <<graph, changes, srvVars, pc, asked, added, removed, todo, view>>

UnsubscribeTopicUpdates(c) ==
  /\ pc = "idle"
  /\ sessions' = sessions \cup {c}
  /\ topic_updates' = topic_updates \ {c}
  /\ in_step' = in_step \ {c}
  /\ UNCHANGED <<graph, changes, srvVars, include_schemas, pc, asked, added, removed, todo, view>>

-----------------------------------------------------------------------------
(* check_topic_changes.                                                    *)

(* The first call takes the snapshot and sends nothing.                    *)
Baseline ==
  /\ pc = "start"
  /\ topic_type_cache' = graph
  /\ known_topics' = Visible(graph)
  /\ pc' = "idle"
  /\ UNCHANGED <<graph, changes, sesVars, asked, added, removed, todo, view, in_step>>

(* Faulty: a topic that changed its type is not new. *)
AddedByName(old, new) == [t \in Topics |-> IF old[t] = None THEN new[t] ELSE None]

(* New topics and those of another type.                                   *)
Added(old, new) == [t \in Topics |-> IF new[t] # old[t] THEN new[t] ELSE None]

(* Topics that are gone and those of another type.                         *)
Removed(old, new) == {t \in Topics : old[t] # None /\ new[t] # old[t]}

(* Faulty: only names are compared to see whether anything changed. *)
PollByNames ==
  LET current_topics == Visible(graph)
      changed == \E t \in Topics : (known_topics[t] = None) # (current_topics[t] = None)
  IN  /\ pc = "idle"
      /\ topic_type_cache' = graph
      /\ known_topics' = IF changed THEN current_topics ELSE known_topics
      /\ added' = IF changed THEN Added(known_topics, current_topics) ELSE NoGraph
      /\ removed' = IF changed THEN Removed(known_topics, current_topics) ELSE {}
      /\ todo' = IF changed THEN sessions ELSE {}
      /\ pc' = IF changed THEN "notify" ELSE "idle"
      /\ UNCHANGED <<graph, changes, sesVars, asked, view, in_step>>

(* The graph is read and compared with what the last poll saw.  The        *)
(* sessions are listed after that, on the same thread.                     *)
Poll ==
  LET current_topics == Visible(graph)
  IN  /\ pc = "idle"
      /\ topic_type_cache' = graph
      /\ known_topics' = current_topics
      /\ added' = Added(known_topics, current_topics)
      /\ removed' = Removed(known_topics, current_topics)
      /\ todo' = IF current_topics = known_topics THEN {} ELSE sessions
      /\ pc' = IF current_topics = known_topics THEN "idle" ELSE "notify"
      /\ UNCHANGED <<graph, changes, sesVars, asked, view, in_step>>

(* One client's turn: its flags are read now.                              *)
Notify(c) ==
  /\ pc = "notify"
  /\ c \in todo
  /\ todo' = todo \ {c}
  /\ view' = IF c \notin topic_updates THEN view
             ELSE [view EXCEPT ![c] = [t \in Topics |->
                    IF added[t] # None THEN Entry(t, added[t], c \in include_schemas)
                    ELSE IF t \in removed THEN NoEntry ELSE view[c][t]]]
  /\ UNCHANGED <<graph, changes, srvVars, sesVars, pc, asked, added, removed, in_step>>

Notified ==
  /\ pc = "notify"
  /\ todo = {}
  /\ pc' = "idle"
  /\ added' = NoGraph
  /\ removed' = {}
  /\ UNCHANGED <<graph, changes, srvVars, sesVars, asked, todo, view, in_step>>

-----------------------------------------------------------------------------
LoopStep == Baseline \/ ListReply \/ Notified \/ \E c \in Clients : Notify(c)

Next ==
  \/ \E t \in Topics, ty \in Types \cup {None} : Change(t, ty)
  \/ \E c \in Clients :
       \/ EndSession(c)
       \/ \E schemas \in BOOLEAN : GetTopics(c, schemas) \/ SubscribeTopicUpdates(c, schemas)
       \/ SubscribeReads(c)
       \/ UnsubscribeTopicUpdates(c)
  \/ Poll
  \/ LoopStep

Spec == Init /\ [][Next]_vars

(* The event loop goes on, and however many requests there are it polls    *)
(* once per interval: a turn serves a bounded number of requests.          *)
Fairness == WF_vars(LoopStep) /\ SF_vars(Poll)

FairSpec == Spec /\ Fairness

-----------------------------------------------------------------------------
(* Properties.                                                             *)

(* docs/API.md: notifications are sent "whenever the topic set has changed *)
(* since the last poll", a topic of another type as both removed and       *)
(* added: a client that opted in and had the list of the last poll has the *)
(* list of every later poll.                                               *)
InStepStays == pc = "idle" => \A c \in in_step : TypesOf(view[c]) = known_topics

(* A definition a client is sent is that of the type it is sent with, even *)
(* if the topic changes its type between the two lookups.                  *)
SchemaMatchesType ==
  \A c \in Clients, t \in Topics : view[c][t].definition \in {None, view[c][t].type}

(* A client in step learns what the topics are once they stay what they    *)
(* are.                                                                    *)
ChangesAreTold ==
  \A c \in Clients :
    c \in in_step ~> (c \notin in_step \/ TypesOf(view[c]) = Visible(graph))
=============================================================================
