------------------------- MODULE TopicUpdatesProofs -------------------------
(***************************************************************************)
(* Topic lists and notifications, for any clients, topics, types and       *)
(* whitelist and any number of changes of the graph.                       *)
(*                                                                         *)
(* InStepStays speaks of the event loop at rest.  It is carried through a  *)
(* round of notifications by what holds in the middle of one: a client     *)
(* that had its turn has the new list, and one that waits for it has a     *)
(* list that the notification will turn into the new one.                  *)
(***************************************************************************)
EXTENDS TopicUpdates, TLAPS

(* The notification being sent turns the list v into that of the poll.     *)
Updates(v) ==
  \A t \in Topics : added[t] = None /\ t \notin removed => v[t].type = known_topics[t]

(* A notification speaks of the list of the poll and of the types in the   *)
(* cache.                                                                  *)
NotificationIsTrue ==
  pc = "notify" =>
    /\ known_topics = Visible(topic_type_cache)
    /\ \A t \in Topics : added[t] \in {None, known_topics[t]}
    /\ \A t \in removed : added[t] = None => known_topics[t] = None

(* Who is in step, at rest and during a round.                             *)
StepsInRound ==
  /\ in_step \subseteq topic_updates
  /\ pc = "start" => in_step = {}
  /\ pc \in {"idle", "list"} => \A c \in in_step : TypesOf(view[c]) = known_topics
  /\ pc = "notify" => \A c \in in_step :
       IF c \in todo THEN Updates(view[c]) ELSE TypesOf(view[c]) = known_topics

(* The request that is served is a client's.                               *)
AskedIsClient == pc = "list" => asked.client \in Clients

(* The inductive invariant. *)
UpdInv == TypeOK /\ AskedIsClient /\ NotificationIsTrue /\ StepsInRound /\ SchemaMatchesType

-----------------------------------------------------------------------------
(* A whitelisted view of a graph is a graph.                               *)
LEMMA VisibleIsGraph == ASSUME NEW g \in Graphs PROVE Visible(g) \in Graphs
BY DEF Visible, Graphs

(* What a poll announces, applied to the old list, gives the new one.      *)
LEMMA AnnouncedIsDifference ==
  ASSUME NEW old \in Graphs, NEW new \in Graphs
  PROVE  /\ Added(old, new) \in Graphs
         /\ Removed(old, new) \subseteq Topics
         /\ \A t \in Topics : Added(old, new)[t] \in {None, new[t]}
         /\ \A t \in Removed(old, new) : Added(old, new)[t] = None => new[t] = None
         /\ \A t \in Topics :
              Added(old, new)[t] = None /\ t \notin Removed(old, new) => new[t] = old[t]
BY DEF Added, Removed, Graphs

(* An entry that is sent has the topic's type in the cache and no other    *)
(* definition than that of the type.                                       *)
LEMMA EntryFacts ==
  ASSUME TypeOK, NEW t \in Topics, NEW schemas \in BOOLEAN
  PROVE  LET e == Entry(t, topic_type_cache[t], schemas)
         IN  /\ e \in [type : Types \cup {None}, definition : Types \cup {None}]
             /\ e.type = topic_type_cache[t]
             /\ e.definition \in {None, e.type}
BY DEF Entry, get_schema, TypeOK, Graphs

(* At the start nobody has a session and nobody is in step.                *)
LEMMA UpdInit == ASSUME Init PROVE UpdInv
<1>1. TypeOK
  BY ChangesAssumption DEF Init, TypeOK, Graphs, NoGraph, NoAsk, NoEntry
<1>2. AskedIsClient /\ NotificationIsTrue /\ StepsInRound
  BY DEF Init, AskedIsClient, NotificationIsTrue, StepsInRound
<1>3. SchemaMatchesType
  BY DEF Init, SchemaMatchesType, NoEntry
<1>. QED  BY <1>1, <1>2, <1>3 DEF UpdInv

(* What a step leaves alone when it is no handler's and no poll's.         *)
LEMMA UpdUnchanged ==
  ASSUME UpdInv, UNCHANGED <<srvVars, pc, asked, added, removed, todo, view>>,
         TypeOK', in_step' \subseteq in_step, in_step' \subseteq topic_updates'
  PROVE  UpdInv'
<1>. USE DEF UpdInv, srvVars
<1>1. AskedIsClient' /\ NotificationIsTrue' /\ SchemaMatchesType'
  BY DEF AskedIsClient, NotificationIsTrue, SchemaMatchesType, Visible
<1>2. StepsInRound'
  BY DEF StepsInRound, Updates, TypesOf
<1>. QED  BY <1>1, <1>2

(* The graph changes, and sessions end, at any time.                       *)
LEMMA EnvironmentStep ==
  ASSUME UpdInv,
         \/ \E t \in Topics, ty \in Types \cup {None} : Change(t, ty)
         \/ \E c \in Clients : EndSession(c)
         \/ UNCHANGED vars
  PROVE  UpdInv'
<1>. TypeOK /\ in_step \subseteq topic_updates
  BY DEF UpdInv, StepsInRound
<1>1. CASE \E t \in Topics, ty \in Types \cup {None} : Change(t, ty)
  <2>1. PICK t \in Topics, ty \in Types \cup {None} : Change(t, ty)
    BY <1>1
  <2>2. changes' \in 0..MaxChanges
    BY <2>1, ChangesAssumption DEF Change, TypeOK
  <2>3. graph' \in Graphs
    BY <2>1 DEF Change, TypeOK, Graphs
  <2>4. TypeOK'
    BY <2>1, <2>2, <2>3 DEF Change, TypeOK, srvVars, sesVars
  <2>. QED  BY <2>1, <2>4, UpdUnchanged DEF Change, sesVars
<1>2. CASE \E c \in Clients : EndSession(c)
  <2>1. PICK c \in Clients : EndSession(c)
    BY <1>2
  <2>2. TypeOK'
    BY <2>1 DEF EndSession, TypeOK, srvVars
  <2>. QED  BY <2>1, <2>2, UpdUnchanged DEF EndSession
<1>3. CASE UNCHANGED vars
  <2>1. TypeOK'
    BY <1>3 DEF vars, TypeOK, srvVars, sesVars
  <2>. QED  BY <1>3, <2>1, UpdUnchanged DEF vars, sesVars
<1>. QED  BY <1>1, <1>2, <1>3

(* Requests other than the reply to get_topics: they are served at rest    *)
(* and change nobody's list.                                               *)
LEMMA RequestStep ==
  ASSUME UpdInv, NEW c \in Clients,
         \/ \E schemas \in BOOLEAN : GetTopics(c, schemas) \/ SubscribeTopicUpdates(c, schemas)
         \/ SubscribeReads(c)
         \/ UnsubscribeTopicUpdates(c)
  PROVE  UpdInv'
<1>. USE DEF UpdInv
<1>1. ASSUME NEW schemas \in BOOLEAN, GetTopics(c, schemas) PROVE UpdInv'
  <2>1. TypeOK' /\ AskedIsClient'
    BY <1>1 DEF GetTopics, TypeOK, AskedIsClient
  <2>2. NotificationIsTrue' /\ SchemaMatchesType'
    BY <1>1 DEF GetTopics, NotificationIsTrue, SchemaMatchesType
  <2>3. StepsInRound'
    BY <1>1 DEF GetTopics, StepsInRound, TypesOf
  <2>. QED  BY <2>1, <2>2, <2>3
<1>2. ASSUME NEW schemas \in BOOLEAN, SubscribeTopicUpdates(c, schemas) PROVE UpdInv'
  <2>1. TypeOK'
    BY <1>2 DEF SubscribeTopicUpdates, TypeOK, srvVars
  <2>2. AskedIsClient' /\ NotificationIsTrue' /\ SchemaMatchesType'
    BY <1>2 DEF SubscribeTopicUpdates, AskedIsClient, NotificationIsTrue, SchemaMatchesType, srvVars
  <2>3. StepsInRound'
    BY <1>2 DEF SubscribeTopicUpdates, StepsInRound, TypesOf, srvVars
  <2>. QED  BY <2>1, <2>2, <2>3
<1>3. CASE SubscribeReads(c)
  <2>1. TypeOK'
    BY <1>3 DEF SubscribeReads, TypeOK
  <2>2. AskedIsClient' /\ NotificationIsTrue' /\ SchemaMatchesType'
    BY <1>3 DEF SubscribeReads, AskedIsClient, NotificationIsTrue, SchemaMatchesType
  <2>3. StepsInRound'
    BY <1>3 DEF SubscribeReads, StepsInRound, TypesOf
  <2>. QED  BY <2>1, <2>2, <2>3
<1>4. CASE UnsubscribeTopicUpdates(c)
  <2>1. TypeOK'
    BY <1>4 DEF UnsubscribeTopicUpdates, TypeOK, srvVars
  <2>2. AskedIsClient' /\ NotificationIsTrue' /\ SchemaMatchesType'
    BY <1>4 DEF UnsubscribeTopicUpdates, AskedIsClient, NotificationIsTrue, SchemaMatchesType, srvVars
  <2>3. StepsInRound'
    BY <1>4 DEF UnsubscribeTopicUpdates, StepsInRound, TypesOf, srvVars
  <2>. QED  BY <2>1, <2>2, <2>3
<1>. QED  BY <1>1, <1>2, <1>3, <1>4

(* The reply to get_topics: the client gets the list in the cache.         *)
LEMMA ListReplyStep == ASSUME UpdInv, ListReply PROVE UpdInv'
<1>. DEFINE c == asked.client
            list == Visible(topic_type_cache)
            v == [t \in Topics |-> IF list[t] = None THEN NoEntry
                                   ELSE Entry(t, list[t], asked.schemas)]
<1>. TypeOK
  BY DEF UpdInv
<1>1. c \in Clients /\ asked.schemas \in BOOLEAN /\ list \in Graphs /\ pc = "list"
  BY VisibleIsGraph DEF UpdInv, AskedIsClient, ListReply, TypeOK
<1>2. ASSUME NEW t \in Topics, list[t] # None PROVE list[t] = topic_type_cache[t]
  BY <1>2 DEF Visible
<1>3. ASSUME NEW t \in Topics
      PROVE  /\ v[t] \in [type : Types \cup {None}, definition : Types \cup {None}]
             /\ v[t].type = list[t]
             /\ v[t].definition \in {None, v[t].type}
  <2>1. CASE list[t] = None
    BY <2>1 DEF NoEntry
  <2>2. CASE list[t] # None
    <3>1. v[t] = Entry(t, topic_type_cache[t], asked.schemas)
      BY <1>2, <2>2
    <3>. QED  BY <1>1, <1>2, <2>2, <3>1, EntryFacts
  <2>. QED  BY <2>1, <2>2
<1>4. view' = [view EXCEPT ![c] = v]
  BY DEF ListReply
<1>. HIDE DEF v
<1>5. view'[c] = v /\ \A d \in Clients \ {c} : view'[d] = view[d]
  BY <1>1, <1>4 DEF TypeOK
<1>6. TypesOf(view'[c]) = list
  BY <1>1, <1>3, <1>5 DEF TypesOf, Graphs
<1>7. TypeOK'
  <2>1. v \in [Topics -> [type : Types \cup {None}, definition : Types \cup {None}]]
    BY <1>3 DEF v
  <2>2. view' \in [Clients -> [Topics -> [type : Types \cup {None}, definition : Types \cup {None}]]]
    BY <1>4, <2>1 DEF TypeOK
  <2>3. asked' \in [client : Clients \cup {None}, schemas : BOOLEAN]
    BY DEF ListReply, NoAsk
  <2>4. in_step' \in SUBSET Clients
    BY <1>1 DEF ListReply, TypeOK
  <2>. QED  BY <2>2, <2>3, <2>4 DEF ListReply, TypeOK, srvVars, sesVars
<1>8. StepsInRound'
  <2>1. pc' = "idle" /\ UNCHANGED <<known_topics, topic_updates>>
    BY DEF ListReply, srvVars, sesVars
  <2>2. in_step' \subseteq topic_updates'
    BY <2>1 DEF ListReply, UpdInv, StepsInRound
  <2>3. c \in in_step' => list = known_topics
    BY DEF ListReply
  <2>4. \A d \in in_step' : d # c => d \in in_step /\ d \in Clients
    BY <1>7 DEF ListReply, TypeOK
  <2>5. \A d \in in_step' : d # c => TypesOf(view'[d]) = known_topics
    BY <1>1, <1>5, <2>4 DEF UpdInv, StepsInRound
  <2>. QED  BY <1>6, <2>1, <2>2, <2>3, <2>5 DEF StepsInRound
<1>9. SchemaMatchesType'
  BY <1>3, <1>5 DEF UpdInv, SchemaMatchesType
<1>10. AskedIsClient' /\ NotificationIsTrue'
  BY DEF ListReply, AskedIsClient, NotificationIsTrue
<1>. QED  BY <1>7, <1>8, <1>9, <1>10 DEF UpdInv

(* The first snapshot: nobody is in step yet.                              *)
LEMMA BaselineStep == ASSUME UpdInv, Baseline PROVE UpdInv'
<1>. USE DEF UpdInv
<1>1. TypeOK'
  BY VisibleIsGraph DEF Baseline, TypeOK, sesVars
<1>2. AskedIsClient' /\ NotificationIsTrue' /\ SchemaMatchesType'
  BY DEF Baseline, AskedIsClient, NotificationIsTrue, SchemaMatchesType
<1>3. StepsInRound'
  BY DEF Baseline, StepsInRound, sesVars
<1>. QED  BY <1>1, <1>2, <1>3

(* A poll: who was in step has the old list, which the notification turns  *)
(* into the new one; all of them are still to have their turn.             *)
LEMMA PollStep == ASSUME UpdInv, Poll PROVE UpdInv'
<1>. DEFINE new == Visible(graph)
<1>. TypeOK
  BY DEF UpdInv
<1>1. new \in Graphs /\ known_topics \in Graphs /\ pc = "idle"
  BY VisibleIsGraph DEF Poll, TypeOK
<1>2. /\ added' = Added(known_topics, new) /\ removed' = Removed(known_topics, new)
      /\ known_topics' = new /\ topic_type_cache' = graph
      /\ UNCHANGED <<graph, changes, sesVars, asked, view, in_step>>
  BY DEF Poll
<1>. HIDE DEF new
<1>3. TypeOK'
  <2>1. todo' \in SUBSET Clients /\ pc' \in {"idle", "notify"}
    BY DEF Poll, TypeOK
  <2>. QED  BY <1>1, <1>2, <2>1, AnnouncedIsDifference DEF TypeOK, sesVars
<1>4. AskedIsClient' /\ SchemaMatchesType'
  BY <1>2 DEF Poll, UpdInv, AskedIsClient, SchemaMatchesType
<1>5. NotificationIsTrue'
  BY <1>1, <1>2, AnnouncedIsDifference DEF NotificationIsTrue, new, Visible
<1>6. StepsInRound'
  <2>1. in_step' \subseteq topic_updates' /\ in_step \subseteq sessions
    BY <1>2 DEF UpdInv, StepsInRound, TypeOK, sesVars
  <2>2. \A c \in in_step : TypesOf(view[c]) = known_topics
    BY <1>1 DEF UpdInv, StepsInRound
  <2>3. CASE new = known_topics
    BY <1>2, <2>1, <2>2, <2>3 DEF Poll, StepsInRound, new
  <2>4. CASE new # known_topics
    <3>1. pc' = "notify" /\ todo' = sessions
      BY <2>4 DEF Poll, new
    <3>2. ASSUME NEW c \in in_step' PROVE c \in todo' /\ Updates(view[c])'
      <4>1. c \in in_step /\ c \in todo'
        BY <1>2, <2>1, <3>1
      <4>2. ASSUME NEW t \in Topics PROVE view[c][t].type = known_topics[t]
        BY <2>2, <4>1 DEF TypesOf
      <4>3. \A t \in Topics : added'[t] = None /\ t \notin removed' => view'[c][t].type = known_topics'[t]
        BY <1>1, <1>2, <4>2, AnnouncedIsDifference
      <4>. QED  BY <4>1, <4>3 DEF Updates
    <3>. QED  BY <2>1, <3>1, <3>2 DEF StepsInRound
  <2>. QED  BY <2>3, <2>4
<1>. QED  BY <1>3, <1>4, <1>5, <1>6 DEF UpdInv

(* One client's turn.                                                      *)
LEMMA NotifyStep == ASSUME UpdInv, NEW c \in Clients, Notify(c) PROVE UpdInv'
<1>. DEFINE v == [t \in Topics |->
                    IF added[t] # None THEN Entry(t, added[t], c \in include_schemas)
                    ELSE IF t \in removed THEN NoEntry ELSE view[c][t]]
<1>. TypeOK
  BY DEF UpdInv
<1>1. /\ pc = "notify" /\ c \in todo /\ todo' = todo \ {c}
      /\ UNCHANGED <<graph, changes, srvVars, sesVars, pc, asked, added, removed, in_step>>
      /\ view' = IF c \notin topic_updates THEN view ELSE [view EXCEPT ![c] = v]
  BY DEF Notify
<1>2. ASSUME NEW t \in Topics
      PROVE  /\ v[t] \in [type : Types \cup {None}, definition : Types \cup {None}]
             /\ v[t].definition \in {None, v[t].type}
             /\ Updates(view[c]) => v[t].type = known_topics[t]
  <2>1. CASE added[t] # None
    <3>1. added[t] = known_topics[t] /\ known_topics[t] = Visible(topic_type_cache)[t]
      BY <1>1, <2>1 DEF UpdInv, NotificationIsTrue
    <3>2. added[t] = topic_type_cache[t]
      BY <2>1, <3>1 DEF Visible
    <3>3. v[t] = Entry(t, topic_type_cache[t], c \in include_schemas)
      BY <2>1, <3>2
    <3>4. (c \in include_schemas) \in BOOLEAN
      OBVIOUS
    <3>. HIDE DEF v
    <3>. QED  BY <3>1, <3>2, <3>3, <3>4, EntryFacts
  <2>2. CASE added[t] = None /\ t \in removed
    <3>1. v[t] = NoEntry
      BY <2>2
    <3>. QED  BY <1>1, <2>2, <3>1 DEF UpdInv, NotificationIsTrue, NoEntry
  <2>3. CASE added[t] = None /\ t \notin removed
    <3>1. v[t] = view[c][t]
      BY <2>3
    <3>. QED  BY <2>3, <3>1 DEF UpdInv, SchemaMatchesType, TypeOK, Updates
  <2>. QED  BY <2>1, <2>2, <2>3
<1>3. v \in [Topics -> [type : Types \cup {None}, definition : Types \cup {None}]]
  BY <1>2
<1>. HIDE DEF v
<1>4. view' \in [Clients -> [Topics -> [type : Types \cup {None}, definition : Types \cup {None}]]]
  BY <1>1, <1>3 DEF TypeOK
<1>5. /\ \A d \in Clients \ {c} : view'[d] = view[d]
      /\ c \in topic_updates => view'[c] = v
      /\ c \notin topic_updates => view'[c] = view[c]
  BY <1>1 DEF TypeOK
<1>6. TypeOK'
  BY <1>1, <1>4 DEF TypeOK, srvVars, sesVars
<1>7. AskedIsClient' /\ NotificationIsTrue'
  BY <1>1 DEF UpdInv, AskedIsClient, NotificationIsTrue, Visible, srvVars
<1>8. SchemaMatchesType'
  BY <1>2, <1>5 DEF UpdInv, SchemaMatchesType
<1>9. StepsInRound'
  <2>1. in_step' \subseteq topic_updates' /\ in_step' \subseteq Clients
    BY <1>1, <1>6 DEF UpdInv, StepsInRound, TypeOK, sesVars
  <2>2. ASSUME NEW d \in in_step'
        PROVE  IF d \in todo' THEN Updates(view[d])' ELSE TypesOf(view'[d]) = known_topics'
    <3>1. d \in in_step /\ d \in topic_updates /\ d \in Clients
      BY <1>1, <2>1 DEF sesVars
    <3>2. IF d \in todo THEN Updates(view[d]) ELSE TypesOf(view[d]) = known_topics
      BY <1>1, <3>1 DEF UpdInv, StepsInRound
    <3>3. CASE d = c
      <4>1. \A t \in Topics : view'[c][t].type = known_topics[t]
        BY <1>1, <1>2, <1>5, <3>1, <3>2, <3>3
      <4>2. known_topics \in [Topics -> Types \cup {None}]
        BY DEF TypeOK, Graphs
      <4>. QED  BY <1>1, <3>3, <4>1, <4>2 DEF TypesOf, srvVars
    <3>4. CASE d # c
      BY <1>1, <1>5, <3>1, <3>2, <3>4 DEF Updates, srvVars
    <3>. QED  BY <3>3, <3>4
  <2>. QED  BY <1>1, <2>1, <2>2 DEF StepsInRound
<1>. QED  BY <1>6, <1>7, <1>8, <1>9 DEF UpdInv

(* The end of a round: everybody in step had a turn.                       *)
LEMMA NotifiedStep == ASSUME UpdInv, Notified PROVE UpdInv'
<1>. USE DEF UpdInv
<1>1. TypeOK'
  BY DEF Notified, TypeOK, NoGraph, Graphs, srvVars, sesVars
<1>2. AskedIsClient' /\ NotificationIsTrue' /\ SchemaMatchesType'
  BY DEF Notified, AskedIsClient, NotificationIsTrue, SchemaMatchesType
<1>3. StepsInRound'
  BY DEF Notified, StepsInRound, TypesOf, srvVars, sesVars
<1>. QED  BY <1>1, <1>2, <1>3

(* The invariant holds throughout.                                         *)
LEMMA UpdInvariant == Spec => []UpdInv
<1>1. ASSUME UpdInv, [Next]_vars PROVE UpdInv'
  BY <1>1, EnvironmentStep, RequestStep, ListReplyStep, BaselineStep, PollStep, NotifyStep,
     NotifiedStep DEF Next, LoopStep
<1>. QED  BY <1>1, UpdInit, PTL DEF Spec

-----------------------------------------------------------------------------
(* The state of lists and notifications keeps its type; in particular only *)
(* sessions have update flags.                                             *)
THEOREM UpdTypeCorrect == Spec => []TypeOK
<1>1. UpdInv => TypeOK
  BY DEF UpdInv
<1>. QED  BY <1>1, UpdInvariant, PTL

(* docs/API.md, "topics_changed": a client that opted in with the list of  *)
(* the last poll has the list of every later one, however the graph        *)
(* changes, whoever comes and goes during a round of notifications.        *)
THEOREM NobodyFallsBehind == Spec => []InStepStays
<1>1. UpdInv => InStepStays
  BY DEF UpdInv, StepsInRound, InStepStays
<1>. QED  BY <1>1, UpdInvariant, PTL

(* Ros2TopicSource::get_schema after get_topics: no client is ever sent a  *)
(* definition of another type than the one it is sent with.                *)
THEOREM SchemasBelongToTypes == Spec => []SchemaMatchesType
<1>1. UpdInv => SchemaMatchesType
  BY DEF UpdInv
<1>. QED  BY <1>1, UpdInvariant, PTL
=============================================================================
