--------------------------- MODULE Ros2Subscribe ---------------------------
(***************************************************************************)
(* The ROS 2 backend on the way of one topic from a request to a           *)
(* subscription: SchemaExtractor and QosAdaptation in the order in which   *)
(* the event loop calls them.  handle_subscribe extracts the schema before *)
(* it takes any reference, and only then subscribe computes the QoS; of a  *)
(* paused client it only records the topic, and handle_resume subscribes   *)
(* without extracting.  The topic list extracts schemas of any topics and  *)
(* subscribes to none.                                                     *)
(*                                                                         *)
(* The module ends with the first subscription: a client that pauses later *)
(* and resumes has adapt_qos run again.  A topic keeps its type once its   *)
(* schema was sent; TopicUpdates is about types that change.               *)
(***************************************************************************)
EXTENDS QosAdaptation, SchemaExtractor

VARIABLES
  request,         \* the request the event loop works on, None between requests
  topic_type,      \* the topic's type in that request or in the session, Missing if neither
  paused,          \* the client's session is paused
  sent_schema      \* the schema in the response to the client, Missing if there is none

None == "none"

sessionVars == <<topic_type, paused, sent_schema>>
ros2Vars == <<vars, schemaVars, request, sessionVars>>

(* add_subscription and the schema in the response go together.            *)
InSession == sent_schema # Missing

Ros2Init ==
  /\ Init
  /\ SchemaInit
  /\ request = None
  /\ topic_type = Missing
  /\ paused = FALSE
  /\ sent_schema = Missing

-----------------------------------------------------------------------------
(* handle_get_topics with schemas, check_topic_changes: one of the topics. *)
List(type) ==
  /\ request = None
  /\ GetDefinition(type)
  /\ request' = IF root' = Missing THEN None ELSE "list"
  /\ UNCHANGED <<vars, sessionVars>>

(* The result of extract_schema: a failure ends the request; a paused      *)
(* client is sent the schema and gets no subscription; for any other the   *)
(* subscription is made.                                                   *)
AfterExtract(type) ==
  /\ topic_type' = IF definition' = Missing THEN Missing ELSE type
  /\ request' = IF definition' = Missing \/ paused THEN None ELSE "subscribe"
  /\ sent_schema' = IF paused THEN definition' ELSE sent_schema

(* handle_subscribe for a topic that the session does not have.            *)
Request(type) ==
  /\ request = None /\ ~InSession
  /\ GetDefinition(type)
  /\ \/ root' = Missing /\ AfterExtract(type)
     \/ root' # Missing /\ request' = "extract" /\ topic_type' = type /\ UNCHANGED sent_schema
  /\ UNCHANGED <<vars, paused>>

Extract ==
  /\ request \in {"list", "extract"}
  /\ BuildStep
  /\ \/ root' # Missing /\ UNCHANGED <<request, topic_type, sent_schema>>
     \/ root' = Missing /\ request = "list" /\ request' = None /\ UNCHANGED <<topic_type, sent_schema>>
     \/ root' = Missing /\ request = "extract" /\ AfterExtract(topic_type)
  /\ UNCHANGED <<vars, paused>>

(* handle_pause of a client without a subscription.                        *)
Pause ==
  /\ request = None /\ ~done
  /\ paused' = TRUE
  /\ UNCHANGED <<vars, schemaVars, request, topic_type, sent_schema>>

(* handle_resume: it subscribes to the topic if the session has it and it  *)
(* is there.                                                               *)
Resume ==
  /\ request = None /\ paused
  /\ paused' = FALSE
  /\ request' \in IF InSession THEN {None, "resume"} ELSE {None}
  /\ UNCHANGED <<vars, schemaVars, topic_type, sent_schema>>

(* adapt_qos; when it is done, the subscription exists and the response to *)
(* a subscribe carries the schema.                                         *)
Adapt ==
  /\ request \in {"subscribe", "resume"}
  /\ Next
  /\ request' = IF done' THEN None ELSE request
  /\ sent_schema' = IF done' /\ request = "subscribe" THEN definition ELSE sent_schema
  /\ UNCHANGED <<schemaVars, topic_type, paused>>

Ros2Next ==
  \/ \E t \in Types : Install(t) /\ UNCHANGED <<vars, request, sessionVars>>
  \/ \E type \in Types \cup Malformed : List(type) \/ Request(type)
  \/ Extract
  \/ Pause
  \/ Resume
  \/ Adapt

Ros2Spec == Ros2Init /\ [][Ros2Next]_ros2Vars

-----------------------------------------------------------------------------
(* Properties.                                                             *)

(* handle_subscribe: "Validate topics and extract schemas BEFORE taking    *)
(* any refs", and "the client can't decode a topic whose schema is         *)
(* missing": a client with a subscription, made by a subscribe or by a     *)
(* resume, was sent a definition, and what was sent is the definition of   *)
(* the topic's own type and closed, as every cached one is.                *)
ClientsCanDecode ==
  /\ DefinitionIsClosed
  /\ done => InSession
  /\ InSession => IsClosed(topic_type, sent_schema)
=============================================================================
