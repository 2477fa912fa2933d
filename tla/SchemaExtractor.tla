-------------------------- MODULE SchemaExtractor --------------------------
(***************************************************************************)
(* ros2/src/schema_extractor.cpp: the definition of a ROS 2 message type,  *)
(* its own .msg file followed by the files of all types nested in it, with *)
(* the two caches.                                                         *)
(*                                                                         *)
(* A file is the list of the message types its fields have, in the order   *)
(* of its lines (fields of builtin types, comments and constants nest      *)
(* nothing), a definition the list of types whose files it is made of.     *)
(* All requests come from the event loop, one after the other; files are   *)
(* installed by others meanwhile.  One step per file.                      *)
(***************************************************************************)
EXTENDS Integers, Sequences, SequencesExt

CONSTANTS
  Types,           \* well-formed names of message types
  Malformed,       \* names that parse_message_type rejects
  Header,          \* std_msgs/Header
  Contents,        \* for each type, the contents its .msg file may have
  Missing          \* no file, no package; no entry in a cache; no definition

ASSUME TypesAssumption ==
  /\ Header \in Types
  /\ Contents \in [Types -> SUBSET Seq(Types)]
  /\ Missing \notin Seq(Types) \cup Types \cup Malformed
  /\ Types \cap Malformed = {}

VARIABLES
  files,           \* on disk
  msg_file_cache,  \* msg_file_cache_
  definition_cache,\* definition_cache_
  root,            \* the type that is asked for, Missing between calls
  todo,            \* the nested types still to visit, outermost last
  output,          \* the files written so far
  processed_types,
  definition       \* what the last call returned, Missing for an error

cacheVars  == <<msg_file_cache, definition_cache>>
buildVars  == <<root, todo, output, processed_types>>
schemaVars == <<files, cacheVars, buildVars, definition>>

SchemaTypeOK ==
  /\ files \in [Types -> Seq(Types) \cup {Missing}]
  /\ msg_file_cache \in [Types -> Seq(Types) \cup {Missing}]
  /\ definition_cache \in [Types -> Seq(Types) \cup {Missing}]
  /\ root \in Types \cup {Missing}
  /\ todo \in Seq(Types)
  /\ output \in Seq(Types)
  /\ processed_types \in SUBSET Types
  /\ definition \in Seq(Types) \cup {Missing}

SchemaInit ==
  /\ files \in [Types -> UNION {Contents[t] : t \in Types} \cup {Missing}]
  /\ \A t \in Types : files[t] \in Contents[t] \cup {Missing}
  /\ msg_file_cache = [t \in Types |-> Missing]
  /\ definition_cache = [t \in Types |-> Missing]
  /\ root = Missing
  /\ todo = <<>>
  /\ output = <<>>
  /\ processed_types = {}
  /\ definition = Missing

-----------------------------------------------------------------------------
(* A package with the type is installed.                                   *)
Install(t) ==
  /\ files[t] = Missing
  /\ \E content \in Contents[t] : files' = [files EXCEPT ![t] = content]
  /\ UNCHANGED <<cacheVars, buildVars, definition>>

(* try_get_message_definition: a cached definition, an error for a name    *)
(* without two slashes, or the beginning of a search.                      *)
GetDefinition(type) ==
  /\ root = Missing
  /\ \/ /\ type \in Malformed
        /\ definition' = Missing
        /\ UNCHANGED buildVars
     \/ /\ type \in Types /\ definition_cache[type] # Missing
        /\ definition' = definition_cache[type]
        /\ UNCHANGED buildVars
     \/ /\ type \in Types /\ definition_cache[type] = Missing
        /\ root' = type
        /\ todo' = <<type>>
        /\ output' = <<>>
        /\ processed_types' = {}
        /\ UNCHANGED definition
  /\ UNCHANGED <<files, cacheVars>>

(* The content of a file: cached, unless it is empty, or read.             *)
MsgContent(t) ==
  IF msg_file_cache[t] \notin {Missing, <<>>} THEN msg_file_cache[t] ELSE files[t]

(* Faulty: only types that have been written count as processed. *)
NestedTypesUnmarked(content) ==
  SelectSeq(content, LAMBDA t : t \notin ToSet(output))

(* nested_types: those not met before, the first time they occur.          *)
NestedTypes(content) ==
  FoldLeft(LAMBDA acc, t : IF t \in processed_types \cup ToSet(acc) THEN acc ELSE Append(acc, t),
           <<>>, content)

(* A header that comes first is moved to the end.                          *)
HeaderLast(nested) ==
  IF Len(nested) >= 2 /\ nested[1] = Header THEN Append(Tail(nested), Header) ELSE nested

EndBuild ==
  /\ root' = Missing
  /\ todo' = <<>>
  /\ output' = <<>>
  /\ processed_types' = {}

(* build_message_definition_recursive for one type: its file is written    *)
(* and the types nested in it are visited before all others.               *)
VisitType ==
  LET t == Head(todo)
      nested == NestedTypes(MsgContent(t))
  IN  /\ root # Missing /\ todo # <<>>
      /\ MsgContent(t) # Missing
      /\ msg_file_cache' = [msg_file_cache EXCEPT ![t] = MsgContent(t)]
      /\ output' = Append(output, t)
      /\ processed_types' = processed_types \cup ToSet(nested)
      /\ todo' = HeaderLast(nested) \o Tail(todo)
      /\ UNCHANGED <<files, definition_cache, root, definition>>

(* A file that is not there fails the whole definition; the files that     *)
(* were read stay in the cache.                                            *)
VisitMissing ==
  /\ root # Missing /\ todo # <<>>
  /\ MsgContent(Head(todo)) = Missing
  /\ EndBuild
  /\ definition' = Missing
  /\ UNCHANGED <<files, cacheVars>>

(* Everything is written: the definition is cached and returned.           *)
FinishDefinition ==
  /\ root # Missing /\ todo = <<>>
  /\ definition_cache' = [definition_cache EXCEPT ![root] = output]
  /\ definition' = output
  /\ EndBuild
  /\ UNCHANGED <<files, msg_file_cache>>

BuildStep == VisitType \/ VisitMissing \/ FinishDefinition

SchemaNext ==
  \/ \E t \in Types : Install(t)
  \/ \E type \in Types \cup Malformed : GetDefinition(type)
  \/ BuildStep

SchemaSpec == SchemaInit /\ [][SchemaNext]_schemaVars

-----------------------------------------------------------------------------
(* Properties.                                                             *)

(* d is the definition of type: its file first, then every nested type,    *)
(* each once, each of them nested in one before it, none left out.         *)
IsClosed(type, d) ==
  /\ d # <<>> /\ d[1] = type
  /\ \A i \in DOMAIN d : files[d[i]] # Missing
  /\ \A i \in 2..Len(d) : \E j \in 1..(i - 1) : d[i] \in ToSet(files[d[j]])
  /\ \A i \in DOMAIN d : ToSet(files[d[i]]) \subseteq {d[j] : j \in 2..Len(d)}
  /\ \A i, j \in 2..Len(d) : d[i] = d[j] => i = j

(* A client can decode a topic from its definition alone, so what is       *)
(* cached for a type is closed: whatever types nest what, cyclic ones and  *)
(* repeated fields included, whichever files were missing in earlier calls *)
(* and were left in msg_file_cache_ by calls that failed.                  *)
DefinitionIsClosed ==
  \A t \in Types : definition_cache[t] # Missing => IsClosed(t, definition_cache[t])
=============================================================================
