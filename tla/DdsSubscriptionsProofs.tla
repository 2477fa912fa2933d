----------------------- MODULE DdsSubscriptionsProofs -----------------------
(***************************************************************************)
(* The subscription managers of the DDS backends, for any threads, topics, *)
(* domains and supply of entities.                                         *)
(*                                                                         *)
(* Creation and deletion of entities happen outside mutex_.  That they do  *)
(* not meet is due to cleanup_mutex_, which a call keeps from beginning to *)
(* end, and to the order of the shutdown, which does not take it.  The     *)
(* invariant therefore says who may be inside a call at which stage        *)
(* (Calls), who owns an entity (Ownership) and how much of it is there     *)
(* (Construction), what the counts are while a reference is being given up *)
(* (Counts), where type and participant of an entity come from (Sources)   *)
(* and what is known of the entities that an exception has left to nobody  *)
(* (LeftBehind).                                                           *)
(***************************************************************************)
EXTENDS DdsSubscriptions, TLAPS

CreateSteps    == {"domain", "topic", "subscriber", "reader", "insert"}
SubscribeSteps == CreateSteps \cup {"type"}

(* A call holds cleanup_mutex_, but for that of the shutdown; only the     *)
(* event loop subscribes, to a topic without an entry, while the bridge    *)
(* runs.  So mutex_ is never kept over several steps.                      *)
Calls ==
  /\ mutex = None
  /\ \A th \in Threads :
       /\ pc[th] # "idle" => cleanup_mutex = th \/ (th = Loop /\ stage = "closing")
       /\ cleanup_mutex = th => pc[th] # "idle"
       /\ pc[th] \in SubscribeSteps =>
            th = Loop /\ stage = "running" /\ arg[th] \in Topics /\ ent[arg[th]] = None
       /\ pc[th] = "unsubscribe" => arg[th] \in Topics
       /\ new_sub[th] # None <=> pc[th] \in CreateSteps
       /\ to_close[th] # {} => pc[th] = "close"

(* The shutdown runs between calls of the event loop; from unsubscribe_all *)
(* on there are no entries, and when the server has stopped no calls.      *)
Shutdown ==
  /\ stage # "running" => cleanup_mutex # Loop /\ pc[Loop] = IF stage = "closing" THEN "close" ELSE "idle"
  /\ stage \notin {"running", "cleared"} => \A t \in Topics : ent[t] = None
  /\ stage = "stopped" => \A th \in Threads : pc[th] = "idle"

(* Every entity that exists has an owner unless it was left behind, and    *)
(* what is being closed has no other.                                      *)
Ownership ==
  /\ \A e \in Ents : parts[e] # {} =>
       \/ e \in abandoned
       \/ \E t \in Topics : e = ent[t]
       \/ \E th \in Threads : e = new_sub[th] \/ e \in to_close[th]
  /\ \A th \in Threads : \A e \in to_close[th] :
       /\ "reader" \in parts[e]
       /\ \A t \in Topics : e # ent[t]
       /\ \A u \in Threads : e # new_sub[u] /\ (u # th => e \notin to_close[u])

(* How much of an entity is there, and for which topic.                    *)
Construction ==
  /\ \A e \in Ents : parts[e] = {} <=> of[e] = None
  /\ \A e \in Ents : "listener" \in parts[e] \/ listener[e] # "idle" => "reader" \in parts[e]
  /\ \A t \in Topics : ent[t] # None => parts[ent[t]] = AllParts /\ of[ent[t]] = t
  /\ \A th \in Threads : LET e == new_sub[th] IN
       /\ pc[th] \in {"domain", "topic"} => parts[e] = {}
       /\ pc[th] = "subscriber" => parts[e] = {"topic"} /\ of[e] = arg[th]
       /\ pc[th] = "reader" => parts[e] = {"topic", "subscriber"} /\ of[e] = arg[th]
       /\ pc[th] = "insert" => parts[e] = AllParts /\ of[e] = arg[th]
       /\ pc[th] \in {"type", "domain", "topic"} =>
            \A f \in Ents \ abandoned : of[f] # arg[th]

(* A session's claim is given up before the count goes down.               *)
GivingUp(t) == \E th \in Threads : pc[th] = "unsubscribe" /\ arg[th] = t

Counts ==
  \A t \in Topics :
    /\ ref[t] > 0 <=> ent[t] # None
    /\ stage \in {"running", "cleared"} => ref[t] = held[t] + IF GivingUp(t) THEN 1 ELSE 0

(* Type and participant of an entity.                                      *)
Sources ==
  /\ \A d \in Domains : discovering[d] # None => d \in participants
  /\ stage # "stopped" => \A t \in Topics : topics[t] # None => topics[t] \in participants
  /\ \A th \in Threads : pc[th] = "domain" =>
       topics[arg[th]] # None /\ src[new_sub[th]].type = topics[arg[th]]
  /\ \A e \in Ents : parts[e] = {} /\ (\A th \in Threads : e # new_sub[th]) => src[e] = NoSrc
  /\ \A e \in Ents : src[e].domain # None => src[e].domain \in participants

(* What is left behind exists, in a participant and for a topic without an *)
(* entry, and no call has it any more.                                     *)
BuildSteps == {"topic", "subscriber", "reader", "insert"}

LeftBehind ==
  /\ \A th \in Threads : pc[th] \in BuildSteps => src[new_sub[th]].domain # None
  /\ \A e \in abandoned :
       /\ parts[e] # {} /\ ent[of[e]] = None /\ src[e].domain # None
       /\ \A th \in Threads : e # new_sub[th] /\ e \notin to_close[th]

(* The inductive invariant. *)
DdsInv ==
  /\ TypeOK /\ Calls /\ Shutdown /\ Ownership /\ Construction /\ NoTopicClash
  /\ Counts /\ Sources /\ ReaderFromOneDiscovery /\ LeftBehind

-----------------------------------------------------------------------------
(* A part of the invariant holds as long as nothing it speaks of changes.  *)
LEMMA Frames ==
  /\ Ownership /\ UNCHANGED <<parts, abandoned, ent, new_sub, to_close>> => Ownership'
  /\ Construction /\ UNCHANGED <<parts, of, abandoned, listener, ent, new_sub, pc, arg>>
       => Construction'
  /\ NoTopicClash /\ UNCHANGED <<parts, of>> => NoTopicClash'
  /\ Counts /\ UNCHANGED <<ref, ent, held, stage, pc, arg>> => Counts'
  /\ Sources /\ UNCHANGED <<participants, topics, discovering, stage, pc, arg, new_sub, src, parts>>
       => Sources'
  /\ ReaderFromOneDiscovery /\ UNCHANGED src => ReaderFromOneDiscovery'
  /\ LeftBehind /\ UNCHANGED <<ddsVars, ent, new_sub, to_close, pc>> => LeftBehind'
<1>1. Ownership /\ UNCHANGED <<parts, abandoned, ent, new_sub, to_close>> => Ownership'
  BY DEF Ownership
<1>2. Construction /\ UNCHANGED <<parts, of, abandoned, listener, ent, new_sub, pc, arg>>
        => Construction'
  BY DEF Construction
<1>3. NoTopicClash /\ UNCHANGED <<parts, of>> => NoTopicClash'
  BY DEF NoTopicClash
<1>4. Counts /\ UNCHANGED <<ref, ent, held, stage, pc, arg>> => Counts'
  BY DEF Counts, GivingUp
<1>5. Sources /\ UNCHANGED <<participants, topics, discovering, stage, pc, arg, new_sub, src, parts>>
        => Sources'
  BY DEF Sources
<1>6. ReaderFromOneDiscovery /\ UNCHANGED src => ReaderFromOneDiscovery'
  BY DEF ReaderFromOneDiscovery
<1>7. LeftBehind /\ UNCHANGED <<ddsVars, ent, new_sub, to_close, pc>> => LeftBehind'
  BY DEF LeftBehind, ddsVars
<1>. QED  BY <1>1, <1>2, <1>3, <1>4, <1>5, <1>6, <1>7

(* What is left behind has no owner, and is there for a topic without one. *)
LEMMA LeftBehindFacts ==
  ASSUME DdsInv, NEW e \in abandoned
  PROVE  /\ e \in Ents /\ of[e] \in Topics /\ src[e].domain \in participants
         /\ \A t \in Topics : e # ent[t]
<1>1. e \in Ents /\ parts[e] # {} /\ ent[of[e]] = None /\ src[e].domain # None
  BY DEF DdsInv, TypeOK, LeftBehind
<1>2. of[e] \in Topics
  BY <1>1 DEF DdsInv, TypeOK, Construction
<1>3. \A t \in Topics : e # ent[t]
  BY <1>1, NamesAssumption DEF DdsInv, Construction
<1>. QED  BY <1>1, <1>2, <1>3 DEF DdsInv, Sources

(* Before the first discovery and the first call.                          *)
LEMMA DdsInit == ASSUME Init PROVE DdsInv
<1>. USE NamesAssumption, RefsAssumption DEF Init, Threads
<1>1. TypeOK
  BY DEF TypeOK, NoSrc, Stages
<1>2. Calls /\ Shutdown
  BY DEF Calls, Shutdown, SubscribeSteps, CreateSteps
<1>3. Ownership
  BY DEF Ownership
<1>4. Construction
  BY DEF Construction
<1>5. NoTopicClash /\ ReaderFromOneDiscovery
  BY DEF NoTopicClash, ReaderFromOneDiscovery, NoSrc
<1>6. Counts
  BY DEF Counts, GivingUp
<1>7. Sources
  BY DEF Sources, NoSrc
<1>8. LeftBehind
  BY DEF LeftBehind, BuildSteps
<1>. QED  BY <1>1, <1>2, <1>3, <1>4, <1>5, <1>6, <1>7, <1>8 DEF DdsInv

(* The discovery listeners change the cache, and a topic in the cache      *)
(* stays with its domain, whose participant is there until the end.        *)
LEMMA DiscoveryStep ==
  ASSUME DdsInv, NEW d \in Domains, Cache(d) \/ Skip(d) \/ \E t \in Topics : Discover(d, t)
  PROVE  DdsInv'
<1>. TypeOK /\ Sources /\ Construction /\ Shutdown /\ Calls
  BY DEF DdsInv
<1>1. UNCHANGED <<mgrVars, mutex, ddsVars, listener, callVars, held, stage>>
  BY DEF Cache, Skip, Discover
<1>2. /\ Ownership' /\ Construction' /\ NoTopicClash' /\ Counts' /\ ReaderFromOneDiscovery'
      /\ Calls' /\ Shutdown' /\ LeftBehind'
  <2>1. Calls' /\ Shutdown'
    BY <1>1 DEF Calls, Shutdown, mgrVars, callVars
  <2>. QED  BY <1>1, <2>1, Frames DEF DdsInv, mgrVars, ddsVars, callVars
<1>3. ASSUME participants' \in SUBSET Domains, topics' \in [Topics -> Domains \cup {None}],
             discovering' \in [Domains -> Topics \cup {None}]
      PROVE  TypeOK'
  BY <1>1, <1>3 DEF TypeOK, mgrVars, ddsVars, callVars
<1>4. CASE Cache(d)
  <2>1. discovering[d] \in Topics /\ d \in participants
    BY <1>4 DEF Cache, TypeOK, Sources
  <2>2. TypeOK'
    BY <1>3, <1>4, <2>1 DEF Cache, TypeOK
  <2>3. \A t \in Topics : topics'[t] = topics[t] \/ (topics[t] = None /\ topics'[t] = d)
    BY <1>4, <2>1 DEF Cache, TypeOK
  <2>4. /\ \A c \in Domains : discovering'[c] # None => c \in participants'
        /\ stage' # "stopped" => \A t \in Topics : topics'[t] # None => topics'[t] \in participants'
    BY <1>1, <1>4, <2>1, <2>3 DEF Cache, TypeOK, Sources
  <2>5. \A th \in Threads : pc'[th] = "domain" =>
          topics'[arg'[th]] # None /\ src'[new_sub'[th]].type = topics'[arg'[th]]
    BY <1>1, <2>3 DEF Sources, Calls, SubscribeSteps, CreateSteps, callVars, ddsVars
  <2>6. Sources'
    BY <1>1, <1>4, <2>4, <2>5 DEF Cache, Sources, callVars, ddsVars
  <2>. QED  BY <1>2, <2>2, <2>6 DEF DdsInv
<1>5. CASE Skip(d) \/ \E t \in Topics : Discover(d, t)
  <2>1. UNCHANGED <<participants, topics>> /\ discovering' \in [Domains -> Topics \cup {None}]
    BY <1>5 DEF Skip, Discover, TypeOK
  <2>2. \A c \in Domains : discovering'[c] # None => c \in participants
    BY <1>5 DEF Skip, Discover, TypeOK, Sources
  <2>3. TypeOK'
    BY <1>3, <2>1 DEF TypeOK
  <2>4. Sources'
    BY <1>1, <2>1, <2>2 DEF Sources, callVars, ddsVars
  <2>. QED  BY <1>2, <2>3, <2>4 DEF DdsInv
<1>. QED  BY <1>4, <1>5

(* The end of a participant, after the server has stopped: what it still   *)
(* contains was left behind.                                               *)
LEMMA DeleteParticipantStep ==
  ASSUME DdsInv, NEW d \in Domains, DeleteParticipant(d)
  PROVE  DdsInv'
<1>. USE NamesAssumption DEF Threads
<1>. TypeOK /\ Calls /\ Shutdown /\ Ownership /\ Construction /\ Sources /\ LeftBehind
  BY DEF DdsInv
<1>. DEFINE gone == {e \in abandoned : src[e].domain = d}
<1>1. /\ stage = "stopped" /\ discovering[d] = None /\ participants' = participants \ {d}
      /\ \A e \in gone : listener[e] = "idle"
      /\ parts' = [e \in Ents |-> IF e \in gone THEN {} ELSE parts[e]]
      /\ of' = [e \in Ents |-> IF e \in gone THEN None ELSE of[e]]
      /\ src' = [e \in Ents |-> IF e \in gone THEN NoSrc ELSE src[e]]
      /\ abandoned' = abandoned \ gone
      /\ UNCHANGED <<topics, discovering, mgrVars, mutex, listener, callVars, held, stage>>
  BY DEF DeleteParticipant
<1>2. gone \subseteq abandoned /\ \A e \in abandoned : src[e].domain = d => e \in gone
  OBVIOUS
<1>. HIDE DEF gone
<1>3. /\ \A th \in Threads : pc[th] = "idle" /\ new_sub[th] = None /\ to_close[th] = {}
      /\ \A t \in Topics : ent[t] = None
  BY <1>1 DEF Shutdown, Calls, CreateSteps
<1>4. \A e \in Ents : parts[e] # {} => e \in abandoned
  BY <1>3 DEF Ownership
<1>5. /\ \A e \in gone : parts'[e] = {} /\ of'[e] = None /\ src'[e] = NoSrc
      /\ \A e \in Ents : e \notin gone => parts'[e] = parts[e] /\ of'[e] = of[e] /\ src'[e] = src[e]
      /\ abandoned \subseteq Ents
  BY <1>1, <1>2 DEF TypeOK
<1>6. TypeOK'
  <2>1. parts' \in [Ents -> SUBSET AllParts] /\ of' \in [Ents -> Topics \cup {None}]
    BY <1>1 DEF TypeOK
  <2>2. src' \in [Ents -> [type : Domains \cup {None}, domain : Domains \cup {None}]]
    BY <1>1 DEF TypeOK, NoSrc
  <2>. QED  BY <1>1, <2>1, <2>2 DEF TypeOK, mgrVars, callVars
<1>7. Calls' /\ Shutdown'
  BY <1>1 DEF Calls, Shutdown, mgrVars, callVars
<1>8. Ownership'
  BY <1>1, <1>3, <1>4, <1>5 DEF Ownership, mgrVars, callVars
<1>9. Construction'
  <2>1. /\ \A e \in Ents : parts'[e] = {} <=> of'[e] = None
        /\ \A e \in Ents : "listener" \in parts'[e] \/ listener'[e] # "idle" => "reader" \in parts'[e]
    BY <1>1, <1>5 DEF Construction
  <2>. QED  BY <1>1, <1>3, <2>1 DEF Construction, mgrVars, callVars
<1>10. NoTopicClash' /\ ReaderFromOneDiscovery'
  BY <1>5 DEF DdsInv, NoTopicClash, ReaderFromOneDiscovery, NoSrc
<1>11. Counts'
  BY <1>1, Frames DEF DdsInv, mgrVars, callVars
<1>12. Sources'
  <2>1. \A e \in Ents : parts'[e] = {} => src'[e] = NoSrc
    BY <1>3, <1>5 DEF Sources
  <2>2. ASSUME NEW e \in Ents, src'[e].domain # None PROVE src'[e].domain \in participants \ {d}
    <3>1. e \notin gone
      BY <1>5, <2>2 DEF NoSrc
    <3>2. parts[e] # {}
      BY <1>5, <2>1, <2>2, <3>1 DEF NoSrc
    <3>. QED  BY <1>2, <1>4, <1>5, <2>2, <3>1, <3>2 DEF Sources
  <2>. QED  BY <1>1, <1>3, <2>1, <2>2 DEF Sources, callVars
<1>13. LeftBehind'
  BY <1>1, <1>3, <1>5 DEF LeftBehind, BuildSteps, mgrVars, callVars
<1>. QED  BY <1>6, <1>7, <1>8, <1>9, <1>10, <1>11, <1>12, <1>13 DEF DdsInv

(* Listeners are called only by readers, and touch nothing but themselves. *)
LEMMA ListenStep ==
  ASSUME DdsInv, NEW e \in Ents, DataAvailable(e) \/ ListenerStep(e)
  PROVE  DdsInv'
<1>. TypeOK /\ Construction
  BY DEF DdsInv
<1>1. UNCHANGED <<discVars, mgrVars, mutex, ddsVars, callVars, held, stage>>
  BY DEF DataAvailable, ListenerStep, ListenerLock, ListenerCall
<1>2. /\ listener' \in [Ents -> {"idle", "lock", "call"}]
      /\ \A f \in Ents : listener'[f] # "idle" => listener[f] # "idle" \/ "listener" \in parts[f]
  BY DEF DataAvailable, ListenerStep, ListenerLock, ListenerCall, TypeOK
<1>3. TypeOK'
  BY <1>1, <1>2 DEF TypeOK, discVars, mgrVars, ddsVars, callVars
<1>4. Calls' /\ Shutdown'
  BY <1>1 DEF DdsInv, Calls, Shutdown, mgrVars, callVars
<1>5. Construction'
  BY <1>1, <1>2 DEF Construction, mgrVars, ddsVars, callVars
<1>. QED  BY <1>1, <1>3, <1>4, <1>5, Frames DEF DdsInv, discVars, mgrVars, ddsVars, callVars

-----------------------------------------------------------------------------
(* While nobody is inside a call, what exists belongs to an entry or was   *)
(* left behind, and the counts are those of the sessions.                  *)
LEMMA AllIdle ==
  ASSUME DdsInv, \A th \in Threads : pc[th] = "idle"
  PROVE  /\ \A th \in Threads : new_sub[th] = None /\ to_close[th] = {}
         /\ \A e \in Ents : parts[e] # {} => e \in abandoned \/ \E t \in Topics : e = ent[t]
         /\ \A t \in Topics : ~GivingUp(t)
<1>1. \A th \in Threads : new_sub[th] = None /\ to_close[th] = {}
  BY DEF DdsInv, Calls, CreateSteps
<1>2. \A e \in Ents : parts[e] # {} => e \in abandoned \/ \E t \in Topics : e = ent[t]
  BY <1>1, NamesAssumption DEF DdsInv, Ownership
<1>. QED  BY <1>1, <1>2 DEF GivingUp

(* While a subscribe is in progress no other call is.                      *)
LEMMA SubscriberIsAlone ==
  ASSUME DdsInv, NEW th \in Threads, pc[th] \in SubscribeSteps
  PROVE  /\ th = Loop /\ stage = "running" /\ cleanup_mutex = Loop
         /\ arg[Loop] \in Topics /\ ent[arg[Loop]] = None
         /\ \A u \in Threads : u # Loop => pc[u] = "idle" /\ new_sub[u] = None
         /\ \A u \in Threads : to_close[u] = {}
         /\ \A t \in Topics : ~GivingUp(t) /\ ref[t] = held[t]
<1>1. /\ th = Loop /\ stage = "running" /\ cleanup_mutex = Loop
      /\ arg[Loop] \in Topics /\ ent[arg[Loop]] = None
  BY DEF DdsInv, Calls, SubscribeSteps, CreateSteps
<1>2. \A u \in Threads : u # Loop => pc[u] = "idle" /\ new_sub[u] = None
  BY <1>1 DEF DdsInv, Calls, CreateSteps
<1>3. pc[Loop] # "close" /\ pc[Loop] # "unsubscribe"
  BY <1>1 DEF SubscribeSteps, CreateSteps
<1>4. \A u \in Threads : to_close[u] = {}
  BY <1>2, <1>3 DEF DdsInv, Calls
<1>5. \A t \in Topics : ~GivingUp(t)
  BY <1>2, <1>3 DEF GivingUp
<1>6. \A t \in Topics : ref[t] = held[t]
  BY <1>1, <1>5 DEF DdsInv, Counts, TypeOK
<1>. QED  BY <1>1, <1>2, <1>4, <1>5, <1>6

(* subscribe, phase 1.                                                     *)
LEMMA SubscribeStep == ASSUME DdsInv, NEW t \in Topics, Subscribe(t) PROVE DdsInv'
<1>. USE NamesAssumption, RefsAssumption DEF Threads
<1>. TypeOK /\ Calls /\ Shutdown /\ Construction /\ Counts /\ Sources
  BY DEF DdsInv
<1>1. /\ stage = "running" /\ cleanup_mutex = None
      /\ UNCHANGED <<discVars, ent, callback, mutex, ddsVars, listener, new_sub, to_close, stage>>
  BY DEF Subscribe
<1>2. \A u \in Threads : pc[u] = "idle"
  BY <1>1 DEF Calls
<1>3. /\ \A u \in Threads : new_sub[u] = None /\ to_close[u] = {}
      /\ \A e \in Ents : parts[e] # {} => e \in abandoned \/ \E v \in Topics : e = ent[v]
      /\ \A v \in Topics : ~GivingUp(v)
  BY <1>2, AllIdle
<1>4. Ownership' /\ NoTopicClash' /\ ReaderFromOneDiscovery'
  BY <1>1, Frames DEF DdsInv, ddsVars
<1>5. CASE ent[t] # None
  <2>1. /\ ref' = [ref EXCEPT ![t] = @ + 1] /\ held' = [held EXCEPT ![t] = @ + 1]
        /\ ref[t] < MaxRefs /\ held[t] < MaxRefs
        /\ UNCHANGED <<cleanup_mutex, pc, arg>>
    BY <1>5 DEF Subscribe
  <2>2. TypeOK'
    <3>1. ref' \in [Topics -> 0..MaxRefs] /\ held' \in [Topics -> 0..MaxRefs]
      BY <2>1 DEF TypeOK
    <3>. QED  BY <1>1, <2>1, <3>1 DEF TypeOK, discVars, ddsVars
  <2>3. Calls' /\ Shutdown'
    BY <1>1, <2>1 DEF Calls, Shutdown
  <2>4. Construction' /\ Sources'
    BY <1>1, <2>1, Frames DEF discVars, ddsVars
  <2>5. Counts'
    <3>1. \A v \in Topics : GivingUp(v)' = GivingUp(v)
      BY <2>1 DEF GivingUp
    <3>. QED  BY <1>1, <1>3, <1>5, <2>1, <3>1 DEF Counts, TypeOK
  <2>6. LeftBehind'
    BY <1>1, <2>1, Frames DEF DdsInv
  <2>. QED  BY <1>4, <2>2, <2>3, <2>4, <2>5, <2>6 DEF DdsInv
<1>6. CASE ent[t] = None
  <2>1. /\ cleanup_mutex' = Loop /\ pc' = [pc EXCEPT ![Loop] = "type"]
        /\ arg' = [arg EXCEPT ![Loop] = t] /\ UNCHANGED <<ref, held>>
    BY <1>6 DEF Subscribe
  <2>2. TypeOK'
    BY <1>1, <2>1 DEF TypeOK, discVars, ddsVars
  <2>3. /\ pc'[Loop] = "type" /\ arg'[Loop] = t
        /\ \A u \in Threads : u # Loop => pc'[u] = "idle" /\ arg'[u] = arg[u]
    BY <1>2, <2>1 DEF TypeOK
  <2>4. Calls' /\ Shutdown'
    <3>1. Calls'
      BY <1>1, <1>3, <1>6, <2>1, <2>3 DEF Calls, SubscribeSteps, CreateSteps
    <3>2. Shutdown'
      BY <1>1 DEF Shutdown
    <3>. QED  BY <3>1, <3>2
  <2>5. Construction'
    <3>1. ASSUME NEW f \in Ents \ abandoned PROVE of[f] # t
      <4>1. CASE parts[f] = {}
        BY <4>1 DEF Construction
      <4>2. CASE parts[f] # {}
        BY <1>3, <1>6, <4>2 DEF Construction
      <4>. QED  BY <4>1, <4>2
    <3>2. \A u \in Threads : pc'[u] \in {"type", "idle"} /\ (pc'[u] = "type" => arg'[u] = t)
      BY <2>3
    <3>. QED  BY <1>1, <3>1, <3>2 DEF Construction, ddsVars
  <2>6. Counts'
    <3>1. \A v \in Topics : ~GivingUp(v)'
      BY <2>3 DEF GivingUp
    <3>. QED  BY <1>1, <1>3, <2>1, <3>1 DEF Counts
  <2>7. Sources'
    BY <1>1, <2>3 DEF Sources, discVars, ddsVars
  <2>8. LeftBehind'
    BY <1>1, <2>3 DEF DdsInv, LeftBehind, BuildSteps, ddsVars
  <2>. QED  BY <1>4, <2>2, <2>4, <2>5, <2>6, <2>7, <2>8 DEF DdsInv
<1>. QED  BY <1>5, <1>6

(* A subscribe that fails: whatever was created for it is deleted.         *)
LEMMA RejectStep ==
  ASSUME DdsInv, pc[Loop] \in {"topic", "subscriber", "reader"},
         Rejected(Loop), Delete(new_sub[Loop]),
         UNCHANGED <<discVars, mgrVars, mutex, abandoned, listener, to_close, stage>>
  PROVE  DdsInv'
<1>. USE NamesAssumption, RefsAssumption DEF Threads
<1>. DEFINE e == new_sub[Loop]
<1>. TypeOK /\ Calls /\ Shutdown /\ Construction /\ Counts /\ Sources /\ Ownership
  BY DEF DdsInv
<1>1. /\ stage = "running" /\ cleanup_mutex = Loop /\ e \in Ents
      /\ \A u \in Threads : u # Loop => pc[u] = "idle" /\ new_sub[u] = None
      /\ \A u \in Threads : to_close[u] = {}
      /\ \A t \in Topics : ~GivingUp(t) /\ ref[t] = held[t]
  BY SubscriberIsAlone DEF SubscribeSteps, CreateSteps, Calls, TypeOK
<1>2. /\ cleanup_mutex' = None /\ UNCHANGED held
      /\ pc' = [pc EXCEPT ![Loop] = "idle"] /\ arg' = [arg EXCEPT ![Loop] = None]
      /\ new_sub' = [new_sub EXCEPT ![Loop] = None]
      /\ parts' = [parts EXCEPT ![e] = {}] /\ of' = [of EXCEPT ![e] = None]
      /\ src' = [src EXCEPT ![e] = NoSrc]
  BY <1>1 DEF Rejected, Return, Delete
<1>3. TypeOK'
  BY <1>1, <1>2 DEF TypeOK, discVars, mgrVars, NoSrc
<1>4. /\ \A u \in Threads : pc'[u] = "idle" /\ new_sub'[u] = None
      /\ parts'[e] = {} /\ of'[e] = None /\ src'[e] = NoSrc
      /\ \A f \in Ents : f # e => parts'[f] = parts[f] /\ of'[f] = of[f] /\ src'[f] = src[f]
  BY <1>1, <1>2 DEF TypeOK
<1>5. "reader" \notin parts[e] /\ listener[e] = "idle"
  BY <1>1 DEF Construction
<1>6. \A t \in Topics : ent[t] # e
  BY <1>1, <1>5 DEF Construction, AllParts
<1>. HIDE DEF e
<1>7. Calls' /\ Shutdown'
  BY <1>1, <1>2, <1>4 DEF Calls, Shutdown, mgrVars, SubscribeSteps, CreateSteps
<1>8. Ownership'
  <2>1. ASSUME NEW f \in Ents, parts'[f] # {} PROVE f \in abandoned \/ \E t \in Topics : f = ent[t]
    BY <1>1, <1>4, <2>1 DEF Ownership, e
  <2>. QED  BY <1>1, <2>1 DEF Ownership, mgrVars
<1>9. Construction'
  BY <1>4, <1>5, <1>6 DEF Construction, mgrVars, TypeOK
<1>10. NoTopicClash' /\ ReaderFromOneDiscovery'
  BY <1>4 DEF DdsInv, NoTopicClash, ReaderFromOneDiscovery, NoSrc
<1>11. Counts'
  BY <1>1, <1>2, <1>4 DEF Counts, GivingUp, mgrVars
<1>12. Sources'
  <2>1. \A f \in Ents : f # e => \A u \in Threads : f # new_sub[u]
    BY <1>1 DEF e
  <2>2. \A f \in Ents : parts'[f] = {} => src'[f] = NoSrc
    BY <1>4, <2>1 DEF Sources
  <2>3. \A f \in Ents : src'[f].domain # None => src'[f].domain \in participants
    BY <1>4 DEF Sources, NoSrc
  <2>. QED  BY <1>4, <2>2, <2>3 DEF Sources, discVars
<1>13. LeftBehind'
  <2>1. e \notin abandoned
    BY DEF DdsInv, LeftBehind, e
  <2>2. \A f \in abandoned : f \in Ents /\ f # e
    BY <2>1 DEF TypeOK
  <2>. QED  BY <1>1, <1>4, <2>2 DEF DdsInv, LeftBehind, BuildSteps, mgrVars
<1>. QED  BY <1>3, <1>7, <1>8, <1>9, <1>10, <1>11, <1>12, <1>13 DEF DdsInv

(* Phase 2: the type, and a name that nothing uses yet.                    *)
LEMMA GetTypeStep == ASSUME DdsInv, NEW th \in Threads, GetType(th) PROVE DdsInv'
<1>. USE NamesAssumption, RefsAssumption DEF Threads
<1>. TypeOK /\ Calls /\ Shutdown /\ Construction /\ Counts /\ Sources /\ Ownership
  BY DEF DdsInv
<1>0. /\ pc[th] = "type"
      /\ UNCHANGED <<discVars, mgrVars, mutex, parts, of, abandoned, listener, to_close, stage>>
  BY DEF GetType
<1>1. /\ th = Loop /\ stage = "running" /\ cleanup_mutex = Loop
      /\ arg[Loop] \in Topics /\ ent[arg[Loop]] = None
      /\ \A u \in Threads : u # Loop => pc[u] = "idle" /\ new_sub[u] = None
      /\ \A u \in Threads : to_close[u] = {}
      /\ \A t \in Topics : ~GivingUp(t) /\ ref[t] = held[t]
  BY <1>0, SubscriberIsAlone DEF SubscribeSteps
<1>2. new_sub[Loop] = None
  BY <1>0, <1>1 DEF Calls, CreateSteps
<1>3. NoTopicClash'
  BY <1>0, Frames DEF DdsInv
<1>4. CASE topics[arg[th]] = None
  <2>1. /\ cleanup_mutex' = None /\ UNCHANGED <<held, src, new_sub>>
        /\ pc' = [pc EXCEPT ![Loop] = "idle"] /\ arg' = [arg EXCEPT ![Loop] = None]
    <3>1. Rejected(Loop) /\ UNCHANGED src
      BY <1>1, <1>4 DEF GetType
    <3>2. new_sub' = new_sub
      BY <1>2, <3>1 DEF Rejected, Return, TypeOK
    <3>. QED  BY <1>1, <3>1, <3>2 DEF Rejected, Return
  <2>2. TypeOK'
    BY <1>0, <2>1 DEF TypeOK, discVars, mgrVars
  <2>3. \A u \in Threads : pc'[u] = "idle" /\ new_sub'[u] = None
    BY <1>1, <1>2, <2>1 DEF TypeOK
  <2>4. Calls' /\ Shutdown'
    BY <1>0, <1>1, <2>1, <2>3 DEF Calls, Shutdown, mgrVars, SubscribeSteps, CreateSteps
  <2>5. Ownership' /\ ReaderFromOneDiscovery'
    BY <1>0, <2>1, Frames DEF DdsInv, mgrVars
  <2>6. Construction' /\ Counts'
    BY <1>0, <1>1, <2>1, <2>3 DEF Construction, Counts, GivingUp, mgrVars
  <2>7. Sources'
    BY <1>0, <2>1, <2>3 DEF Sources, discVars
  <2>8. LeftBehind'
    BY <1>0, <2>1, <2>3 DEF DdsInv, LeftBehind, BuildSteps, mgrVars
  <2>. QED  BY <1>3, <2>2, <2>4, <2>5, <2>6, <2>7, <2>8 DEF DdsInv
<1>5. CASE topics[arg[th]] # None
  <2>. DEFINE e == NextEnt
              ty == topics[arg[Loop]]
  <2>1. /\ FreeEnts # {} /\ new_sub' = [new_sub EXCEPT ![Loop] = e]
        /\ src' = [src EXCEPT ![e] = [type |-> ty, domain |-> None]]
        /\ pc' = [pc EXCEPT ![Loop] = "domain"]
        /\ UNCHANGED <<cleanup_mutex, arg, held>>
    BY <1>1, <1>5 DEF GetType
  <2>2. e \in FreeEnts
    BY <2>1 DEF NextEnt
  <2>3. e \in Ents /\ parts[e] = {} /\ ty \in Domains
    BY <1>1, <1>5, <2>2 DEF FreeEnts, TypeOK
  <2>. HIDE DEF e, ty
  <2>4. TypeOK'
    BY <1>0, <2>1, <2>3 DEF TypeOK, discVars, mgrVars
  <2>5. /\ pc'[Loop] = "domain" /\ new_sub'[Loop] = e
        /\ \A u \in Threads : u # Loop => pc'[u] = "idle" /\ new_sub'[u] = None
        /\ src'[e] = [type |-> ty, domain |-> None]
        /\ \A f \in Ents : f # e => src'[f] = src[f]
    BY <1>1, <2>1, <2>3 DEF TypeOK
  <2>6. Calls' /\ Shutdown'
    <3>1. Calls'
      BY <1>0, <1>1, <2>1, <2>3, <2>5 DEF Calls, mgrVars, SubscribeSteps, CreateSteps
    <3>2. Shutdown'
      BY <1>0, <1>1 DEF Shutdown
    <3>. QED  BY <3>1, <3>2
  <2>7. Ownership'
    <3>1. \A f \in Ents : parts[f] # {} => f \in abandoned \/ \E t \in Topics : f = ent[t]
      BY <1>1, <1>2 DEF Ownership
    <3>. QED  BY <1>0, <1>1, <3>1 DEF Ownership, mgrVars
  <2>8. Construction'
    <3>1. \A f \in Ents \ abandoned : of[f] # arg[Loop]
      BY <1>0, <1>1 DEF Construction
    <3>2. \A u \in Threads : /\ pc'[u] \in {"idle", "domain"}
                             /\ pc'[u] = "domain" => u = Loop
      BY <2>5
    <3>. QED  BY <1>0, <2>1, <2>3, <2>5, <3>1, <3>2 DEF Construction, mgrVars
  <2>9. Counts'
    BY <1>0, <1>1, <2>1, <2>5 DEF Counts, GivingUp, mgrVars
  <2>10. Sources' /\ ReaderFromOneDiscovery'
    <3>1. \A f \in Ents : parts[f] = {} /\ f # e => src'[f] = NoSrc
      BY <1>1, <1>2, <2>5 DEF Sources
    <3>2. \A f \in Ents : /\ src'[f].domain # None => src'[f].domain \in participants
                          /\ src'[f].domain # None => src'[f].type = src'[f].domain
      BY <2>3, <2>5 DEF DdsInv, Sources, ReaderFromOneDiscovery
    <3>3. \A u \in Threads : pc'[u] = "domain" => u = Loop
      BY <2>5
    <3>4. topics'[arg'[Loop]] = ty /\ ty # None /\ src'[new_sub'[Loop]].type = ty
      BY <1>0, <2>1, <2>3, <2>5 DEF ty, discVars
    <3>5. \A f \in Ents : parts'[f] = {} /\ (\A u \in Threads : f # new_sub'[u]) => src'[f] = NoSrc
      BY <1>0, <2>5, <3>1
    <3>6. ReaderFromOneDiscovery'
      BY <3>2 DEF ReaderFromOneDiscovery
    <3>. QED  BY <1>0, <3>2, <3>3, <3>4, <3>5, <3>6 DEF Sources, discVars
  <2>11. LeftBehind'
    <3>1. \A f \in abandoned : f \in Ents /\ f # e
      BY <2>3 DEF DdsInv, LeftBehind, TypeOK
    <3>2. \A u \in Threads : pc'[u] \notin BuildSteps /\ (new_sub'[u] = None \/ new_sub'[u] = e)
      BY <2>5 DEF BuildSteps
    <3>. QED  BY <1>0, <2>5, <3>1, <3>2 DEF DdsInv, LeftBehind, mgrVars
  <2>. QED  BY <1>3, <2>4, <2>6, <2>7, <2>8, <2>9, <2>10, <2>11 DEF DdsInv
<1>. QED  BY <1>4, <1>5

(* Then the participant: the cache still has the topic, in the domain that *)
(* its type came from.                                                     *)
LEMMA GetParticipantStep == ASSUME DdsInv, NEW th \in Threads, GetParticipant(th) PROVE DdsInv'
<1>. USE NamesAssumption, RefsAssumption DEF Threads
<1>. DEFINE e == new_sub[Loop]
            d == topics[arg[Loop]]
<1>. TypeOK /\ Calls /\ Shutdown /\ Construction /\ Counts /\ Sources /\ Ownership
  BY DEF DdsInv
<1>0. /\ pc[th] = "domain"
      /\ UNCHANGED <<discVars, mgrVars, mutex, parts, of, abandoned, listener, cleanup_mutex, arg,
                     new_sub, to_close, held, stage>>
  BY DEF GetParticipant
<1>1. /\ th = Loop /\ stage = "running" /\ cleanup_mutex = Loop
      /\ arg[Loop] \in Topics /\ ent[arg[Loop]] = None
      /\ \A u \in Threads : u # Loop => pc[u] = "idle" /\ new_sub[u] = None
      /\ \A u \in Threads : to_close[u] = {}
      /\ \A t \in Topics : ~GivingUp(t) /\ ref[t] = held[t]
  BY <1>0, SubscriberIsAlone DEF SubscribeSteps, CreateSteps
<1>2. e \in Ents /\ d \in Domains /\ d \in participants /\ src[e].type = d
  BY <1>0, <1>1 DEF Calls, Sources, TypeOK, CreateSteps
<1>3. pc' = [pc EXCEPT ![Loop] = "topic"] /\ src' = [src EXCEPT ![e].domain = d]
  BY <1>1 DEF GetParticipant
<1>. HIDE DEF e, d
<1>4. src[e] \in [type : Domains \cup {None}, domain : Domains \cup {None}]
  BY <1>2 DEF TypeOK
<1>5. /\ src'[e] = [type |-> d, domain |-> d] /\ \A f \in Ents : f # e => src'[f] = src[f]
      /\ pc'[Loop] = "topic" /\ \A u \in Threads : u # Loop => pc'[u] = "idle"
  BY <1>1, <1>2, <1>3, <1>4 DEF TypeOK
<1>6. TypeOK'
  <2>1. src' \in [Ents -> [type : Domains \cup {None}, domain : Domains \cup {None}]]
    BY <1>2, <1>3, <1>4 DEF TypeOK
  <2>2. pc' \in [Threads -> {"idle", "type", "domain", "topic", "subscriber", "reader", "insert",
                             "unsubscribe", "close"}]
    BY <1>3 DEF TypeOK
  <2>. QED  BY <1>0, <2>1, <2>2 DEF TypeOK, discVars, mgrVars
<1>7. Calls' /\ Shutdown'
  <2>1. Calls'
    BY <1>0, <1>1, <1>2, <1>5 DEF Calls, mgrVars, SubscribeSteps, CreateSteps
  <2>2. Shutdown'
    BY <1>0, <1>1 DEF Shutdown
  <2>. QED  BY <2>1, <2>2
<1>8. Ownership' /\ NoTopicClash'
  BY <1>0, Frames DEF DdsInv, mgrVars
<1>9. Construction'
  BY <1>0, <1>1, <1>5 DEF Construction, mgrVars
<1>10. Counts'
  BY <1>0, <1>1, <1>5 DEF Counts, GivingUp, mgrVars
<1>11. Sources'
  <2>1. \A f \in Ents : parts'[f] = {} /\ (\A u \in Threads : f # new_sub'[u]) => src'[f] = NoSrc
    BY <1>0, <1>5 DEF Sources, e
  <2>2. \A f \in Ents : src'[f].domain # None => src'[f].domain \in participants
    BY <1>2, <1>5 DEF Sources
  <2>. QED  BY <1>0, <1>5, <2>1, <2>2 DEF Sources, discVars
<1>12. ReaderFromOneDiscovery'
  BY <1>2, <1>5 DEF DdsInv, ReaderFromOneDiscovery
<1>13. LeftBehind'
  <2>1. \A f \in abandoned : f \in Ents /\ f # e
    BY DEF DdsInv, LeftBehind, TypeOK, e
  <2>2. \A u \in Threads : pc'[u] \in BuildSteps => src'[new_sub'[u]].domain # None
    BY <1>0, <1>2, <1>5 DEF BuildSteps, e
  <2>. QED  BY <1>0, <1>5, <2>1, <2>2 DEF DdsInv, LeftBehind, mgrVars
<1>. QED  BY <1>6, <1>7, <1>8, <1>9, <1>10, <1>11, <1>12, <1>13 DEF DdsInv

(* An entity of a subscribe that goes on is built one part further.        *)
LEMMA BuildStep ==
  ASSUME DdsInv, NEW next, NEW built,
         \/ /\ pc[Loop] = "topic" /\ next = "subscriber" /\ built = {"topic"}
            /\ \A e \in abandoned : of[e] # arg[Loop]
         \/ pc[Loop] = "subscriber" /\ next = "reader" /\ built = {"topic", "subscriber"}
         \/ pc[Loop] = "reader" /\ next = "insert" /\ built = AllParts,
         pc' = [pc EXCEPT ![Loop] = next],
         parts' = [parts EXCEPT ![new_sub[Loop]] = built],
         of' = [of EXCEPT ![new_sub[Loop]] = arg[Loop]],
         UNCHANGED <<discVars, mgrVars, mutex, src, abandoned, listener, cleanup_mutex, arg,
                     new_sub, to_close, held, stage>>
  PROVE  DdsInv'
<1>. USE NamesAssumption, RefsAssumption DEF Threads
<1>. DEFINE e == new_sub[Loop]
<1>. TypeOK /\ Calls /\ Shutdown /\ Construction /\ Counts /\ Sources /\ Ownership
  BY DEF DdsInv
<1>1. /\ stage = "running" /\ cleanup_mutex = Loop /\ e \in Ents
      /\ arg[Loop] \in Topics /\ ent[arg[Loop]] = None
      /\ \A u \in Threads : u # Loop => pc[u] = "idle" /\ new_sub[u] = None
      /\ \A u \in Threads : to_close[u] = {}
      /\ \A t \in Topics : ~GivingUp(t) /\ ref[t] = held[t]
  BY SubscriberIsAlone DEF SubscribeSteps, CreateSteps, Calls, TypeOK
<1>2. built \in SUBSET AllParts /\ built # {} /\ next \in {"subscriber", "reader", "insert"}
  BY DEF AllParts
<1>3. TypeOK'
  BY <1>1, <1>2 DEF TypeOK, discVars, mgrVars
<1>4. /\ pc'[Loop] = next /\ \A u \in Threads : u # Loop => pc'[u] = "idle"
      /\ parts'[e] = built /\ of'[e] = arg[Loop]
      /\ \A f \in Ents : f # e => parts'[f] = parts[f] /\ of'[f] = of[f]
  BY <1>1 DEF TypeOK
<1>5. "reader" \notin parts[e] /\ listener[e] = "idle"
  BY <1>1 DEF Construction
<1>6. \A t \in Topics : ent[t] # e
  BY <1>1, <1>5 DEF Construction, AllParts
<1>7. \A f \in Ents : f # e /\ parts[f] # {} => of[f] # arg[Loop]
  BY <1>1 DEF Construction, DdsInv, NoTopicClash
<1>8. "listener" \in built => "reader" \in built
  BY DEF AllParts
<1>. HIDE DEF e
<1>9. Calls' /\ Shutdown'
  <2>1. Calls'
    BY <1>1, <1>2, <1>4 DEF Calls, mgrVars, SubscribeSteps, CreateSteps, e
  <2>2. Shutdown'
    BY <1>1 DEF Shutdown
  <2>. QED  BY <2>1, <2>2
<1>10. Ownership'
  <2>1. ASSUME NEW f \in Ents, parts'[f] # {}
        PROVE  f \in abandoned \/ (\E t \in Topics : f = ent[t]) \/ f = new_sub[Loop]
    <3>1. CASE f = e
      BY <3>1 DEF e
    <3>2. CASE f # e
      BY <1>1, <1>4, <2>1, <3>2 DEF Ownership
    <3>. QED  BY <3>1, <3>2
  <2>. QED  BY <1>1, <2>1 DEF Ownership, mgrVars
<1>11. Construction'
  <2>1. /\ \A f \in Ents : parts'[f] = {} <=> of'[f] = None
        /\ \A f \in Ents : "listener" \in parts'[f] \/ listener'[f] # "idle" => "reader" \in parts'[f]
    BY <1>1, <1>2, <1>4, <1>5, <1>8 DEF Construction
  <2>2. \A t \in Topics : ent'[t] # None => parts'[ent'[t]] = AllParts /\ of'[ent'[t]] = t
    BY <1>4, <1>6 DEF Construction, TypeOK, mgrVars
  <2>3. new_sub'[Loop] = e /\ arg'[Loop] = arg[Loop]
    BY DEF e
  <2>. QED  BY <1>4, <2>1, <2>2, <2>3 DEF Construction
<1>12. NoTopicClash'
  BY <1>4, <1>7 DEF DdsInv, NoTopicClash
<1>13. Counts'
  BY <1>1, <1>2, <1>4 DEF Counts, GivingUp, mgrVars
<1>14. Sources' /\ ReaderFromOneDiscovery'
  <2>1. \A f \in Ents : parts'[f] = {} => parts[f] = {}
    BY <1>2, <1>4
  <2>2. \A u \in Threads : pc'[u] # "domain"
    BY <1>2, <1>4
  <2>3. Sources'
    BY <2>1, <2>2 DEF Sources, discVars
  <2>. QED  BY <2>3, Frames DEF DdsInv
<1>15. LeftBehind'
  <2>1. \A f \in abandoned : f \in Ents /\ f # e
    BY DEF DdsInv, LeftBehind, TypeOK, e
  <2>2. pc[Loop] \in BuildSteps /\ \A u \in Threads : pc'[u] \in BuildSteps => u = Loop
    BY <1>2, <1>4 DEF BuildSteps
  <2>. QED  BY <1>4, <2>1, <2>2 DEF DdsInv, LeftBehind, mgrVars
<1>. QED  BY <1>3, <1>9, <1>10, <1>11, <1>12, <1>13, <1>14, <1>15 DEF DdsInv

(* create_topic, create_subscriber and create_datareader.                  *)
LEMMA CreateStep ==
  ASSUME DdsInv, NEW th \in Threads, CreateTopic(th) \/ CreateSubscriber(th) \/ CreateReader(th)
  PROVE  DdsInv'
<1>. USE NamesAssumption DEF Threads
<1>. DEFINE e == new_sub[Loop]
<1>. TypeOK /\ Construction
  BY DEF DdsInv
<1>1. pc[th] \in {"topic", "subscriber", "reader"}
  BY DEF CreateTopic, CreateSubscriber, CreateReader
<1>2. th = Loop /\ e \in Ents
  BY <1>1, SubscriberIsAlone DEF SubscribeSteps, CreateSteps, DdsInv, Calls, TypeOK
<1>3. CASE CreateTopic(th)
  <2>0. /\ pc[Loop] = "topic"
        /\ UNCHANGED <<discVars, mgrVars, mutex, abandoned, listener, to_close, stage>>
    BY <1>2, <1>3 DEF CreateTopic
  <2>1. CASE Rejected(Loop) /\ src' = [src EXCEPT ![e] = NoSrc] /\ UNCHANGED <<parts, of>>
    <3>1. parts[e] = {} /\ of[e] = None
      BY <1>2, <2>0 DEF Construction
    <3>2. parts = [parts EXCEPT ![e] = {}] /\ of = [of EXCEPT ![e] = None]
      BY <1>2, <3>1 DEF TypeOK
    <3>. QED  BY <2>0, <2>1, <3>2, RejectStep DEF Delete
  <2>2. CASE /\ \A f \in abandoned : of[f] # arg[Loop]
             /\ parts' = [parts EXCEPT ![e] = {"topic"}]
             /\ of' = [of EXCEPT ![e] = arg[Loop]]
             /\ pc' = [pc EXCEPT ![Loop] = "subscriber"]
             /\ UNCHANGED <<src, cleanup_mutex, arg, new_sub, held>>
    BY <2>0, <2>2, BuildStep
  <2>. QED  BY <1>2, <1>3, <2>1, <2>2 DEF CreateTopic
<1>4. CASE CreateSubscriber(th)
  <2>0. /\ pc[Loop] = "subscriber"
        /\ UNCHANGED <<discVars, mgrVars, mutex, abandoned, listener, to_close, stage>>
    BY <1>2, <1>4 DEF CreateSubscriber
  <2>1. CASE Rejected(Loop) /\ Delete(e)
    BY <2>0, <2>1, RejectStep
  <2>2. CASE /\ parts' = [parts EXCEPT ![e] = @ \cup {"subscriber"}]
             /\ pc' = [pc EXCEPT ![Loop] = "reader"]
             /\ UNCHANGED <<of, src, cleanup_mutex, arg, new_sub, held>>
    <3>1. parts[e] = {"topic"} /\ of[e] = arg[Loop]
      BY <1>2, <2>0 DEF Construction
    <3>2. {"topic"} \cup {"subscriber"} = {"topic", "subscriber"}
      OBVIOUS
    <3>3. parts' = [parts EXCEPT ![e] = {"topic", "subscriber"}]
      BY <2>2, <3>1, <3>2
    <3>4. of = [of EXCEPT ![e] = arg[Loop]]
      BY <1>2, <3>1 DEF TypeOK
    <3>. QED  BY <2>0, <2>2, <3>3, <3>4, BuildStep
  <2>. QED  BY <1>2, <1>4, <2>1, <2>2 DEF CreateSubscriber
<1>5. CASE CreateReader(th)
  <2>0. /\ pc[Loop] = "reader"
        /\ UNCHANGED <<discVars, mgrVars, mutex, abandoned, listener, to_close, stage>>
    BY <1>2, <1>5 DEF CreateReader
  <2>1. CASE Rejected(Loop) /\ Delete(e)
    BY <2>0, <2>1, RejectStep
  <2>2. CASE /\ parts' = [parts EXCEPT ![e] = AllParts]
             /\ pc' = [pc EXCEPT ![Loop] = "insert"]
             /\ UNCHANGED <<of, src, cleanup_mutex, arg, new_sub, held>>
    <3>1. of[e] = arg[Loop]
      BY <1>2, <2>0 DEF Construction
    <3>2. of = [of EXCEPT ![e] = arg[Loop]]
      BY <1>2, <3>1 DEF TypeOK
    <3>. QED  BY <2>0, <2>2, <3>2, BuildStep
  <2>. QED  BY <1>2, <1>5, <2>1, <2>2 DEF CreateReader
<1>. QED  BY <1>3, <1>4, <1>5

(* Phase 3: there is no entry yet, so the new entities become one.         *)
LEMMA InsertStep == ASSUME DdsInv, NEW th \in Threads, Insert(th) PROVE DdsInv'
<1>. USE NamesAssumption, RefsAssumption DEF Threads
<1>. DEFINE e == new_sub[Loop]
            t == arg[Loop]
<1>. TypeOK /\ Calls /\ Shutdown /\ Construction /\ Counts /\ Sources /\ Ownership
  BY DEF DdsInv
<1>0. pc[th] = "insert" /\ UNCHANGED <<discVars, callback, ddsVars, listener, stage>>
  BY DEF Insert
<1>1. /\ th = Loop /\ stage = "running" /\ cleanup_mutex = Loop
      /\ t \in Topics /\ ent[t] = None
      /\ \A u \in Threads : u # Loop => pc[u] = "idle" /\ new_sub[u] = None
      /\ \A u \in Threads : to_close[u] = {}
      /\ \A v \in Topics : ~GivingUp(v) /\ ref[v] = held[v]
  BY <1>0, SubscriberIsAlone DEF SubscribeSteps, CreateSteps
<1>2. e \in Ents /\ parts[e] = AllParts /\ of[e] = t
  BY <1>0, <1>1 DEF Calls, CreateSteps, Construction, TypeOK
<1>3. /\ ref' = [ref EXCEPT ![t] = @ + 1] /\ ent' = [ent EXCEPT ![t] = e]
      /\ held' = [held EXCEPT ![t] = @ + 1] /\ cleanup_mutex' = None
      /\ pc' = [pc EXCEPT ![Loop] = "idle"] /\ arg' = [arg EXCEPT ![Loop] = None]
      /\ new_sub' = [new_sub EXCEPT ![Loop] = None] /\ UNCHANGED <<mutex, to_close>>
  BY <1>1 DEF Insert, Granted, Return
<1>. HIDE DEF e, t
<1>4. ref[t] = 0 /\ held[t] = 0
  BY <1>1 DEF Counts, TypeOK
<1>5. TypeOK'
  <2>0. /\ ref' = [ref EXCEPT ![t] = 1] /\ held' = [held EXCEPT ![t] = 1]
        /\ 1 \in 0..MaxRefs
    BY <1>3, <1>4
  <2>1. ref' \in [Topics -> 0..MaxRefs] /\ held' \in [Topics -> 0..MaxRefs]
    BY <2>0 DEF TypeOK
  <2>2. ent' \in [Topics -> Ents \cup {None}]
    BY <1>2, <1>3 DEF TypeOK
  <2>. QED  BY <1>0, <1>3, <2>1, <2>2 DEF TypeOK, discVars, ddsVars
<1>6. /\ \A u \in Threads : pc'[u] = "idle" /\ new_sub'[u] = None /\ to_close'[u] = {}
      /\ ent'[t] = e /\ ref'[t] = 1 /\ held'[t] = 1
      /\ \A v \in Topics : v # t => ent'[v] = ent[v] /\ ref'[v] = ref[v] /\ held'[v] = held[v]
  BY <1>1, <1>3, <1>4 DEF TypeOK
<1>7. Calls' /\ Shutdown'
  BY <1>0, <1>1, <1>3, <1>6 DEF Calls, Shutdown, SubscribeSteps, CreateSteps
<1>8. Ownership'
  <2>1. ASSUME NEW f \in Ents, parts[f] # {} PROVE f \in abandoned \/ \E v \in Topics : f = ent'[v]
    <3>1. CASE f = e
      BY <1>1, <1>6, <3>1
    <3>2. CASE f # e /\ f \notin abandoned
      <4>1. PICK v \in Topics : f = ent[v]
        BY <1>1, <2>1, <3>2 DEF Ownership, e
      <4>2. v # t
        BY <1>1, <4>1
      <4>. QED  BY <1>6, <4>1, <4>2
    <3>. QED  BY <3>1, <3>2
  <2>. QED  BY <1>0, <1>6, <2>1 DEF Ownership, ddsVars
<1>9. Construction'
  BY <1>0, <1>2, <1>6 DEF Construction, ddsVars
<1>10. Counts'
  BY <1>0, <1>1, <1>2, <1>6 DEF Counts, GivingUp
<1>11. Sources'
  <2>1. \A f \in Ents : parts[f] = {} => \A u \in Threads : f # new_sub[u]
    BY <1>1, <1>2 DEF e, AllParts
  <2>. QED  BY <1>0, <1>6, <2>1 DEF Sources, discVars, ddsVars
<1>12. NoTopicClash' /\ ReaderFromOneDiscovery'
  BY <1>0, Frames DEF DdsInv, ddsVars
<1>13. LeftBehind'
  <2>1. \A f \in abandoned : f \in Ents /\ f # e /\ parts[f] # {}
    BY DEF DdsInv, LeftBehind, TypeOK, e
  <2>2. \A f \in abandoned : of[f] # t /\ of[f] \in Topics
    BY <1>2, <2>1, LeftBehindFacts DEF DdsInv, NoTopicClash, AllParts
  <2>. QED  BY <1>0, <1>6, <2>1, <2>2 DEF DdsInv, LeftBehind, BuildSteps, ddsVars
<1>. QED  BY <1>5, <1>7, <1>8, <1>9, <1>10, <1>11, <1>12, <1>13 DEF DdsInv

(* Fast DDS, after an exception: nobody has the entities any more, and as  *)
(* theirs is the only topic of its name, no entry will.                    *)
LEMMA SubscribeAbandonsStep ==
  ASSUME DdsInv, NEW th \in Threads, SubscribeAbandons(th)
  PROVE  DdsInv'
<1>. USE NamesAssumption, RefsAssumption DEF Threads
<1>. DEFINE e == new_sub[Loop]
            t == arg[Loop]
<1>. TypeOK /\ Calls /\ Shutdown /\ Construction /\ Counts /\ Sources /\ Ownership /\ LeftBehind
  BY DEF DdsInv
<1>0. /\ pc[th] \in {"subscriber", "reader", "insert"} /\ abandoned' = abandoned \cup {new_sub[th]}
      /\ UNCHANGED <<discVars, mgrVars, mutex, parts, of, src, listener, to_close, stage>>
  BY DEF SubscribeAbandons, Throws
<1>1. /\ th = Loop /\ stage = "running" /\ cleanup_mutex = Loop
      /\ t \in Topics /\ ent[t] = None
      /\ \A u \in Threads : u # Loop => pc[u] = "idle" /\ new_sub[u] = None
      /\ \A u \in Threads : to_close[u] = {}
      /\ \A v \in Topics : ~GivingUp(v) /\ ref[v] = held[v]
  BY <1>0, SubscriberIsAlone DEF SubscribeSteps, CreateSteps
<1>2. e \in Ents /\ parts[e] # {} /\ of[e] = t /\ src[e].domain # None
  <2>1. e \in Ents
    BY <1>0, <1>1 DEF Calls, CreateSteps, TypeOK
  <2>2. of[e] = t /\ src[e].domain # None
    BY <1>0, <1>1 DEF Construction, LeftBehind, BuildSteps
  <2>3. parts[e] # {}
    BY <1>1, <2>1, <2>2 DEF Construction
  <2>. QED  BY <2>1, <2>2, <2>3
<1>3. /\ cleanup_mutex' = None /\ UNCHANGED held
      /\ pc' = [pc EXCEPT ![Loop] = "idle"] /\ arg' = [arg EXCEPT ![Loop] = None]
      /\ new_sub' = [new_sub EXCEPT ![Loop] = None]
  BY <1>1 DEF SubscribeAbandons, Rejected, Return
<1>. HIDE DEF e, t
<1>4. /\ \A u \in Threads : pc'[u] = "idle" /\ new_sub'[u] = None /\ to_close'[u] = {}
      /\ abandoned' = abandoned \cup {e}
  BY <1>0, <1>1, <1>3 DEF TypeOK, e
<1>5. TypeOK'
  BY <1>0, <1>2, <1>3, <1>4 DEF TypeOK, discVars, mgrVars
<1>6. Calls' /\ Shutdown'
  BY <1>0, <1>1, <1>3, <1>4 DEF Calls, Shutdown, mgrVars, SubscribeSteps, CreateSteps
<1>7. Ownership'
  <2>1. ASSUME NEW f \in Ents, parts[f] # {} PROVE f \in abandoned' \/ \E v \in Topics : f = ent[v]
    BY <1>1, <1>4, <2>1 DEF Ownership, e
  <2>. QED  BY <1>0, <1>4, <2>1 DEF Ownership, mgrVars
<1>8. Construction'
  BY <1>0, <1>4 DEF Construction, mgrVars
<1>9. NoTopicClash' /\ ReaderFromOneDiscovery'
  BY <1>0, Frames DEF DdsInv
<1>10. Counts'
  BY <1>0, <1>1, <1>3, <1>4 DEF Counts, GivingUp, mgrVars
<1>11. Sources'
  <2>1. \A f \in Ents : parts[f] = {} => \A u \in Threads : f # new_sub[u]
    BY <1>1, <1>2 DEF e
  <2>. QED  BY <1>0, <1>4, <2>1 DEF Sources, discVars
<1>12. LeftBehind'
  <2>1. \A u \in Threads : pc'[u] \notin BuildSteps
    BY <1>4 DEF BuildSteps
  <2>2. \A f \in abandoned' : f \in Ents
    BY <1>2, <1>4 DEF TypeOK
  <2>3. ASSUME NEW f \in abandoned'
        PROVE  /\ parts[f] # {} /\ ent[of[f]] = None /\ src[f].domain # None
               /\ \A u \in Threads : f # new_sub'[u] /\ f \notin to_close'[u]
    BY <1>1, <1>2, <1>4, <2>2 DEF LeftBehind
  <2>. QED  BY <1>0, <2>1, <2>3 DEF LeftBehind, mgrVars
<1>. QED  BY <1>5, <1>6, <1>7, <1>8, <1>9, <1>10, <1>11, <1>12 DEF DdsInv

(* RTI, after an exception: the entities are closed like those of an       *)
(* unsubscribe.                                                            *)
LEMMA SubscribeUnwindsStep ==
  ASSUME DdsInv, NEW th \in Threads, SubscribeUnwinds(th)
  PROVE  DdsInv'
<1>. USE NamesAssumption, RefsAssumption DEF Threads
<1>. DEFINE e == new_sub[Loop]
<1>. TypeOK /\ Calls /\ Shutdown /\ Construction /\ Counts /\ Sources /\ Ownership /\ LeftBehind
  BY DEF DdsInv
<1>0. /\ pc[th] = "insert"
      /\ UNCHANGED <<discVars, mgrVars, mutex, ddsVars, listener, cleanup_mutex, arg, held, stage>>
  BY DEF SubscribeUnwinds
<1>1. /\ th = Loop /\ stage = "running" /\ cleanup_mutex = Loop
      /\ arg[Loop] \in Topics /\ ent[arg[Loop]] = None
      /\ \A u \in Threads : u # Loop => pc[u] = "idle" /\ new_sub[u] = None
      /\ \A u \in Threads : to_close[u] = {}
      /\ \A v \in Topics : ~GivingUp(v) /\ ref[v] = held[v]
  BY <1>0, SubscriberIsAlone DEF SubscribeSteps, CreateSteps
<1>2. e \in Ents /\ parts[e] = AllParts /\ of[e] = arg[Loop] /\ e \notin abandoned
  BY <1>0, <1>1 DEF Calls, CreateSteps, Construction, LeftBehind, TypeOK
<1>3. /\ to_close' = [to_close EXCEPT ![Loop] = {e}] /\ new_sub' = [new_sub EXCEPT ![Loop] = None]
      /\ pc' = [pc EXCEPT ![Loop] = "close"]
  BY <1>1 DEF SubscribeUnwinds
<1>. HIDE DEF e
<1>4. /\ pc'[Loop] = "close" /\ to_close'[Loop] = {e}
      /\ \A u \in Threads : new_sub'[u] = None
      /\ \A u \in Threads : u # Loop => pc'[u] = "idle" /\ to_close'[u] = {}
  BY <1>1, <1>3 DEF TypeOK
<1>5. \A v \in Topics : ent[v] # e
  BY <1>1, <1>2 DEF Construction
<1>6. TypeOK'
  BY <1>0, <1>2, <1>3 DEF TypeOK, discVars, mgrVars, ddsVars
<1>7. Calls' /\ Shutdown'
  BY <1>0, <1>1, <1>4 DEF Calls, Shutdown, mgrVars, SubscribeSteps, CreateSteps
<1>8. Ownership'
  <2>1. ASSUME NEW f \in Ents, parts[f] # {}
        PROVE  f \in abandoned \/ (\E v \in Topics : f = ent[v]) \/ f \in to_close'[Loop]
    BY <1>1, <1>4, <2>1 DEF Ownership, e
  <2>2. "reader" \in parts[e]
    BY <1>2 DEF AllParts
  <2>. QED  BY <1>0, <1>2, <1>4, <1>5, <2>1, <2>2 DEF Ownership, mgrVars, ddsVars
<1>9. Construction'
  BY <1>0, <1>4 DEF Construction, mgrVars, ddsVars
<1>10. NoTopicClash' /\ ReaderFromOneDiscovery'
  BY <1>0, Frames DEF DdsInv, ddsVars
<1>11. Counts'
  BY <1>0, <1>1, <1>4 DEF Counts, GivingUp, mgrVars
<1>12. Sources'
  <2>1. \A f \in Ents : parts[f] = {} => \A u \in Threads : f # new_sub[u]
    BY <1>1, <1>2 DEF e, AllParts
  <2>2. \A u \in Threads : pc'[u] # "domain"
    BY <1>4
  <2>. QED  BY <1>0, <2>1, <2>2 DEF Sources, discVars, ddsVars
<1>13. LeftBehind'
  <2>1. \A u \in Threads : pc'[u] \notin BuildSteps /\ to_close'[u] \subseteq {e}
    BY <1>4 DEF BuildSteps
  <2>2. \A f \in abandoned : f # None
    BY DEF TypeOK
  <2>. QED  BY <1>0, <1>2, <1>4, <2>1, <2>2 DEF LeftBehind, mgrVars, ddsVars
<1>. QED  BY <1>6, <1>7, <1>8, <1>9, <1>10, <1>11, <1>12, <1>13 DEF DdsInv

-----------------------------------------------------------------------------
(* A session's claim is given up: cleanup_mutex_ was free, so no other     *)
(* reference is on its way out.                                            *)
LEMMA BeginUnsubscribeStep ==
  ASSUME DdsInv, NEW th \in Threads, NEW t \in Topics, BeginUnsubscribe(th, t)
  PROVE  DdsInv'
<1>. USE NamesAssumption, RefsAssumption DEF Threads
<1>. TypeOK /\ Calls /\ Shutdown /\ Construction /\ Counts /\ Sources
  BY DEF DdsInv
<1>1. /\ pc[th] = "idle" /\ cleanup_mutex = None /\ held[t] > 0 /\ stage # "stopped"
      /\ th = Loop => stage = "running"
      /\ UNCHANGED <<discVars, mgrVars, mutex, ddsVars, listener, new_sub, to_close, stage>>
      /\ cleanup_mutex' = th /\ held' = [held EXCEPT ![t] = @ - 1]
      /\ pc' = [pc EXCEPT ![th] = "unsubscribe"] /\ arg' = [arg EXCEPT ![th] = t]
  BY DEF BeginUnsubscribe
<1>2. \A u \in Threads : pc[u] # "unsubscribe" /\ pc[u] \notin SubscribeSteps
  <2>1. \A u \in Threads : pc[u] # "idle" => u = Loop /\ stage = "closing"
    BY <1>1 DEF Calls
  <2>2. stage = "closing" => pc[Loop] = "close"
    BY DEF Shutdown
  <2>. QED  BY <2>1, <2>2 DEF SubscribeSteps, CreateSteps
<1>3. /\ pc'[th] = "unsubscribe" /\ arg'[th] = t
      /\ \A u \in Threads : u # th => pc'[u] = pc[u] /\ arg'[u] = arg[u]
      /\ held'[t] = held[t] - 1 /\ \A v \in Topics : v # t => held'[v] = held[v]
  BY <1>1 DEF TypeOK
<1>4. TypeOK'
  <2>1. held' \in [Topics -> 0..MaxRefs]
    BY <1>1 DEF TypeOK
  <2>. QED  BY <1>1, <2>1 DEF TypeOK, discVars, mgrVars, ddsVars
<1>5. Calls' /\ Shutdown'
  <2>1. Calls'
    BY <1>1, <1>2, <1>3 DEF Calls, SubscribeSteps, CreateSteps, mgrVars
  <2>2. Shutdown'
    BY <1>1, <1>3 DEF Shutdown, mgrVars
  <2>. QED  BY <2>1, <2>2
<1>6. Ownership' /\ NoTopicClash' /\ ReaderFromOneDiscovery'
  BY <1>1, Frames DEF DdsInv, mgrVars, ddsVars
<1>7. Construction'
  <2>1. \A u \in Threads : pc'[u] \notin SubscribeSteps
    BY <1>2, <1>3 DEF SubscribeSteps, CreateSteps
  <2>. QED  BY <1>1, <2>1 DEF Construction, mgrVars, ddsVars, SubscribeSteps, CreateSteps
<1>8. Counts'
  <2>1. \A v \in Topics : ~GivingUp(v) /\ (GivingUp(v)' <=> v = t)
    BY <1>2, <1>3 DEF GivingUp
  <2>. QED  BY <1>1, <1>3, <2>1 DEF Counts, TypeOK, mgrVars
<1>9. Sources'
  BY <1>1, <1>2, <1>3 DEF Sources, discVars, ddsVars, SubscribeSteps, CreateSteps
<1>10. LeftBehind'
  <2>1. \A u \in Threads : pc'[u] \notin BuildSteps
    BY <1>2, <1>3 DEF SubscribeSteps, CreateSteps, BuildSteps
  <2>. QED  BY <1>1, <2>1 DEF DdsInv, LeftBehind, mgrVars, ddsVars
<1>. QED  BY <1>4, <1>5, <1>6, <1>7, <1>8, <1>9, <1>10 DEF DdsInv

(* The count goes down; with the last reference the entities leave the     *)
(* table and are the caller's to close.                                    *)
LEMMA UnsubscribeStep == ASSUME DdsInv, NEW th \in Threads, Unsubscribe(th) PROVE DdsInv'
<1>. USE NamesAssumption, RefsAssumption DEF Threads
<1>. DEFINE t == arg[th]
            e == ent[t]
<1>. TypeOK /\ Calls /\ Shutdown /\ Construction /\ Counts /\ Sources /\ Ownership
  BY DEF DdsInv
<1>1. /\ pc[th] = "unsubscribe" /\ ref' = [ref EXCEPT ![t] = IF @ = 0 THEN 0 ELSE @ - 1]
      /\ UNCHANGED <<discVars, callback, mutex, ddsVars, listener, held, stage>>
  BY DEF Unsubscribe
<1>2. /\ t \in Topics /\ cleanup_mutex = th /\ new_sub[th] = None /\ to_close[th] = {}
      /\ th = Loop => stage = "running"
  BY <1>1 DEF Calls, CreateSteps, Shutdown
<1>3. \A u \in Threads : u # th => (pc[u] = "idle" \/ (u = Loop /\ stage = "closing" /\ pc[u] = "close"))
  BY <1>2 DEF Calls, Shutdown
<1>4. ref' \in [Topics -> 0..MaxRefs] /\ \A v \in Topics : v # t => ref'[v] = ref[v]
  <2>0. ref[t] \in 0..MaxRefs
    BY <1>2 DEF TypeOK
  <2>1. (IF ref[t] = 0 THEN 0 ELSE ref[t] - 1) \in 0..MaxRefs
    BY <2>0
  <2>2. ref' = [ref EXCEPT ![t] = IF ref[t] = 0 THEN 0 ELSE ref[t] - 1]
    BY <1>1
  <2>. HIDE DEF t
  <2>3. DOMAIN ref = Topics /\ \A v \in Topics : ref[v] \in 0..MaxRefs
    BY DEF TypeOK
  <2>. QED  BY <1>2, <2>1, <2>2, <2>3
<1>5. ref'[t] = IF ref[t] = 0 THEN 0 ELSE ref[t] - 1
  BY <1>1, <1>2 DEF TypeOK
<1>6. NoTopicClash' /\ ReaderFromOneDiscovery'
  BY <1>1, Frames DEF DdsInv, ddsVars
<1>7. \A v \in Topics : GivingUp(v) <=> v = t
  BY <1>1, <1>3 DEF GivingUp
<1>. HIDE DEF t, e
<1>8. CASE ref[t] = 1
  <2>1. /\ ent' = [ent EXCEPT ![t] = None] /\ to_close' = [to_close EXCEPT ![th] = {e}]
        /\ pc' = [pc EXCEPT ![th] = "close"] /\ UNCHANGED <<cleanup_mutex, arg, new_sub>>
    BY <1>8 DEF Unsubscribe, t, e
  <2>2. e \in Ents /\ parts[e] = AllParts /\ of[e] = t /\ stage \in {"running", "cleared"}
    BY <1>2, <1>8 DEF Counts, Construction, TypeOK, Shutdown, e
  <2>3. /\ pc'[th] = "close" /\ to_close'[th] = {e} /\ ent'[t] = None /\ ent[t] = e
        /\ \A u \in Threads : u # th => pc'[u] = "idle" /\ to_close'[u] = {}
        /\ \A v \in Topics : v # t => ent'[v] = ent[v] /\ ent[v] # e
    <3>1. \A u \in Threads : u # th => pc[u] = "idle" /\ to_close[u] = {}
      BY <1>3, <2>2 DEF Calls
    <3>2. \A v \in Topics : v # t => ent[v] # e
      BY <2>2 DEF Construction
    <3>. QED  BY <1>2, <2>1, <3>1, <3>2 DEF TypeOK, e
  <2>4. TypeOK'
    BY <1>1, <1>4, <2>1, <2>2 DEF TypeOK, discVars, ddsVars
  <2>5. Calls' /\ Shutdown'
    <3>1. Calls'
      BY <1>1, <1>2, <2>1, <2>3 DEF Calls, SubscribeSteps, CreateSteps
    <3>2. Shutdown'
      BY <1>1, <1>2, <2>1, <2>2, <2>3 DEF Shutdown
    <3>. QED  BY <3>1, <3>2
  <2>6. \A u \in Threads : new_sub'[u] = None
    <3>1. \A u \in Threads : pc[u] \notin CreateSteps
      BY <1>1, <1>3 DEF CreateSteps
    <3>. QED  BY <2>1, <3>1 DEF Calls
  <2>7. Ownership'
    <3>1. ASSUME NEW f \in Ents, parts[f] # {}
          PROVE  f \in abandoned \/ (\E v \in Topics : f = ent'[v]) \/ f \in to_close'[th]
      <4>1. CASE f = e
        BY <2>3, <4>1
      <4>2. CASE f # e /\ f \notin abandoned
        <5>1. PICK v \in Topics : f = ent[v]
          BY <1>2, <1>3, <2>1, <2>2, <2>6, <3>1, <4>2 DEF Ownership, Calls
        <5>2. v # t
          BY <2>3, <4>2, <5>1
        <5>. QED  BY <2>3, <5>1, <5>2
      <4>. QED  BY <4>1, <4>2
    <3>2. "reader" \in parts'[e] /\ \A v \in Topics : e # ent'[v]
      BY <1>1, <2>2, <2>3 DEF AllParts, ddsVars
    <3>. QED  BY <1>1, <2>2, <2>3, <2>6, <3>1, <3>2 DEF Ownership, ddsVars
  <2>8. Construction'
    BY <1>1, <2>3 DEF Construction, ddsVars
  <2>9. Counts'
    <3>1. \A v \in Topics : ~GivingUp(v)'
      BY <2>3 DEF GivingUp
    <3>2. /\ \A v \in Topics : ref[v] \in 0..MaxRefs /\ held[v] \in 0..MaxRefs
          /\ held' = held /\ stage' = stage
      BY <1>1 DEF TypeOK
    <3>3. SUFFICES ASSUME NEW v \in Topics
                   PROVE  /\ ref'[v] > 0 <=> ent'[v] # None
                          /\ stage \in {"running", "cleared"} => ref'[v] = held[v]
      BY <3>1, <3>2 DEF Counts
    <3>4. CASE v = t
      <4>1. ref'[v] = 0 /\ ent'[v] = None /\ (stage \in {"running", "cleared"} => held[v] = 0)
        BY <1>5, <1>7, <1>8, <2>3, <3>2, <3>4 DEF Counts
      <4>. QED  BY <4>1
    <3>5. CASE v # t
      <4>1. ref'[v] = ref[v] /\ ent'[v] = ent[v] /\ ~GivingUp(v)
        BY <1>4, <1>7, <2>3, <3>5
      <4>. QED  BY <3>2, <4>1 DEF Counts
    <3>. QED  BY <3>4, <3>5
  <2>10. Sources'
    BY <1>1, <2>1, <2>3 DEF Sources, discVars, ddsVars
  <2>11. LeftBehind'
    <3>1. \A f \in abandoned : of[f] \in Topics /\ f # e
      BY <1>2, <2>3, LeftBehindFacts
    <3>2. \A u \in Threads : pc'[u] \notin BuildSteps
      BY <2>3 DEF BuildSteps
    <3>. QED  BY <1>1, <2>1, <2>3, <3>1, <3>2 DEF DdsInv, LeftBehind, ddsVars
  <2>. QED  BY <1>6, <2>4, <2>5, <2>7, <2>8, <2>9, <2>10, <2>11 DEF DdsInv
<1>9. CASE ref[t] # 1
  <2>1. /\ UNCHANGED <<ent, to_close>> /\ cleanup_mutex' = None
        /\ pc' = [pc EXCEPT ![th] = "idle"] /\ arg' = [arg EXCEPT ![th] = None]
        /\ new_sub' = [new_sub EXCEPT ![th] = None]
    BY <1>2, <1>9 DEF Unsubscribe, Return, t
  <2>2. new_sub' = new_sub
    BY <1>2, <2>1 DEF TypeOK
  <2>3. TypeOK'
    BY <1>1, <1>4, <2>1, <2>2 DEF TypeOK, discVars, ddsVars
  <2>4. /\ pc'[th] = "idle" /\ arg'[th] = None
        /\ \A u \in Threads : u # th => pc'[u] = pc[u] /\ arg'[u] = arg[u]
    BY <2>1 DEF TypeOK
  <2>5. Calls' /\ Shutdown'
    <3>1. Calls'
      BY <1>1, <1>2, <1>3, <2>1, <2>2, <2>4 DEF Calls, SubscribeSteps, CreateSteps
    <3>2. Shutdown'
      BY <1>1, <1>2, <2>1, <2>4 DEF Shutdown
    <3>. QED  BY <3>1, <3>2
  <2>6. Ownership'
    BY <1>1, <2>1, <2>2, Frames DEF ddsVars
  <2>7. \A u \in Threads : pc'[u] \in {"idle", "close"}
    BY <1>3, <2>4
  <2>8. Construction'
    BY <1>1, <2>1, <2>2, <2>7 DEF Construction, ddsVars
  <2>9. Counts'
    <3>1. \A v \in Topics : ~GivingUp(v)'
      BY <2>7 DEF GivingUp
    <3>. QED  BY <1>1, <1>2, <1>4, <1>5, <1>7, <1>9, <2>1, <3>1 DEF Counts, TypeOK
  <2>10. Sources'
    BY <1>1, <2>2, <2>7 DEF Sources, discVars, ddsVars
  <2>11. LeftBehind'
    BY <1>1, <2>1, <2>2, <2>7 DEF DdsInv, LeftBehind, BuildSteps, ddsVars
  <2>. QED  BY <1>6, <2>3, <2>5, <2>6, <2>8, <2>9, <2>10, <2>11 DEF DdsInv
<1>. QED  BY <1>8, <1>9

-----------------------------------------------------------------------------
(* Closing.  What a call closes is its own: no entry, no subscribe and no  *)
(* other call has it.                                                      *)
LEMMA DetachListenerStep ==
  ASSUME DdsInv, NEW th \in Threads, NEW e \in Ents, DetachListener(th, e)
  PROVE  DdsInv'
<1>. TypeOK /\ Calls /\ Shutdown /\ Construction /\ Ownership /\ Sources
  BY DEF DdsInv
<1>1. /\ e \in to_close[th] /\ parts' = [parts EXCEPT ![e] = @ \ {"listener"}]
      /\ UNCHANGED <<discVars, mgrVars, mutex, of, src, abandoned, listener, callVars, held, stage>>
  BY DEF DetachListener
<1>2. /\ parts'[e] = parts[e] \ {"listener"} /\ parts' \in [Ents -> SUBSET AllParts]
      /\ \A f \in Ents : f # e => parts'[f] = parts[f]
  BY <1>1 DEF TypeOK
<1>3. /\ "reader" \in parts[e]
      /\ \A t \in Topics : e # ent[t]
      /\ \A u \in Threads : e # new_sub[u]
  BY <1>1 DEF Ownership
<1>4. "reader" \in parts'[e]
  BY <1>2, <1>3
<1>5. \A f \in Ents : parts'[f] = {} <=> parts[f] = {}
  BY <1>2, <1>3, <1>4
<1>6. TypeOK'
  BY <1>1, <1>2 DEF TypeOK, discVars, mgrVars, callVars
<1>7. Calls' /\ Shutdown'
  BY <1>1 DEF Calls, Shutdown, mgrVars, callVars
<1>8. Ownership'
  <2>1. \A f \in Ents : "reader" \in parts[f] => "reader" \in parts'[f]
    BY <1>2, <1>4
  <2>2. \A u \in Threads : to_close[u] \subseteq Ents
    BY DEF TypeOK
  <2>. QED  BY <1>1, <1>5, <2>1, <2>2 DEF Ownership, mgrVars, callVars
<1>9. Construction'
  <2>1. /\ \A f \in Ents : parts'[f] = {} <=> of'[f] = None
        /\ \A f \in Ents : "listener" \in parts'[f] \/ listener'[f] # "idle" => "reader" \in parts'[f]
    BY <1>1, <1>2, <1>4, <1>5 DEF Construction
  <2>2. \A t \in Topics : ent'[t] # None => parts'[ent'[t]] = AllParts /\ of'[ent'[t]] = t
    BY <1>1, <1>2, <1>3 DEF Construction, TypeOK, mgrVars
  <2>3. \A u \in Threads : pc[u] \in CreateSteps => new_sub[u] \in Ents /\ parts'[new_sub[u]] = parts[new_sub[u]]
    BY <1>2, <1>3 DEF Calls, TypeOK
  <2>. QED  BY <1>1, <2>1, <2>2, <2>3 DEF Construction, callVars, CreateSteps
<1>10. NoTopicClash'
  BY <1>1, <1>5 DEF DdsInv, NoTopicClash
<1>11. Counts' /\ ReaderFromOneDiscovery'
  BY <1>1, Frames DEF DdsInv, mgrVars, callVars
<1>12. Sources'
  BY <1>1, <1>5 DEF Sources, discVars, callVars
<1>13. LeftBehind'
  BY <1>1, <1>5 DEF DdsInv, LeftBehind, TypeOK, mgrVars, callVars
<1>. QED  BY <1>6, <1>7, <1>8, <1>9, <1>10, <1>11, <1>12, <1>13 DEF DdsInv

(* Closing deletes entities that no entry refers to any more.              *)
LEMMA CloseEntitiesStep ==
  ASSUME DdsInv, NEW th \in Threads, NEW e \in Ents, CloseEntities(th, e)
  PROVE  DdsInv'
<1>. USE NamesAssumption DEF Threads
<1>. TypeOK /\ Calls /\ Shutdown /\ Construction /\ Ownership /\ Sources
  BY DEF DdsInv
<1>1. /\ pc[th] = "close" /\ e \in to_close[th] /\ listener[e] = "idle"
      /\ parts' = [parts EXCEPT ![e] = {}] /\ of' = [of EXCEPT ![e] = None]
      /\ src' = [src EXCEPT ![e] = NoSrc] /\ to_close' = [to_close EXCEPT ![th] = @ \ {e}]
      /\ UNCHANGED <<discVars, mgrVars, mutex, abandoned, listener, cleanup_mutex, pc, arg, new_sub,
                     held, stage>>
  BY DEF CloseEntities, Delete
<1>2. /\ parts'[e] = {} /\ of'[e] = None /\ src'[e] = NoSrc
      /\ \A f \in Ents : f # e => parts'[f] = parts[f] /\ of'[f] = of[f] /\ src'[f] = src[f]
      /\ to_close'[th] = to_close[th] \ {e}
      /\ \A u \in Threads : u # th => to_close'[u] = to_close[u]
  BY <1>1 DEF TypeOK
<1>3. /\ \A t \in Topics : e # ent[t]
      /\ \A u \in Threads : e # new_sub[u] /\ (u # th => e \notin to_close[u])
  BY <1>1 DEF Ownership
<1>4. TypeOK'
  BY <1>1 DEF TypeOK, discVars, mgrVars, NoSrc
<1>5. Calls' /\ Shutdown'
  <2>1. Calls'
    BY <1>1, <1>2 DEF Calls, mgrVars
  <2>2. Shutdown'
    BY <1>1 DEF Shutdown, mgrVars
  <2>. QED  BY <2>1, <2>2
<1>6. Ownership'
  <2>1. \A u \in Threads : to_close'[u] \subseteq to_close[u] /\ e \notin to_close'[u]
    BY <1>2, <1>3
  <2>2. \A u \in Threads : \A f \in to_close'[u] : f \in Ents /\ f # e
    BY <2>1 DEF TypeOK
  <2>3. ASSUME NEW f \in Ents, parts'[f] # {}
        PROVE  \/ f \in abandoned \/ \E t \in Topics : f = ent[t]
               \/ \E u \in Threads : f = new_sub[u] \/ f \in to_close'[u]
    <3>1. f # e /\ parts[f] # {}
      BY <1>2, <2>3
    <3>2. \A u \in Threads : f \in to_close[u] => f \in to_close'[u]
      BY <1>2, <3>1
    <3>. QED  BY <3>1, <3>2 DEF Ownership
  <2>4. ASSUME NEW u \in Threads, NEW f \in to_close'[u]
        PROVE  /\ "reader" \in parts'[f]
               /\ \A t \in Topics : f # ent[t]
               /\ \A w \in Threads : f # new_sub[w] /\ (w # u => f \notin to_close'[w])
    BY <1>2, <2>1, <2>2 DEF Ownership
  <2>. QED  BY <1>1, <2>3, <2>4 DEF Ownership, mgrVars
<1>7. Construction'
  <2>1. /\ \A f \in Ents : parts'[f] = {} <=> of'[f] = None
        /\ \A f \in Ents : "listener" \in parts'[f] \/ listener'[f] # "idle" => "reader" \in parts'[f]
    BY <1>1, <1>2 DEF Construction
  <2>2. \A t \in Topics : ent'[t] # None => parts'[ent'[t]] = AllParts /\ of'[ent'[t]] = t
    BY <1>1, <1>2, <1>3 DEF Construction, TypeOK, mgrVars
  <2>3. \A u \in Threads : pc[u] \in CreateSteps =>
          /\ new_sub[u] \in Ents
          /\ parts'[new_sub[u]] = parts[new_sub[u]] /\ of'[new_sub[u]] = of[new_sub[u]]
    BY <1>2, <1>3 DEF Calls, TypeOK
  <2>4. \A u \in Threads : pc[u] \in {"type", "domain", "topic"} =>
          \A f \in Ents \ abandoned : of'[f] # arg[u]
    <3>1. \A u \in Threads : pc[u] \in {"type", "domain", "topic"} => arg[u] # None
      BY DEF Calls, SubscribeSteps, CreateSteps
    <3>. QED  BY <1>2, <3>1 DEF Construction
  <2>5. ASSUME NEW u \in Threads
        PROVE  /\ pc[u] \in {"domain", "topic"} => parts'[new_sub[u]] = {}
               /\ pc[u] = "subscriber" => parts'[new_sub[u]] = {"topic"} /\ of'[new_sub[u]] = arg[u]
               /\ pc[u] = "reader" =>
                    parts'[new_sub[u]] = {"topic", "subscriber"} /\ of'[new_sub[u]] = arg[u]
               /\ pc[u] = "insert" => parts'[new_sub[u]] = AllParts /\ of'[new_sub[u]] = arg[u]
    <3>1. CASE pc[u] \in CreateSteps
      BY <2>3, <3>1 DEF Construction
    <3>. QED  BY <3>1 DEF CreateSteps
  <2>6. UNCHANGED <<pc, arg, new_sub, abandoned>>
    BY <1>1
  <2>. QED  BY <2>1, <2>2, <2>4, <2>5, <2>6 DEF Construction
<1>8. NoTopicClash'
  BY <1>2 DEF DdsInv, NoTopicClash
<1>9. Counts'
  BY <1>1, Frames DEF DdsInv, mgrVars
<1>10. Sources' /\ ReaderFromOneDiscovery'
  <2>1. NoSrc.domain = None
    BY DEF NoSrc
  <2>2. \A u \in Threads : pc[u] = "domain" => new_sub[u] \in Ents /\ src'[new_sub[u]] = src[new_sub[u]]
    BY <1>2, <1>3 DEF Calls, CreateSteps, TypeOK
  <2>3. \A f \in Ents : f # e => src'[f] = src[f] /\ parts'[f] = parts[f]
    BY <1>2
  <2>4. Sources'
    BY <1>1, <1>2, <2>1, <2>2, <2>3 DEF Sources, discVars
  <2>5. ReaderFromOneDiscovery'
    BY <1>2, <2>1, <2>3 DEF DdsInv, ReaderFromOneDiscovery
  <2>. QED  BY <2>4, <2>5
<1>11. LeftBehind'
  <2>1. \A f \in abandoned : f \in Ents /\ f # e
    BY <1>1 DEF DdsInv, LeftBehind, TypeOK
  <2>2. \A u \in Threads : pc[u] \in BuildSteps => new_sub[u] \in Ents /\ new_sub[u] # e
    BY <1>3 DEF Calls, CreateSteps, BuildSteps, TypeOK
  <2>3. \A u \in Threads : to_close'[u] \subseteq to_close[u]
    BY <1>2
  <2>. QED  BY <1>1, <1>2, <2>1, <2>2, <2>3 DEF DdsInv, LeftBehind, mgrVars
<1>. QED  BY <1>4, <1>5, <1>6, <1>7, <1>8, <1>9, <1>10, <1>11 DEF DdsInv

(* The call returns, and with the event loop's unsubscribe_all the         *)
(* shutdown goes on.                                                       *)
LEMMA ClosedStep == ASSUME DdsInv, NEW th \in Threads, Closed(th) PROVE DdsInv'
<1>. USE NamesAssumption DEF Threads
<1>. TypeOK /\ Calls /\ Shutdown /\ Construction /\ Counts /\ Sources
  BY DEF DdsInv
<1>1. /\ pc[th] = "close" /\ to_close[th] = {}
      /\ pc' = [pc EXCEPT ![th] = "idle"] /\ arg' = [arg EXCEPT ![th] = None]
      /\ new_sub' = [new_sub EXCEPT ![th] = None]
      /\ cleanup_mutex' = IF cleanup_mutex = th THEN None ELSE cleanup_mutex
      /\ stage' = IF th = Loop /\ stage = "closing" THEN "unsubscribed" ELSE stage
      /\ UNCHANGED <<discVars, mgrVars, ddsVars, listener, to_close, held>>
  BY DEF Closed, Return
<1>2. mutex' = mutex /\ new_sub' = new_sub
  BY <1>1 DEF Closed, Calls, CreateSteps, TypeOK
<1>3. /\ pc'[th] = "idle" /\ arg'[th] = None
      /\ \A u \in Threads : u # th => pc'[u] = pc[u] /\ arg'[u] = arg[u]
  BY <1>1 DEF TypeOK
<1>4. cleanup_mutex = th \/ (th = Loop /\ stage = "closing" /\ cleanup_mutex # Loop)
  BY <1>1 DEF Calls, Shutdown
<1>5. \A u \in Threads : pc[u] \notin SubscribeSteps
  <2>1. ASSUME NEW u \in Threads, pc[u] \in SubscribeSteps PROVE FALSE
    BY <1>1, <2>1, SubscriberIsAlone DEF SubscribeSteps, CreateSteps
  <2>. QED  BY <2>1
<1>6. TypeOK'
  BY <1>1, <1>2 DEF TypeOK, discVars, mgrVars, ddsVars, Stages
<1>7. Calls'
  <2>1. ASSUME NEW u \in Threads, u # th, pc[u] # "idle"
        PROVE  cleanup_mutex' = u \/ (u = Loop /\ stage' = "closing")
    <3>1. CASE cleanup_mutex = th
      BY <1>1, <2>1, <3>1 DEF Calls
    <3>2. CASE cleanup_mutex # th
      BY <1>1, <1>4, <2>1, <3>2 DEF Calls
    <3>. QED  BY <3>1, <3>2
  <2>2. ASSUME NEW u \in Threads, cleanup_mutex' = u PROVE u # th /\ pc[u] # "idle"
    BY <1>1, <2>2 DEF Calls
  <2>3. \A u \in Threads : pc'[u] \notin SubscribeSteps
    BY <1>3, <1>5 DEF SubscribeSteps, CreateSteps
  <2>4. mutex' = None /\ \A u \in Threads : new_sub'[u] = None /\ (to_close'[u] # {} => pc'[u] = "close")
    BY <1>1, <1>2, <1>3, <1>5 DEF Calls, SubscribeSteps
  <2>5. \A u \in Threads : pc'[u] = "unsubscribe" => arg'[u] \in Topics
    BY <1>3 DEF Calls
  <2>. QED  BY <1>3, <2>1, <2>2, <2>3, <2>4, <2>5 DEF Calls, SubscribeSteps
<1>8. Shutdown'
  <2>1. CASE th = Loop /\ stage = "closing"
    BY <1>1, <1>3, <1>4, <2>1 DEF Shutdown, mgrVars
  <2>2. CASE th = Loop /\ stage # "closing"
    BY <1>1, <2>2 DEF Shutdown
  <2>3. CASE th # Loop
    BY <1>1, <1>3, <2>3 DEF Shutdown, mgrVars
  <2>. QED  BY <2>1, <2>2, <2>3
<1>9. Ownership' /\ NoTopicClash' /\ ReaderFromOneDiscovery'
  BY <1>1, <1>2, Frames DEF DdsInv, mgrVars, ddsVars
<1>10. Construction'
  <2>1. \A u \in Threads : pc'[u] \notin SubscribeSteps
    BY <1>3, <1>5 DEF SubscribeSteps, CreateSteps
  <2>. QED  BY <1>1, <1>2, <2>1 DEF Construction, mgrVars, ddsVars, SubscribeSteps, CreateSteps
<1>11. Counts'
  <2>1. \A t \in Topics : GivingUp(t)' <=> GivingUp(t)
    BY <1>1, <1>3 DEF GivingUp
  <2>. QED  BY <1>1, <2>1 DEF Counts, mgrVars
<1>12. Sources'
  <2>1. \A u \in Threads : pc'[u] # "domain"
    BY <1>3, <1>5 DEF SubscribeSteps, CreateSteps
  <2>. QED  BY <1>1, <1>2, <2>1 DEF Sources, discVars, ddsVars
<1>13. LeftBehind'
  <2>1. \A u \in Threads : pc'[u] \notin BuildSteps
    BY <1>3, <1>5 DEF SubscribeSteps, CreateSteps, BuildSteps
  <2>. QED  BY <1>1, <1>2, <2>1 DEF DdsInv, LeftBehind, mgrVars, ddsVars
<1>. QED  BY <1>6, <1>7, <1>8, <1>9, <1>10, <1>11, <1>12, <1>13 DEF DdsInv

-----------------------------------------------------------------------------
(* The shutdown.  It does not wait for cleanup_mutex_, but the event loop  *)
(* is between its own calls, so no subscribe is in progress.               *)
LEMMA ShutdownStep ==
  ASSUME DdsInv, ClearCallback \/ StopServer \/ StopTimesOut
  PROVE  DdsInv'
<1>. USE NamesAssumption DEF Threads
<1>. TypeOK /\ Calls /\ Shutdown /\ Counts /\ Sources
  BY DEF DdsInv
<1>1. /\ UNCHANGED <<discVars, ref, ent, mutex, ddsVars, listener, callVars, held>>
      /\ callback' \in BOOLEAN /\ stage' \in Stages
  BY DEF ClearCallback, StopServer, StopTimesOut, mgrVars, Stages, TypeOK
<1>2. /\ pc[Loop] = "idle" /\ stage \in {"running", "unsubscribed"}
      /\ stage = "running" => stage' = "cleared"
      /\ stage = "unsubscribed" => stage' \in {"stopped", "timed_out"}
      /\ stage' = "stopped" => \A th \in Threads : pc[th] = "idle"
  BY DEF ClearCallback, StopServer, StopTimesOut, Shutdown
<1>3. TypeOK'
  BY <1>1 DEF TypeOK, discVars, ddsVars, callVars
<1>4. Calls'
  <2>1. stage # "closing" /\ \A th \in Threads : pc[th] \notin SubscribeSteps
    BY <1>2 DEF Calls, SubscribeSteps, CreateSteps
  <2>. QED  BY <1>1, <2>1 DEF Calls, SubscribeSteps, CreateSteps, callVars
<1>5. Shutdown'
  BY <1>1, <1>2 DEF Shutdown, Calls, callVars
<1>6. Ownership' /\ Construction' /\ NoTopicClash' /\ ReaderFromOneDiscovery' /\ LeftBehind'
  BY <1>1, Frames DEF DdsInv, ddsVars, callVars
<1>7. Counts'
  BY <1>1, <1>2 DEF Counts, GivingUp, callVars
<1>8. Sources'
  BY <1>1, <1>2 DEF Sources, discVars, ddsVars, callVars
<1>. QED  BY <1>3, <1>4, <1>5, <1>6, <1>7, <1>8 DEF DdsInv

(* unsubscribe_all takes the whole table; a WebSocket thread that closes   *)
(* what it took before has nothing of it.                                  *)
LEMMA UnsubscribeAllStep == ASSUME DdsInv, UnsubscribeAll PROVE DdsInv'
<1>. USE NamesAssumption DEF Threads
<1>. DEFINE all == {ent[t] : t \in Topics} \ {None}
<1>. TypeOK /\ Calls /\ Shutdown /\ Construction /\ Ownership /\ Sources
  BY DEF DdsInv
<1>1. /\ stage = "cleared" /\ stage' = "closing"
      /\ to_close' = [to_close EXCEPT ![Loop] = all]
      /\ ref' = [t \in Topics |-> 0] /\ ent' = [t \in Topics |-> None]
      /\ pc' = [pc EXCEPT ![Loop] = "close"]
      /\ UNCHANGED <<discVars, callback, mutex, ddsVars, listener, cleanup_mutex, arg, new_sub, held>>
  BY DEF UnsubscribeAll
<1>2. /\ all \in SUBSET Ents
      /\ \A e \in all : \E t \in Topics : e = ent[t]
      /\ \A t \in Topics : ent[t] \in Ents => ent[t] \in all
  BY DEF TypeOK
<1>. HIDE DEF all
<1>3. TypeOK'
  <2>1. ref' \in [Topics -> 0..MaxRefs]
    BY <1>1, RefsAssumption
  <2>. QED  BY <1>1, <1>2, <2>1 DEF TypeOK, discVars, ddsVars, Stages
<1>4. /\ pc'[Loop] = "close" /\ to_close'[Loop] = all /\ pc[Loop] = "idle" /\ to_close[Loop] = {}
      /\ \A u \in Threads : u # Loop => pc'[u] = pc[u] /\ to_close'[u] = to_close[u]
      /\ \A t \in Topics : ent'[t] = None /\ ref'[t] = 0
  BY <1>1 DEF TypeOK, Shutdown, Calls
<1>5. \A u \in Threads : pc'[u] \notin SubscribeSteps /\ new_sub[u] = None
  <2>1. \A u \in Threads : pc[u] \notin SubscribeSteps
    BY <1>1 DEF Calls
  <2>. QED  BY <1>4, <2>1 DEF Calls, SubscribeSteps, CreateSteps
<1>6. Calls'
  BY <1>1, <1>4, <1>5 DEF Calls, SubscribeSteps
<1>7. Shutdown'
  BY <1>1, <1>4 DEF Shutdown
<1>8. Ownership'
  <2>1. ASSUME NEW e \in Ents, parts[e] # {}
        PROVE  e \in abandoned \/ \E u \in Threads : e \in to_close'[u]
    <3>1. CASE \E t \in Topics : e = ent[t]
      BY <1>2, <1>4, <3>1
    <3>2. CASE \E u \in Threads : e \in to_close[u]
      BY <1>4, <3>2
    <3>. QED  BY <1>5, <2>1, <3>1, <3>2 DEF Ownership
  <2>2. ASSUME NEW e \in all
        PROVE  "reader" \in parts[e] /\ \A u \in Threads : u # Loop => e \notin to_close[u]
    BY <1>2, <2>2 DEF Ownership, Construction, AllParts
  <2>3. ASSUME NEW u \in Threads, NEW e \in to_close'[u]
        PROVE  /\ "reader" \in parts[e] /\ e \in Ents
               /\ \A w \in Threads : w # u => e \notin to_close'[w]
    <3>1. CASE u = Loop
      BY <1>2, <1>4, <2>2, <2>3, <3>1
    <3>2. CASE u # Loop
      BY <1>4, <2>2, <2>3, <3>2 DEF Ownership, TypeOK
    <3>. QED  BY <3>1, <3>2
  <2>4. \A t \in Topics : ent'[t] \notin Ents
    BY <1>4
  <2>5. \A u \in Threads : new_sub'[u] \notin Ents
    BY <1>1, <1>5
  <2>6. UNCHANGED <<parts, abandoned>>
    BY <1>1 DEF ddsVars
  <2>. QED  BY <2>1, <2>3, <2>4, <2>5, <2>6 DEF Ownership
<1>9. Construction'
  BY <1>1, <1>4, <1>5 DEF Construction, ddsVars, SubscribeSteps, CreateSteps
<1>10. NoTopicClash' /\ ReaderFromOneDiscovery'
  BY <1>1, Frames DEF DdsInv, ddsVars
<1>11. Counts'
  BY <1>1, <1>4 DEF Counts
<1>12. Sources'
  <2>1. \A u \in Threads : pc'[u] # "domain"
    BY <1>5 DEF SubscribeSteps, CreateSteps
  <2>. QED  BY <1>1, <2>1 DEF Sources, discVars, ddsVars
<1>13. LeftBehind'
  <2>1. \A e \in abandoned : of[e] \in Topics /\ e \notin all
    BY <1>2, LeftBehindFacts
  <2>2. \A u \in Threads : pc'[u] \notin BuildSteps
    BY <1>5 DEF SubscribeSteps, CreateSteps, BuildSteps
  <2>. QED  BY <1>1, <1>4, <2>1, <2>2 DEF DdsInv, LeftBehind, ddsVars
<1>. QED  BY <1>3, <1>6, <1>7, <1>8, <1>9, <1>10, <1>11, <1>12, <1>13 DEF DdsInv

-----------------------------------------------------------------------------
(* The invariant is inductive: every step is one of the above.             *)
LEMMA DdsInvariant == Spec => []DdsInv
<1>1. Init => DdsInv
  BY DdsInit
<1>2. DdsInv /\ [Next]_vars => DdsInv'
  <2>. SUFFICES ASSUME DdsInv, [Next]_vars PROVE DdsInv'
    OBVIOUS
  <2>1. ASSUME NEW d \in Domains,
               Cache(d) \/ Skip(d) \/ DeleteParticipant(d) \/ \E t \in Topics : Discover(d, t)
        PROVE  DdsInv'
    BY <2>1, DiscoveryStep, DeleteParticipantStep
  <2>2. ASSUME NEW e \in Ents, DataAvailable(e) \/ ListenerStep(e) PROVE DdsInv'
    BY <2>2, ListenStep
  <2>3. ASSUME NEW t \in Topics, Subscribe(t) \/ \E th \in Threads : BeginUnsubscribe(th, t)
        PROVE  DdsInv'
    BY <2>3, SubscribeStep, BeginUnsubscribeStep
  <2>4. ASSUME NEW th \in Threads, CallStep(th) PROVE DdsInv'
    <3>1. CASE GetType(th) \/ GetParticipant(th)
      BY <3>1, GetTypeStep, GetParticipantStep
    <3>2. CASE CreateTopic(th) \/ CreateSubscriber(th) \/ CreateReader(th)
      BY <3>2, CreateStep
    <3>3. CASE Insert(th) \/ Unsubscribe(th)
      BY <3>3, InsertStep, UnsubscribeStep
    <3>4. CASE SubscribeAbandons(th) \/ SubscribeUnwinds(th)
      BY <3>4, SubscribeAbandonsStep, SubscribeUnwindsStep
    <3>5. CASE \E e \in Ents : DetachListener(th, e) \/ CloseEntities(th, e)
      BY <3>5, DetachListenerStep, CloseEntitiesStep
    <3>6. CASE Closed(th)
      BY <3>6, ClosedStep
    <3>. QED  BY <2>4, <3>1, <3>2, <3>3, <3>4, <3>5, <3>6 DEF CallStep
  <2>5. CASE ClearCallback \/ StopServer \/ StopTimesOut
    BY <2>5, ShutdownStep
  <2>6. CASE UnsubscribeAll
    BY <2>6, UnsubscribeAllStep
  <2>7. CASE UNCHANGED vars
    <3>1. UNCHANGED <<discVars, mgrVars, mutex, ddsVars, listener, callVars, held, stage>>
      BY <2>7 DEF vars
    <3>2. TypeOK' /\ Calls' /\ Shutdown'
      BY <3>1 DEF DdsInv, TypeOK, Calls, Shutdown, discVars, mgrVars, ddsVars, callVars
    <3>. QED  BY <3>1, <3>2, Frames DEF DdsInv, discVars, mgrVars, ddsVars, callVars
  <2>. QED  BY <2>1, <2>2, <2>3, <2>4, <2>5, <2>6, <2>7 DEF Next
<1>. QED  BY <1>1, <1>2, PTL DEF Spec

(* Every reachable state of the managers is well typed.                    *)
THEOREM DdsTypeCorrect == Spec => []TypeOK
BY DdsInvariant, PTL DEF DdsInv

(* Whatever DDS refuses while the entities of a subscription are created   *)
(* one after the other, and whoever unsubscribes or shuts down meanwhile,  *)
(* no entity is left without an owner that will close it, but for those of *)
(* a subscribe of Fast DDS that throws: they stay, for a topic without an  *)
(* entry, until their participant goes.                                    *)
THEOREM EntitiesHaveOwners == Spec => []NoEntityLeaks
<1>1. ASSUME DdsInv PROVE NoEntityLeaks
  <2>1. \A e \in Ents : parts[e] # {} => e \in InUse \cup abandoned
    BY <1>1 DEF DdsInv, Ownership, InUse
  <2>2. ASSUME NEW e \in abandoned
        PROVE  of[e] # None /\ ent[of[e]] = None /\ src[e].domain \in participants
    BY <1>1, <2>2, LeftBehindFacts, NamesAssumption DEF DdsInv, LeftBehind
  <2>. QED  BY <2>1, <2>2 DEF NoEntityLeaks
<1>. QED  BY <1>1, DdsInvariant, PTL

(* The reference count of subscribe and unsubscribe never drifts from what *)
(* the sessions hold, and a counted topic has its reader.                  *)
THEOREM ReferencesAreCounted == Spec => []CountsMatchSessions
<1>1. ASSUME DdsInv PROVE CountsMatchSessions
  <2>1. SUFFICES ASSUME stage = "running", \A th \in Threads : pc[th] = "idle", NEW t \in Topics
                 PROVE  /\ ref[t] = held[t]
                        /\ ref[t] > 0 <=> ent[t] # None
                        /\ ent[t] # None => parts[ent[t]] = AllParts /\ of[ent[t]] = t
    BY DEF CountsMatchSessions
  <2>2. ~GivingUp(t)
    BY <1>1, <2>1, AllIdle
  <2>3. ref[t] = held[t] /\ (ref[t] > 0 <=> ent[t] # None)
    BY <1>1, <2>1, <2>2 DEF DdsInv, Counts, TypeOK
  <2>4. ent[t] # None => parts[ent[t]] = AllParts /\ of[ent[t]] = t
    BY <1>1 DEF DdsInv, Construction
  <2>. QED  BY <2>3, <2>4
<1>. QED  BY <1>1, DdsInvariant, PTL

(* A topic of a name is created only after the one before it is deleted,   *)
(* though both happen outside mutex_; so create_topic is refused no name   *)
(* but one that an exception left behind.                                  *)
THEOREM TopicNamesAreFree == Spec => []NoTopicClash
BY DdsInvariant, PTL DEF DdsInv

(* Type and participant of a reader are those of one discovery, whatever   *)
(* is discovered between the two reads.                                    *)
THEOREM ReadersAreConsistent == Spec => []ReaderFromOneDiscovery
BY DdsInvariant, PTL DEF DdsInv

(* The order of run_standalone_event_loop leaves no reader and no listener *)
(* but those left behind by an exception, and no entity of a participant   *)
(* that is gone.                                                           *)
THEOREM ShutdownLeavesNothing == Spec => []QuietAfterShutdown
<1>1. ASSUME DdsInv PROVE QuietAfterShutdown
  <2>1. ASSUME stage = "stopped", NEW e \in Ents \ abandoned PROVE parts[e] = {} /\ listener[e] = "idle"
    <3>1. \A th \in Threads : pc[th] = "idle"
      BY <1>1, <2>1 DEF DdsInv, Shutdown
    <3>2. \A t \in Topics : ent[t] = None
      BY <1>1, <2>1 DEF DdsInv, Shutdown
    <3>3. parts[e] = {}
      BY <1>1, <3>1, <3>2, AllIdle, NamesAssumption
    <3>. QED  BY <1>1, <3>3 DEF DdsInv, Construction
  <2>2. \A e \in Ents : listener[e] # "idle" => "reader" \in parts[e]
    BY <1>1 DEF DdsInv, Construction
  <2>3. \A e \in Ents : src[e].domain # None => src[e].domain \in participants
    BY <1>1 DEF DdsInv, Sources
  <2>. QED  BY <2>1, <2>2, <2>3 DEF QuietAfterShutdown
<1>. QED  BY <1>1, DdsInvariant, PTL
=============================================================================
