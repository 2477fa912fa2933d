---------------------------- MODULE PublishCycle ----------------------------
(***************************************************************************)
(* publish_aggregated_messages (app/src/bridge_server.cpp): the grouping   *)
(* of clients by subscription, the rate limit of each group and the state  *)
(* it keeps in last_sent_times_, and the frames that are built for it,     *)
(* with the requests that change what a client subscribes to.              *)
(*                                                                         *)
(* The event-loop thread runs the requests and the publish cycle; a        *)
(* WebSocket thread may clean up a session between the two critical        *)
(* sections of a cycle, and before it sends.  Sockets are those of         *)
(* WebSocketMiddleware: here a message is handed to a client when          *)
(* send_binary is called for a frame with it.  The statistics of the cycle *)
(* are left out.                                                           *)
(*                                                                         *)
(* A rate is a number of 1/RateUnits mHz, so that the truncation to whole  *)
(* mHz shows; a time unit is Second-th of the interval of 1 mHz.           *)
(***************************************************************************)
EXTENDS Integers, Sequences, SequencesExt, FiniteSets, MessageSerializer

CONSTANTS
  Clients,
  Topics,
  Requested,       \* the values of max_rate_hz that clients ask for
  RateUnits,       \* rate units in 1 mHz, which is kMinRateHz
  MaxRate,         \* kMaxRateHz
  Second,          \* the interval of a rate of 1 mHz, the longest one
  Stamps,          \* timestamps of messages
  MaxMessages,     \* bound: messages received in a behaviour
  Name,            \* the bytes of a topic's name
  Size,            \* the size of a message, by its timestamp: any mix of sizes occurs
  heavy_frame_threshold_bytes,
  NoRate           \* no max_rate_hz; not subscribed

ASSUME RatesAssumption ==
  /\ Requested \subseteq Int /\ NoRate \notin Int
  /\ {RateUnits, MaxRate} \subseteq Nat \ {0} /\ RateUnits <= MaxRate
ASSUME StampsAssumption == Stamps \subseteq Nat /\ Second \in Nat /\ \A s \in Stamps : s >= Second
ASSUME BoundsAssumption == IsFiniteSet(Topics) /\ MaxMessages \in Nat
ASSUME SizesAssumption  == Size \in [Stamps -> Nat] /\ heavy_frame_threshold_bytes \in Nat
ASSUME FieldsAssumption ==
  /\ Name \in [Topics -> Seq(0 .. Byte - 1)]
  /\ \A t \in Topics : Len(Name[t]) < Values[SizeOf16]
  /\ \A s \in Stamps : s < Values[SizeOf64]
  /\ MaxMessages < Values[SizeOf32]

VARIABLES
  sessions,        \* the clients with a session, in the order sessions_ lists them
  subs,            \* subscribed_topics: rates, NoRate for other topics
  paused,
  last_sent_times, \* last_sent_times_, 0 where there is no entry
  buffer,          \* topic_buffers_: the messages received since the last cycle
  received,        \* number of messages received
  (* publish_aggregated_messages *)
  pc,
  messages,        \* the messages moved out of the buffer
  active,          \* active_sessions
  client_subs,     \* what they subscribe to
  frames,          \* frames: the bytes, the messages in them, the group and is_heavy
  (* history *)
  offered,         \* messages of a client's topic that cycles found for it
  handed,          \* those handed to send_binary
  groups           \* "fixed" by the first cycle, then "changed" by whoever joins, leaves or changes

sessVars == <<sessions, subs, paused>>
history  == <<offered, handed, groups>>
vars == <<sessVars, last_sent_times, buffer, received, pc, messages, active, client_subs, frames, history>>

Messages == [n : 1..MaxMessages, stamp : Stamps]
Rates    == {0} \cup RateUnits..MaxRate
NoSubs   == [t \in Topics |-> NoRate]
Empty    == [t \in Topics |-> <<>>]

TypeOK ==
  /\ sessions \in UNION {SetToSeqs(S) : S \in SUBSET Clients}
  /\ subs \in [Clients -> [Topics -> Rates \cup {NoRate}]]
  /\ paused \in SUBSET Clients
  /\ last_sent_times \in [Clients -> [Topics -> {0} \cup Stamps]]
  /\ buffer \in [Topics -> Seq(Messages)]
  /\ received \in 0..MaxMessages
  /\ pc \in {"idle", "publish", "send"}
  /\ messages \in [Topics -> Seq(Messages)]
  /\ active \in UNION {SetToSeqs(S) : S \in SUBSET Clients}
  /\ client_subs \in [Clients -> [Topics -> Rates \cup {NoRate}]]
  /\ \A f \in ToSet(frames) :
       f.msgs \in Seq(Topics \X Messages) /\ f.clients \in SUBSET Clients /\ f.heavy \in BOOLEAN
  /\ offered \in [Clients -> [Topics -> SUBSET Messages]]
  /\ handed \in [Clients -> [Topics -> SUBSET Messages]]
  /\ groups \in {"forming", "fixed", "changed"}

Init ==
  /\ sessions = <<>>
  /\ subs = [c \in Clients |-> NoSubs]
  /\ paused = {}
  /\ last_sent_times = [c \in Clients |-> [t \in Topics |-> 0]]
  /\ buffer = Empty
  /\ received = 0
  /\ pc = "idle"
  /\ messages = Empty
  /\ active = <<>>
  /\ client_subs = [c \in Clients |-> NoSubs]
  /\ frames = <<>>
  /\ offered = [c \in Clients |-> [t \in Topics |-> {}]]
  /\ handed = [c \in Clients |-> [t \in Topics |-> {}]]
  /\ groups = "forming"

-----------------------------------------------------------------------------
(* Requests.                                                               *)

(* Sessions change; a cycle has run, or is running, for the last ones.     *)
Regroup == groups' = IF groups = "forming" /\ pc = "idle" THEN "forming" ELSE "changed"

(* Faulty: no lower bound. *)
ClampNoMinimum(r) == IF r <= 0 THEN 0 ELSE IF r > MaxRate THEN MaxRate ELSE r

clamp_rate_hz(r) ==
  IF r <= 0 THEN 0
  ELSE IF r < RateUnits THEN RateUnits
  ELSE IF r > MaxRate THEN MaxRate
  ELSE r

(* handle_subscribe with one topic: a new subscription without a rate is   *)
(* unlimited, an existing one keeps its rate.  A new session may change    *)
(* the order in which the table lists all of them.                         *)
Subscribe(c, t, r) ==
  LET rate == IF r # NoRate THEN clamp_rate_hz(r)
              ELSE IF subs[c][t] = NoRate THEN 0 ELSE subs[c][t]
  IN  /\ pc = "idle"
      /\ rate # subs[c][t]
      /\ IF c \in ToSet(sessions) THEN UNCHANGED sessions
         ELSE sessions' \in SetToSeqs(ToSet(sessions) \cup {c})
      /\ subs' = [subs EXCEPT ![c][t] = rate]
      /\ offered' = [offered EXCEPT ![c][t] = {}]
      /\ handed' = [handed EXCEPT ![c][t] = {}]
      /\ Regroup
      /\ UNCHANGED <<paused, last_sent_times, buffer, received, pc, messages, active,
                     client_subs, frames>>

Unsubscribe(c, t) ==
  /\ pc = "idle"
  /\ subs[c][t] # NoRate
  /\ subs' = [subs EXCEPT ![c][t] = NoRate]
  /\ offered' = [offered EXCEPT ![c][t] = {}]
  /\ handed' = [handed EXCEPT ![c][t] = {}]
  /\ Regroup
  /\ UNCHANGED <<sessions, paused, last_sent_times, buffer, received, pc, messages, active,
                 client_subs, frames>>

(* handle_pause and handle_resume.                                         *)
SetPaused(c) ==
  /\ pc = "idle"
  /\ c \in ToSet(sessions)
  /\ paused' = IF c \in paused THEN paused \ {c} ELSE paused \cup {c}
  /\ Regroup
  /\ UNCHANGED <<sessions, subs, last_sent_times, buffer, received, pc, messages, active,
                 client_subs, frames, offered, handed>>

(* cleanup_session, on the event loop or on a WebSocket thread.            *)
CleanupSession(c) ==
  /\ c \in ToSet(sessions)
  /\ sessions' \in SetToSeqs(ToSet(sessions) \ {c})
  /\ subs' = [subs EXCEPT ![c] = NoSubs]
  /\ paused' = paused \ {c}
  /\ last_sent_times' = [last_sent_times EXCEPT ![c] = [t \in Topics |-> 0]]
  /\ offered' = [offered EXCEPT ![c] = [t \in Topics |-> {}]]
  /\ handed' = [handed EXCEPT ![c] = [t \in Topics |-> {}]]
  /\ Regroup
  /\ UNCHANGED <<buffer, received, pc, messages, active, client_subs, frames>>

(* The ingest thread: message_buffer_->add_message.                        *)
Receive(t, s) ==
  /\ received < MaxMessages
  /\ received' = received + 1
  /\ buffer' = [buffer EXCEPT ![t] = Append(@, [n |-> received + 1, stamp |-> s])]
  /\ UNCHANGED <<sessVars, last_sent_times, pc, messages, active, client_subs, frames, history>>

-----------------------------------------------------------------------------
(* The publish cycle.                                                      *)

(* move_messages, then the sessions and their subscriptions; without       *)
(* sessions the messages are dropped.                                      *)
PublishSnapshot ==
  /\ pc = "idle"
  /\ buffer # Empty
  /\ buffer' = Empty
  /\ \/ /\ sessions = <<>>
        /\ UNCHANGED <<pc, messages, active, client_subs, frames>>
     \/ /\ sessions # <<>>
        /\ pc' = "publish"
        /\ messages' = buffer
        /\ active' = sessions
        /\ client_subs' = subs
  /\ UNCHANGED <<sessVars, last_sent_times, received, frames, history>>

(* static_cast<int>(rate_hz * 1000) *)
rate_mhz(r) == r \div RateUnits

min_interval(r) == Second \div rate_mhz(r)

(* Faulty: clients are grouped by topics only. *)
GroupByTopics(c) ==
  {d \in ToSet(active) : \A t \in Topics : (client_subs[d][t] = NoRate) <=> (client_subs[c][t] = NoRate)}

(* The clients with the GroupKey of c: the same topics at the same rates.  *)
Group(c) ==
  {d \in ToSet(active) : \A t \in Topics :
     \/ client_subs[c][t] = NoRate /\ client_subs[d][t] = NoRate
     \/ /\ client_subs[c][t] # NoRate /\ client_subs[d][t] # NoRate
        /\ rate_mhz(client_subs[c][t]) = rate_mhz(client_subs[d][t])}

(* client_ids.front() *)
Representative(c) == active[Min({i \in DOMAIN active : active[i] \in Group(c)})]

(* Faulty: the interval itself is not yet long enough. *)
AdmitStrictly(msgs, last, interval) ==
  FoldLeft(LAMBDA acc, m : IF m.stamp > acc.last_sent + interval
                           THEN [out |-> Append(acc.out, m), last_sent |-> m.stamp] ELSE acc,
           [out |-> <<>>, last_sent |-> last], msgs)

(* The rate gate on the messages of one topic, with the last_sent it       *)
(* leaves.                                                                 *)
Admit(msgs, last, interval) ==
  FoldLeft(LAMBDA acc, m : IF m.stamp >= acc.last_sent + interval
                           THEN [out |-> Append(acc.out, m), last_sent |-> m.stamp] ELSE acc,
           [out |-> <<>>, last_sent |-> last], msgs)

(* What the group represented by rep is sent of topic t, and last_sent.    *)
RouteTopic(rep, t) ==
  LET rate == client_subs[rep][t]
      last == last_sent_times[rep][t]
  IN  IF rate = NoRate \/ messages[t] = <<>> THEN [out |-> <<>>, last_sent |-> last]
      ELSE IF rate_mhz(rate) = 0 THEN [out |-> messages[t], last_sent |-> last]
      ELSE Admit(messages[t], last, min_interval(rate))

(* The bytes of a message: its number comes back, whatever its size.       *)
Payload(m) == [i \in 1..Size[m.stamp] |-> m.n % Byte]

(* A routed message is its topic and itself; serialize_message is given:   *)
OnWire(p) == [name |-> Name[p[1]], stamp |-> p[2].stamp, data |-> Payload(p[2])]

(* route_message: which of the two kinds of frames a message goes to.      *)
IsHeavy(p) ==
  /\ heavy_frame_threshold_bytes # 0
  /\ Len(Payload(p[2])) >= heavy_frame_threshold_bytes

Frame(msgs, clients, heavy) ==
  [data |-> Finalize([i \in DOMAIN msgs |-> OnWire(msgs[i])], 0), msgs |-> msgs,
   clients |-> clients, heavy |-> heavy]

(* The messages of one kind of frames, in the order they were routed in.   *)
OfClass(msgs, heavy) ==
  FlattenSeq([i \in DOMAIN msgs |-> IF IsHeavy(msgs[i]) = heavy THEN <<msgs[i]>> ELSE <<>>])

(* Faulty: a heavy message stays in the serializer of the next one. *)
FramesOfUncleared(msgs, clients) ==
  LET light == OfClass(msgs, FALSE)
      heavy == OfClass(msgs, TRUE)
  IN  (IF light = <<>> THEN <<>> ELSE <<Frame(light, clients, FALSE)>>)
        \o [i \in DOMAIN heavy |-> Frame(SubSeq(heavy, 1, i), clients, TRUE)]

(* The frames of a group: one for all light messages, if there are any,    *)
(* then one for each heavy message.                                        *)
FramesOf(msgs, clients) ==
  LET light == OfClass(msgs, FALSE)
      heavy == OfClass(msgs, TRUE)
  IN  (IF light = <<>> THEN <<>> ELSE <<Frame(light, clients, FALSE)>>)
        \o [i \in DOMAIN heavy |-> Frame(<<heavy[i]>>, clients, TRUE)]

(* The messages routed for the group of a representative, in whichever     *)
(* order the topics come.                                                  *)
RoutedTo(rep) ==
  LET routed(t) == LET q == RouteTopic(rep, t).out IN [i \in DOMAIN q |-> <<t, q[i]>>]
      order == SetToSeq(Topics)
  IN  FlattenSeq([k \in DOMAIN order |-> routed(order[k])])

(* Under last_sent_mutex_ each group is served by the state of its         *)
(* representative, which all its clients then take over if anything was    *)
(* admitted, and its frames are built.                                     *)
PublishRoute ==
  LET grouped == {c \in ToSet(active) : client_subs[c] # NoSubs}
      reps    == SetToSeq({Representative(c) : c \in grouped})
      served  == {c \in grouped : RoutedTo(Representative(c)) # <<>>}
  IN  /\ pc = "publish"
      /\ last_sent_times' = [c \in Clients |->
           IF c \in served THEN [t \in Topics |-> RouteTopic(Representative(c), t).last_sent]
           ELSE last_sent_times[c]]
      /\ frames' = FlattenSeq([i \in DOMAIN reps |-> FramesOf(RoutedTo(reps[i]), Group(reps[i]))])
      /\ pc' = "send"
      /\ UNCHANGED <<sessVars, buffer, received, messages, active, client_subs, history>>

(* Then the frames go out, without a lock, to those that are not paused.   *)
PublishSend ==
  LET live == {c \in ToSet(sessions) \ paused : client_subs[c] # NoSubs}
      sent(c) == UNION {ToSet(f.msgs) : f \in {g \in ToSet(frames) : c \in g.clients}}
  IN  /\ pc = "send"
      /\ offered' = [c \in Clients |-> [t \in Topics |->
           IF c \in live /\ client_subs[c][t] # NoRate
           THEN offered[c][t] \cup ToSet(messages[t]) ELSE offered[c][t]]]
      /\ handed' = [c \in Clients |-> [t \in Topics |->
           IF c \in live THEN handed[c][t] \cup {p[2] : p \in {q \in sent(c) : q[1] = t}}
           ELSE handed[c][t]]]
      /\ groups' = IF groups = "forming" THEN "fixed" ELSE groups
      /\ pc' = "idle"
      /\ messages' = Empty
      /\ active' = <<>>
      /\ client_subs' = [c \in Clients |-> NoSubs]
      /\ frames' = <<>>
      /\ UNCHANGED <<sessVars, last_sent_times, buffer, received>>

-----------------------------------------------------------------------------
Next ==
  \/ \E c \in Clients, t \in Topics :
       \/ \E r \in Requested \cup {NoRate} : Subscribe(c, t, r)
       \/ Unsubscribe(c, t)
  \/ \E c \in Clients : SetPaused(c) \/ CleanupSession(c)
  \/ \E t \in Topics, s \in Stamps : Receive(t, s)
  \/ PublishSnapshot
  \/ PublishRoute
  \/ PublishSend

Spec == Init /\ [][Next]_vars

-----------------------------------------------------------------------------
(* Properties.                                                             *)

(* docs/API.md: a rate of 0 "means unlimited (all messages forwarded)":    *)
(* whatever groups form, a client is handed every message of an unlimited  *)
(* topic that a cycle finds while it is subscribed and not paused.         *)
UnlimitedIsComplete ==
  \A c \in Clients, t \in Topics :
    subs[c][t] = 0 => handed[c][t] = offered[c][t]

(* docs/API.md, binary message format: what a client decodes from a frame  *)
(* is what was routed to it, message by message and with every field.  A   *)
(* length field counts modulo its range: of a message too big for it, that *)
(* many bytes are sent, and the frame stays decodable.                     *)
FramesDecode ==
  \A f \in ToSet(frames) :
    LET d == Decode(f.data)
    IN  /\ d.magic = kBinaryFrameMagic /\ d.flags = 0
        /\ d.uncompressed_size = Len(f.data.zstd) % Values[SizeOf32]
        /\ d.length = Len(f.data.zstd)
        /\ d.msgs = [i \in DOMAIN f.msgs |->
             [OnWire(f.msgs[i]) EXCEPT !.data = SubSeq(@, 1, Len(@) % Values[SizeOf32])]]

(* docs/API.md, size-class frames: a client is sent "at most one           *)
(* aggregated light frame" in a cycle, before its heavy ones, of which     *)
(* each holds a single message; every message is in a frame of its size    *)
(* class, and within a topic and a class messages come once and in the     *)
(* order in which they were received.                                      *)
SizeClassesKeepOrder ==
  \A c \in Clients :
    LET mine == {a \in DOMAIN frames : c \in frames[a].clients}
    IN  \A a, b \in mine :
          /\ frames[a].heavy \/ a <= b
          /\ frames[a].heavy => Len(frames[a].msgs) = 1
          /\ \A p \in ToSet(frames[a].msgs) :
               frames[a].heavy <=> /\ heavy_frame_threshold_bytes # 0
                                   /\ Size[p[2].stamp] >= heavy_frame_threshold_bytes
          /\ \A i \in DOMAIN frames[a].msgs, j \in DOMAIN frames[b].msgs :
               LET p == frames[a].msgs[i]
                   q == frames[b].msgs[j]
               IN  /\ frames[a].heavy = frames[b].heavy /\ p[1] = q[1]
                   /\ a < b \/ (a = b /\ i < j)
                   => p[2].n < q[2].n

(* A client's frames of a cycle are what was routed to it, in content and  *)
(* in order.                                                               *)
FramesAreFaithful == FramesDecode /\ SizeClassesKeepOrder

(* docs/API.md: with max_rate_hz set the server sends "at most one message *)
(* per rate interval".                                                     *)
RateLimitHolds ==
  \A c \in Clients, t \in Topics : subs[c][t] \notin {0, NoRate} =>
    \A m, k \in handed[c][t] :
      m.n < k.n => (k.stamp - m.stamp) * subs[c][t] >= Second * RateUnits

(* The limit, as long as the groups and their representatives stay what    *)
(* they were at the first cycle: two messages are less than a tick short   *)
(* of 1 / max_rate_hz apart, for the interval is cut to whole ticks, and   *)
(* not less than that, whatever rate the representative asked for.         *)
RateLimitOfFixedGroups ==
  groups # "changed" =>
    \A c \in Clients, t \in Topics : subs[c][t] \notin {0, NoRate} =>
      \A m, k \in handed[c][t] : m.n < k.n =>
        /\ (k.stamp - m.stamp + 1) * subs[c][t] > Second * RateUnits
        /\ k.stamp >= m.stamp + min_interval(subs[c][t])

(* docs/API.md: the message sent is "the first eligible buffered message": *)
(* in a fixed group, one that is withheld from a client comes too soon     *)
(* after one that the client was sent.                                     *)
DecimationIsTight ==
  groups # "changed" =>
    \A c \in Clients, t \in Topics : subs[c][t] \notin {0, NoRate} =>
      \A k \in offered[c][t] \ handed[c][t] :
        \E m \in handed[c][t] :
          m.n < k.n /\ k.stamp < m.stamp + min_interval(subs[c][t])
=============================================================================
