--------------------------- MODULE LatchedReplay ---------------------------
(***************************************************************************)
(* How a client gets the current sample of a latched topic: the DDS        *)
(* redelivery on a fresh subscription, the publish cycle, or the replay    *)
(* of the retained sample (collect_latched_replay).  MessageBuffer driven  *)
(* by three threads: the ingest thread of the subscription manager, the    *)
(* event loop and a WebSocket thread that closes a connection.             *)
(*                                                                         *)
(* One latched topic.  cleanup_mutex_ makes a join or a leave exclude      *)
(* another, but not the ingest thread, and a leave on a WebSocket thread   *)
(* does not exclude the publish cycle: so a join and a leave are several   *)
(* actions.  Sessions, replies and sockets are those of BridgeServer; a    *)
(* frame counts as delivered when it is handed to send_binary, whose drops *)
(* and sheds are those of WebSocketMiddleware.  The rate gate of the       *)
(* publish cycle is here, with the state it keeps; which clients form a    *)
(* group depends on their other topics too (PublishCycle), so any grouping *)
(* of clients with the same rate may occur.                                *)
(***************************************************************************)
EXTENDS MessageBuffer

CONSTANTS
  Clients,
  LatchedTopic,
  MaxVersions,     \* bound: how often the publisher publishes
  MaxSubscriptions,\* bound: how often a DDS subscription is created
  MaxBuffered,     \* bound: messages buffered for another topic
  Intervals,       \* values of min_interval_ns, 0 for an unlimited subscription
  Epoch,           \* the time of the clock's 0, counted as in timestamp_ns
  NoClient,
  NoSample

ASSUME LatchedAssumption == LatchedTopic \in Topics
ASSUME BoundsAssumption == MaxVersions \in Nat /\ MaxSubscriptions \in Nat
ASSUME IntervalsAssumption == Intervals \subseteq Nat /\ 0 \in Intervals
ASSUME EpochAssumption == Epoch \in Nat /\ \A i \in Intervals : i <= Epoch

(* A sample is the publisher's version and the DDS subscription that       *)
(* received it.                                                            *)
VersionedSamples == [version : 0..MaxVersions, subscription : 0..MaxSubscriptions]
ASSUME SamplesAssumption == VersionedSamples \subseteq Samples
ASSUME NoSampleAssumption == NoSample \notin VersionedSamples

VARIABLES
  version,         \* the publisher's current sample, 0 before the first
  subscription,    \* serial number of the last subscription created
  inbox,           \* versions in the subscription's reader, oldest first
  inflight,        \* the sample the ingest thread is about to add
  holders,         \* clients with a reference to the subscription
  delivered,       \* the samples sent to each client since it joined
  joined,          \* history: the version that was current when it joined
  lost,            \* history: the versions that expired in the buffer, and for which holders
  withheld,        \* history: the versions the rate gate did not let through to a holder
  interval,        \* min_interval_ns of each client's rate for the topic
  last_sent,       \* last_sent_times_ for the topic, 0 where there is no entry
  pc,              \* position of the thread inside cleanup_mutex_
  client,          \* the client it joins or removes
  on_loop          \* that thread is the event loop

ddsVars  == <<version, subscription, inbox, inflight>>
sentVars == <<delivered, withheld>>
clientVars == <<holders, joined, lost, sentVars>>
rateVars == <<interval, last_sent>>
joinVars == <<pc, client, on_loop>>
allVars  == <<vars, ddsVars, clientVars, rateVars, joinVars>>

live == holders # {}

ReplayTypeOK ==
  /\ TypeOK
  /\ version \in 0..MaxVersions
  /\ subscription \in 0..MaxSubscriptions
  /\ inbox \in Seq(1..MaxVersions)
  /\ inflight \in VersionedSamples \cup {NoSample}
  /\ holders \in SUBSET Clients
  /\ delivered \in [Clients -> Seq(Samples)]
  /\ joined \in [Clients -> 0..MaxVersions]
  /\ lost \in SUBSET (Clients \X (1..MaxVersions))
  /\ withheld \in SUBSET (Clients \X (1..MaxVersions))
  /\ interval \in [Clients -> Intervals]
  /\ last_sent \in [Clients -> {0} \cup Epoch..(Epoch + MaxTime)]
  /\ pc \in {"idle", "latch", "replay", "unlatch"}
  /\ client \in Clients \cup {NoClient}
  /\ on_loop \in BOOLEAN

ReplayInit ==
  /\ Init
  /\ version = 0
  /\ subscription = 0
  /\ inbox = <<>>
  /\ inflight = NoSample
  /\ holders = {}
  /\ delivered = [c \in Clients |-> <<>>]
  /\ joined = [c \in Clients |-> 0]
  /\ lost = {}
  /\ withheld = {}
  /\ interval = [c \in Clients |-> 0]
  /\ last_sent = [c \in Clients |-> 0]
  /\ pc = "idle"
  /\ client = NoClient
  /\ on_loop = FALSE

-----------------------------------------------------------------------------
(* DDS and the ingest thread.                                              *)

(* A node publishes a new sample.                                          *)
NodePublish ==
  /\ version < MaxVersions
  /\ version' = version + 1
  /\ inbox' = IF live THEN Append(inbox, version') ELSE inbox
  /\ UNCHANGED <<vars, subscription, inflight, clientVars, rateVars, joinVars>>

(* The executor takes a sample from the reader ...                         *)
IngestTake ==
  /\ inbox # <<>>
  /\ inflight = NoSample
  /\ inflight' = [version |-> Head(inbox), subscription |-> subscription]
  /\ inbox' = Tail(inbox)
  /\ UNCHANGED <<vars, version, subscription, clientVars, rateVars, joinVars>>

(* The cleanup of an add_message purges samples that no cycle has sent:    *)
(* the holders miss them, and so do later clients if none is retained.     *)
Lose ==
  LET purged == SeqSet(topic_buffers[LatchedTopic]) \ SeqSet(topic_buffers'[LatchedTopic])
      missedBy == IF latched_last'[LatchedTopic] = NoMessage THEN Clients ELSE holders
  IN  lost' = lost \cup (missedBy \X {m.data.version : m \in purged})

(* ... and its callback adds it to the buffer.                             *)
IngestAdd ==
  /\ inflight # NoSample
  /\ AddMessage(LatchedTopic, inflight)
  /\ Lose
  /\ inflight' = NoSample
  /\ UNCHANGED <<version, subscription, inbox, holders, joined, sentVars, rateVars,
                 joinVars>>

(* A message of some other topic, which also makes add_message clean up.   *)
IngestOther(t) ==
  /\ t # LatchedTopic
  /\ Len(topic_buffers[t]) < MaxBuffered
  /\ AddMessage(t, [version |-> 0, subscription |-> 0])
  /\ Lose
  /\ UNCHANGED <<ddsVars, holders, joined, sentVars, rateVars, joinVars>>

(* Time passes, or the clock is set.                                       *)
ClockStep(now) ==
  /\ SetClock(now)
  /\ UNCHANGED <<ddsVars, clientVars, rateVars, joinVars>>

-----------------------------------------------------------------------------
(* handle_subscribe gives the subscription of c a rate, be it new, paused  *)
(* or in use.                                                              *)
SetRate(c, i) ==
  /\ pc = "idle"
  /\ interval[c] # i
  /\ interval' = [interval EXCEPT ![c] = i]
  /\ UNCHANGED <<vars, ddsVars, clientVars, last_sent, joinVars>>

(* handle_subscribe or handle_resume takes a reference for c: the first    *)
(* one creates the subscription, and DDS redelivers the current sample.    *)
JoinSubscribe(c) ==
  /\ pc = "idle"
  /\ c \notin holders
  /\ \/ /\ live
        /\ lost' = IF latched_last[LatchedTopic] = NoMessage THEN lost
                   ELSE {l \in lost : l[1] # c}
        /\ UNCHANGED <<subscription, inbox>>
     \/ /\ ~live
        /\ subscription < MaxSubscriptions
        /\ subscription' = subscription + 1
        /\ inbox' = IF version = 0 THEN <<>> ELSE <<version>>
        /\ lost' = {}
  /\ holders' = holders \cup {c}
  /\ delivered' = [delivered EXCEPT ![c] = <<>>]
  /\ joined' = [joined EXCEPT ![c] = version]
  /\ withheld' = {w \in withheld : w[1] # c}
  /\ pc' = "latch"
  /\ client' = c
  /\ on_loop' = TRUE
  /\ UNCHANGED <<vars, version, inflight, rateVars>>

(* collect_latched_replay: set_latched, ...                                *)
JoinLatch ==
  /\ pc = "latch"
  /\ SetLatched(LatchedTopic)
  /\ pc' = "replay"
  /\ UNCHANGED <<ddsVars, clientVars, rateVars, client, on_loop>>

(* Faulty: replays the retained sample even if it is still buffered. *)
JoinReplayAlways ==
  /\ pc = "replay"
  /\ delivered' = IF latched_last[LatchedTopic] = NoMessage THEN delivered
                  ELSE [delivered EXCEPT ![client] = Append(@, latched_last[LatchedTopic].data)]
  /\ pc' = "idle"
  /\ client' = NoClient
  /\ UNCHANGED <<vars, ddsVars, holders, joined, lost, withheld, rateVars, on_loop>>

(* ... then get_latched_for_replay, and the replay frame, to which no rate *)
(* applies; last_sent_times_ stays as it is.                               *)
JoinReplay ==
  LET replay == LatchedForReplay(LatchedTopic)
  IN  /\ pc = "replay"
      /\ delivered' = IF replay = NoMessage THEN delivered
                      ELSE [delivered EXCEPT ![client] = Append(@, replay.data)]
      /\ pc' = "idle"
      /\ client' = NoClient
      /\ UNCHANGED <<vars, ddsVars, holders, joined, lost, withheld, rateVars, on_loop>>

(* release_subscription_ref on the event loop (unsubscribe, pause, a       *)
(* timeout) or on a WebSocket thread: the last reference destroys the      *)
(* subscription, with what its reader still holds, ...                     *)
LeaveUnsubscribe(c) ==
  /\ pc = "idle"
  /\ c \in holders
  /\ holders' = holders \ {c}
  /\ inbox' = IF holders' = {} THEN <<>> ELSE inbox
  /\ pc' = IF holders' = {} THEN "unlatch" ELSE "idle"
  /\ on_loop' \in BOOLEAN
  /\ UNCHANGED <<vars, version, subscription, inflight, delivered, joined, lost, withheld, rateVars,
                 client>>

(* ... and then the latched state is cleared.                              *)
LeaveUnlatch ==
  /\ pc = "unlatch"
  /\ ClearLatched(LatchedTopic)
  /\ pc' = "idle"
  /\ UNCHANGED <<ddsVars, clientVars, rateVars, client, on_loop>>

(* cleanup_session also erases the rate state.  A client that only pauses  *)
(* or unsubscribes keeps it.                                               *)
EndSession(c) ==
  /\ pc = "idle"
  /\ c \notin holders
  /\ last_sent[c] # 0
  /\ last_sent' = [last_sent EXCEPT ![c] = 0]
  /\ UNCHANGED <<vars, ddsVars, clientVars, interval, joinVars>>

(* timestamp_ns: ROS 2 takes the time at which the message was received    *)
(* (one that the middleware supplies is earlier by what the message then   *)
(* waited).                                                                *)
Stamp(m) == Epoch + m.received_at

(* Faulty: an unlimited subscription passes the gate too, with interval 0. *)
AdmitComparingAlways(q, last, min_interval) ==
  LET gate[n \in 0..Len(q)] ==
        IF n = 0 THEN [out |-> <<>>, last_sent |-> last]
        ELSE IF Stamp(q[n]) >= gate[n - 1].last_sent + min_interval
        THEN [out |-> Append(gate[n - 1].out, q[n].data), last_sent |-> Stamp(q[n])]
        ELSE gate[n - 1]
  IN  gate[Len(q)]

(* The rate gate: the samples it lets through of those in q, and the       *)
(* last_sent it leaves.                                                    *)
Admit(q, last, min_interval) ==
  LET gate[n \in 0..Len(q)] ==
        IF n = 0 THEN [out |-> <<>>, last_sent |-> last]
        ELSE IF min_interval = 0
        THEN [out |-> Append(gate[n - 1].out, q[n].data), last_sent |-> gate[n - 1].last_sent]
        ELSE IF Stamp(q[n]) >= gate[n - 1].last_sent + min_interval
        THEN [out |-> Append(gate[n - 1].out, q[n].data), last_sent |-> Stamp(q[n])]
        ELSE gate[n - 1]
  IN  gate[Len(q)]

(* The clients that a cycle groups, each with client_ids.front() of its    *)
(* group: the holders, and some that hold no reference but are subscribed, *)
(* because they are paused.  A client grouped with one whose state is its  *)
(* own is served as if it were alone.                                      *)
Groupings ==
  {rep \in UNION {[S -> S] : S \in {T \in SUBSET Clients : holders \subseteq T}} :
     \A c \in DOMAIN rep :
       /\ rep[rep[c]] = rep[c]
       /\ interval[rep[c]] = interval[c]
       /\ rep[c] # c => last_sent[rep[c]] # last_sent[c]}

(* The groups for which a message of another topic is admitted.            *)
OtherServed(rep) ==
  IF \E t \in Topics \ {LatchedTopic} : topic_buffers[t] # <<>>
  THEN SUBSET {rep[c] : c \in {d \in DOMAIN rep : rep[d] # d}} ELSE {{}}

(* publish_aggregated_messages.  A group is served by the state of its     *)
(* representative, which all of it take over if anything was admitted, of  *)
(* this topic or of another; only holders are sent it.                     *)
Publish ==
  /\ pc = "idle" \/ ~on_loop
  /\ topic_buffers # [t \in Topics |-> <<>>]
  /\ \E rep \in Groupings : \E served \in OtherServed(rep) :
       LET gate == [c \in DOMAIN rep |->
             Admit(topic_buffers[LatchedTopic], last_sent[rep[c]], interval[c])]
       IN  /\ MoveMessages
           /\ delivered' = [c \in Clients |->
                IF c \in holders THEN delivered[c] \o gate[c].out ELSE delivered[c]]
           /\ last_sent' = [c \in Clients |->
                IF c \in DOMAIN rep /\ (rep[c] \in served \/ gate[c].out # <<>>)
                THEN gate[c].last_sent ELSE last_sent[c]]
           /\ withheld' = withheld \cup {p \in holders \X (1..MaxVersions) :
                /\ interval[p[1]] # 0
                /\ \E m \in SeqSet(topic_buffers[LatchedTopic]) :
                     m.data.version = p[2] /\ m.data \notin SeqSet(gate[p[1]].out)}
  /\ UNCHANGED <<ddsVars, holders, joined, lost, interval, joinVars>>

-----------------------------------------------------------------------------
ReplayNext ==
  \/ NodePublish
  \/ IngestTake
  \/ IngestAdd
  \/ \E t \in Topics : IngestOther(t)
  \/ \E now \in 0..MaxTime : ClockStep(now)
  \/ \E c \in Clients : JoinSubscribe(c) \/ LeaveUnsubscribe(c) \/ EndSession(c)
  \/ \E c \in Clients, i \in Intervals : SetRate(c, i)
  \/ JoinLatch
  \/ JoinReplay
  \/ LeaveUnlatch
  \/ Publish

ReplaySpec == ReplayInit /\ [][ReplayNext]_allVars

-----------------------------------------------------------------------------
(* Properties.                                                             *)

(* get_latched_for_replay's comment: a replay never duplicates a sample    *)
(* that the publish cycle delivers; in general no client is sent the same  *)
(* sample of the same DDS subscription twice.                              *)
NothingSentTwice ==
  \A c \in Clients : \A i, j \in DOMAIN delivered[c] :
    i # j => delivered[c][i] # delivered[c][j]

(* docs/API.md, latched topics: whenever all threads are at rest and       *)
(* nothing is under way, every client of the latched topic has been sent   *)
(* the current sample, by whichever of the three ways, with two            *)
(* exceptions.  The sample may have expired, unsent, in the buffer: then   *)
(* it is missed by the clients that hold the topic then and, if it expires *)
(* before collect_latched_replay could retain it, by those that join       *)
(* later.  And a client that has asked for a rate misses it when the rate  *)
(* gate of the publish cycle does not let it through, also when its replay *)
(* was skipped because "the next aggregated frame delivers it"; a client   *)
(* without a rate never does.                                              *)
EveryHolderIsCurrent ==
  pc = "idle" /\ inbox = <<>> /\ inflight = NoSample /\ topic_buffers[LatchedTopic] = <<>> =>
    \A c \in holders : version > 0 =>
      \/ \E i \in DOMAIN delivered[c] : delivered[c][i].version = version
      \/ <<c, version>> \in lost
      \/ <<c, version>> \in withheld

(* docs/API.md: "the next subscriber gets the current sample from DDS      *)
(* redelivery, never a stale copy": nobody is sent a sample of an earlier  *)
(* subscription that was out of date when the client joined.               *)
NoStaleCopy ==
  \A c \in holders : \A i \in DOMAIN delivered[c] :
    delivered[c][i].subscription = subscription \/ delivered[c][i].version >= joined[c]
=============================================================================
