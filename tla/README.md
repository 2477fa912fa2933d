# pj_bridge: a TLA+ verification project

`pj_bridge` is a server that forwards the topics of a ROS 2 or DDS system to PlotJuggler clients
over WebSockets. This project models the parts of it whose correctness depends on order: which
thread does what between two critical sections of another, who leaves in the middle of a request,
which clock step or which full buffer comes at the wrong moment. TLC checks the models on small
instances; TLAPS proves the most important properties for every instance.

`PROJECT.json` lists the runs, the source lines every definition stands for, the hazards the
properties are aimed at, and for every property a faulty variant of the code that violates it.

- [The system](#the-system)
- [The modules](#the-modules)
- [The runs](#the-runs)
- [Where the code and its documentation disagree](#where-the-code-and-its-documentation-disagree)
- [Fairness](#fairness)
- [The proofs](#the-proofs)
- [What is only model-checked](#what-is-only-model-checked)
- [What is not modelled](#what-is-not-modelled)
- [Plan](#plan)
- [Running it](#running-it)

## The system

### Threads

- **The event loop** (one thread, `standalone_event_loop.cpp`, or the timers of the executor in
  `ros2/src/main.cpp`) serves requests, publishes, removes timed-out sessions and polls the topics,
  one after the other.
- **A WebSocket thread per connection** (IXWebSocket) queues requests and runs the callbacks for
  opening and closing. The Close callback cleans up the client's session.
- **Ingest threads** (the ROS 2 executor, or the listener threads of DDS) put messages into the
  buffer.
- **Discovery threads** (DDS) fill the cache of topics.

### Locks

| lock | what it makes atomic |
|---|---|
| `cleanup_mutex_` (BridgeServer) | the reference-changing part of a request handler, `cleanup_session` |
| `SessionManager::mutex_` | one access to the session table |
| `clients_mutex_` (middleware) | one access to clients, backlogs, drop counts; never held across a socket call |
| `MessageBuffer::mutex_` | one method |
| `last_sent_mutex_` | routing and rate limiting of a publish cycle, the erasures at cleanup |
| `mutex_` of a subscription manager | in ROS 2 a whole method; in the DDS backends two sections around the creation of entities |
| `replays_mutex_` | one access to `pending_replays_`; in `collect_latched_replay` and `cleanup_session` it is taken inside `cleanup_mutex_`, and alone when the frames are taken out to be sent |

### Components

| component | state | operations | interacts with | what makes it correct |
|---|---|---|---|---|
| BridgeServer, requests | pending replays; between critical sections, snapshots of sessions | `process_requests`, handlers of all commands, `check_session_timeouts`, `cleanup_session` | everything below | references are exact; responses are true; nothing of a session survives it |
| SessionManager | sessions: subscriptions with rates, held references, paused, heartbeat, update flags | create, remove, update, time out | called by both kinds of threads | a session's parts agree with each other |
| GenericSubscriptionManager (ROS 2) | subscriptions, counts, durability | `subscribe`, `unsubscribe`, `adapt_qos`, draining | calls the ingest callback | a DDS subscription lives exactly while somebody holds it; it hears all publishers |
| FastDDS and RTI subscription managers | entries with entities and counts, the callback | `subscribe`, `unsubscribe`, `unsubscribe_all`, listener | discovery cache, DDS | no entity leaks or is used after deletion; nobody waits for ever |
| WebSocketMiddleware | clients, incoming queue, backlogs, drop counts, `initialized_`, the stop thread | `initialize`, `shutdown`, destructor; Open, Message and Close callbacks, `receive_request`, `send_reply`, `send_binary`, `drop_pending` | sockets; calls `cleanup_session` | frames are neither lost unaccounted nor out of order, backlogs bounded, no client can block the loop, no callback outlives what it uses |
| MessageBuffer | deques, latched topics, retained samples | `add_message`, `move_messages`, `set_latched`, `get_latched_for_replay`, `clear` | ingest, publish, replay | retained is newest; only the old expires |
| Latched replay | spread over the last four | `collect_latched_replay`, `release_subscription_ref` | | each holder gets the current sample once |
| Publish cycle | `last_sent_times_` | `publish_aggregated_messages` | sessions, buffer, serializer, middleware | unlimited means all, a rate means at most and at best that rate; frames decode to what was routed |
| Topic lists and notifications | `known_topics_`, type cache, flags of sessions | `get_topics`, (un)subscribe updates, `check_topic_changes` | topic source | who was up to date stays so |
| Event loop and shutdown | stage of the shutdown | turns; ordered shutdown | all | no callback into what is gone |
| Serializer | the frame being built | `serialize_message`, `finalize` | publish cycle, replay | a client decodes what was put in |
| Schema extraction (ROS 2) | caches of files and of definitions | `try_get_message_definition` | topic lists, `handle_subscribe` | a definition is complete or an error |
| Stripping, whitelist matching | none that is shared | pure conversions | | (tested in the repository) |

### What is hard

State read before a lock and used under it (`handle_subscribe`, the publish cycle, the timeout
check); two threads that both clean up a session; requests of a client that has gone; a response
that cannot be sent after its request has taken effect; a socket that drains or fills while frames
are put on it; a wall clock that is set back; a sample that arrives before its topic is known to be
latched; groups of clients that share rate-limiting state; a topic that changes between two polls;
entities that are created and closed outside the lock that guards the table; connections that open
before the server is marked as initialized, and callbacks that are running when the shutdown begins;
lengths that a field cannot hold; message types that nest each other. `PROJECT.json` lists
each with its line and the properties aimed at it.

## The modules

Names follow the code, without the trailing underscore of members. In every module a step is what
the code does without another thread being able to intervene: a critical section with everything it
calls, or an access to something shared. Variables marked *history* in a module do not influence
its steps; properties need them. Operators commented *Faulty* are not used: they are the plausible
mistakes that `PROJECT.json` lists, each next to the definition it would replace.

```
SharedSubscriptions  <--implements--  BridgeServer          <- BridgeServerProofs
                                      ServerLifecycle       <- ServerLifecycleProofs
FrameStream          <--implements--  WebSocketMiddleware   <- WebSocketMiddlewareProofs
MessageBuffer        <--extends--     LatchedReplay         <- LatchedReplayProofs
MessageSerializer    <--extends--     PublishCycle          <- PublishCycleProofs
QosAdaptation, SchemaExtractor  <--extends--  Ros2Subscribe <- Ros2SubscribeProofs
                                      DdsSubscriptions      <- DdsSubscriptionsProofs
                                      TopicUpdates          <- TopicUpdatesProofs
```

**SharedSubscriptions** is the abstract specification of the request path: every topic has a set of clients that hold
it, clients take and release holdings in one step, and a DDS subscription exists exactly while
somebody holds it.

**BridgeServer** composes BridgeServer, SessionManager, the ROS 2 subscription manager, the latched
state of the buffer and the incoming side of the middleware: the request path. `pc` is the position
of the event loop, `conn[c]` the life of connection `c` and of its Close callback. `handle_subscribe`
is `SubscribeSnapshot` (validation, before the lock) and then `SubscribeLocked` or
`SubscribeSessionGone` (the roll-back when the Close callback came in between); `cleanup_session` is
`CleanupLocked` and `CleanupDrop` on the loop, `CloseCleanup` and `CloseDrop` on a WebSocket thread;
the publish cycle is `PublishSnapshot`, `PublishPausedState`, `PublishSend`. Whether DDS grants a
subscription, what durability its publishers offer, whether a reply can be sent and whether a
frame ends in a backlog are choices. Heartbeats are abstracted to `stale`: `Age` makes a session
stale, a request makes it fresh. `reference_count` may be any integer the actions compute; that it
stays in `Nat` is part of `TypeOK` and is broken by a double release.

**ServerLifecycle** is the life of the server: `initialize` of BridgeServer and of the middleware, the
callback that IXWebSocket runs on each connection's thread, `shutdown` and the two destructors. `main`
is the position of the thread that does all this, which also takes the turns of the event loop;
`conn[c]` is where the callback of connection `c` is, `event[c]` what it is about. The callback reads
`initialized_` and later copies `on_disconnect_` under `state_mutex_`, which `initialize` holds from
beginning to end; between those steps anything can happen. IXWebSocket is external: it calls whichever
callback is installed, and `stop()` returns when all connections have ended, if ever.

**WebSocketMiddleware** is the outgoing side, in finer steps: `send_binary` with the policy of
`run_backpressure` (flush, current frame, queue or shed, warn) against the Close callback and a
socket that drains. Frames are numbered. A frame's size is left out, and with it the two ways the
socket can fill: any send may take the socket to its watermark.

**FrameStream** is its abstract specification: per client, frames received and frames kept. A new frame is
put on the connection (`Pass`, which may overtake kept ones, see below) or kept (`Keep`); kept frames follow
oldest first (`Deliver`); beyond the capacity the oldest goes and is counted. Frames are missing without
being counted only where a session ended (`Forget`) or the connection did (`Close`, `Lose`). A frame that
the flush loop has popped still waits, so popping is no step of a stream, and `Keep` is one formula for
every capacity, where `BoundedFrameQueue::push` has a case for 0.

**MessageBuffer** has one action per method. The clock is `system_clock` and can be set to anything
in `0..MaxTime` (`SetClock`); `SteadySpec`, for a theorem, is the same with a clock that only
advances. `add_message` reads the clock once for the cleanup and once for the stamp; both are taken as
one instant. The module is checked as part of LatchedReplay and proved on its own.

**LatchedReplay** extends MessageBuffer with the DDS reader (`inbox`), the ingest thread between
taking a sample and adding it (`inflight`), joins and leaves in the steps of
`collect_latched_replay` and `release_subscription_ref`, and the publish cycle, for one latched
topic and another, ordinary one. Samples may expire unsent: the history variable `lost` records which
versions were purged from the buffer and who misses them (the holders at that time, and everybody else
when none was retained). The publish cycle passes the samples through the rate gate (`Admit`) with the
`last_sent_times_` of the representative of a client's group; `withheld` records what the gate kept from
a holder that has asked for a rate. The groups of a cycle depend on the other topics of the clients and
on the order of an unordered map, which PublishCycle models; here any grouping of clients with the same
rate may occur (`Groupings`), paused clients included, since the code groups them too and lets them share
the state. A replay passes no gate and leaves `last_sent_times_` alone, a session that ends erases its
entry (`EndSession`), a pause or an unsubscribe does not. A sample's stamp is the time of its reception;
the ROS 2 middleware may supply one that is earlier by the time the sample waited for the executor. (Only
the ROS 2 backend has latched topics; the DDS backends take the publisher's stamp.) A frame counts as sent when it is handed to `send_binary`; what
becomes of it there is WebSocketMiddleware's.

**MessageSerializer** has the operators of the frame format: `Serialize` (`serialize_message`),
`Finalize` (`finalize`), `WriteLe`, `WriteStr`, and a client that decodes a frame by the document
(`Decode`). Bytes are digits of a small base and the integer types have scaled widths, so that the
conversions to `uint16_t` and `uint32_t` cut something off on small instances. ZSTD is external.

**PublishCycle** is grouping, rate limiting and framing: `PublishSnapshot` (what the cycle reads from
the buffer and the session table), `PublishRoute` (routing under `last_sent_mutex_`, with the light
frame and the heavy ones of every group), `PublishSend` (the sends, without a lock).
`sessions` is a sequence because the representative of a group is the first member in the order of
an unordered map, which may be any order and may change with every insertion. Rates are integers
in fractions of 1 mHz, so that the truncation to whole mHz can lose something. The history variable
`groups` tells whether anybody joined, left or changed since the first cycle.

**DdsSubscriptions** models both DDS backends, which are built alike: creation and deletion of
entities outside `mutex_`, listener threads that take `mutex_`, the discovery cache with one
listener per domain that was given a participant, callers under `cleanup_mutex_`, the shutdown of the
standalone event loop (`ClearCallback`, `UnsubscribeAll`, then `StopServer` or `StopTimesOut`) that
runs without it, and the destructor of the topic source (`DeleteParticipant`). A creation that returns
nothing makes `subscribe` delete what it has created; one that throws ends in the catch block, as does a
failed allocation of the listener or of the entry. There the backends differ: in RTI's the handles are
objects whose destruction closes the entities (`SubscribeUnwinds`), Fast DDS's are pointers, and the catch
block deletes nothing (`SubscribeAbandons`): the entities are `abandoned` until the participant goes.
The model has both. Assumed of DDS: creating any entity may fail or throw, deleting one does not; a second topic of the same name is refused; a listener may run whenever it is set;
`set_listener(nullptr)` returns when no callback runs. In the bridge only the event loop subscribes,
so the branch of `subscribe` for two concurrent subscribers of a topic is in the model (`Insert`)
but is not reached.

**TopicUpdates** models topic lists: a graph of topics that changes at any time, the cache of types,
`get_topics` (whose type and definition are looked up one after the other), the poll and the
notifications, one client at a time, with sessions that end in between. The client is external: it
keeps the list it was given and applies each notification, first removals, then additions.

**QosAdaptation** is `adapt_qos`, one step per publisher, with the unsigned arithmetic of `size_t`
modulo `SizeModulus`.

**SchemaExtractor** is the definition of a ROS 2 type, built file by file. A `.msg` file is the list of
the types of its fields, a definition the list of the files it is made of; files may be missing and be
installed later. `todo` is the stack of the recursion.

**Ros2Subscribe** composes the two in the order in which the event loop uses them: a topic list asks
for definitions, a subscribe request for a definition first and then for a subscription. A paused client
is sent the definition and gets the subscription from a later `handle_resume`, which extracts nothing
(`Resume`). The module is about the first subscription of one topic, whose type stays the same once its
definition was sent; a later pause and resume run `adapt_qos` again, and types that change are the
subject of TopicUpdates.

## The runs

Two clients and two topics are enough for the interleavings at stake: every property relates at most
two clients (one that stays, one that goes) and two topics (one shared, one not). All bounds are
constants of the modules or of the `.cfg` files. The type invariant of a module documents its state and is
proved where there are proofs.

| run | checks | instance | shows |
|---|---|---|---|
| `bridge_server` | `RefCountMatchesHolders`, `SessionConsistent`, `LatchedFollowsSubscription`, `NoReplayStrands`, `ToldIsTrue`, `BacklogBelongsToSession`, `LiveSessionsSurvive`, `ImplementsSharedSubscriptions` | 2 clients, 2 topics, queue of 1 | whatever requests, timeouts, failures and disconnections interleave, references, sessions, latched state, replays and backlogs agree, and the bridge implements SharedSubscriptions |
| `bridge_server_live` | `DisconnectedIsForgotten` | 2 clients, 1 topic, no symmetry | a request left behind by a client that has gone makes a session again, and the timeout removes that |
| `server_lifecycle` | `EventsAreHeard`, `ShutdownIsClean`, `NoCallbackAfterDestruction`, `ShutdownReturns` | 2 connections, queue of 1 | connections that come early are not missed; a shutdown returns even if `stop()` hangs, and leaves nothing behind that could call into what is destroyed, with the exception below |
| `send_binary` | `EveryFrameCounts` (`ForwardedIsAccounted` and `DroppedCountIsLifetimeTotal`), `BacklogIsNewest`, `NoDeadBacklog`, `CongestedNeverFed`, `SendReturns`, `ImplementsFrameStream` | 2 clients, backlog of 2, 4 frames | 4 frames overflow a backlog of 2 after a partial flush; no frame is lost, repeated or miscounted, the loop is never blocked by a client that does not read, and streams are as FrameStream specifies |
| `latched_replay` | `NothingSentTwice`, `EveryHolderIsCurrent`, `RetainedIsNewest`, `FreshNeverPurged`, `StaleRemovedByAdd` | 2 clients, 2 topics, 2 versions, 2 subscriptions, times 0..1, age 0, intervals 0 and 2 | each holder gets the current sample, once, by whichever way, unless it expired unsent or the client's rate withheld it. With an age limit of 0, one tick makes a message expire and one step back makes it look young; with an interval of 2, a limited client with rate state is refused and one without it is not. Messages of the other topic meet rates only during the first subscription (`MCBound`) |
| `publish_cycle` | `UnlimitedIsComplete`, `FramesAreFaithful` (`FramesDecode` and `SizeClassesKeepOrder`), `RateLimitOfFixedGroups`, `DecimationIsTight` | 2 clients, 1 topic, 3 messages of 3 sizes, 3 stamps, 6 rates, bytes of base 4, 3-digit lengths | unlimited subscriptions get everything, however groups change; with fixed groups, at most one message per interval (`1 / max_rate_hz` cut to whole nanoseconds by an integer division, so less than one tick short) and the first that is due; frames decode to what was routed, also around a message of 66 bytes, whose length does not fit, and keep the order within a size class |
| `dds_subscriptions` | `NoEntityLeaks`, `CountsMatchSessions`, `NoTopicClash`, `ReaderFromOneDiscovery`, `QuietAfterShutdown`, `CallsReturn` | 2 WebSocket threads, 2 topics, 2 domains, 3 sets of entities | discovery, creation, failures and exceptions, callbacks, closing, shutdown and destructors interleaved; no caller waits for a listener that waits for the caller; nothing leaks but what an exception leaves behind in Fast DDS |
| `topic_updates` | `InStepStays`, `SchemaMatchesType`, `ChangesAreTold` | 2 clients, 2 topics (1 whitelisted), 2 types, 2 changes | a client in step with one poll is so with all later ones, and learns of the topics as they finally are |
| `ros2_subscribe` | `QosIsExact`, `DepthIsClampedSum`, `ClientsCanDecode` | all graphs of 3 types with up to 2 nested fields, any files missing; up to 3 publishers, 4-bit numbers | cyclic and repeated nesting, failed extractions, pauses and resumes, sums that overflow, unknown depths, mixed publishers. All type graphs meet one publisher and all publishers one graph: the two parts share no state |

Deadlock is not checked where the model may stop: after a bounded number of messages or changes,
after the shutdown, and when a subscription has been made. `MaxIncoming = 1` keeps one request in the
queue: the queue is drained one request at a time and its length matters only for the order of the
requests of different clients, which arises with connections that queue one after the other.

## Where the code and its documentation disagree

Three runs end in a counterexample: a statement of a document that the code does not quite keep.

| run | property | what happens | statement |
|---|---|---|---|
| `send_binary_order` | `NothingOvertakesBacklog` | the socket is full when the flush loop looks and has drained when the current frame is tried: the current frame overtakes the backlog | docs/API.md:547 "delivered, in order" |
| `latched_replay_stale` | `NoStaleCopy` | a sample buffered for the last subscriber outlives the subscription and is retained for the next one | docs/API.md:343 "never a stale copy" |
| `publish_cycle_rate` | `RateLimitHolds` | a client that joins a group and comes first brings empty state: the others get a message too early | docs/API.md:259 "at most one message per rate interval" |

Smaller observations have no run of their own.

- *Shutdown.* ~BridgeServer says (bridge_server.cpp:78) that disconnect callbacks "cannot fire into a
  partially destroyed BridgeServer". One that is already inside `cleanup_session` when the shutdown
  begins, and is still there when the 3 seconds of `kShutdownTimeoutSeconds` are over, does.
  `NoCallbackAfterDestruction` allows exactly that and nothing more; the middleware itself waits for it.
- *Start.* standalone_event_loop.cpp:53 takes the first snapshot of topics "before any client can
  connect"; the server accepts connections since `initialize`. Nothing depends on it: requests wait in
  the queue until the loop begins.
- *Expiry.* A replay that is skipped because the sample is still buffered is lost if the sample expires,
  after one second, before the next cycle (message_buffer.hpp:96), and a sample that expires before its
  topic is marked latched is not retained for anybody.
- *Rates of latched topics.* A client that has asked for a rate is not sent a sample of a latched topic
  that follows within the interval; if it is the last one published, the client stays without it. The
  replay does not make up for it: it is skipped while the sample is buffered, because "the next aggregated
  frame delivers it to the new subscriber anyway" (docs/API.md:351, message_buffer.hpp:96), and that is
  not so if the rate gate withholds it. It takes a client with rate state from before: one that pauses,
  shares in the pause the `last_sent_times_` of its group, which is moved by a cycle, and resumes while
  the next sample is buffered. With expiry, these are the cases that `EveryHolderIsCurrent` names, and
  there are no other.
- *Exceptions in Fast DDS.* After an exception in `subscribe` past `create_topic`
  (fastdds_subscription_manager.cpp:201), the topic, the subscriber and the reader remain, and
  `create_topic` refuses the name of the topic until the bridge is restarted. The reader goes on calling a
  listener that was destroyed with `new_sub`, which is undefined behaviour; in the model it works as
  before. `NoEntityLeaks` says that nothing else is ever left behind, and nothing of a topic that has a
  subscription. No document promises more.
- *Clock.* After the clock is set back, a message that looks young shields older ones behind it from the
  cleanup (`StaleRemovedByAdd` is stated for topics in order for this reason).
- *Order of frames.* Within one cycle the light frame goes first: a small message of a topic can arrive
  before an earlier big one. `SizeClassesKeepOrder` promises order within a topic and size class.
- *Sizes.* A message of 2^32 bytes or more is cut off, consistently: the frame remains decodable. A topic
  name of 2^16 bytes or more would not be.
- *Leftovers.* The slow-client warning of `send_binary` can recreate `last_drop_warn_` of a client that
  the Close callback has just erased, and a publish cycle `last_sent_times_` of one whose session was
  just removed; nothing erases them again before the shutdown.
- *Discovery.* In the FastDDS backend a topic whose TypeObject is not in the registry when its writer is
  discovered is skipped, and looked at again only when another writer appears.
- *Quality of service.* It is computed once, from the publishers known when the first client subscribes; a
  best-effort publisher that appears later is not heard by that subscription. If none is known then, which
  a resume can meet, VOLATILE is requested, and `QosIsExact` says nothing about latched samples.
- *Polls.* A poll compares with the previous poll, not with what clients were told: a client that fetches
  the list while a topic is gone is not told if the topic is back before the poll, so only clients *in
  step* with a poll are promised anything (`InStepStays`).

## Fairness

- *The event loop goes on* (`WF(LoopStep)`): its thread is scheduled and waits for nothing but locks
  that are held for a bounded time.
- *It comes back to each of its duties* (`SF(Requests)`, `SF(CheckTimeouts)`, `SF(Poll)`): the loop
  runs all of them in turn, and `process_requests` stops after 256 requests, so that a client that
  keeps sending cannot keep the others from running. Strong fairness is needed because each is
  disabled, again and again, while the loop is busy with another.
- *A WebSocket thread finishes its Close callback*, *time passes* for a session that gets no request
  (`WF(Age)`).
- *send_binary goes on* (`WF(SenderStep)`). Nothing is assumed of the client: no fairness on `Drain`.
- *A shutdown goes on* (`WF(ShutdownStep)`): the main thread is scheduled, and its wait has a deadline.
  Nothing is assumed of IXWebSocket or of the callbacks; `stop()` may hang.
- *A DDS call and a listener that was called go on* (`WF(CallStep)`, `WF(ListenerStep)`). A step that
  waits for a lock is disabled while it is held; nothing is assumed of arriving data.

## The proofs

The theorems hold for every value of the constants that the assumptions allow. These are: finite sets
of clients and topics where something is counted; natural numbers for sizes, times, bounds and stamps;
clock values and depths within their integer type; the markers `NoClient`, `None`, `NoRate`, `NoSample`
and `NoMessage` different from what they mark the absence of; a message's stamp later than the epoch by
the longest interval, the 1000 seconds of 1 mHz (`StampsAssumption`, `EpochAssumption`: stamps are wall-clock times,
`last_sent_times_` starts at 0, and the first message of a topic passes); a highest rate of at least
1 mHz (`RatesAssumption`; requested rates are any integers); and, for the fields of a frame
(`FieldsAssumption`), topic names shorter than 2^16 bytes, stamps of 64 bits and fewer than 2^32 messages.
Bytes and integers may have any width, and messages any size, below 2^32 or not.

Some proofs need induction over data. The library's induction theorems cannot be applied by the
installed provers, since they take an operator as a parameter; but `WFMin` does not, and gives
induction for a *set* of natural numbers (`NatSetInduction`: the set of those numbers for which the fact
holds is all of them). The folds and sums of the community modules are recursive functions under a
`CHOOSE`; the lemmas whose names end in `Exist` or `Exists` show that there is such a function, and the
following ones what it returns step by step.

**BridgeServerProofs**, for any finite sets of clients and topics, any whitelist and queue length.
No invariant is inductive alone. That a reference is not counted twice needs the topics that
`handle_subscribe` found unsubscribed before the lock to be unsubscribed still; that needs the
session to be the same or gone; and that a replay strands nowhere needs the handler's position. The
inductive invariant `IInv` is the conjunction of all invariants of the run with `HandlerContext`,
which says what each thread may count on between two of its steps. The proof goes by the ways a step
can move references: `Takes` and `Drops` (of one client), for which `TakeKeepsCount` and its
counterpart move the cardinality of the holders along. Theorems: `TypeCorrect`,
`RefCountsAreExact`, `SessionsAreConsistent`, `LatchedStateIsLive`, `ReplaysNeverStrand`,
`ResponsesAreTrue`, `BacklogsAreOwned`; the action property `ConnectedSessionsSurvive` (with
`TargetsAreStale` on top of `IInv`); and `Refinement`, that BridgeServer implements
SharedSubscriptions: a step that takes or drops references of one client is an `Acquire` or a
`Release`, every other one a stutter.

**WebSocketMiddlewareProofs**, for any clients, any backlog size (0 included) and any number of
frames. `MwInv` adds to the properties that a call in progress has a client and a frame and holds a
popped frame only between pop and send (`CallContext`), and that backlogs are sorted, bounded, newer
than what they evicted and older than the current frame until that is queued (`BacklogOrder`). The
lemma `PushFacts` is about `BoundedFrameQueue::push` alone. Theorems: `MwTypeCorrect`,
`NoBacklogOutlivesClient`, `BacklogsKeepTheNewest`, `CongestedSocketsAreSpared`. On top of `MwInv`,
`FramesAreAccountedFor` shows that the fates of a frame exclude each other and that it always has one:
queued, evicted, held by the flush loop, put on the socket, or dropped with its client. `DropCountIsExact`
shows that the drop counters of the clients, together with the total of those that have gone, add up to
the number of evicted frames: a step changes the count of one client, and the sum by as much
(`TotalUpdate`). `EveryFrameIsCounted` joins the two. `StreamRefinement` shows that WebSocketMiddleware
implements FrameStream: `FlushPop` is a stutter, `FlushSend` a `Deliver`, `CurrentSend` a `Pass`, `Queue` a
`Keep` (`PushIsKeep`), an erasure a `Forget`, or a `Lose` when a frame has been popped, which only happens
to a connection that has ended. That a passed or kept frame is new follows from `Accounted`, that a failed
send means an ended connection from `Served`: a call serves a client that has been connected.

**ServerLifecycleProofs**, for any set of connections and any length of the queue. `LifeInv` says which
flags are set while the main thread is where it is (`Phases`), what the position of a callback says of
its client (`Callbacks`), and that after a stop in time all is quiet (`Endings`). The key facts: while the
server starts, callbacks can only wait for `state_mutex_`; after `shutdown` has cleared
`on_disconnect_`, the only cleanups that run are those that ran before. Theorems: `Lifecycle`,
`NoConnectionIsMissed`, `ShutdownLeavesNothing`, `DestructionIsSafe`.

**LatchedReplayProofs** begins with MessageBuffer, for any topics, samples, age limit and clock.
`BufferInv` adds that a non-empty deque ends with the newest message: `set_latched` retains the last
message, and the cleanup removes a prefix (`CleanupKeepsSuffix`). With a clock that only advances,
deques are sorted by time (`SteadyInv`). Theorems: `BufferTypeCorrect`, `ReplayedIsNewest`,
`ClockStepsPurgeNothing`, `OrderBoundsAge`, `SteadyClockKeepsOrder`. The bridge's threads use the buffer
as specified (`ReplayImplementsBuffer`): every step of LatchedReplay is a step of MessageBuffer or leaves
it alone, because what DDS hands over are samples (`PipelineOK`). So `ReplayRetainsNewest`,
`ReplayPurgesNothingFresh` and `ReplayPurgesStale` hold in the composition.

Two further invariants are about the whole way of a sample. `StreamInv` says that samples are ordered,
by subscription and version, all along it: what was sent to a client comes before what is buffered, that
before what the ingest thread holds, that before what is still with DDS; and that a client that waits for
its replay has not been sent what will be replayed. From it follows `SamplesAreSentOnce`, whichever of
replay and publish cycle comes first. `CurrencyInv` says where the current version is: on its way, or
retained, or recorded as expired; and a holder that is not joining was sent it unless one of the other
cases applies or the gate withheld it. The gate is a recursive function over the samples of a cycle; what
it lets through is a subsequence of them, and all of them where there is no rate. From it follows
`HoldersStayCurrent`.

**PublishCycleProofs**, for any clients, any finite set of topics, any rates, and whatever requests and
disconnects fall between the steps of a cycle. `CycleInv` consists of: what a snapshot covers; that
messages are numbered in the order of arrival, so that those handed out come before those of the cycle
and those before the ones in the buffer (`NumbersGrow`); that frames contain messages of the cycle, and
for an unlimited topic all of them; and `FixedGroups`: as long as nobody joins, leaves or changes, a
client has got exactly what the gate lets through that compares with the `last_sent_times_` of the
representative of its group (`Paced`). That the state of another client may stand for one's own is the
point: members of a group have the same topics at the same rates in mHz, hence the same interval
(`min_interval` works on the rate in mHz), and all of them get what the representative gets. The lemma
on `Admit`, the loop over the messages of a topic, is an induction over the messages; those on `SetToSeq`
and `FlattenSeq` lead from frames to messages. Theorems: `CycleTypeCorrect`,
`UnlimitedTopicsAreComplete`, which needs no fixed groups; `FixedGroupsKeepTheLimit`; and
`FixedGroupsWithholdLittle`, that a message is withheld only within an interval of an earlier one that
was sent. The proof of the limit brought out that `min_interval` is rounded down to whole ticks
(bridge_server.cpp:1122-1133): the distance of two messages is less than one tick short of
`1 / max_rate_hz`, and that is what the property says.

The last part is about frames as a client reads them. `FramesInv` adds to `CycleInv` that the messages of a
cycle have different numbers, so that no frame has more of them than its count can say, and the two
properties. For `FramesDecode`, `WriteFacts` and `ReadFacts` show that the digits of a number below
`Byte^size`, summed up again, give the number, by induction over the digits. `Placed` says that a
sequence is found at an offset of another; concatenation keeps what is placed (`PlacedParts`), so every
message of a payload is placed where the lengths of those before it end (`FlattenOffsets`). Reading a
message there returns it with its data cut to what the length counts (`ReadMessageFacts`), and the loop of
the client, again by induction, is at that offset after as many turns (`DecodeFacts`). For
`SizeClassesKeepOrder`, `Admit` keeps the order of a topic's messages (`AdmitFacts`), and a frame or the
list of heavy frames is a flattened sequence of such parts, one per topic: `FlattenIndex` gives for an index
of the whole the part and the index in the part, and two messages of a topic are in one part. Theorems:
`FramesDecodeToWhatWasRouted`, `SizeClassesKeepTheOrder`, and both as `ClientsReadWhatWasRouted`.

**Ros2SubscribeProofs** begins with `adapt_qos`, for any number of publishers, any depths and any width
of `size_t`. `QosInv` says what the two flags mean for the publishers examined so far, and that
`total_depth` is within `max_qos_depth_`; from that, `AddDepthExact` concludes that neither the
subtraction nor the addition wraps. On top of it, `DepthSoFar` says that `total_depth` is the sum of the
depths so far, cut to `max_qos_depth_`. Theorems: `QosTypeCorrect`, `DepthNeverWraps`,
`EveryPublisherIsHeard`, `NoQosIsGivenAway` (of one publisher or more), `QosExact`, which joins the last
two, and `DepthIsExact`,
that the depth is the sum over all publishers within its bounds (`PartialSums` relates the loop to the
sum). The composed path implements both its parts (`Ros2ImplementsQos`, `Ros2ImplementsSchema`), hence
`Ros2QosExact` and `Ros2DepthExact`; and it computes a QoS only with a definition at hand, just extracted
or sent before the pause (`SchemaBeforeSubscription`).

The last part is about definitions, for any types that nest each other in any way, cycles
included. `SchemaInv` says that the caches hold what is in the files (`CacheIsTrue`) and that
the depth-first search is sound at every step (`SearchIsSound`): every nested type of a file that was
appended has been appended, or is on the stack, and nothing is appended twice. When the stack is empty,
the definition is closed (`SearchEndsClosed`), and stays so when files are installed later. Theorems:
`DefinitionsAreClosed`, and `SubscribersCanDecode` for the composition, which needs besides that the
search under way is for the topic's type (`SentIsClosed`).

**DdsSubscriptionsProofs**, for any threads, topics, domains and supply of entities. Creation and deletion
happen outside `mutex_`; that they do not meet is due to `cleanup_mutex_`, which a call keeps from
beginning to end, and to the order of the shutdown, which does not take it. So `DdsInv` says who may be
inside a call at which stage (`Calls`, `Shutdown`), who owns an entity (`Ownership`), what an exception
left behind (`LeftBehind`: entities of topics without entry, of a participant that is there) and which parts of it
exist (`Construction`), what the counts are while a reference is being given up (`Counts`), and where the
type and the participant of an entity come from (`Sources`). Theorems: `DdsTypeCorrect`,
`EntitiesHaveOwners`, `ReferencesAreCounted`, `TopicNamesAreFree`, `ReadersAreConsistent`,
`ShutdownLeavesNothing`.

**TopicUpdatesProofs**, for any clients, topics, types and whitelist. `InStepStays` speaks of the event
loop at rest. Its inductive form speaks of the middle of a round as well: a client that had its turn has
the new list, and one that waits for it has a list that the notification will turn into the new one
(`StepsInRound`), which is so because a notification is the difference of two polls
(`AnnouncedIsDifference`) and because types in the cache do not change during a round
(`NotificationIsTrue`). Theorems: `UpdTypeCorrect`, `NobodyFallsBehind`, `SchemasBelongToTypes`.

## What is only model-checked

- Liveness under fairness, which TLAPS cannot prove: `DisconnectedIsForgotten`, `SendReturns`,
  `CallsReturn`, `ChangesAreTold`, `ShutdownReturns`.

Every other property of a run that ends without a counterexample is stated by a theorem.

## What is not modelled

- ZSTD and its errors, JSON, message stripping, regular expressions of the whitelist, TLS beyond that it
  may fail: conversions or library calls with no shared state.
- Statistics and logging; the text of responses; the command line and the parameters of the nodes.
- The parsing of a line of a `.msg` file; files that change or vanish while the bridge runs.
- The latched badge of topic lists.
- `WebSocketMiddleware::publish_data`, `SessionManager::update_subscriptions` and
  `remove_comments_from_schema`, which nothing but tests calls; `MessageBuffer::clear`, which only tests
  call, is in the module and its proofs.

## Plan

The order was, and is, by how much depends on it.

1. *Done.* The request path (`BridgeServer`, `SharedSubscriptions`): runs, inductive invariant,
   refinement.
2. *Done.* The outgoing side (`WebSocketMiddleware`): runs, backlog invariants.
3. *Done.* `MessageBuffer` with proofs, and `LatchedReplay`, which composes it with ingest, replay
   and publishing, with samples that expire and the rate gate; the refinement between the two.
4. *Done.* `PublishCycle`, `DdsSubscriptions`, `TopicUpdates`, `QosAdaptation`; proofs.
5. *Done.* `ServerLifecycle`: start, shutdown with a stop that may time out, destructors; proofs.
6. *Done.* The split into light and heavy frames and the frame layout (`MessageSerializer`,
   `PublishCycle`); `SchemaExtractor` and its composition with `QosAdaptation` in `Ros2Subscribe`, with
   proofs;
   participants, skipped discoveries and destructors in `DdsSubscriptions`.
7. *Done.* A proof of every safety property of the runs, the decoding of frames included.
8. *Done.* `FrameStream`, the abstract specification of a client's stream of frames, implemented by
   WebSocketMiddleware; the refinement proved.

## Running it

```
tlc -workers 2 -config MCBridgeServer.cfg MCBridgeServer
tlapm BridgeServerProofs.tla
```

and the same for the other runs of `PROJECT.json` and the other modules that end in `Proofs`. The
longest run takes about three minutes on two cores.
