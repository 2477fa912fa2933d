-------------------------- MODULE ServerLifecycle --------------------------
(***************************************************************************)
(* The life of the WebSocket server: BridgeServer::initialize and          *)
(* WebSocketMiddleware::initialize, the callback that IXWebSocket runs on  *)
(* a thread per connection, WebSocketMiddleware::shutdown with the stop    *)
(* thread it may give up waiting for, and the destructors of BridgeServer  *)
(* and of the middleware.                                                  *)
(*                                                                         *)
(* main is the thread that builds and destroys everything.  It also takes  *)
(* the turns of the event loop: the standalone loop runs on it, and the    *)
(* timer thread of ROS 2 is joined before the shutdown.  What the backends *)
(* do first (set_message_callback(nullptr), unsubscribe_all) is in         *)
(* DdsSubscriptions.                                                       *)
(*                                                                         *)
(* IXWebSocket is external: an event of a connection calls whichever       *)
(* callback is installed at that time, and stop() returns when no          *)
(* connection is left, which may take any time.                            *)
(***************************************************************************)
EXTENDS Naturals, Sequences

CONSTANTS
  Conns,                \* connections, each with its thread
  kMaxIncomingQueueSize

ASSUME QueueAssumption == kMaxIncomingQueueSize \in Nat

VARIABLES
  main,            \* position of the main thread
  locked,          \* main keeps state_mutex_ over several steps
  (* WebSocketMiddleware *)
  initialized,     \* initialized_ (and server_ is set)
  on_disconnect,   \* on_disconnect_ is set
  clients,         \* clients_
  pending_frames,  \* the clients with an entry in pending_frames_
  incoming_queue,
  pending_stop,    \* pending_stop_thread_ is joinable
  (* IXWebSocket *)
  accepting,       \* the server accepts connections
  installed,       \* its callback is the one of initialize, not the no-op
  stop,            \* the stop thread
  conn,            \* position of each connection's thread
  event,           \* the event its callback handles
  (* history *)
  cleaned,         \* the clients cleanup_session was called for
  caught           \* those it was running for when the shutdown began

mwVars  == <<initialized, on_disconnect, clients, pending_frames, incoming_queue, pending_stop>>
ixVars  == <<accepting, installed, stop>>
history == <<cleaned, caught>>
vars == <<main, locked, mwVars, ixVars, conn, event, history>>

Events   == {"open", "message", "close"}
Outside  == {"new", "idle", "ended"}        \* positions outside the callback

TypeOK ==
  /\ main \in {"new", "initialize", "listen", "start", "running", "stopping", "noop", "close",
               "wait", "clear", "clear_queue", "down", "destroyed", "gone"}
  /\ locked \in BOOLEAN
  /\ initialized \in BOOLEAN
  /\ on_disconnect \in BOOLEAN
  /\ clients \in SUBSET Conns
  /\ pending_frames \in SUBSET Conns
  /\ incoming_queue \in Seq(Conns)
  /\ pending_stop \in BOOLEAN
  /\ accepting \in BOOLEAN
  /\ installed \in BOOLEAN
  /\ stop \in {"none", "running", "done"}
  /\ conn \in [Conns -> Outside \cup {"check", "cleanup", "erase"} \cup Events]
  /\ event \in [Conns -> Events]
  /\ cleaned \in SUBSET Conns
  /\ caught \in SUBSET Conns

Init ==
  /\ main = "new"
  /\ locked = FALSE
  /\ initialized = FALSE
  /\ on_disconnect = FALSE
  /\ clients = {}
  /\ pending_frames = {}
  /\ incoming_queue = <<>>
  /\ pending_stop = FALSE
  /\ accepting = FALSE
  /\ installed = FALSE
  /\ stop = "none"
  /\ conn = [c \in Conns |-> "new"]
  /\ event = [c \in Conns |-> "open"]
  /\ cleaned = {}
  /\ caught = {}

-----------------------------------------------------------------------------
(* The start.                                                              *)

(* BridgeServer::initialize: the disconnect callback comes first.          *)
InitializeBridge ==
  /\ main = "new"
  /\ on_disconnect' = TRUE
  /\ main' = "initialize"
  /\ UNCHANGED <<locked, initialized, clients, pending_frames, incoming_queue, pending_stop,
                 ixVars, conn, event, history>>

(* Faulty: state_mutex_ is not kept while the server starts. *)
InitializeMiddlewareUnlocked ==
  /\ main = "initialize"
  /\ installed' = TRUE
  /\ main' = "listen"
  /\ UNCHANGED <<locked, mwVars, accepting, stop, conn, event, history>>

(* WebSocketMiddleware::initialize takes state_mutex_, which it keeps, and *)
(* makes the server with its callback; or TLS is not set up properly.      *)
InitializeMiddleware ==
  /\ main = "initialize"
  /\ \/ locked' = TRUE /\ installed' = TRUE /\ main' = "listen"
     \/ main' = "down" /\ UNCHANGED <<locked, installed>>
  /\ UNCHANGED <<mwVars, accepting, stop, conn, event, history>>

(* listen() may fail, else start() begins to accept connections ...        *)
Listen ==
  /\ main = "listen"
  /\ \/ main' = "start" /\ accepting' = TRUE /\ UNCHANGED <<locked, installed>>
     \/ main' = "down" /\ locked' = FALSE /\ installed' = FALSE /\ UNCHANGED accepting
  /\ UNCHANGED <<mwVars, stop, conn, event, history>>

(* ... before initialized_ is set and state_mutex_ released.               *)
Started ==
  /\ main = "start"
  /\ initialized' = TRUE
  /\ locked' = FALSE
  /\ main' = "running"
  /\ UNCHANGED <<on_disconnect, clients, pending_frames, incoming_queue, pending_stop, ixVars,
                 conn, event, history>>

-----------------------------------------------------------------------------
(* A connection.  Its thread runs one callback at a time.                  *)

(* The callback of initialize begins; the no-op ends at once.              *)
Fire(c, e) ==
  /\ event' = [event EXCEPT ![c] = e]
  /\ conn' = [conn EXCEPT ![c] = IF installed THEN "check" ELSE IF e = "close" THEN "ended" ELSE "idle"]

Accept(c) ==
  /\ accepting
  /\ conn[c] = "new"
  /\ Fire(c, "open")
  /\ UNCHANGED <<main, locked, mwVars, ixVars, history>>

(* A message, or the end of the connection, from either side.              *)
Receive(c, e) ==
  /\ e # "open"
  /\ conn[c] = "idle"
  /\ Fire(c, e)
  /\ UNCHANGED <<main, locked, mwVars, ixVars, history>>

(* Where the thread is when its callback has returned.                     *)
Returned(c) == [conn EXCEPT ![c] = IF event[c] = "close" THEN "ended" ELSE "idle"]

(* Under state_mutex_: nothing happens unless the server is initialized.   *)
Check(c) ==
  /\ conn[c] = "check"
  /\ ~ locked
  /\ conn' = IF initialized THEN [conn EXCEPT ![c] = event[c]] ELSE Returned(c)
  /\ UNCHANGED <<main, locked, mwVars, ixVars, event, history>>

Open(c) ==
  /\ conn[c] = "open"
  /\ clients' = clients \cup {c}
  /\ conn' = Returned(c)
  /\ UNCHANGED <<main, locked, initialized, on_disconnect, pending_frames, incoming_queue,
                 pending_stop, ixVars, event, history>>

(* A request is queued, or dropped if the queue is full.                   *)
Message(c) ==
  /\ conn[c] = "message"
  /\ incoming_queue' = IF Len(incoming_queue) < kMaxIncomingQueueSize
                       THEN Append(incoming_queue, c) ELSE incoming_queue
  /\ conn' = Returned(c)
  /\ UNCHANGED <<main, locked, initialized, on_disconnect, clients, pending_frames, pending_stop,
                 ixVars, event, history>>

(* Under state_mutex_ the disconnect callback is copied, to be called if   *)
(* there is one.                                                           *)
Close(c) ==
  /\ conn[c] = "close"
  /\ ~ locked
  /\ conn' = [conn EXCEPT ![c] = IF on_disconnect THEN "cleanup" ELSE "erase"]
  /\ cleaned' = IF on_disconnect THEN cleaned \cup {c} ELSE cleaned
  /\ UNCHANGED <<main, locked, mwVars, ixVars, event, caught>>

(* cleanup_session ends; its last step is drop_pending.                    *)
Cleanup(c) ==
  /\ conn[c] = "cleanup"
  /\ pending_frames' = pending_frames \ {c}
  /\ conn' = [conn EXCEPT ![c] = "erase"]
  /\ UNCHANGED <<main, locked, initialized, on_disconnect, clients, incoming_queue, pending_stop,
                 ixVars, event, history>>

Erase(c) ==
  /\ conn[c] = "erase"
  /\ clients' = clients \ {c}
  /\ pending_frames' = pending_frames \ {c}
  /\ conn' = Returned(c)
  /\ UNCHANGED <<main, locked, initialized, on_disconnect, incoming_queue, pending_stop,
                 ixVars, event, history>>

-----------------------------------------------------------------------------
(* The event loop: it serves a request, or puts a frame into the backlog   *)
(* of a client.                                                            *)
Serve ==
  /\ main = "running"
  /\ incoming_queue # <<>>
  /\ incoming_queue' = Tail(incoming_queue)
  /\ UNCHANGED <<main, locked, initialized, on_disconnect, clients, pending_frames, pending_stop,
                 ixVars, conn, event, history>>

QueueFrame(c) ==
  /\ main = "running"
  /\ c \in clients
  /\ pending_frames' = pending_frames \cup {c}
  /\ UNCHANGED <<main, locked, initialized, on_disconnect, clients, incoming_queue, pending_stop,
                 ixVars, conn, event, history>>

(* SIGINT or SIGTERM ends the loop.                                        *)
Signal ==
  /\ main = "running"
  /\ main' = "stopping"
  /\ UNCHANGED <<locked, mwVars, ixVars, conn, event, history>>

-----------------------------------------------------------------------------
(* WebSocketMiddleware::shutdown.                                          *)

(* Faulty: the disconnect callback stays. *)
BeginShutdownKeepingCallback ==
  /\ main = "stopping"
  /\ initialized' = FALSE
  /\ caught' = {c \in Conns : conn[c] = "cleanup"}
  /\ main' = "noop"
  /\ UNCHANGED <<locked, on_disconnect, clients, pending_frames, incoming_queue, pending_stop,
                 ixVars, conn, event, cleaned>>

(* Under state_mutex_: from now on callbacks return, but for those that    *)
(* are past their check.                                                   *)
BeginShutdown ==
  /\ main = "stopping"
  /\ initialized' = FALSE
  /\ on_disconnect' = FALSE
  /\ caught' = {c \in Conns : conn[c] = "cleanup"}
  /\ main' = "noop"
  /\ UNCHANGED <<locked, clients, pending_frames, incoming_queue, pending_stop, ixVars, conn,
                 event, cleaned>>

InstallNoop ==
  /\ main = "noop"
  /\ installed' = FALSE
  /\ main' = "close"
  /\ UNCHANGED <<locked, mwVars, accepting, stop, conn, event, history>>

(* Every client is told to close (Receive), and the stop thread started.   *)
StartStop ==
  /\ main = "close"
  /\ stop' = "running"
  /\ main' = "wait"
  /\ UNCHANGED <<locked, mwVars, accepting, installed, conn, event, history>>

(* The stop thread: no more connections are accepted, ...                  *)
StopAccepting ==
  /\ stop = "running"
  /\ accepting
  /\ accepting' = FALSE
  /\ UNCHANGED <<main, locked, mwVars, installed, stop, conn, event, history>>

(* ... and those that exist are joined.                                    *)
StopDone ==
  /\ stop = "running"
  /\ ~ accepting
  /\ \A c \in Conns : conn[c] \in {"new", "ended"}
  /\ stop' = "done"
  /\ UNCHANGED <<main, locked, mwVars, accepting, installed, conn, event, history>>

(* The stop thread has finished in time and is joined.                     *)
Stopped ==
  /\ main = "wait"
  /\ stop = "done"
  /\ main' = "clear"
  /\ UNCHANGED <<locked, mwVars, ixVars, conn, event, history>>

(* Faulty: the wait has no deadline. *)
StopTimesOutNever == FALSE /\ UNCHANGED vars

(* kShutdownTimeoutSeconds are over: the join is left to the destructor.   *)
StopTimesOut ==
  /\ main = "wait"
  /\ stop # "done"
  /\ pending_stop' = TRUE
  /\ main' = "clear"
  /\ UNCHANGED <<locked, initialized, on_disconnect, clients, pending_frames, incoming_queue,
                 ixVars, conn, event, history>>

(* Faulty: backlogs are kept. *)
ClearClientsOnly ==
  /\ main = "clear"
  /\ clients' = {}
  /\ main' = "clear_queue"
  /\ UNCHANGED <<locked, initialized, on_disconnect, pending_frames, incoming_queue, pending_stop,
                 ixVars, conn, event, history>>

ClearClients ==
  /\ main = "clear"
  /\ clients' = {}
  /\ pending_frames' = {}
  /\ main' = "clear_queue"
  /\ UNCHANGED <<locked, initialized, on_disconnect, incoming_queue, pending_stop, ixVars, conn,
                 event, history>>

(* The queue is emptied, and shutdown returns.                             *)
ClearQueue ==
  /\ main = "clear_queue"
  /\ incoming_queue' = <<>>
  /\ main' = "down"
  /\ UNCHANGED <<locked, initialized, on_disconnect, clients, pending_frames, pending_stop, ixVars,
                 conn, event, history>>

-----------------------------------------------------------------------------
(* ~BridgeServer calls shutdown, which has nothing left to do, and its     *)
(* members are destroyed.                                                  *)
DestroyBridge ==
  /\ main = "down"
  /\ main' = "destroyed"
  /\ UNCHANGED <<locked, mwVars, ixVars, conn, event, history>>

(* ~WebSocketMiddleware joins a stop thread that outlived its timeout.     *)
DestroyMiddleware ==
  /\ main = "destroyed"
  /\ pending_stop => stop = "done"
  /\ pending_stop' = FALSE
  /\ main' = "gone"
  /\ UNCHANGED <<locked, initialized, on_disconnect, clients, pending_frames, incoming_queue,
                 ixVars, conn, event, history>>

-----------------------------------------------------------------------------
ShutdownStep ==
  \/ BeginShutdown \/ InstallNoop \/ StartStop
  \/ Stopped \/ StopTimesOut
  \/ ClearClients \/ ClearQueue

CallbackStep(c) ==
  Check(c) \/ Open(c) \/ Message(c) \/ Close(c) \/ Cleanup(c) \/ Erase(c)

Next ==
  \/ InitializeBridge \/ InitializeMiddleware \/ Listen \/ Started
  \/ \E c \in Conns : Accept(c) \/ CallbackStep(c) \/ \E e \in Events : Receive(c, e)
  \/ Serve \/ \E c \in Conns : QueueFrame(c)
  \/ Signal
  \/ ShutdownStep
  \/ StopAccepting \/ StopDone
  \/ DestroyBridge \/ DestroyMiddleware

(* The main thread is scheduled.  Nothing is assumed of IXWebSocket or of  *)
(* the callbacks: stop() may hang.                                         *)
Spec == Init /\ [][Next]_vars /\ WF_vars(ShutdownStep)

-----------------------------------------------------------------------------
(* Properties.                                                             *)

(* "Register disconnect callback before middleware init to avoid missing   *)
(* events", and initialize keeps state_mutex_ until initialized_ is set:   *)
(* while the server runs, a connection whose Open callback has returned is *)
(* a client, however early it came, and for one that has ended the session *)
(* was cleaned up and nothing is left.                                     *)
EventsAreHeard ==
  main = "running" => \A c \in Conns :
    /\ conn[c] \in {"idle", "message", "close", "cleanup"} => c \in clients
    /\ conn[c] = "ended" => c \in cleaned /\ c \notin clients \cup pending_frames

(* shutdown: unless its timeout expired, no connection is left when it     *)
(* returns, no callback runs, and no client, backlog or request remains.   *)
ShutdownIsClean ==
  main \in {"down", "destroyed"} /\ ~ pending_stop =>
    /\ \A c \in Conns : conn[c] \in {"new", "ended"}
    /\ clients = {} /\ pending_frames = {} /\ incoming_queue = <<>>

(* ~BridgeServer: "disconnect callbacks (which capture `this`) cannot fire *)
(* into a partially destroyed BridgeServer": only one that was running     *)
(* before the shutdown, and outlasts its timeout, still can.  And the      *)
(* middleware, which the callbacks capture as well, is never destroyed     *)
(* before they have ended, timeout or not.                                 *)
NoCallbackAfterDestruction ==
  /\ main \in {"destroyed", "gone"} =>
       \A c \in Conns : conn[c] = "cleanup" => pending_stop /\ c \in caught
  /\ main = "gone" => \A c \in Conns : conn[c] \in {"new", "ended"}

(* "shutdown() itself stays bounded": it returns even if stop() hangs.     *)
ShutdownReturns == main = "stopping" ~> main = "down"
=============================================================================
