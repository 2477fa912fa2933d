------------------------ MODULE WebSocketMiddleware ------------------------
(***************************************************************************)
(* The outgoing side of WebSocketMiddleware: send_binary with the          *)
(* run_backpressure policy and the BoundedFrameQueue of each client,       *)
(* against the Close callback of the connection's own thread and the       *)
(* socket that drains meanwhile.                                           *)
(*                                                                         *)
(* One event-loop thread sends, and drops backlogs when a session times    *)
(* out; its position in send_binary is pc.  clients_mutex_ is held for one *)
(* access at a time and never across a call into the socket, so every      *)
(* access under the lock and every socket call is an action of its own.    *)
(*                                                                         *)
(* Frames are numbered in the order they are sent.  Their sizes are left   *)
(* out: whether a send takes the socket buffer to the watermark is a       *)
(* choice.  pending_frames_ has no entry for a client exactly when its     *)
(* queue is empty and dropped_total is 0; an entry in that state is not    *)
(* told apart from none.                                                   *)
(***************************************************************************)
EXTENDS Naturals, Sequences, FiniteSets, FiniteSetsExt

CONSTANTS
  Clients,              \* connection ids, never used twice
  client_backlog_size,  \* max_frames_ of every BoundedFrameQueue
  MaxFrames,            \* bound: the number of frames sent in a behaviour
  NoClient

ASSUME ClientsAssumption == IsFiniteSet(Clients) /\ NoClient \notin Clients
ASSUME BacklogAssumption == client_backlog_size \in Nat
ASSUME FramesAssumption  == MaxFrames \in Nat

VARIABLES
  conn,                       \* as in BridgeServer
  congested,                  \* clients with bufferedAmount() >= watermark
  pending_frames,             \* pending_frames_[c].frames_
  dropped_total,              \* pending_frames_[c].dropped_total_
  dropped_from_disconnected,
  heavy_shed_total,
  last_drop_warn,             \* clients with an entry in last_drop_warn_
  (* send_binary on the event-loop thread *)
  pc,
  to,                         \* client_identity
  frame,                      \* the frame being sent; also the last number used
  heavy,                      \* its priority is kHeavy
  max_flush,                  \* frames this call may still flush
  queued,                     \* the frame popped from the backlog, 0 if none
  (* history *)
  sent,                       \* the frames handed to each client's socket
  forwarded,                  \* the frames reported kDelivered or kQueued
  evicted,                    \* the frames dropped on overflow
  discarded                   \* forwarded frames a closed session or socket lost

queueVars == <<pending_frames, dropped_total, dropped_from_disconnected>>
callVars  == <<to, frame, heavy>>
history   == <<sent, forwarded, evicted, discarded>>
vars == <<conn, congested, queueVars, heavy_shed_total, last_drop_warn,
          pc, callVars, max_flush, queued, history>>

ConnStates == {"new", "open", "closing", "erasing", "gone"}
PcStates   == {"idle", "flush", "flush_send", "current", "queue", "shed", "warn"}

(* clients_ *)
Connected == {c \in Clients : conn[c] \notin {"new", "gone"}}

(* dropped_frame_count() *)
dropped_frame_count ==
  dropped_from_disconnected + MapThenSumSet(LAMBDA c : dropped_total[c], Clients)

Frames == 1..MaxFrames
SeqSet(s) == {s[i] : i \in DOMAIN s}

TypeOK ==
  /\ conn \in [Clients -> ConnStates]
  /\ congested \in SUBSET Clients
  /\ pending_frames \in [Clients -> Seq(Frames)]
  /\ dropped_total \in [Clients -> Nat]
  /\ dropped_from_disconnected \in Nat
  /\ heavy_shed_total \in Nat
  /\ last_drop_warn \in SUBSET Clients
  /\ pc \in PcStates
  /\ to \in Clients \cup {NoClient}
  /\ frame \in 0..MaxFrames
  /\ heavy \in BOOLEAN
  /\ max_flush \in Nat
  /\ queued \in 0..MaxFrames
  /\ sent \in [Clients -> Seq(Frames)]
  /\ forwarded \in [Clients -> SUBSET Frames]
  /\ evicted \in [Clients -> SUBSET Frames]
  /\ discarded \in [Clients -> SUBSET Frames]

Init ==
  /\ conn = [c \in Clients |-> "new"]
  /\ congested = {}
  /\ pending_frames = [c \in Clients |-> <<>>]
  /\ dropped_total = [c \in Clients |-> 0]
  /\ dropped_from_disconnected = 0
  /\ heavy_shed_total = 0
  /\ last_drop_warn = {}
  /\ pc = "idle"
  /\ to = NoClient
  /\ frame = 0
  /\ heavy = FALSE
  /\ max_flush = 0
  /\ queued = 0
  /\ sent = [c \in Clients |-> <<>>]
  /\ forwarded = [c \in Clients |-> {}]
  /\ evicted = [c \in Clients |-> {}]
  /\ discarded = [c \in Clients |-> {}]

-----------------------------------------------------------------------------
(* The socket and its thread.                                              *)

Connect(c) ==
  /\ conn[c] = "new"
  /\ conn' = [conn EXCEPT ![c] = "open"]
  /\ UNCHANGED <<congested, queueVars, heavy_shed_total, last_drop_warn,
                 pc, callVars, max_flush, queued, history>>

(* The client reads: bufferedAmount() falls below the watermark.           *)
Drain(c) ==
  /\ conn[c] = "open"
  /\ c \in congested
  /\ congested' = congested \ {c}
  /\ UNCHANGED <<conn, queueVars, heavy_shed_total, last_drop_warn,
                 pc, callVars, max_flush, queued, history>>

Disconnect(c) ==
  /\ conn[c] = "open"
  /\ conn' = [conn EXCEPT ![c] = "closing"]
  /\ UNCHANGED <<congested, queueVars, heavy_shed_total, last_drop_warn,
                 pc, callVars, max_flush, queued, history>>

(* The erasure of c from pending_frames_ and last_drop_warn_ with its drop *)
(* count folded into the total: drop_pending, and the end of the Close     *)
(* callback.                                                               *)
EraseBacklog(c) ==
  /\ dropped_from_disconnected' = dropped_from_disconnected + dropped_total[c]
  /\ dropped_total' = [dropped_total EXCEPT ![c] = 0]
  /\ pending_frames' = [pending_frames EXCEPT ![c] = <<>>]
  /\ last_drop_warn' = last_drop_warn \ {c}
  /\ discarded' = [discarded EXCEPT ![c] = @ \cup SeqSet(pending_frames[c])]

(* The Close callback: on_disconnect_, which ends in drop_pending, ...     *)
CloseDrop(c) ==
  /\ conn[c] = "closing"
  /\ conn' = [conn EXCEPT ![c] = "erasing"]
  /\ EraseBacklog(c)
  /\ UNCHANGED <<congested, heavy_shed_total, pc, callVars, max_flush, queued,
                 sent, forwarded, evicted>>

(* Faulty: the count of a backlog made since drop_pending is lost. *)
CloseEraseNotFolding(c) ==
  /\ conn[c] = "erasing"
  /\ conn' = [conn EXCEPT ![c] = "gone"]
  /\ dropped_total' = [dropped_total EXCEPT ![c] = 0]
  /\ pending_frames' = [pending_frames EXCEPT ![c] = <<>>]
  /\ last_drop_warn' = last_drop_warn \ {c}
  /\ discarded' = [discarded EXCEPT ![c] = @ \cup SeqSet(pending_frames[c])]
  /\ UNCHANGED <<congested, dropped_from_disconnected, heavy_shed_total, pc, callVars,
                 max_flush, queued, sent, forwarded, evicted>>

(* ... and then the erasure from clients_.                                 *)
CloseErase(c) ==
  /\ conn[c] = "erasing"
  /\ conn' = [conn EXCEPT ![c] = "gone"]
  /\ EraseBacklog(c)
  /\ UNCHANGED <<congested, heavy_shed_total, pc, callVars, max_flush, queued,
                 sent, forwarded, evicted>>

-----------------------------------------------------------------------------
(* The event-loop thread.                                                  *)

(* send_reply: a text frame goes to the socket whatever its buffer holds;  *)
(* the case told apart is the one in which it fills the buffer.            *)
SendReply(c) ==
  /\ pc = "idle"
  /\ conn[c] = "open"
  /\ congested' = congested \cup {c}
  /\ UNCHANGED <<conn, queueVars, heavy_shed_total, last_drop_warn,
                 pc, callVars, max_flush, queued, history>>

(* drop_pending, called by cleanup_session for a session that timed out.   *)
DropPending(c) ==
  /\ pc = "idle"
  /\ conn[c] # "new"
  /\ EraseBacklog(c)
  /\ UNCHANGED <<conn, congested, heavy_shed_total, pc, callVars, max_flush, queued,
                 sent, forwarded, evicted>>

(* send_binary: the lookup of the client and of its backlog's size.        *)
SendBinary(c) ==
  /\ pc = "idle"
  /\ frame < MaxFrames
  /\ conn[c] # "new"
  /\ to' = c
  /\ frame' = frame + 1
  /\ heavy' \in BOOLEAN
  /\ IF c \in Connected
     THEN pc' = "flush" /\ max_flush' = Len(pending_frames[c])
     ELSE pc' = "idle" /\ UNCHANGED max_flush
  /\ UNCHANGED <<conn, congested, queueVars, heavy_shed_total, last_drop_warn, queued, history>>

(* Faulty: the watermark is not checked again for each flushed frame. *)
FlushPopUnchecked ==
  /\ pc = "flush"
  /\ max_flush > 0
  /\ pending_frames[to] # <<>>
  /\ queued' = Head(pending_frames[to])
  /\ pending_frames' = [pending_frames EXCEPT ![to] = Tail(@)]
  /\ pc' = "flush_send"
  /\ UNCHANGED <<conn, congested, dropped_total, dropped_from_disconnected, heavy_shed_total,
                 last_drop_warn, callVars, max_flush, history>>

(* Faulty: the frame is copied and stays in the backlog. *)
FlushPopKeeping ==
  /\ pc = "flush"
  /\ max_flush > 0
  /\ to \notin congested
  /\ pending_frames[to] # <<>>
  /\ queued' = Head(pending_frames[to])
  /\ pc' = "flush_send"
  /\ UNCHANGED <<conn, congested, queueVars, heavy_shed_total, last_drop_warn,
                 callVars, max_flush, history>>

(* One turn of the flush loop: the buffer has room and a frame is popped.  *)
(* Nothing but this thread fills the buffer, so the room it saw is still   *)
(* there under the lock.                                                   *)
FlushPop ==
  /\ pc = "flush"
  /\ max_flush > 0
  /\ to \notin congested
  /\ pending_frames[to] # <<>>
  /\ queued' = Head(pending_frames[to])
  /\ pending_frames' = [pending_frames EXCEPT ![to] = Tail(@)]
  /\ pc' = "flush_send"
  /\ UNCHANGED <<conn, congested, dropped_total, dropped_from_disconnected, heavy_shed_total,
                 last_drop_warn, callVars, max_flush, history>>

(* Faulty: a congested socket is waited for. *)
FlushEndWaiting ==
  /\ pc = "flush"
  /\ max_flush = 0 \/ pending_frames[to] = <<>>
  /\ pc' = "current"
  /\ UNCHANGED <<conn, congested, queueVars, heavy_shed_total, last_drop_warn,
                 callVars, max_flush, queued, history>>

(* The loop ends: all flushed, the buffer is full, or the backlog is gone. *)
FlushEnd ==
  /\ pc = "flush"
  /\ max_flush = 0 \/ to \in congested \/ pending_frames[to] = <<>>
  /\ pc' = "current"
  /\ UNCHANGED <<conn, congested, queueVars, heavy_shed_total, last_drop_warn,
                 callVars, max_flush, queued, history>>

(* ws->sendBinary(f) on an open socket.                                    *)
Transmit(f) ==
  /\ conn[to] = "open"
  /\ sent' = [sent EXCEPT ![to] = Append(@, f)]
  /\ congested' \in {congested, congested \cup {to}}

FlushSend ==
  /\ pc = "flush_send"
  /\ Transmit(queued)
  /\ queued' = 0
  /\ max_flush' = max_flush - 1
  /\ pc' = "flush"
  /\ UNCHANGED <<conn, queueVars, heavy_shed_total, last_drop_warn, callVars,
                 forwarded, evicted, discarded>>

(* ws->sendBinary fails: the socket is closed.  kClientGone.               *)
FlushSendFails ==
  /\ pc = "flush_send"
  /\ conn[to] # "open"
  /\ discarded' = [discarded EXCEPT ![to] = @ \cup {queued}]
  /\ queued' = 0
  /\ pc' = "idle"
  /\ UNCHANGED <<conn, congested, queueVars, heavy_shed_total, last_drop_warn, callVars,
                 max_flush, sent, forwarded, evicted>>

(* The current frame, while the buffer has room: kDelivered ...            *)
CurrentSend ==
  /\ pc = "current"
  /\ to \notin congested
  /\ Transmit(frame)
  /\ forwarded' = [forwarded EXCEPT ![to] = @ \cup {frame}]
  /\ pc' = "idle"
  /\ UNCHANGED <<conn, queueVars, heavy_shed_total, last_drop_warn, callVars, max_flush,
                 queued, evicted, discarded>>

(* ... or kClientGone.                                                     *)
CurrentSendFails ==
  /\ pc = "current"
  /\ to \notin congested
  /\ conn[to] # "open"
  /\ pc' = "idle"
  /\ UNCHANGED <<conn, congested, queueVars, heavy_shed_total, last_drop_warn, callVars,
                 max_flush, queued, history>>

(* The buffer is full: a heavy frame is shed, another one queued.          *)
CurrentCongested ==
  /\ pc = "current"
  /\ to \in congested
  /\ pc' = IF heavy THEN "shed" ELSE "queue"
  /\ UNCHANGED <<conn, congested, queueVars, heavy_shed_total, last_drop_warn, callVars,
                 max_flush, queued, history>>

(* kShed is counted for a client that is still there.                      *)
Shed ==
  /\ pc = "shed"
  /\ IF to \in Connected
     THEN pc' = "warn" /\ heavy_shed_total' = heavy_shed_total + 1
     ELSE pc' = "idle" /\ UNCHANGED heavy_shed_total
  /\ UNCHANGED <<conn, congested, queueVars, last_drop_warn, callVars, max_flush, queued, history>>

(* Faulty: a full queue drops the new frame. *)
PushDroppingNewest(q, f) == IF Len(q) < client_backlog_size THEN Append(q, f) ELSE q

(* BoundedFrameQueue::push: a full queue drops its oldest frame, a queue   *)
(* of capacity 0 the new one.                                              *)
Push(q, f) ==
  IF Len(q) < client_backlog_size THEN Append(q, f)
  ELSE IF client_backlog_size = 0 THEN q ELSE Append(Tail(q), f)

(* Faulty: no second look at clients_. *)
QueueUnchecked ==
  LET q       == pending_frames[to]
      dropped == (SeqSet(q) \cup {frame}) \ SeqSet(Push(q, frame))
  IN  /\ pc = "queue"
      /\ pending_frames' = [pending_frames EXCEPT ![to] = Push(q, frame)]
      /\ dropped_total' = [dropped_total EXCEPT ![to] = @ + Cardinality(dropped)]
      /\ evicted' = [evicted EXCEPT ![to] = @ \cup dropped]
      /\ forwarded' = [forwarded EXCEPT ![to] = @ \cup {frame}]
      /\ pc' = IF dropped = {} THEN "idle" ELSE "warn"
      /\ UNCHANGED <<conn, congested, dropped_from_disconnected, heavy_shed_total,
                     last_drop_warn, callVars, max_flush, queued, sent, discarded>>

(* queue_pending, for a client still in clients_: kQueued, with the number *)
(* of frames dropped ...                                                   *)
Queue ==
  LET q       == pending_frames[to]
      dropped == (SeqSet(q) \cup {frame}) \ SeqSet(Push(q, frame))
  IN  /\ pc = "queue"
      /\ to \in Connected
      /\ pending_frames' = [pending_frames EXCEPT ![to] = Push(q, frame)]
      /\ dropped_total' = [dropped_total EXCEPT ![to] = @ + Cardinality(dropped)]
      /\ evicted' = [evicted EXCEPT ![to] = @ \cup dropped]
      /\ forwarded' = [forwarded EXCEPT ![to] = @ \cup {frame}]
      /\ pc' = IF dropped = {} THEN "idle" ELSE "warn"
      /\ UNCHANGED <<conn, congested, dropped_from_disconnected, heavy_shed_total,
                     last_drop_warn, callVars, max_flush, queued, sent, discarded>>

(* ... or kClientGone, for one erased since the lookup.                    *)
QueueClientGone ==
  /\ pc = "queue"
  /\ to \notin Connected
  /\ pc' = "idle"
  /\ UNCHANGED <<conn, congested, queueVars, heavy_shed_total, last_drop_warn, callVars,
                 max_flush, queued, history>>

(* The throttled warning, in a critical section of its own.                *)
Warn ==
  /\ pc = "warn"
  /\ last_drop_warn' = last_drop_warn \cup {to}
  /\ pc' = "idle"
  /\ UNCHANGED <<conn, congested, queueVars, heavy_shed_total, callVars, max_flush, queued, history>>

-----------------------------------------------------------------------------
SenderStep ==
  \/ FlushPop
  \/ FlushEnd
  \/ FlushSend
  \/ FlushSendFails
  \/ CurrentSend
  \/ CurrentSendFails
  \/ CurrentCongested
  \/ Shed
  \/ Queue
  \/ QueueClientGone
  \/ Warn

Next ==
  \/ \E c \in Clients :
       \/ Connect(c) \/ Drain(c) \/ Disconnect(c) \/ CloseDrop(c) \/ CloseErase(c)
       \/ SendReply(c) \/ DropPending(c) \/ SendBinary(c)
  \/ SenderStep

Spec == Init /\ [][Next]_vars

(* The event loop runs on; nothing is assumed of the socket or the client. *)
FairSpec == Spec /\ WF_vars(SenderStep)

-----------------------------------------------------------------------------
(* Properties.                                                             *)

(* The frames of c that a caller was told are on their way, in the order   *)
(* the backlog holds them: the one popped last, then the queue.            *)
InBacklog(c) ==
  (IF to = c /\ queued # 0 THEN <<queued>> ELSE <<>>) \o pending_frames[c]

(* send_binary's contract: a frame reported kDelivered or kQueued, and no  *)
(* other, is with the socket or in the backlog unless it was evicted on    *)
(* overflow or its session or socket ended; and it is in one place only,   *)
(* once, so no race of flush and Close delivers it twice.                  *)
ForwardedIsAccounted ==
  \A c \in Clients :
    LET backlog == SeqSet(InBacklog(c))
        out     == SeqSet(sent[c])
    IN  /\ forwarded[c] = backlog \cup out \cup evicted[c] \cup discarded[c]
        /\ Cardinality(forwarded[c]) =
             Len(InBacklog(c)) + Len(sent[c]) + Cardinality(evicted[c]) + Cardinality(discarded[c])

(* BoundedFrameQueue: the backlog is bounded, in the order the frames were *)
(* sent, and never holds a frame older than one that was evicted, so the   *)
(* newest data survives.                                                   *)
BacklogIsNewest ==
  \A c \in Clients :
    /\ Len(pending_frames[c]) <= client_backlog_size
    /\ \A i, j \in 1..Len(InBacklog(c)) : i < j => InBacklog(c)[i] < InBacklog(c)[j]
    /\ \A e \in evicted[c], f \in SeqSet(pending_frames[c]) : e < f

(* queue_pending's comment: no backlog is made again for a client that the *)
(* Close callback has erased.                                              *)
NoDeadBacklog ==
  \A c \in Clients :
    c \notin Connected => pending_frames[c] = <<>> /\ dropped_total[c] = 0

(* dropped_from_disconnected_'s comment: dropped_frame_count() stays the   *)
(* lifetime total of evicted frames through timeouts and disconnections.   *)
DroppedCountIsLifetimeTotal ==
  dropped_frame_count = MapThenSumSet(LAMBDA c : Cardinality(evicted[c]), Clients)

(* Both: where a frame is, and how many are nowhere any more.              *)
EveryFrameCounts == ForwardedIsAccounted /\ DroppedCountIsLifetimeTotal

(* run_backpressure's comment: an already congested socket is never fed    *)
(* another binary frame, not even in the middle of a flush.                *)
CongestedNeverFed ==
  [][\A c \in Clients : sent'[c] # sent[c] => c \notin congested]_vars

(* docs/API.md: the server "never blocks the publish loop": send_binary    *)
(* returns even if the client never reads another byte.                    *)
SendReturns == pc # "idle" ~> pc = "idle"

(* docs/API.md: queued frames are delivered "in order, on the next send    *)
(* attempt": a frame never overtakes older ones that wait in the backlog.  *)
NothingOvertakesBacklog ==
  [][\A c \in Clients :
       sent'[c] # sent[c] =>
         \A f \in SeqSet(pending_frames[c]) : sent'[c][Len(sent'[c])] < f]_vars

-----------------------------------------------------------------------------
(* Each client's stream: the frame popped last still waits.                *)
Stream == INSTANCE FrameStream WITH
            Capacity <- client_backlog_size,
            received <- sent,
            waiting  <- [c \in Clients |-> InBacklog(c)],
            closed   <- {c \in Clients : conn[c] \notin {"new", "open"}},
            dropped  <- dropped_frame_count

(* send_binary, run_backpressure and the Close callback implement streams  *)
(* of frames in which the backlog comes in order and whole, but for the    *)
(* frames counted as dropped and what ends with a session or a connection. *)
ImplementsFrameStream == Stream!Spec
=============================================================================
