--------------------- MODULE WebSocketMiddlewareProofs ---------------------
(***************************************************************************)
(* What send_binary and the Close callback guarantee for any number of     *)
(* clients, any backlog size and any number of frames.                     *)
(***************************************************************************)
EXTENDS WebSocketMiddleware, FiniteSetTheorems, WellFoundedInduction, TLAPS

Sorted(q) == \A i, j \in 1..Len(q) : i < j => q[i] < q[j]

(* The positions of send_binary at which the current frame has neither     *)
(* been queued nor sent.                                                   *)
Undecided == {"flush", "flush_send", "current", "queue"}

(* A call in progress is for a client; a frame is held only between pop    *)
(* and send; and the room the flush loop saw is still there when it sends. *)
CallContext ==
  /\ pc # "idle" => to \in Clients /\ frame \in Frames
  /\ pc = "flush_send" => to \notin congested /\ queued \in Frames /\ max_flush > 0
  /\ pc # "flush_send" => queued = 0

(* Backlogs are sorted and bounded, hold nothing older than an evicted     *)
(* frame, and everything queued or evicted is older than the current frame *)
(* until that is queued itself.                                            *)
BacklogOrder ==
  \A c \in Clients :
    /\ Len(pending_frames[c]) <= client_backlog_size
    /\ Sorted(pending_frames[c])
    /\ \A e \in evicted[c], f \in SeqSet(pending_frames[c]) : e < f
    /\ \A f \in SeqSet(pending_frames[c]) \cup evicted[c] :
         f <= frame /\ (pc \in Undecided => f < frame)
    /\ to = c /\ queued # 0 =>
         queued < frame /\ \A f \in SeqSet(pending_frames[c]) : queued < f

(* The inductive invariant. *)
MwInv == TypeOK /\ NoDeadBacklog /\ CallContext /\ BacklogOrder

-----------------------------------------------------------------------------
(* The frames of a queue are frames, and finitely many.                    *)
LEMMA SeqSetFacts ==
  ASSUME NEW q \in Seq(Frames)
  PROVE  /\ SeqSet(q) = {q[i] : i \in 1..Len(q)}
         /\ SeqSet(q) \in SUBSET Frames
         /\ IsFiniteSet(SeqSet(q))
<1>1. SeqSet(q) = {q[i] : i \in 1..Len(q)}
  BY DEF SeqSet
<1>2. SeqSet(q) \in SUBSET Frames
  BY <1>1
<1>3. IsFiniteSet(Frames)
  BY FS_Interval, FramesAssumption DEF Frames
<1>. QED  BY <1>1, <1>2, <1>3, FS_Subset

(* BoundedFrameQueue::push of a frame newer than the queue: the result is  *)
(* bounded and sorted, and what was dropped is older than what is kept.    *)
LEMMA PushFacts ==
  ASSUME NEW q \in Seq(Frames), NEW f \in Frames,
         Len(q) <= client_backlog_size, Sorted(q), \A g \in SeqSet(q) : g < f
  PROVE  /\ Push(q, f) \in Seq(Frames)
         /\ Len(Push(q, f)) <= client_backlog_size
         /\ Sorted(Push(q, f))
         /\ SeqSet(Push(q, f)) \subseteq SeqSet(q) \cup {f}
         /\ \A e \in (SeqSet(q) \cup {f}) \ SeqSet(Push(q, f)), g \in SeqSet(Push(q, f)) : e < g
<1>. DEFINE p == Push(q, f)
<1>. Frames \in SUBSET Nat /\ client_backlog_size \in Nat /\ Len(q) \in Nat
  BY BacklogAssumption DEF Frames
<1>1. \A i \in 1..Len(q) : q[i] < f /\ q[i] \in Frames
  BY DEF SeqSet
<1>2. CASE Len(q) < client_backlog_size
  <2>1. p = Append(q, f)
    BY <1>2 DEF Push
  <2>2. /\ p \in Seq(Frames) /\ Len(p) = Len(q) + 1
        /\ \A i \in 1..Len(q) : p[i] = q[i]
        /\ p[Len(q) + 1] = f
    BY <2>1
  <2>. HIDE DEF p
  <2>3. Sorted(p)
    BY <1>1, <2>2 DEF Sorted
  <2>4. SeqSet(p) = SeqSet(q) \cup {f}
    BY <2>2, SeqSetFacts
  <2>. QED  BY <1>2, <2>2, <2>3, <2>4 DEF p
<1>3. CASE Len(q) >= client_backlog_size /\ client_backlog_size = 0
  <2>1. p = q /\ q = <<>>
    BY <1>3 DEF Push
  <2>2. SeqSet(q) = {}
    BY <2>1 DEF SeqSet
  <2>. QED  BY <2>1, <2>2
<1>4. CASE Len(q) >= client_backlog_size /\ client_backlog_size # 0
  <2>1. p = Append(Tail(q), f) /\ q # <<>>
    BY <1>4 DEF Push
  <2>2. /\ p \in Seq(Frames) /\ Len(p) = Len(q)
        /\ \A i \in 1..(Len(q) - 1) : p[i] = q[i + 1]
        /\ p[Len(q)] = f
    BY <2>1
  <2>. HIDE DEF p
  <2>3. Sorted(p)
    BY <1>1, <2>2 DEF Sorted
  <2>4. ASSUME NEW g \in SeqSet(p)
        PROVE  g \in SeqSet(q) \cup {f} /\ q[1] < g
    <3>1. PICK i \in 1..Len(p) : g = p[i]
      BY <2>2, SeqSetFacts
    <3>2. CASE i = Len(q)
      BY <1>1, <1>4, <2>2, <3>1, <3>2
    <3>3. CASE i # Len(q)
      <4>1. i + 1 \in 1..Len(q) /\ g = q[i + 1] /\ 1 < i + 1 /\ 1 \in 1..Len(q)
        BY <2>2, <3>1, <3>3
      <4>2. q[1] < q[i + 1]
        BY <4>1 DEF Sorted
      <4>. QED  BY <4>1, <4>2, SeqSetFacts
    <3>. QED  BY <3>2, <3>3
  <2>5. ASSUME NEW e \in (SeqSet(q) \cup {f}) \ SeqSet(p)
        PROVE  e = q[1]
    <3>1. e # f
      <4>1. Len(p) \in 1..Len(p) /\ p[Len(p)] = f
        BY <1>4, <2>2
      <4>. QED  BY <2>2, <4>1, SeqSetFacts
    <3>2. PICK i \in 1..Len(q) : e = q[i]
      BY <3>1, SeqSetFacts
    <3>3. ASSUME i # 1 PROVE FALSE
      <4>1. i - 1 \in 1..(Len(q) - 1) /\ i - 1 \in 1..Len(p) /\ p[i - 1] = q[i]
        BY <2>2, <3>3
      <4>. QED  BY <2>2, <3>2, <4>1, SeqSetFacts
    <3>. QED  BY <3>2, <3>3
  <2>. QED  BY <1>4, <2>2, <2>3, <2>4, <2>5 DEF p
<1>. QED  BY <1>2, <1>3, <1>4

-----------------------------------------------------------------------------
(* Nothing has been sent or queued at first.                               *)
LEMMA MwInit == Init => MwInv
<1>. SUFFICES ASSUME Init PROVE MwInv
  OBVIOUS
<1>1. TypeOK
  <2>1. 0 \in 0..MaxFrames /\ <<>> \in Seq(Frames)
    BY FramesAssumption
  <2>. QED  BY <2>1 DEF Init, TypeOK, ConnStates, PcStates
<1>2. NoDeadBacklog /\ CallContext
  BY DEF Init, NoDeadBacklog, CallContext
<1>3. BacklogOrder
  BY BacklogAssumption DEF Init, BacklogOrder, Sorted, SeqSet
<1>. QED  BY <1>1, <1>2, <1>3 DEF MwInv

(* A step that leaves backlogs, evictions and the popped frame alone keeps *)
(* the backlogs in order if it decides on the current frame or none.       *)
LEMMA QuietKeepsOrder ==
  ASSUME MwInv, UNCHANGED <<pending_frames, evicted, to, frame>>,
         queued' \in {0, queued}, pc' \in Undecided => pc \in Undecided
  PROVE  BacklogOrder'
BY DEF MwInv, BacklogOrder, Undecided, Sorted, SeqSet

(* drop_pending and the end of the Close callback, wherever the event-loop *)
(* thread is in send_binary.                                               *)
LEMMA EraseKeepsInvariant ==
  ASSUME MwInv, NEW c \in Clients, EraseBacklog(c),
         conn' \in [Clients -> ConnStates], \A d \in Clients : d # c => conn'[d] = conn[d],
         UNCHANGED <<congested, heavy_shed_total, pc, callVars, max_flush, queued,
                     sent, forwarded, evicted>>
  PROVE  MwInv'
<1>. USE DEF MwInv
<1>0. /\ pending_frames'[c] = <<>> /\ dropped_total'[c] = 0
      /\ \A d \in Clients : d # c => pending_frames'[d] = pending_frames[d]
                                      /\ dropped_total'[d] = dropped_total[d]
  BY DEF EraseBacklog, TypeOK
<1>1. TypeOK'
  <2>1. SeqSet(pending_frames[c]) \in SUBSET Frames
    BY SeqSetFacts DEF TypeOK
  <2>2. discarded' \in [Clients -> SUBSET Frames]
    BY <2>1 DEF TypeOK, EraseBacklog
  <2>3. dropped_from_disconnected' \in Nat /\ dropped_total' \in [Clients -> Nat]
    BY DEF TypeOK, EraseBacklog
  <2>4. pending_frames' \in [Clients -> Seq(Frames)]
    BY DEF TypeOK, EraseBacklog
  <2>. QED  BY <2>2, <2>3, <2>4 DEF TypeOK, EraseBacklog, callVars
<1>2. NoDeadBacklog'
  BY <1>0 DEF NoDeadBacklog, Connected
<1>3. CallContext'
  BY DEF CallContext, callVars
<1>4. BacklogOrder'
  <2>. SUFFICES ASSUME NEW d \in Clients
                PROVE  /\ Len(pending_frames'[d]) <= client_backlog_size
                       /\ Sorted(pending_frames'[d])
                       /\ \A e \in evicted[d], f \in SeqSet(pending_frames'[d]) : e < f
                       /\ \A f \in SeqSet(pending_frames'[d]) \cup evicted[d] :
                            f <= frame /\ (pc \in Undecided => f < frame)
                       /\ to = d /\ queued # 0 =>
                            queued < frame /\ \A f \in SeqSet(pending_frames'[d]) : queued < f
    BY DEF BacklogOrder, callVars, Sorted, SeqSet
  <2>1. CASE d # c
    BY <1>0, <2>1 DEF BacklogOrder
  <2>2. CASE d = c
    <3>1. pending_frames'[d] = <<>> /\ SeqSet(pending_frames'[d]) = {}
      BY <1>0, <2>2 DEF SeqSet
    <3>. QED  BY <3>1, BacklogAssumption DEF BacklogOrder, Sorted
  <2>. QED  BY <2>1, <2>2
<1>. QED  BY <1>1, <1>2, <1>3, <1>4

(* Popping the oldest frame of a backlog.                                  *)
LEMMA FlushPopKeepsInvariant == MwInv /\ FlushPop => MwInv'
<1>. SUFFICES ASSUME MwInv, FlushPop PROVE MwInv'
  OBVIOUS
<1>. USE DEF MwInv
<1>. DEFINE q == pending_frames[to]
<1>0. /\ to \in Clients /\ frame \in Frames /\ q \in Seq(Frames) /\ q # <<>>
      /\ pending_frames' = [pending_frames EXCEPT ![to] = Tail(q)]
      /\ queued' = Head(q) /\ pc = "flush" /\ pc' = "flush_send"
  BY DEF FlushPop, CallContext, TypeOK
<1>. HIDE DEF q
<1>1. /\ Tail(q) \in Seq(Frames) /\ Len(Tail(q)) = Len(q) - 1 /\ Len(q) \in Nat
      /\ Len(q) > 0 /\ Head(q) = q[1] /\ q[1] \in Frames
      /\ \A i \in 1..(Len(q) - 1) : Tail(q)[i] = q[i + 1]
  BY <1>0
<1>2. TypeOK'
  <2>1. pending_frames' \in [Clients -> Seq(Frames)]
    BY <1>0, <1>1 DEF TypeOK
  <2>2. queued' \in 0..MaxFrames
    BY <1>0, <1>1, FramesAssumption DEF Frames
  <2>. QED  BY <1>0, <2>1, <2>2 DEF TypeOK, FlushPop, PcStates, callVars, history
<1>3. NoDeadBacklog'
  <2>1. to \in Connected
    BY <1>0 DEF NoDeadBacklog, q
  <2>. QED  BY <1>0, <2>1 DEF NoDeadBacklog, Connected, FlushPop, TypeOK
<1>4. CallContext'
  BY <1>0, <1>1 DEF CallContext, FlushPop, callVars, TypeOK
<1>5. BacklogOrder'
  <2>1. Sorted(q) /\ Len(q) <= client_backlog_size
    BY <1>0 DEF BacklogOrder, q
  <2>2. Sorted(Tail(q))
    <3>. SUFFICES ASSUME NEW i \in 1..Len(Tail(q)), NEW j \in 1..Len(Tail(q)), i < j
                  PROVE  Tail(q)[i] < Tail(q)[j]
      BY DEF Sorted
    <3>1. i + 1 \in 1..Len(q) /\ j + 1 \in 1..Len(q) /\ i + 1 < j + 1
      BY <1>1
    <3>2. Tail(q)[i] = q[i + 1] /\ Tail(q)[j] = q[j + 1]
      BY <1>1
    <3>. QED  BY <2>1, <3>1, <3>2 DEF Sorted
  <2>3. ASSUME NEW f \in SeqSet(Tail(q))
        PROVE  f \in SeqSet(q) /\ q[1] < f
    <3>1. PICK i \in 1..Len(Tail(q)) : f = Tail(q)[i]
      BY <1>1, SeqSetFacts
    <3>2. i + 1 \in 1..Len(q) /\ f = q[i + 1] /\ 1 \in 1..Len(q) /\ 1 < i + 1
      BY <1>1, <3>1
    <3>3. q[1] < q[i + 1]
      BY <2>1, <3>2 DEF Sorted
    <3>. QED  BY <1>0, <3>2, <3>3, SeqSetFacts
  <2>4. q[1] \in SeqSet(q)
    BY <1>0, <1>1, SeqSetFacts
  <2>5. q[1] < frame
    BY <1>0, <2>4 DEF BacklogOrder, Undecided, q
  <2>. SUFFICES ASSUME NEW d \in Clients
                PROVE  /\ Len(pending_frames'[d]) <= client_backlog_size
                       /\ Sorted(pending_frames'[d])
                       /\ \A e \in evicted[d], f \in SeqSet(pending_frames'[d]) : e < f
                       /\ \A f \in SeqSet(pending_frames'[d]) \cup evicted[d] : f < frame
                       /\ to = d =>
                            queued' < frame /\ \A f \in SeqSet(pending_frames'[d]) : queued' < f
    <3>1. \A d \in Clients : SeqSet(pending_frames'[d]) \cup evicted[d] \in SUBSET Nat
      <4>. SUFFICES ASSUME NEW d \in Clients
                    PROVE  SeqSet(pending_frames'[d]) \cup evicted[d] \in SUBSET Nat
        OBVIOUS
      <4>1. pending_frames'[d] \in Seq(Frames) /\ evicted[d] \in SUBSET Frames
        BY <1>2 DEF TypeOK
      <4>2. SeqSet(pending_frames'[d]) \in SUBSET Frames
        BY <4>1, SeqSetFacts
      <4>. QED  BY <4>1, <4>2 DEF Frames
    <3>2. frame \in Nat
      BY <1>0 DEF Frames
    <3>3. UNCHANGED <<evicted, to, frame>>
      BY DEF FlushPop, callVars, history
    <3>4. \A f \in Nat : f < frame => f <= frame
      BY <3>2
    <3>. HIDE DEF MwInv
    <3>. QED  BY <3>1, <3>3, <3>4 DEF BacklogOrder, Sorted, SeqSet
  <2>6. CASE d # to
    <3>1. pending_frames'[d] = pending_frames[d]
      BY <1>0, <2>6 DEF TypeOK
    <3>. QED  BY <1>0, <2>6, <3>1 DEF BacklogOrder, Undecided
  <2>7. CASE d = to
    <3>1. pending_frames'[d] = Tail(q)
      BY <1>0, <2>7 DEF TypeOK
    <3>2. Len(Tail(q)) <= client_backlog_size
      BY <1>1, <2>1, BacklogAssumption
    <3>3. \A f \in SeqSet(Tail(q)) \cup evicted[d] : f < frame
      BY <1>0, <2>3, <2>7 DEF BacklogOrder, Undecided, q
    <3>4. \A e \in evicted[d], f \in SeqSet(Tail(q)) : e < f
      BY <1>0, <2>3, <2>7 DEF BacklogOrder, q
    <3>. QED  BY <1>0, <1>1, <2>2, <2>3, <2>5, <3>1, <3>2, <3>3, <3>4
  <2>. QED  BY <2>6, <2>7
<1>. QED  BY <1>2, <1>3, <1>4, <1>5

(* Queueing the current frame, with what it evicts.                        *)
LEMMA QueueKeepsInvariant == MwInv /\ Queue => MwInv'
<1>. SUFFICES ASSUME MwInv, Queue PROVE MwInv'
  OBVIOUS
<1>. USE DEF MwInv
<1>. DEFINE q       == pending_frames[to]
            p       == Push(q, frame)
            dropped == (SeqSet(q) \cup {frame}) \ SeqSet(p)
<1>0. /\ to \in Clients /\ frame \in Frames /\ q \in Seq(Frames)
      /\ to \in Connected /\ pc = "queue" /\ pc' \in {"idle", "warn"} /\ queued = 0
      /\ pending_frames' = [pending_frames EXCEPT ![to] = p]
      /\ dropped_total' = [dropped_total EXCEPT ![to] = @ + Cardinality(dropped)]
      /\ evicted' = [evicted EXCEPT ![to] = @ \cup dropped]
      /\ forwarded' = [forwarded EXCEPT ![to] = @ \cup {frame}]
      /\ UNCHANGED <<conn, congested, dropped_from_disconnected, heavy_shed_total,
                     last_drop_warn, to, frame, heavy, max_flush, queued, sent, discarded>>
  BY DEF Queue, CallContext, TypeOK, callVars
<1>1. /\ Len(q) <= client_backlog_size /\ Sorted(q)
      /\ \A e \in evicted[to], f \in SeqSet(q) : e < f
      /\ \A f \in SeqSet(q) \cup evicted[to] : f < frame
  BY <1>0 DEF BacklogOrder, Undecided
<1>. HIDE DEF q, p, dropped
<1>2. /\ p \in Seq(Frames) /\ Len(p) <= client_backlog_size /\ Sorted(p)
      /\ SeqSet(p) \subseteq SeqSet(q) \cup {frame}
      /\ \A e \in dropped, g \in SeqSet(p) : e < g
  <2>1. \A g \in SeqSet(q) : g < frame
    BY <1>1
  <2>. QED  BY <1>0, <1>1, <2>1, PushFacts DEF p, dropped
<1>3. /\ dropped \subseteq SeqSet(q) \cup {frame}
      /\ dropped \in SUBSET Frames /\ Cardinality(dropped) \in Nat
  <2>1. dropped \subseteq SeqSet(q) \cup {frame}
    BY DEF dropped
  <2>2. dropped \in SUBSET Frames
    BY <1>0, <2>1, SeqSetFacts
  <2>3. IsFiniteSet(Frames)
    BY FS_Interval, FramesAssumption DEF Frames
  <2>. QED  BY <2>1, <2>2, <2>3, FS_Subset, FS_CardinalityType
<1>4. TypeOK'
  <2>1. pending_frames' \in [Clients -> Seq(Frames)]
    BY <1>0, <1>2 DEF TypeOK
  <2>2. dropped_total' \in [Clients -> Nat]
    BY <1>0, <1>3 DEF TypeOK
  <2>3. /\ evicted' \in [Clients -> SUBSET Frames]
        /\ forwarded' \in [Clients -> SUBSET Frames]
    BY <1>0, <1>3 DEF TypeOK
  <2>. QED  BY <1>0, <2>1, <2>2, <2>3 DEF TypeOK, PcStates
<1>5. NoDeadBacklog'
  BY <1>0 DEF NoDeadBacklog, Connected, TypeOK
<1>6. CallContext'
  BY <1>0 DEF CallContext
<1>7. BacklogOrder'
  <2>0. \A g \in SeqSet(p) \cup dropped : g \in Nat /\ g <= frame
    <3>1. \A g \in SeqSet(q) : g \in Nat /\ g < frame
      BY <1>0, <1>1, SeqSetFacts DEF Frames
    <3>2. frame \in Nat
      BY <1>0 DEF Frames
    <3>3. \A g \in SeqSet(q) \cup {frame} : g \in Nat /\ g <= frame
      BY <3>1, <3>2
    <3>. QED  BY <1>2, <1>3, <3>3
  <2>. SUFFICES ASSUME NEW d \in Clients
                PROVE  /\ Len(pending_frames'[d]) <= client_backlog_size
                       /\ Sorted(pending_frames'[d])
                       /\ \A e \in evicted'[d], f \in SeqSet(pending_frames'[d]) : e < f
                       /\ \A f \in SeqSet(pending_frames'[d]) \cup evicted'[d] : f <= frame
    BY <1>0 DEF BacklogOrder, Sorted, SeqSet, Undecided
  <2>1. CASE d # to
    <3>1. pending_frames'[d] = pending_frames[d] /\ evicted'[d] = evicted[d]
      BY <1>0, <2>1 DEF TypeOK
    <3>. QED  BY <3>1 DEF BacklogOrder
  <2>2. CASE d = to
    <3>1. pending_frames'[d] = p /\ evicted'[d] = evicted[to] \cup dropped
      BY <1>0, <2>2 DEF TypeOK
    <3>2. \A e \in evicted[to], g \in SeqSet(p) : e < g
      <4>1. \A e \in evicted[to], g \in SeqSet(q) \cup {frame} : e < g
        BY <1>1
      <4>. QED  BY <1>2, <4>1
    <3>3. \A e \in evicted[to] : e <= frame
      BY <1>0 DEF BacklogOrder
    <3>. QED  BY <1>2, <2>0, <3>1, <3>2, <3>3
  <2>. QED  BY <2>1, <2>2
<1>. QED  BY <1>4, <1>5, <1>6, <1>7

(* send_binary starts: what is queued or evicted is older than the frame.  *)
LEMMA SendBinaryKeepsInvariant ==
  ASSUME MwInv, NEW c \in Clients, SendBinary(c)
  PROVE  MwInv'
<1>. USE DEF MwInv
<1>0. /\ pc = "idle" /\ pc' \in {"flush", "idle"} /\ to' = c
      /\ frame \in Nat /\ frame' = frame + 1 /\ frame' \in Frames /\ queued = 0
      /\ UNCHANGED <<pending_frames, evicted, queued>>
  BY FramesAssumption DEF SendBinary, CallContext, TypeOK, Frames, queueVars, history
<1>1. TypeOK'
  <2>1. max_flush' \in Nat
    <3>1. pending_frames[c] \in Seq(Frames)
      BY DEF TypeOK
    <3>2. Len(pending_frames[c]) \in Nat
      BY <3>1
    <3>. QED  BY <3>2 DEF SendBinary, TypeOK
  <2>2. frame' \in 0..MaxFrames
    BY <1>0, FramesAssumption DEF Frames
  <2>. QED  BY <1>0, <2>1, <2>2 DEF SendBinary, TypeOK, PcStates, queueVars, history
<1>2. NoDeadBacklog'
  BY DEF SendBinary, NoDeadBacklog, Connected, queueVars
<1>3. CallContext'
  BY <1>0 DEF CallContext
<1>4. BacklogOrder'
  <2>1. \A d \in Clients : \A f \in SeqSet(pending_frames[d]) \cup evicted[d] :
           f \in Nat /\ f <= frame
    <3>. SUFFICES ASSUME NEW d \in Clients, NEW f \in SeqSet(pending_frames[d]) \cup evicted[d]
                  PROVE  f \in Nat /\ f <= frame
      OBVIOUS
    <3>1. pending_frames[d] \in Seq(Frames) /\ evicted[d] \in SUBSET Frames
      BY DEF TypeOK
    <3>2. SeqSet(pending_frames[d]) \in SUBSET Frames
      BY <3>1, SeqSetFacts
    <3>. QED  BY <3>1, <3>2 DEF BacklogOrder, Frames
  <2>2. \A d \in Clients : \A f \in SeqSet(pending_frames[d]) \cup evicted[d] :
           f <= frame' /\ f < frame'
    BY <1>0, <2>1
  <2>. QED  BY <1>0, <2>2 DEF BacklogOrder, Sorted, SeqSet
<1>. QED  BY <1>1, <1>2, <1>3, <1>4

(* Every step of the socket's thread and of the event loop preserves the   *)
(* invariant.                                                              *)
LEMMA MwStep == MwInv /\ [Next]_vars => MwInv'
<1>. SUFFICES ASSUME MwInv, [Next]_vars PROVE MwInv'
  OBVIOUS
<1>. USE DEF MwInv
<1>1. CASE UNCHANGED vars
  <2>1. TypeOK' /\ NoDeadBacklog' /\ CallContext'
    BY <1>1 DEF vars, queueVars, callVars, history, TypeOK, NoDeadBacklog, CallContext, Connected
  <2>2. BacklogOrder'
    BY <1>1, QuietKeepsOrder DEF vars, queueVars, callVars, history
  <2>. QED  BY <2>1, <2>2
<1>2. ASSUME NEW c \in Clients, Connect(c)
      PROVE  MwInv'
  <2>1. TypeOK'
    BY <1>2 DEF TypeOK, PcStates, ConnStates, Connect, queueVars, callVars, history
  <2>2. NoDeadBacklog' /\ CallContext'
    BY <1>2 DEF NoDeadBacklog, CallContext, Connected, Connect, queueVars, callVars, history, TypeOK
  <2>3. BacklogOrder'
    BY <1>2, QuietKeepsOrder DEF Connect, queueVars, callVars, history
  <2>. QED  BY <2>1, <2>2, <2>3
<1>3. ASSUME NEW c \in Clients, Drain(c)
      PROVE  MwInv'
  <2>1. TypeOK'
    BY <1>3 DEF TypeOK, PcStates, ConnStates, Drain, queueVars, callVars, history
  <2>2. NoDeadBacklog' /\ CallContext'
    BY <1>3 DEF NoDeadBacklog, CallContext, Connected, Drain, queueVars, callVars, history, TypeOK
  <2>3. BacklogOrder'
    BY <1>3, QuietKeepsOrder DEF Drain, queueVars, callVars, history
  <2>. QED  BY <2>1, <2>2, <2>3
<1>4. ASSUME NEW c \in Clients, Disconnect(c)
      PROVE  MwInv'
  <2>1. TypeOK'
    BY <1>4 DEF TypeOK, PcStates, ConnStates, Disconnect, queueVars, callVars, history
  <2>2. NoDeadBacklog' /\ CallContext'
    BY <1>4 DEF NoDeadBacklog, CallContext, Connected, Disconnect, queueVars, callVars, history, TypeOK
  <2>3. BacklogOrder'
    BY <1>4, QuietKeepsOrder DEF Disconnect, queueVars, callVars, history
  <2>. QED  BY <2>1, <2>2, <2>3
<1>5. ASSUME NEW c \in Clients, SendReply(c)
      PROVE  MwInv'
  <2>1. TypeOK'
    BY <1>5 DEF TypeOK, PcStates, ConnStates, SendReply, queueVars, callVars, history
  <2>2. NoDeadBacklog' /\ CallContext'
    BY <1>5 DEF NoDeadBacklog, CallContext, Connected, SendReply, queueVars, callVars, history, TypeOK
  <2>3. BacklogOrder'
    BY <1>5, QuietKeepsOrder DEF SendReply, queueVars, callVars, history
  <2>. QED  BY <2>1, <2>2, <2>3
<1>6. ASSUME NEW c \in Clients, CloseDrop(c)
      PROVE  MwInv'
  <2>1. conn' \in [Clients -> ConnStates] /\ \A d \in Clients : d # c => conn'[d] = conn[d]
    BY <1>6 DEF CloseDrop, TypeOK, ConnStates
  <2>. QED  BY <1>6, <2>1, EraseKeepsInvariant DEF CloseDrop
<1>7. ASSUME NEW c \in Clients, CloseErase(c)
      PROVE  MwInv'
  <2>1. conn' \in [Clients -> ConnStates] /\ \A d \in Clients : d # c => conn'[d] = conn[d]
    BY <1>7 DEF CloseErase, TypeOK, ConnStates
  <2>. QED  BY <1>7, <2>1, EraseKeepsInvariant DEF CloseErase
<1>8. ASSUME NEW c \in Clients, DropPending(c)
      PROVE  MwInv'
  <2>1. conn' \in [Clients -> ConnStates] /\ \A d \in Clients : d # c => conn'[d] = conn[d]
    BY <1>8 DEF DropPending, TypeOK, ConnStates
  <2>. QED  BY <1>8, <2>1, EraseKeepsInvariant DEF DropPending
<1>9. ASSUME NEW c \in Clients, SendBinary(c)
      PROVE  MwInv'
  BY <1>9, SendBinaryKeepsInvariant
<1>10. CASE FlushEnd
  <2>1. TypeOK'
    BY <1>10 DEF TypeOK, PcStates, ConnStates, FlushEnd, queueVars, callVars, history
  <2>2. NoDeadBacklog' /\ CallContext'
    BY <1>10 DEF NoDeadBacklog, CallContext, Connected, FlushEnd, queueVars, callVars, history, TypeOK
  <2>3. BacklogOrder'
    BY <1>10, QuietKeepsOrder DEF Undecided, FlushEnd, queueVars, callVars, history
  <2>. QED  BY <2>1, <2>2, <2>3
<1>11. CASE FlushSend
  <2>1. TypeOK'
    <3>1. to \in Clients /\ queued \in Frames /\ sent[to] \in Seq(Frames)
      BY <1>11 DEF FlushSend, CallContext, TypeOK
    <3>2. Append(sent[to], queued) \in Seq(Frames)
      BY <3>1
    <3>3. sent' \in [Clients -> Seq(Frames)] /\ congested' \in SUBSET Clients
      BY <1>11, <3>1, <3>2 DEF FlushSend, Transmit, TypeOK
    <3>4. max_flush' \in Nat /\ queued' \in 0..MaxFrames
      BY <1>11, FramesAssumption DEF FlushSend, CallContext, TypeOK
    <3>. QED  BY <1>11, <3>3, <3>4 DEF TypeOK, PcStates, FlushSend, queueVars, callVars, history
  <2>2. NoDeadBacklog' /\ CallContext'
    BY <1>11 DEF NoDeadBacklog, CallContext, Connected, FlushSend, Transmit, queueVars, callVars, history, TypeOK
  <2>3. BacklogOrder'
    BY <1>11, QuietKeepsOrder DEF Undecided, FlushSend, Transmit, queueVars, callVars, history
  <2>. QED  BY <2>1, <2>2, <2>3
<1>12. CASE FlushSendFails
  <2>1. TypeOK'
    <3>1. to \in Clients /\ queued \in Frames /\ 0 \in 0..MaxFrames
      BY <1>12, FramesAssumption DEF FlushSendFails, CallContext
    <3>2. discarded' \in [Clients -> SUBSET Frames]
      BY <1>12, <3>1 DEF FlushSendFails, TypeOK
    <3>. QED  BY <1>12, <3>1, <3>2 DEF TypeOK, PcStates, FlushSendFails, queueVars, callVars, history
  <2>2. NoDeadBacklog' /\ CallContext'
    BY <1>12 DEF NoDeadBacklog, CallContext, Connected, FlushSendFails, queueVars, callVars, history, TypeOK
  <2>3. BacklogOrder'
    BY <1>12, QuietKeepsOrder DEF Undecided, FlushSendFails, queueVars, callVars, history
  <2>. QED  BY <2>1, <2>2, <2>3
<1>13. CASE CurrentSend
  <2>1. TypeOK'
    <3>1. to \in Clients /\ frame \in Frames /\ sent[to] \in Seq(Frames)
      BY <1>13 DEF CurrentSend, CallContext, TypeOK
    <3>2. Append(sent[to], frame) \in Seq(Frames)
      BY <3>1
    <3>3. sent' \in [Clients -> Seq(Frames)] /\ congested' \in SUBSET Clients
      BY <1>13, <3>1, <3>2 DEF CurrentSend, Transmit, TypeOK
    <3>4. forwarded' \in [Clients -> SUBSET Frames]
      BY <1>13, <3>1 DEF CurrentSend, TypeOK
    <3>. QED  BY <1>13, <3>3, <3>4 DEF TypeOK, PcStates, CurrentSend, queueVars, callVars, history
  <2>2. NoDeadBacklog' /\ CallContext'
    BY <1>13 DEF NoDeadBacklog, CallContext, Connected, CurrentSend, Transmit, queueVars, callVars, history, TypeOK
  <2>3. BacklogOrder'
    BY <1>13, QuietKeepsOrder DEF Undecided, CurrentSend, Transmit, queueVars, callVars, history
  <2>. QED  BY <2>1, <2>2, <2>3
<1>14. CASE CurrentSendFails
  <2>1. TypeOK'
    BY <1>14 DEF TypeOK, PcStates, ConnStates, CurrentSendFails, queueVars, callVars, history
  <2>2. NoDeadBacklog' /\ CallContext'
    BY <1>14 DEF NoDeadBacklog, CallContext, Connected, CurrentSendFails, queueVars, callVars, history, TypeOK
  <2>3. BacklogOrder'
    BY <1>14, QuietKeepsOrder DEF Undecided, CurrentSendFails, queueVars, callVars, history
  <2>. QED  BY <2>1, <2>2, <2>3
<1>15. CASE CurrentCongested
  <2>1. TypeOK'
    BY <1>15 DEF TypeOK, PcStates, ConnStates, CurrentCongested, queueVars, callVars, history
  <2>2. NoDeadBacklog' /\ CallContext'
    BY <1>15 DEF NoDeadBacklog, CallContext, Connected, CurrentCongested, queueVars, callVars, history, TypeOK
  <2>3. BacklogOrder'
    BY <1>15, QuietKeepsOrder DEF Undecided, CurrentCongested, queueVars, callVars, history
  <2>. QED  BY <2>1, <2>2, <2>3
<1>16. CASE Shed
  <2>1. TypeOK'
    <3>1. heavy_shed_total' \in Nat /\ pc' \in PcStates
      BY <1>16 DEF Shed, TypeOK, PcStates
    <3>. QED  BY <1>16, <3>1 DEF TypeOK, Shed, queueVars, callVars, history
  <2>2. NoDeadBacklog' /\ CallContext'
    BY <1>16 DEF NoDeadBacklog, CallContext, Connected, Shed, queueVars, callVars, history, TypeOK
  <2>3. BacklogOrder'
    BY <1>16, QuietKeepsOrder DEF Undecided, Shed, queueVars, callVars, history
  <2>. QED  BY <2>1, <2>2, <2>3
<1>17. CASE QueueClientGone
  <2>1. TypeOK'
    BY <1>17 DEF TypeOK, PcStates, ConnStates, QueueClientGone, queueVars, callVars, history
  <2>2. NoDeadBacklog' /\ CallContext'
    BY <1>17 DEF NoDeadBacklog, CallContext, Connected, QueueClientGone, queueVars, callVars, history, TypeOK
  <2>3. BacklogOrder'
    BY <1>17, QuietKeepsOrder DEF Undecided, QueueClientGone, queueVars, callVars, history
  <2>. QED  BY <2>1, <2>2, <2>3
<1>18. CASE Warn
  <2>1. TypeOK'
    <3>1. to \in Clients
      BY <1>18 DEF Warn, CallContext
    <3>. QED  BY <1>18, <3>1 DEF TypeOK, PcStates, Warn, queueVars, callVars, history
  <2>2. NoDeadBacklog' /\ CallContext'
    BY <1>18 DEF NoDeadBacklog, CallContext, Connected, Warn, queueVars, callVars, history, TypeOK
  <2>3. BacklogOrder'
    BY <1>18, QuietKeepsOrder DEF Undecided, Warn, queueVars, callVars, history
  <2>. QED  BY <2>1, <2>2, <2>3
<1>19. CASE FlushPop
  BY <1>19, FlushPopKeepsInvariant
<1>20. CASE Queue
  BY <1>20, QueueKeepsInvariant
<1>21. CASE SenderStep
  BY <1>21, <1>10, <1>11, <1>12, <1>13, <1>14, <1>15, <1>16, <1>17, <1>18, <1>19, <1>20 DEF SenderStep
<1>. QED  BY <1>1, <1>2, <1>3, <1>4, <1>5, <1>6, <1>7, <1>8, <1>9, <1>21 DEF Next

(* MwInv is an invariant of send_binary against the Close callback.        *)
THEOREM MwInvariant == Spec => []MwInv
<1>1. Init => MwInv
  BY MwInit
<1>2. MwInv /\ [Next]_vars => MwInv'
  BY MwStep
<1>. QED  BY <1>1, <1>2, PTL DEF Spec

(* Every variable of send_binary keeps its type: a client is being served, *)
(* every count is a natural number, only real frames reach a socket.       *)
THEOREM MwTypeCorrect == Spec => []TypeOK
<1>1. MwInv => TypeOK
  BY DEF MwInv
<1>. QED  BY <1>1, MwInvariant, PTL

(* queue_pending never makes a backlog again for a client that the Close   *)
(* callback has erased.                                                    *)
THEOREM NoBacklogOutlivesClient == Spec => []NoDeadBacklog
<1>1. MwInv => NoDeadBacklog
  BY DEF MwInv
<1>. QED  BY <1>1, MwInvariant, PTL

(* The popped frame and the queue after it are in the order they were      *)
(* sent, bounded, and newer than everything evicted.                       *)
THEOREM BacklogsKeepTheNewest == Spec => []BacklogIsNewest
<1>1. MwInv => BacklogIsNewest
  <2>. SUFFICES ASSUME MwInv, NEW c \in Clients
                PROVE  /\ Len(pending_frames[c]) <= client_backlog_size
                       /\ Sorted(InBacklog(c))
                       /\ \A e \in evicted[c], f \in SeqSet(pending_frames[c]) : e < f
    BY DEF BacklogIsNewest, Sorted
  <2>. DEFINE q == pending_frames[c]
  <2>1. /\ q \in Seq(Frames) /\ Sorted(q)
        /\ Len(q) <= client_backlog_size /\ \A e \in evicted[c], f \in SeqSet(q) : e < f
    BY DEF MwInv, TypeOK, BacklogOrder
  <2>2. CASE to = c /\ queued # 0
    <3>1. queued \in Frames /\ \A f \in SeqSet(q) : queued < f
      BY <2>2 DEF MwInv, CallContext, BacklogOrder
    <3>2. InBacklog(c) = <<queued>> \o q
      BY <2>2 DEF InBacklog
    <3>. HIDE DEF q
    <3>. DEFINE p == <<queued>> \o q
    <3>3. /\ Len(q) \in Nat /\ Len(p) = Len(q) + 1 /\ p[1] = queued
          /\ \A i \in 2..(Len(q) + 1) : p[i] = q[i - 1]
      BY <2>1, <3>1
    <3>. HIDE DEF p
    <3>4. ASSUME NEW i \in 1..Len(p), NEW j \in 1..Len(p), i < j
          PROVE  p[i] < p[j]
      <4>1. j \in 2..(Len(q) + 1) /\ j - 1 \in 1..Len(q) /\ p[j] = q[j - 1]
        BY <3>3, <3>4
      <4>2. CASE i = 1
        <5>1. q[j - 1] \in SeqSet(q)
          BY <2>1, <4>1, SeqSetFacts
        <5>. QED  BY <3>1, <3>3, <4>1, <4>2, <5>1
      <4>3. CASE i # 1
        <5>1. i - 1 \in 1..Len(q) /\ p[i] = q[i - 1] /\ i - 1 < j - 1
          BY <3>3, <3>4, <4>3
        <5>. QED  BY <2>1, <4>1, <5>1 DEF Sorted
      <4>. QED  BY <4>2, <4>3
    <3>5. Sorted(p)
      BY <3>4 DEF Sorted
    <3>. QED  BY <2>1, <3>2, <3>5 DEF p, q
  <2>3. CASE ~(to = c /\ queued # 0)
    <3>1. InBacklog(c) = <<>> \o q
      BY <2>3 DEF InBacklog
    <3>. HIDE DEF q
    <3>2. <<>> \o q = q
      BY <2>1
    <3>. QED  BY <2>1, <3>1, <3>2 DEF q
  <2>. QED  BY <2>2, <2>3
<1>. QED  BY <1>1, MwInvariant, PTL

(* No step hands a binary frame to a socket whose buffer is at the         *)
(* watermark, in the flush loop or after it.                               *)
THEOREM CongestedSocketsAreSpared == Spec => CongestedNeverFed
<1>. DEFINE Spared == \A c \in Clients : sent'[c] # sent[c] => c \notin congested
<1>1. MwInv /\ [Next]_vars => [Spared]_vars
  <2>. SUFFICES ASSUME MwInv, Next PROVE Spared
    OBVIOUS
  <2>. SUFFICES ASSUME NEW c \in Clients, sent'[c] # sent[c]
                PROVE  c \notin congested
    OBVIOUS
  <2>1. ASSUME FlushSend \/ CurrentSend PROVE c \notin congested
    <3>1. to \notin congested /\ (\E f : Transmit(f))
      BY <2>1 DEF FlushSend, CurrentSend, MwInv, CallContext
    <3>2. c = to
      BY <3>1 DEF Transmit, MwInv, TypeOK
    <3>. QED  BY <3>1, <3>2
  <2>2. sent' # sent
    OBVIOUS
  <2>3. FlushSend \/ CurrentSend
    BY <2>2 DEF Next, SenderStep, Connect, Drain, Disconnect, CloseDrop, CloseErase, SendReply,
       DropPending, SendBinary, FlushPop, FlushEnd, FlushSendFails, CurrentSendFails,
       CurrentCongested, Shed, Queue, QueueClientGone, Warn, history
  <2>. QED  BY <2>1, <2>3
<1>. HIDE DEF Spared
<1>2. Spec => [][Spared]_vars
  BY <1>1, MwInvariant, PTL DEF Spec
<1>. QED  BY <1>2 DEF CongestedNeverFed, Spared

-----------------------------------------------------------------------------
(* Where the forwarded frames are.  F is the disjoint union of the frames  *)
(* waiting in the queue, the one popped from it, those with the socket,    *)
(* the evicted and the discarded ones.                                     *)
Partition(F, waiting, held, out, lost, dead) ==
  /\ F = waiting \cup held \cup out \cup lost \cup dead
  /\ waiting \cap (held \cup out \cup lost \cup dead) = {}
  /\ held \cap (out \cup lost \cup dead) = {}
  /\ out \cap (lost \cup dead) = {}
  /\ lost \cap dead = {}

Held(c) == IF to = c /\ queued # 0 THEN {queued} ELSE {}

Distinct(q) == \A i, j \in 1..Len(q) : q[i] = q[j] => i = j

(* With that, a frame that is neither sent nor queued yet is new.          *)
AccountedFor(c) ==
  /\ Partition(forwarded[c], SeqSet(pending_frames[c]), Held(c), SeqSet(sent[c]),
               evicted[c], discarded[c])
  /\ Distinct(sent[c])
  /\ \A f \in forwarded[c] : f <= frame /\ (pc \in Undecided => f < frame)

Accounted == \A c \in Clients : AccountedFor(c)

(* A frame at the end of a sequence, and one taken from its beginning.     *)
LEMMA AppendFacts ==
  ASSUME NEW q \in Seq(Frames), NEW f \in Frames
  PROVE  /\ SeqSet(Append(q, f)) = SeqSet(q) \cup {f}
         /\ Distinct(q) /\ f \notin SeqSet(q) => Distinct(Append(q, f))
<1>. DEFINE p == Append(q, f)
<1>1. /\ p \in Seq(Frames) /\ Len(p) = Len(q) + 1 /\ Len(q) \in Nat
      /\ \A i \in 1..Len(q) : p[i] = q[i]
      /\ p[Len(q) + 1] = f
  OBVIOUS
<1>. HIDE DEF p
<1>2. SeqSet(p) = SeqSet(q) \cup {f}
  <2>1. \A g \in SeqSet(p) : g \in SeqSet(q) \cup {f}
    BY <1>1, SeqSetFacts
  <2>2. \A i \in 1..Len(q) : q[i] \in SeqSet(p)
    BY <1>1, SeqSetFacts
  <2>3. f \in SeqSet(p)
    BY <1>1, SeqSetFacts
  <2>. QED  BY <2>1, <2>2, <2>3, SeqSetFacts
<1>3. ASSUME Distinct(q), f \notin SeqSet(q) PROVE Distinct(p)
  <2>1. \A i \in 1..Len(q) : q[i] # f
    BY <1>3, SeqSetFacts
  <2>. QED  BY <1>1, <1>3, <2>1 DEF Distinct
<1>. QED  BY <1>2, <1>3 DEF p

(* Popping takes the first frame out of a sorted backlog, and no other.    *)
LEMMA TailFacts ==
  ASSUME NEW q \in Seq(Frames), q # <<>>, Sorted(q)
  PROVE  /\ SeqSet(q) = SeqSet(Tail(q)) \cup {Head(q)}
         /\ Head(q) \notin SeqSet(Tail(q))
<1>. DEFINE p == Tail(q)
<1>1. /\ p \in Seq(Frames) /\ Len(p) = Len(q) - 1 /\ Len(q) \in Nat /\ Len(q) > 0
      /\ \A i \in 1..(Len(q) - 1) : p[i] = q[i + 1]
      /\ Head(q) = q[1]
  OBVIOUS
<1>. HIDE DEF p
<1>2. \A i \in 2..Len(q) : q[1] < q[i] /\ q[1] # q[i]
  <2>1. \A i \in 1..Len(q) : q[i] \in Nat
    <3>1. \A i \in 1..Len(q) : q[i] \in Frames
      OBVIOUS
    <3>2. Frames \in SUBSET Nat
      BY DEF Frames
    <3>. QED  BY <3>1, <3>2
  <2>2. \A i \in 2..Len(q) : q[1] < q[i] /\ 1 \in 1..Len(q) /\ i \in 1..Len(q)
    BY <1>1 DEF Sorted
  <2>. QED  BY <2>1, <2>2
<1>3. SeqSet(p) = {q[i] : i \in 2..Len(q)}
  <2>1. \A i \in 1..Len(p) : p[i] = q[i + 1] /\ i + 1 \in 2..Len(q)
    BY <1>1
  <2>2. \A i \in 2..Len(q) : q[i] = p[i - 1] /\ i - 1 \in 1..Len(p)
    BY <1>1
  <2>3. SeqSet(p) = {p[i] : i \in 1..Len(p)}
    BY <1>1, SeqSetFacts
  <2>4. \A x \in SeqSet(p) : \E i \in 2..Len(q) : x = q[i]
    BY <2>1, <2>3
  <2>5. \A i \in 2..Len(q) : q[i] \in SeqSet(p)
    BY <2>2, <2>3
  <2>. QED  BY <2>4, <2>5
<1>4. SeqSet(q) = {q[i] : i \in 2..Len(q)} \cup {q[1]}
  <2>1. 1..Len(q) = (2..Len(q)) \cup {1}
    BY <1>1
  <2>. QED  BY <2>1, SeqSetFacts
<1>. QED  BY <1>1, <1>2, <1>3, <1>4 DEF p

(* A step that moves no frame.                                             *)
LEMMA QuietKeepsAccounts ==
  ASSUME Accounted, pc' \in Undecided => pc \in Undecided,
         UNCHANGED <<pending_frames, queued, to, frame, sent, forwarded, evicted, discarded>>
  PROVE  Accounted'
<1>. SUFFICES ASSUME NEW c \in Clients PROVE AccountedFor(c)'
  BY DEF Accounted
<1>1. AccountedFor(c)
  BY DEF Accounted
<1>2. Partition(forwarded[c], SeqSet(pending_frames[c]), Held(c), SeqSet(sent[c]),
                evicted[c], discarded[c])'
  BY <1>1 DEF AccountedFor, Held, SeqSet, Partition
<1>. QED  BY <1>1, <1>2 DEF AccountedFor, Distinct

(* drop_pending and the Close callback: the queue is discarded, a frame    *)
(* that was popped is not.                                                 *)
LEMMA EraseKeepsAccounts ==
  ASSUME MwInv, Accounted, NEW c \in Clients, EraseBacklog(c),
         UNCHANGED <<pc, callVars, max_flush, queued, sent, forwarded, evicted>>
  PROVE  Accounted'
<1>. SUFFICES ASSUME NEW d \in Clients PROVE AccountedFor(d)'
  BY DEF Accounted
<1>1. AccountedFor(d)
  BY DEF Accounted
<1>2. CASE d = c
  <2>1. pending_frames'[d] = <<>> /\ discarded'[d] = discarded[d] \cup SeqSet(pending_frames[d])
    BY <1>2 DEF EraseBacklog, MwInv, TypeOK
  <2>2. SeqSet(pending_frames'[d]) = {}
    BY <2>1 DEF SeqSet
  <2>3. SeqSet(sent'[d]) = SeqSet(sent[d]) /\ Held(d)' = Held(d)
    BY DEF Held, callVars
  <2>4. Partition(forwarded[d], {}, Held(d), SeqSet(sent[d]), evicted[d],
                  discarded[d] \cup SeqSet(pending_frames[d]))
    BY <1>1 DEF AccountedFor, Partition
  <2>. QED  BY <1>1, <2>1, <2>2, <2>3, <2>4 DEF AccountedFor, Distinct, callVars
<1>3. CASE d # c
  <2>1. pending_frames'[d] = pending_frames[d] /\ discarded'[d] = discarded[d]
    BY <1>3 DEF EraseBacklog, MwInv, TypeOK
  <2>2. Held(d)' = Held(d)
    BY DEF Held, callVars
  <2>. QED  BY <1>1, <2>1, <2>2 DEF AccountedFor, Distinct, callVars
<1>. QED  BY <1>2, <1>3

(* A new frame.                                                            *)
LEMMA SendBinaryKeepsAccounts ==
  ASSUME MwInv, Accounted, NEW c \in Clients, SendBinary(c)
  PROVE  Accounted'
<1>. SUFFICES ASSUME NEW d \in Clients PROVE AccountedFor(d)'
  BY DEF Accounted
<1>1. AccountedFor(d)
  BY DEF Accounted
<1>2. /\ frame' = frame + 1 /\ frame \in Nat /\ queued = 0
      /\ UNCHANGED <<pending_frames, queued, sent, forwarded, evicted, discarded>>
  BY FramesAssumption DEF SendBinary, MwInv, CallContext, TypeOK, queueVars, history
<1>3. Held(d) = {} /\ Held(d)' = {}
  BY <1>2 DEF Held
<1>4. \A f \in forwarded[d] : f \in Nat
  BY DEF MwInv, TypeOK, Frames
<1>5. \A f \in forwarded[d] : f <= frame' /\ f < frame'
  BY <1>1, <1>2, <1>4 DEF AccountedFor
<1>. QED  BY <1>1, <1>2, <1>3, <1>5 DEF AccountedFor, Distinct, SeqSet

(* From the queue to the sender.                                           *)
LEMMA FlushPopKeepsAccounts ==
  ASSUME MwInv, Accounted, FlushPop
  PROVE  Accounted'
<1>. SUFFICES ASSUME NEW d \in Clients PROVE AccountedFor(d)'
  BY DEF Accounted
<1>. DEFINE q == pending_frames[to]
<1>1. AccountedFor(d)
  BY DEF Accounted
<1>2. /\ to \in Clients /\ q \in Seq(Frames) /\ q # <<>> /\ Sorted(q) /\ queued = 0
      /\ pending_frames' = [pending_frames EXCEPT ![to] = Tail(q)] /\ queued' = Head(q)
      /\ pc = "flush" /\ pc' = "flush_send"
      /\ UNCHANGED <<to, frame, sent, forwarded, evicted, discarded>>
  BY DEF FlushPop, MwInv, CallContext, TypeOK, BacklogOrder, callVars, history
<1>3. SeqSet(q) = SeqSet(Tail(q)) \cup {Head(q)} /\ Head(q) \notin SeqSet(Tail(q))
  BY <1>2, TailFacts
<1>4. Head(q) # 0
  <2>1. Head(q) \in Frames
    BY <1>2
  <2>. QED  BY <2>1 DEF Frames
<1>5. CASE d = to
  <2>1. /\ Held(d) = {} /\ Held(d)' = {Head(q)} /\ pending_frames'[d] = Tail(q)
    BY <1>2, <1>4, <1>5 DEF Held, MwInv, TypeOK
  <2>2. Partition(forwarded[d], SeqSet(q), {}, SeqSet(sent[d]), evicted[d], discarded[d])
    BY <1>1, <1>5, <2>1 DEF AccountedFor
  <2>3. Partition(forwarded[d], SeqSet(Tail(q)), {Head(q)}, SeqSet(sent[d]), evicted[d], discarded[d])
    BY <1>3, <2>2 DEF Partition
  <2>. QED  BY <1>1, <1>2, <2>1, <2>3 DEF AccountedFor, Distinct, SeqSet, Undecided
<1>6. CASE d # to
  <2>1. Held(d) = {} /\ Held(d)' = {} /\ pending_frames'[d] = pending_frames[d]
    BY <1>2, <1>6 DEF Held, MwInv, TypeOK
  <2>. QED  BY <1>1, <1>2, <2>1 DEF AccountedFor, Distinct, SeqSet, Undecided
<1>. QED  BY <1>5, <1>6

(* From the sender to the socket, or nowhere if that is closed.            *)
LEMMA FlushSendKeepsAccounts ==
  ASSUME MwInv, Accounted, FlushSend \/ FlushSendFails
  PROVE  Accounted'
<1>. SUFFICES ASSUME NEW d \in Clients PROVE AccountedFor(d)'
  BY DEF Accounted
<1>1. AccountedFor(d)
  BY DEF Accounted
<1>2. /\ to \in Clients /\ queued \in Frames /\ queued # 0 /\ queued' = 0 /\ pc = "flush_send"
      /\ UNCHANGED <<to, frame, pending_frames, forwarded, evicted>>
  BY DEF FlushSend, FlushSendFails, MwInv, CallContext, TypeOK, Frames, callVars, queueVars
<1>3. Held(d)' = {} /\ Held(d) = IF d = to THEN {queued} ELSE {}
  BY <1>2 DEF Held
<1>4. \A f \in forwarded'[d] : f <= frame' /\ (pc' \in Undecided => f < frame')
  BY <1>1, <1>2 DEF AccountedFor, Undecided
<1>5. CASE d = to
  <2>1. CASE FlushSend
    <3>1. sent'[d] = Append(sent[d], queued) /\ sent[d] \in Seq(Frames) /\ discarded' = discarded
      BY <1>2, <1>5, <2>1 DEF FlushSend, Transmit, MwInv, TypeOK
    <3>2. queued \notin SeqSet(sent[d])
      BY <1>1, <1>3, <1>5 DEF AccountedFor, Partition
    <3>3. SeqSet(sent'[d]) = SeqSet(sent[d]) \cup {queued} /\ Distinct(sent'[d])
      BY <1>1, <1>2, <3>1, <3>2, AppendFacts DEF AccountedFor
    <3>4. Partition(forwarded[d], SeqSet(pending_frames[d]), {}, SeqSet(sent[d]) \cup {queued},
                    evicted[d], discarded[d])
      BY <1>1, <1>3, <1>5 DEF AccountedFor, Partition
    <3>. QED  BY <1>2, <1>3, <1>4, <3>1, <3>3, <3>4 DEF AccountedFor
  <2>2. CASE FlushSendFails
    <3>1. discarded'[d] = discarded[d] \cup {queued} /\ sent' = sent
      BY <1>2, <1>5, <2>2 DEF FlushSendFails, MwInv, TypeOK
    <3>2. Partition(forwarded[d], SeqSet(pending_frames[d]), {}, SeqSet(sent[d]),
                    evicted[d], discarded[d] \cup {queued})
      BY <1>1, <1>3, <1>5 DEF AccountedFor, Partition
    <3>. QED  BY <1>1, <1>2, <1>3, <1>4, <3>1, <3>2 DEF AccountedFor
  <2>. QED  BY <2>1, <2>2
<1>6. CASE d # to
  <2>1. sent'[d] = sent[d] /\ discarded'[d] = discarded[d]
    BY <1>2, <1>6 DEF FlushSend, FlushSendFails, Transmit, MwInv, TypeOK
  <2>. QED  BY <1>1, <1>2, <1>3, <1>4, <1>6, <2>1 DEF AccountedFor
<1>. QED  BY <1>5, <1>6

(* The current frame goes to the socket.                                   *)
LEMMA CurrentSendKeepsAccounts ==
  ASSUME MwInv, Accounted, CurrentSend
  PROVE  Accounted'
<1>. SUFFICES ASSUME NEW d \in Clients PROVE AccountedFor(d)'
  BY DEF Accounted
<1>1. AccountedFor(d)
  BY DEF Accounted
<1>2. /\ to \in Clients /\ frame \in Frames /\ pc = "current" /\ pc' = "idle"
      /\ UNCHANGED <<to, frame, queued, pending_frames, evicted, discarded>>
  BY DEF CurrentSend, MwInv, CallContext, callVars, queueVars
<1>3. Held(d)' = Held(d)
  BY <1>2 DEF Held
<1>4. CASE d = to
  <2>1. /\ sent'[d] = Append(sent[d], frame) /\ sent[d] \in Seq(Frames)
        /\ forwarded'[d] = forwarded[d] \cup {frame}
    BY <1>2, <1>4 DEF CurrentSend, Transmit, MwInv, TypeOK
  <2>2. frame \notin forwarded[d]
    BY <1>1, <1>2 DEF AccountedFor, Undecided, Frames
  <2>3. frame \notin SeqSet(sent[d])
    BY <1>1, <2>2 DEF AccountedFor, Partition
  <2>4. SeqSet(sent'[d]) = SeqSet(sent[d]) \cup {frame} /\ Distinct(sent'[d])
    BY <1>1, <1>2, <2>1, <2>3, AppendFacts DEF AccountedFor
  <2>5. Partition(forwarded[d] \cup {frame}, SeqSet(pending_frames[d]), Held(d),
                  SeqSet(sent[d]) \cup {frame}, evicted[d], discarded[d])
    BY <1>1, <2>2 DEF AccountedFor, Partition
  <2>6. \A f \in forwarded'[d] : f <= frame
    BY <1>1, <1>2, <2>1 DEF AccountedFor, Frames
  <2>. QED  BY <1>2, <1>3, <2>1, <2>4, <2>5, <2>6 DEF AccountedFor, Undecided
<1>5. CASE d # to
  <2>1. sent'[d] = sent[d] /\ forwarded'[d] = forwarded[d]
    BY <1>2, <1>5 DEF CurrentSend, Transmit, MwInv, TypeOK
  <2>. QED  BY <1>1, <1>2, <1>3, <2>1 DEF AccountedFor, Undecided
<1>. QED  BY <1>4, <1>5

(* The current frame is queued; what overflows is evicted.                 *)
LEMMA QueueKeepsAccounts ==
  ASSUME MwInv, Accounted, Queue
  PROVE  Accounted'
<1>. SUFFICES ASSUME NEW d \in Clients PROVE AccountedFor(d)'
  BY DEF Accounted
<1>. DEFINE q == pending_frames[to]
            p == Push(q, frame)
            dropped == (SeqSet(q) \cup {frame}) \ SeqSet(p)
<1>1. AccountedFor(d)
  BY DEF Accounted
<1>2. /\ to \in Clients /\ frame \in Frames /\ pc = "queue" /\ pc' \in {"idle", "warn"}
      /\ pending_frames' = [pending_frames EXCEPT ![to] = p]
      /\ evicted' = [evicted EXCEPT ![to] = @ \cup dropped]
      /\ forwarded' = [forwarded EXCEPT ![to] = @ \cup {frame}]
      /\ UNCHANGED <<to, frame, queued, sent, discarded>>
  BY DEF Queue, MwInv, CallContext, callVars
<1>3. /\ q \in Seq(Frames) /\ Len(q) <= client_backlog_size /\ Sorted(q)
      /\ \A g \in SeqSet(q) : g < frame
  BY <1>2 DEF MwInv, TypeOK, BacklogOrder, Undecided
<1>4. SeqSet(p) \subseteq SeqSet(q) \cup {frame}
  BY <1>2, <1>3, PushFacts
<1>5. Held(d)' = Held(d)
  BY <1>2 DEF Held
<1>. HIDE DEF p
<1>6. CASE d = to
  <2>1. /\ pending_frames'[d] = p /\ evicted'[d] = evicted[d] \cup dropped
        /\ forwarded'[d] = forwarded[d] \cup {frame}
    BY <1>2, <1>6 DEF MwInv, TypeOK
  <2>2. frame \notin forwarded[d]
    BY <1>1, <1>2 DEF AccountedFor, Undecided, Frames
  <2>3. Partition(forwarded[d], SeqSet(q), Held(d), SeqSet(sent[d]), evicted[d], discarded[d])
    BY <1>1, <1>6 DEF AccountedFor
  <2>. HIDE DEF q
  <2>4. Partition(forwarded[d] \cup {frame}, SeqSet(p), Held(d), SeqSet(sent[d]),
                  evicted[d] \cup dropped, discarded[d])
    BY <1>4, <2>2, <2>3 DEF Partition
  <2>. HIDE DEF dropped
  <2>5. \A f \in forwarded'[d] : f <= frame
    BY <1>1, <1>2, <2>1 DEF AccountedFor, Frames
  <2>. QED  BY <1>1, <1>2, <1>5, <2>1, <2>4, <2>5 DEF AccountedFor, Undecided
<1>7. CASE d # to
  <2>1. /\ pending_frames'[d] = pending_frames[d] /\ evicted'[d] = evicted[d]
        /\ forwarded'[d] = forwarded[d]
    BY <1>2, <1>7 DEF MwInv, TypeOK
  <2>. QED  BY <1>1, <1>2, <1>5, <2>1 DEF AccountedFor, Undecided
<1>. QED  BY <1>6, <1>7

(* The frames are accounted for initially and after every step.            *)
LEMMA AccountedInvariant == Spec => [](MwInv /\ Accounted)
<1>1. Init => Accounted
  BY DEF Init, Accounted, AccountedFor, Partition, Held, Distinct, SeqSet, Undecided
<1>2. MwInv /\ Accounted /\ [Next]_vars => Accounted'
  <2>. SUFFICES ASSUME MwInv, Accounted, [Next]_vars PROVE Accounted'
    OBVIOUS
  <2>1. CASE \/ \E c \in Clients : Connect(c) \/ Drain(c) \/ Disconnect(c) \/ SendReply(c)
             \/ FlushEnd \/ CurrentSendFails \/ CurrentCongested \/ Shed \/ QueueClientGone \/ Warn
             \/ UNCHANGED vars
    <3>1. UNCHANGED <<pending_frames, queued, to, frame, sent, forwarded, evicted, discarded>>
      BY <2>1 DEF Connect, Drain, Disconnect, SendReply, FlushEnd, CurrentSendFails, CurrentCongested,
         Shed, QueueClientGone, Warn, vars, queueVars, callVars, history
    <3>2. pc' \in Undecided => pc \in Undecided
      BY <2>1 DEF Connect, Drain, Disconnect, SendReply, FlushEnd, CurrentSendFails, CurrentCongested,
         Shed, QueueClientGone, Warn, vars, Undecided
    <3>. QED  BY <3>1, <3>2, QuietKeepsAccounts
  <2>2. ASSUME NEW c \in Clients, CloseDrop(c) \/ CloseErase(c) \/ DropPending(c) PROVE Accounted'
    BY <2>2, EraseKeepsAccounts DEF CloseDrop, CloseErase, DropPending
  <2>3. ASSUME NEW c \in Clients, SendBinary(c) PROVE Accounted'
    BY <2>3, SendBinaryKeepsAccounts
  <2>4. CASE FlushPop \/ FlushSend \/ FlushSendFails
    BY <2>4, FlushPopKeepsAccounts, FlushSendKeepsAccounts
  <2>5. CASE CurrentSend \/ Queue
    BY <2>5, CurrentSendKeepsAccounts, QueueKeepsAccounts
  <2>. QED  BY <2>1, <2>2, <2>3, <2>4, <2>5 DEF Next, SenderStep
<1>. QED  BY <1>1, <1>2, MwInvariant, PTL DEF Spec

(* A sequence without repetitions has as many elements as positions.       *)
LEMMA DistinctCount ==
  ASSUME NEW q \in Seq(Frames), Distinct(q)
  PROVE  Cardinality(SeqSet(q)) = Len(q)
<1>1. SeqSet(q) = {q[i] : i \in 1..Len(q)} /\ Len(q) \in Nat
  BY SeqSetFacts
<1>2. q \in [1..Len(q) -> SeqSet(q)]
  BY <1>1
<1>3. q \in Bijection(1..Len(q), SeqSet(q))
  <2>1. q \in Injection(1..Len(q), SeqSet(q))
    BY <1>2 DEF Injection, IsInjective, Distinct
  <2>2. q \in Surjection(1..Len(q), SeqSet(q))
    BY <1>1, <1>2 DEF Surjection
  <2>. QED  BY <2>1, <2>2 DEF Bijection
<1>4. IsFiniteSet(1..Len(q)) /\ Cardinality(1..Len(q)) = Len(q)
  BY <1>1, FS_Interval
<1>. QED  BY <1>3, <1>4, FS_Bijection DEF ExistsBijection

(* The size of the disjoint union.                                         *)
LEMMA PartitionCount ==
  ASSUME NEW F, IsFiniteSet(F), NEW waiting, NEW held, NEW out, NEW lost, NEW dead,
         Partition(F, waiting, held, out, lost, dead)
  PROVE  Cardinality(F) = Cardinality(waiting) + Cardinality(held) + Cardinality(out)
                            + Cardinality(lost) + Cardinality(dead)
<1>. DEFINE ld == lost \cup dead
            old == out \cup ld
            hold == held \cup old
<1>1. /\ F = waiting \cup hold /\ waiting \cap hold = {} /\ held \cap old = {}
      /\ out \cap ld = {} /\ lost \cap dead = {}
  BY DEF Partition
<1>2. /\ IsFiniteSet(waiting) /\ IsFiniteSet(held) /\ IsFiniteSet(out)
      /\ IsFiniteSet(lost) /\ IsFiniteSet(dead)
      /\ IsFiniteSet(ld) /\ IsFiniteSet(old) /\ IsFiniteSet(hold)
  BY <1>1, FS_Subset
<1>3. Cardinality(ld) = Cardinality(lost) + Cardinality(dead) - 0
  BY <1>1, <1>2, FS_Union, FS_EmptySet
<1>. HIDE DEF ld
<1>4. Cardinality(old) = Cardinality(out) + Cardinality(ld) - 0
  BY <1>1, <1>2, FS_Union, FS_EmptySet
<1>. HIDE DEF old
<1>5. Cardinality(hold) = Cardinality(held) + Cardinality(old) - 0
  BY <1>1, <1>2, FS_Union, FS_EmptySet
<1>. HIDE DEF hold
<1>6. Cardinality(F) = Cardinality(waiting) + Cardinality(hold) - 0
  BY <1>1, <1>2, FS_Union, FS_EmptySet
<1>7. /\ Cardinality(waiting) \in Nat /\ Cardinality(held) \in Nat /\ Cardinality(out) \in Nat
      /\ Cardinality(lost) \in Nat /\ Cardinality(dead) \in Nat
  BY <1>2, FS_CardinalityType
<1>. QED  BY <1>3, <1>4, <1>5, <1>6, <1>7

(* What send_binary reports is what happens: a forwarded frame is in the   *)
(* backlog, with the socket, evicted or discarded, in one of them only and *)
(* once, however flush, queue and the Close callback interleave.           *)
THEOREM FramesAreAccountedFor == Spec => []ForwardedIsAccounted
<1>1. MwInv /\ Accounted => ForwardedIsAccounted
  <2>. SUFFICES ASSUME MwInv, Accounted, NEW c \in Clients
                PROVE  /\ forwarded[c] = SeqSet(InBacklog(c)) \cup SeqSet(sent[c])
                                           \cup evicted[c] \cup discarded[c]
                       /\ Cardinality(forwarded[c]) =
                            Len(InBacklog(c)) + Len(sent[c]) + Cardinality(evicted[c])
                              + Cardinality(discarded[c])
    BY DEF ForwardedIsAccounted
  <2>. DEFINE q == pending_frames[c]
  <2>1. /\ q \in Seq(Frames) /\ Sorted(q) /\ sent[c] \in Seq(Frames)
        /\ forwarded[c] \in SUBSET Frames
        /\ AccountedFor(c)
    BY DEF MwInv, TypeOK, BacklogOrder, Accounted
  <2>2. Cardinality(SeqSet(q)) = Len(q)
    <3>1. \A i \in 1..Len(q) : q[i] \in Nat
      <4>1. \A i \in 1..Len(q) : q[i] \in Frames
        BY <2>1
      <4>2. Frames \in SUBSET Nat
        BY DEF Frames
      <4>. QED  BY <4>1, <4>2
    <3>. HIDE DEF q
    <3>2. Distinct(q)
      <4>. SUFFICES ASSUME NEW i \in 1..Len(q), NEW j \in 1..Len(q), q[i] = q[j]
                    PROVE  i = j
        BY DEF Distinct
      <4>1. ~(i < j) /\ ~(j < i)
        BY <2>1, <3>1 DEF Sorted
      <4>. QED  BY <4>1
    <3>. QED  BY <2>1, <3>2, DistinctCount
  <2>3. Cardinality(SeqSet(sent[c])) = Len(sent[c])
    BY <2>1, DistinctCount DEF AccountedFor
  <2>4. SeqSet(InBacklog(c)) = Held(c) \cup SeqSet(q) /\ Len(InBacklog(c)) = Cardinality(Held(c)) + Len(q)
    <3>1. CASE to = c /\ queued # 0
      <4>1. queued \in Frames /\ Held(c) = {queued} /\ InBacklog(c) = <<queued>> \o q
        BY <3>1 DEF MwInv, CallContext, Held, InBacklog
      <4>. HIDE DEF q
      <4>. DEFINE p == <<queued>> \o q
      <4>2. /\ p \in Seq(Frames) /\ Len(q) \in Nat /\ Len(p) = Len(q) + 1 /\ p[1] = queued
            /\ \A i \in 1..Len(q) : p[i + 1] = q[i]
            /\ \A i \in 2..Len(p) : p[i] = q[i - 1] /\ i - 1 \in 1..Len(q)
        BY <2>1, <4>1
      <4>. HIDE DEF p
      <4>3. \A x \in SeqSet(p) : x = queued \/ x \in SeqSet(q)
        BY <2>1, <4>2, SeqSetFacts
      <4>4. queued \in SeqSet(p) /\ \A i \in 1..Len(q) : q[i] \in SeqSet(p)
        <5>1. 1 \in 1..Len(p) /\ \A i \in 1..Len(q) : i + 1 \in 1..Len(p)
          BY <4>2
        <5>. QED  BY <4>2, <5>1, SeqSetFacts
      <4>5. SeqSet(p) = {queued} \cup SeqSet(q)
        BY <2>1, <4>3, <4>4, SeqSetFacts
      <4>6. Cardinality(Held(c)) = 1
        BY <4>1, FS_Singleton
      <4>. QED  BY <4>1, <4>2, <4>5, <4>6 DEF p
    <3>2. CASE ~(to = c /\ queued # 0)
      <4>1. Held(c) = {} /\ InBacklog(c) = <<>> \o q
        BY <3>2 DEF Held, InBacklog
      <4>. HIDE DEF q
      <4>2. <<>> \o q = q /\ Len(q) \in Nat
        BY <2>1
      <4>. QED  BY <4>1, <4>2, FS_EmptySet
    <3>. QED  BY <3>1, <3>2
  <2>5. IsFiniteSet(forwarded[c])
    <3>1. IsFiniteSet(Frames)
      BY FS_Interval, FramesAssumption DEF Frames
    <3>. QED  BY <2>1, <3>1, FS_Subset
  <2>6. Cardinality(forwarded[c]) =
          Cardinality(SeqSet(q)) + Cardinality(Held(c)) + Cardinality(SeqSet(sent[c]))
            + Cardinality(evicted[c]) + Cardinality(discarded[c])
    BY <2>1, <2>5, PartitionCount DEF AccountedFor
  <2>7. Cardinality(Held(c)) \in Nat /\ Len(q) \in Nat
    <3>1. Cardinality({queued}) = 1
      BY FS_Singleton
    <3>2. Cardinality({}) = 0
      BY FS_EmptySet
    <3>3. Len(q) \in Nat
      BY <2>1
    <3>. QED  BY <3>1, <3>2, <3>3 DEF Held
  <2>8. forwarded[c] = SeqSet(InBacklog(c)) \cup SeqSet(sent[c]) \cup evicted[c] \cup discarded[c]
    BY <2>1, <2>4 DEF AccountedFor, Partition
  <2>. QED  BY <2>2, <2>3, <2>4, <2>6, <2>7, <2>8
<1>. QED  BY <1>1, AccountedInvariant, PTL

-----------------------------------------------------------------------------
(* The drop counts.  dropped_frame_count sums over the clients with a      *)
(* recursive function, so first what a change of one client's weight does  *)
(* to such a sum.                                                          *)

(* Induction over the natural numbers, for a set of them.                  *)
LEMMA NatSetInduction ==
  ASSUME NEW S \in SUBSET Nat, 0 \in S, \A n \in S : n + 1 \in S
  PROVE  S = Nat
<1>. DEFINE R == OpToRel(<, Nat)
            T == Nat \ S
<1>1. R = {ss \in Nat \X Nat : ss[1] < ss[2]}
  BY DEF OpToRel
<1>2. IsWellFoundedOn(R, Nat)
  BY NatLessThanWellFounded
<1>. HIDE DEF R
<1>3. SUFFICES ASSUME T # {} PROVE FALSE
  OBVIOUS
<1>4. PICK x \in T : \A y \in T : ~(<<y, x>> \in R)
  BY <1>2, <1>3, WFMin
<1>5. x \in Nat /\ x # 0 /\ x - 1 \in Nat /\ (x - 1) + 1 = x
  BY <1>4
<1>6. <<x - 1, x>> \in R
  BY <1>1, <1>5
<1>7. x - 1 \in S
  BY <1>4, <1>5, <1>6
<1>. QED  BY <1>4, <1>5, <1>7

Pick(s) == CHOOSE x \in s : TRUE

(* g gives the sum of the weights of every set of clients.                 *)
SumsOf(g, w) ==
  g = [s \in SUBSET Clients |-> IF s = {} THEN 0 ELSE w[Pick(s)] + g[s \ {Pick(s)}]]

(* Removing the picked client from a set.                                  *)
LEMMA PickFacts ==
  ASSUME NEW s \in SUBSET Clients, s # {}
  PROVE  /\ Pick(s) \in s /\ Pick(s) \in Clients
         /\ s \ {Pick(s)} \in SUBSET Clients
         /\ IsFiniteSet(s) /\ Cardinality(s) \in Nat \ {0}
         /\ Cardinality(s \ {Pick(s)}) = Cardinality(s) - 1
<1>1. Pick(s) \in s
  BY DEF Pick
<1>2. IsFiniteSet(s)
  BY ClientsAssumption, FS_Subset
<1>3. Cardinality(s) \in Nat /\ Cardinality(s) # 0
  BY <1>2, FS_CardinalityType, FS_EmptySet
<1>4. Cardinality(s \ {Pick(s)}) = Cardinality(s) - 1
  BY <1>1, <1>2, FS_RemoveElement
<1>. QED  BY <1>1, <1>2, <1>3, <1>4

(* The recursive function behind MapThenSumSet exists: sums of the sets of *)
(* at most n clients make those of n + 1.                                  *)
LEMMA SumExists ==
  ASSUME NEW w \in [Clients -> Nat]
  PROVE  \E g : SumsOf(g, w)
<1>. DEFINE Small(n) == {s \in SUBSET Clients : Cardinality(s) <= n}
            Rest(g, s) == IF s = {} THEN 0 ELSE w[Pick(s)] + g[s \ {Pick(s)}]
            Sums(n) == \E g : g = [s \in Small(n) |-> Rest(g, s)]
            N == {n \in Nat : Sums(n)}
<1>1. 0 \in N
  <2>. DEFINE g == [s \in Small(0) |-> 0]
  <2>1. \A s \in Small(0) : s = {}
    <3>. SUFFICES ASSUME NEW s \in SUBSET Clients, Cardinality(s) <= 0, s # {} PROVE FALSE
      OBVIOUS
    <3>. HIDE DEF g, N
    <3>1. Cardinality(s) \in Nat \ {0}
      BY PickFacts
    <3>. QED  BY <3>1
  <2>2. g = [s \in Small(0) |-> Rest(g, s)]
    BY <2>1
  <2>. QED  BY <2>2
<1>2. ASSUME NEW n \in N PROVE n + 1 \in N
  <2>1. PICK g : g = [s \in Small(n) |-> Rest(g, s)]
    OBVIOUS
  <2>. DEFINE h == [s \in Small(n + 1) |-> Rest(g, s)]
  <2>2. ASSUME NEW s \in Small(n + 1), s # {} PROVE s \ {Pick(s)} \in Small(n)
    BY <2>2, PickFacts
  <2>3. \A s \in Small(n) : g[s] = Rest(g, s) /\ s \in Small(n + 1)
    <3>1. \A s \in Small(n) : Cardinality(s) <= n + 1
      <4>. SUFFICES ASSUME NEW s \in Small(n) PROVE Cardinality(s) <= n + 1
        OBVIOUS
      <4>1. Cardinality(s) \in Nat
        BY ClientsAssumption, FS_Subset, FS_CardinalityType
      <4>. QED  BY <4>1
    <3>. HIDE DEF Rest
    <3>. QED  BY <2>1, <3>1
  <2>4. \A s \in Small(n) : h[s] = g[s]
    <3>. HIDE DEF Rest, Small
    <3>. QED  BY <2>3
  <2>5. \A s \in Small(n + 1) : Rest(h, s) = Rest(g, s)
    <3>. HIDE DEF h, Small
    <3>. QED  BY <2>2, <2>4
  <2>6. h = [s \in Small(n + 1) |-> Rest(h, s)]
    <3>. DEFINE k == [s \in Small(n + 1) |-> Rest(h, s)]
    <3>1. \A s \in Small(n + 1) : h[s] = k[s]
      <4>. HIDE DEF Rest, Small
      <4>. QED  BY <2>5
    <3>. HIDE DEF Rest, Small
    <3>. QED  BY <2>5, <3>1
  <2>7. Sums(n + 1)
    <3>. HIDE DEF h
    <3>. QED  BY <2>6
  <2>. HIDE DEF Sums
  <2>. QED  BY <2>7
<1>3. N = Nat
  <2>. HIDE DEF Sums
  <2>. QED  BY <1>1, <1>2, NatSetInduction
<1>4. Small(Cardinality(Clients)) = SUBSET Clients
  BY ClientsAssumption, FS_Subset, FS_CardinalityType
<1>5. Cardinality(Clients) \in N
  BY <1>3, ClientsAssumption, FS_CardinalityType
<1>6. PICK g : g = [s \in Small(Cardinality(Clients)) |-> Rest(g, s)]
  BY <1>5
<1>. QED  BY <1>4, <1>6 DEF SumsOf

(* Two sums over weights that differ for one client only differ by as      *)
(* much.                                                                   *)
LEMMA SumUpdate ==
  ASSUME NEW w \in [Clients -> Nat], NEW v \in [Clients -> Nat], NEW c \in Clients,
         \A d \in Clients : d # c => v[d] = w[d],
         NEW g, SumsOf(g, w), NEW h, SumsOf(h, v)
  PROVE  /\ g[Clients] \in Nat /\ h[Clients] \in Nat
         /\ g[Clients] + v[c] = h[Clients] + w[c]
<1>. DEFINE Good(s) == /\ g[s] \in Nat /\ h[s] \in Nat
                       /\ c \notin s => g[s] = h[s]
                       /\ c \in s => g[s] + v[c] = h[s] + w[c]
            N == {n \in Nat : \A s \in SUBSET Clients : Cardinality(s) = n => Good(s)}
<1>1. 0 \in N
  <2>1. \A s \in SUBSET Clients : Cardinality(s) = 0 => s = {}
    BY PickFacts
  <2>2. Good({})
    BY DEF SumsOf
  <2>. QED  BY <2>1, <2>2
<1>2. ASSUME NEW n \in N PROVE n + 1 \in N
  <2>. SUFFICES ASSUME NEW s \in SUBSET Clients, Cardinality(s) = n + 1 PROVE Good(s)
    OBVIOUS
  <2>. DEFINE x == Pick(s)
              r == s \ {x}
  <2>1. s # {}
    <3>1. Cardinality({}) = 0
      BY FS_EmptySet
    <3>. HIDE DEF Good
    <3>2. n + 1 # 0
      OBVIOUS
    <3>. QED  BY <3>1, <3>2
  <2>2. x \in s /\ x \in Clients /\ r \in SUBSET Clients /\ Cardinality(r) = n
    BY <2>1, PickFacts
  <2>3. g[s] = w[x] + g[r] /\ h[s] = v[x] + h[r]
    BY <2>1 DEF SumsOf
  <2>. HIDE DEF x
  <2>4. Good(r)
    BY <2>2
  <2>5. w[x] \in Nat /\ v[x] \in Nat /\ w[c] \in Nat /\ v[c] \in Nat
    BY <2>2
  <2>6. CASE x = c
    BY <2>2, <2>3, <2>4, <2>5, <2>6
  <2>7. CASE x # c
    <3>1. w[x] = v[x] /\ (c \in s <=> c \in r)
      BY <2>2, <2>7
    <3>. HIDE DEF r
    <3>. QED  BY <2>3, <2>4, <2>5, <3>1
  <2>. QED  BY <2>6, <2>7
<1>3. N = Nat
  <2>. HIDE DEF Good
  <2>. QED  BY <1>1, <1>2, NatSetInduction
<1>4. Good(Clients)
  <2>. HIDE DEF Good
  <2>. QED  BY <1>3, ClientsAssumption, FS_CardinalityType
<1>. QED  BY <1>4

(* The sum of the weights of all clients.                                  *)
Total(w) == (CHOOSE g : SumsOf(g, w))[Clients]

(* The sum is a number and does not depend on the order of the clients.    *)
LEMMA TotalFacts ==
  ASSUME NEW w \in [Clients -> Nat]
  PROVE  /\ Total(w) \in Nat
         /\ \A g : SumsOf(g, w) => g[Clients] = Total(w)
<1>. DEFINE h == CHOOSE g : SumsOf(g, w)
<1>1. SumsOf(h, w)
  <2>1. \E g : SumsOf(g, w)
    BY SumExists
  <2>. QED  BY <2>1
<1>. HIDE DEF h
<1>2. h[Clients] \in Nat /\ \A g : SumsOf(g, w) => g[Clients] = h[Clients]
  <2>1. CASE Clients = {}
    <3>1. \A g : SumsOf(g, w) => g[Clients] = 0
      BY <2>1 DEF SumsOf
    <3>. QED  BY <1>1, <3>1
  <2>2. CASE Clients # {}
    <3>1. PICK c \in Clients : TRUE
      BY <2>2
    <3>2. h[Clients] \in Nat /\ w[c] \in Nat
      BY <1>1, SumUpdate
    <3>. SUFFICES ASSUME NEW g, SumsOf(g, w) PROVE g[Clients] = h[Clients]
      BY <3>2
    <3>3. g[Clients] \in Nat /\ g[Clients] + w[c] = h[Clients] + w[c]
      BY <1>1, SumUpdate
    <3>. QED  BY <3>2, <3>3
  <2>. QED  BY <2>1, <2>2
<1>. QED  BY <1>2 DEF h, Total

(* A change of one weight changes the sum by as much.                      *)
LEMMA TotalUpdate ==
  ASSUME NEW w \in [Clients -> Nat], NEW v \in [Clients -> Nat], NEW c \in Clients,
         \A d \in Clients : d # c => v[d] = w[d]
  PROVE  Total(w) + v[c] = Total(v) + w[c]
<1>1. PICK g : SumsOf(g, w)
  BY SumExists
<1>2. PICK h : SumsOf(h, v)
  BY SumExists
<1>3. g[Clients] + v[c] = h[Clients] + w[c]
  BY <1>1, <1>2, SumUpdate
<1>. QED  BY <1>1, <1>2, <1>3, TotalFacts

(* The property in these terms.                                            *)
Evictions == [c \in Clients |-> Cardinality(evicted[c])]
DropsAreCounted == dropped_from_disconnected + Total(dropped_total) = Total(Evictions)

(* Of finitely many frames, finitely many are evicted.                     *)
LEMMA EvictionsType ==
  ASSUME TypeOK
  PROVE  Evictions \in [Clients -> Nat]
<1>1. IsFiniteSet(Frames)
  BY FramesAssumption, FS_Interval DEF Frames
<1>2. \A c \in Clients : IsFiniteSet(evicted[c])
  <2>1. \A c \in Clients : evicted[c] \subseteq Frames
    BY DEF TypeOK
  <2>. QED  BY <1>1, <2>1, FS_Subset
<1>3. \A c \in Clients : Cardinality(evicted[c]) \in Nat
  BY <1>2, FS_CardinalityType
<1>. QED  BY <1>3 DEF Evictions

(* The sums of the property are those totals.                              *)
LEMMA DropsAreLifetimeTotal ==
  ASSUME Evictions \in [Clients -> Nat], DropsAreCounted
  PROVE  DroppedCountIsLifetimeTotal
<1>1. MapThenSumSet(LAMBDA c : dropped_total[c], Clients) = Total(dropped_total)
  BY DEF MapThenSumSet, MapThenFoldSet, Total, SumsOf, Pick
<1>2. MapThenSumSet(LAMBDA c : Cardinality(evicted[c]), Clients) = Total(Evictions)
  <2>. DEFINE IsSum(g) == g = [s \in SUBSET Clients |->
                IF s = {} THEN 0 ELSE Cardinality(evicted[Pick(s)]) + g[s \ {Pick(s)}]]
              k == CHOOSE g : IsSum(g)
  <2>1. MapThenSumSet(LAMBDA c : Cardinality(evicted[c]), Clients) = k[Clients]
    BY DEF MapThenSumSet, MapThenFoldSet, Pick
  <2>2. \A s \in SUBSET Clients : s # {} => Evictions[Pick(s)] = Cardinality(evicted[Pick(s)])
    BY DEF Pick, Evictions
  <2>3. \A g : IsSum(g) <=> SumsOf(g, Evictions)
    <3>. SUFFICES ASSUME NEW g PROVE IsSum(g) <=> SumsOf(g, Evictions)
      OBVIOUS
    <3>1. [s \in SUBSET Clients |-> IF s = {} THEN 0 ELSE Cardinality(evicted[Pick(s)]) + g[s \ {Pick(s)}]]
            = [s \in SUBSET Clients |-> IF s = {} THEN 0 ELSE Evictions[Pick(s)] + g[s \ {Pick(s)}]]
      BY <2>2
    <3>. QED  BY <3>1 DEF SumsOf
  <2>. HIDE DEF IsSum
  <2>4. \E g : IsSum(g)
    BY <2>3, SumExists
  <2>5. IsSum(k)
    BY <2>4
  <2>. HIDE DEF k
  <2>. QED  BY <2>1, <2>3, <2>5, TotalFacts
<1>. QED  BY <1>1, <1>2 DEF DroppedCountIsLifetimeTotal, dropped_frame_count, DropsAreCounted

(* drop_pending and the Close callback move c's count to the total of the  *)
(* disconnected clients.                                                   *)
LEMMA EraseKeepsDrops ==
  ASSUME MwInv, DropsAreCounted, NEW c \in Clients, EraseBacklog(c), evicted' = evicted
  PROVE  DropsAreCounted'
<1>1. /\ dropped_total \in [Clients -> Nat] /\ dropped_total' \in [Clients -> Nat]
      /\ dropped_total'[c] = 0 /\ dropped_total[c] \in Nat /\ dropped_from_disconnected \in Nat
      /\ \A d \in Clients : d # c => dropped_total'[d] = dropped_total[d]
      /\ dropped_from_disconnected' = dropped_from_disconnected + dropped_total[c]
  BY DEF EraseBacklog, MwInv, TypeOK
<1>2. Total(dropped_total) + dropped_total'[c] = Total(dropped_total') + dropped_total[c]
  BY <1>1, TotalUpdate
<1>3. Total(dropped_total) \in Nat /\ Total(dropped_total') \in Nat
  BY <1>1, TotalFacts
<1>4. dropped_from_disconnected' + Total(dropped_total') = dropped_from_disconnected + Total(dropped_total)
  BY <1>1, <1>2, <1>3
<1>. QED  BY <1>4 DEF DropsAreCounted, Evictions, Total, SumsOf

(* An overflow counts the frames that it evicts, none of which was evicted *)
(* before.                                                                 *)
LEMMA QueueKeepsDrops ==
  ASSUME MwInv, Accounted, DropsAreCounted, Queue
  PROVE  DropsAreCounted'
<1>. DEFINE q == pending_frames[to]
            dropped == (SeqSet(q) \cup {frame}) \ SeqSet(Push(q, frame))
<1>1. /\ to \in Clients /\ frame \in Frames /\ pc = "queue"
      /\ dropped_total' = [dropped_total EXCEPT ![to] = @ + Cardinality(dropped)]
      /\ evicted' = [evicted EXCEPT ![to] = @ \cup dropped]
      /\ UNCHANGED dropped_from_disconnected
  BY DEF Queue, MwInv, CallContext
<1>2. dropped \cap evicted[to] = {} /\ dropped \subseteq Frames
  <2>1. AccountedFor(to) /\ q \in Seq(Frames)
    BY <1>1 DEF Accounted, MwInv, TypeOK
  <2>2. frame \notin forwarded[to]
    BY <1>1, <2>1 DEF AccountedFor, Undecided, Frames
  <2>3. frame \notin evicted[to] /\ SeqSet(q) \cap evicted[to] = {}
    BY <2>1, <2>2 DEF AccountedFor, Partition
  <2>4. SeqSet(q) \subseteq Frames
    BY <2>1 DEF SeqSet
  <2>. QED  BY <1>1, <2>3, <2>4
<1>. HIDE DEF dropped
<1>3. /\ IsFiniteSet(dropped) /\ IsFiniteSet(evicted[to])
      /\ Cardinality(dropped) \in Nat /\ Cardinality(evicted[to]) \in Nat
  <2>1. IsFiniteSet(Frames)
    BY FramesAssumption, FS_Interval DEF Frames
  <2>2. evicted[to] \subseteq Frames
    BY <1>1 DEF MwInv, TypeOK
  <2>3. IsFiniteSet(dropped) /\ IsFiniteSet(evicted[to])
    BY <1>2, <2>1, <2>2, FS_Subset
  <2>. QED  BY <2>3, FS_CardinalityType
<1>4. Cardinality(evicted[to] \cup dropped) = Cardinality(evicted[to]) + Cardinality(dropped)
  <2>1. evicted[to] \cap dropped = {} /\ Cardinality({}) = 0
    BY <1>2, FS_EmptySet
  <2>2. Cardinality(evicted[to] \cup dropped) =
          Cardinality(evicted[to]) + Cardinality(dropped) - Cardinality(evicted[to] \cap dropped)
    BY <1>3, FS_Union
  <2>3. Cardinality(evicted[to] \cap dropped) = 0
    BY <2>1, Zenon
  <2>. QED  BY <1>3, <2>2, <2>3
<1>5. /\ Evictions \in [Clients -> Nat] /\ Evictions' \in [Clients -> Nat]
      /\ Evictions'[to] = Evictions[to] + Cardinality(dropped)
      /\ \A d \in Clients : d # to => Evictions'[d] = Evictions[d]
  <2>1. Evictions \in [Clients -> Nat]
    BY EvictionsType DEF MwInv
  <2>2. \A d \in Clients : d # to => evicted'[d] = evicted[d]
    BY <1>1 DEF MwInv, TypeOK
  <2>3. evicted'[to] = evicted[to] \cup dropped
    BY <1>1 DEF MwInv, TypeOK
  <2>4. \A d \in Clients : Evictions[d] = Cardinality(evicted[d]) /\ Evictions'[d] = Cardinality(evicted'[d])
    BY DEF Evictions
  <2>5. Evictions'[to] = Evictions[to] + Cardinality(dropped) /\ Evictions'[to] \in Nat
    <3>1. Evictions'[to] = Cardinality(evicted[to] \cup dropped) /\ Evictions[to] = Cardinality(evicted[to])
      BY <1>1, <2>3, <2>4, Zenon
    <3>2. Evictions'[to] = Cardinality(evicted[to]) + Cardinality(dropped)
      BY <1>4, <3>1, Zenon
    <3>. QED  BY <1>3, <3>1, <3>2
  <2>6. \A d \in Clients : d # to => Evictions'[d] = Evictions[d]
    BY <2>2, <2>4
  <2>7. \A d \in Clients : Evictions'[d] \in Nat
    BY <2>1, <2>5, <2>6
  <2>8. Evictions' = [d \in Clients |-> Evictions'[d]]
    BY DEF Evictions
  <2>. QED  BY <2>1, <2>5, <2>6, <2>7, <2>8
<1>6. /\ dropped_total \in [Clients -> Nat] /\ dropped_total' \in [Clients -> Nat]
      /\ dropped_total'[to] = dropped_total[to] + Cardinality(dropped)
      /\ \A d \in Clients : d # to => dropped_total'[d] = dropped_total[d]
      /\ dropped_from_disconnected \in Nat
  BY <1>1, <1>3 DEF MwInv, TypeOK
<1>. DEFINE e == Evictions
            f == Evictions'
<1>7. Total(dropped_total) + dropped_total'[to] = Total(dropped_total') + dropped_total[to]
  BY <1>1, <1>6, TotalUpdate
<1>8. Total(e) + f[to] = Total(f) + e[to]
  BY <1>1, <1>5, TotalUpdate
<1>9. /\ Total(dropped_total) \in Nat /\ Total(dropped_total') \in Nat
      /\ Total(e) \in Nat /\ Total(f) \in Nat
  BY <1>5, <1>6, TotalFacts
<1>10. dropped_total[to] \in Nat /\ e[to] \in Nat
  BY <1>1, <1>5, <1>6
<1>11. dropped_from_disconnected + Total(dropped_total') = Total(f)
  <2>1. dropped_from_disconnected + Total(dropped_total) = Total(e)
    BY DEF DropsAreCounted
  <2>2. f[to] = e[to] + Cardinality(dropped)
    BY <1>5
  <2>. HIDE DEF e, f
  <2>. QED  BY <1>3, <1>6, <1>7, <1>8, <1>9, <1>10, <2>1, <2>2
<1>. QED  BY <1>1, <1>11 DEF DropsAreCounted, Total, SumsOf

(* dropped_frame_count() stays the number of frames ever evicted, through  *)
(* timeouts, disconnections and the backlog a racing send makes anew       *)
(* between drop_pending and the erasure of the client.                     *)
THEOREM DropCountIsExact == Spec => []DroppedCountIsLifetimeTotal
<1>1. Init => DropsAreCounted
  <2>. SUFFICES ASSUME Init PROVE DropsAreCounted
    OBVIOUS
  <2>1. \A c \in Clients : dropped_total[c] = 0 /\ Cardinality(evicted[c]) = 0
    BY FS_EmptySet DEF Init
  <2>2. dropped_total = Evictions
    BY <2>1 DEF Init, Evictions
  <2>3. dropped_total \in [Clients -> Nat] /\ dropped_from_disconnected = 0
    BY DEF Init
  <2>4. Total(dropped_total) \in Nat
    BY <2>3, TotalFacts
  <2>. QED  BY <2>2, <2>3, <2>4 DEF DropsAreCounted
<1>2. MwInv /\ Accounted /\ DropsAreCounted /\ [Next]_vars => DropsAreCounted'
  <2>. SUFFICES ASSUME MwInv, Accounted, DropsAreCounted, [Next]_vars PROVE DropsAreCounted'
    OBVIOUS
  <2>1. CASE Queue
    BY <2>1, QueueKeepsDrops
  <2>2. ASSUME NEW c \in Clients, CloseDrop(c) \/ CloseErase(c) \/ DropPending(c)
        PROVE  DropsAreCounted'
    BY <2>2, EraseKeepsDrops DEF CloseDrop, CloseErase, DropPending
  <2>3. CASE ~Queue /\ ~ \E c \in Clients : CloseDrop(c) \/ CloseErase(c) \/ DropPending(c)
    <3>1. UNCHANGED <<dropped_total, dropped_from_disconnected, evicted>>
      BY <2>3 DEF Next, SenderStep, Connect, Drain, Disconnect, SendReply, SendBinary, FlushPop,
         FlushEnd, FlushSend, FlushSendFails, CurrentSend, CurrentSendFails, CurrentCongested, Shed,
         QueueClientGone, Warn, Transmit, vars, queueVars, history
    <3>2. Evictions' = Evictions
      BY <3>1 DEF Evictions
    <3>. QED  BY <3>1, <3>2 DEF DropsAreCounted, Total, SumsOf
  <2>. QED  BY <2>1, <2>2, <2>3
<1>3. MwInv /\ DropsAreCounted => DroppedCountIsLifetimeTotal
  BY EvictionsType, DropsAreLifetimeTotal DEF MwInv
<1>. QED  BY <1>1, <1>2, <1>3, AccountedInvariant, PTL DEF Spec

(* Both: no frame is lost without being counted.                           *)
THEOREM EveryFrameIsCounted == Spec => []EveryFrameCounts
BY FramesAreAccountedFor, DropCountIsExact, PTL DEF EveryFrameCounts

-----------------------------------------------------------------------------
(* The streams of frames.  A call serves a client that has been connected. *)
Served == pc # "idle" => conn[to] # "new"

StreamInv == MwInv /\ Accounted /\ Served

(* The variables of FrameStream, by the names used below.                  *)
Waiting == [c \in Clients |-> InBacklog(c)]
Closed == {c \in Clients : conn[c] \notin {"new", "open"}}

(* A popped frame in front of the queue.                                   *)
LEMMA FrontFacts ==
  ASSUME NEW q \in Seq(Frames)
  PROVE  /\ <<>> \o q = q
         /\ \A f \in Frames : /\ <<f>> \o q \in Seq(Frames) /\ <<f>> \o q # <<>>
                              /\ Head(<<f>> \o q) = f /\ Tail(<<f>> \o q) = q
                              /\ SeqSet(<<f>> \o q) = SeqSet(q) \cup {f}
<1>1. <<>> \o q = q
  OBVIOUS
<1>2. ASSUME NEW f \in Frames
      PROVE  /\ <<f>> \o q \in Seq(Frames) /\ <<f>> \o q # <<>>
             /\ Head(<<f>> \o q) = f /\ Tail(<<f>> \o q) = q
             /\ SeqSet(<<f>> \o q) = SeqSet(q) \cup {f}
  <2>. DEFINE p == <<f>> \o q
  <2>1. /\ p \in Seq(Frames) /\ Len(p) = Len(q) + 1 /\ Len(q) \in Nat /\ p[1] = f
        /\ \A i \in 1..Len(q) : p[i + 1] = q[i]
    OBVIOUS
  <2>. HIDE DEF p
  <2>2. p # <<>> /\ Head(p) = f
    BY <2>1
  <2>3. Tail(p) = q
    <3>1. /\ Tail(p) \in Seq(Frames) /\ Len(Tail(p)) = Len(q)
          /\ \A i \in 1..Len(q) : Tail(p)[i] = p[i + 1]
      BY <2>1, <2>2
    <3>2. \A i \in 1..Len(q) : Tail(p)[i] = q[i]
      BY <2>1, <3>1
    <3>. QED  BY <3>1, <3>2
  <2>4. SeqSet(p) = SeqSet(q) \cup {f}
    <3>1. /\ 1 \in 1..Len(p) /\ \A i \in 1..Len(q) : i + 1 \in 1..Len(p)
          /\ \A j \in 1..Len(p) : j = 1 \/ (j - 1 \in 1..Len(q) /\ p[j] = q[j - 1])
      <4>1. \A j \in 1..Len(p) : j = 1 \/ (j - 1 \in 1..Len(q) /\ j = (j - 1) + 1)
        BY <2>1
      <4>. QED  BY <2>1, <4>1
    <3>2. \A x \in SeqSet(p) : x \in SeqSet(q) \cup {f}
      BY <2>1, <3>1, SeqSetFacts
    <3>3. f \in SeqSet(p) /\ \A i \in 1..Len(q) : q[i] \in SeqSet(p)
      BY <2>1, <3>1, SeqSetFacts
    <3>. QED  BY <3>2, <3>3, SeqSetFacts
  <2>. QED  BY <2>1, <2>2, <2>3, <2>4 DEF p
<1>. QED  BY <1>1, <1>2

(* What waits is the queue, after the frame popped from it if there is one. *)
LEMMA WaitingFacts ==
  ASSUME TypeOK, NEW c \in Clients
  PROVE  /\ ~(to = c /\ queued # 0) => Waiting[c] = pending_frames[c]
         /\ to = c /\ queued # 0 => /\ Waiting[c] = <<queued>> \o pending_frames[c]
                                    /\ queued \in Frames
<1>1. pending_frames[c] \in Seq(Frames)
  BY DEF TypeOK
<1>2. CASE ~(to = c /\ queued # 0)
  BY <1>1, <1>2, FrontFacts DEF Waiting, InBacklog
<1>3. CASE to = c /\ queued # 0
  <2>1. queued \in Frames
    BY <1>3, FramesAssumption DEF TypeOK, Frames
  <2>. QED  BY <1>3, <2>1 DEF Waiting, InBacklog
<1>. QED  BY <1>2, <1>3

(* A step that changes what waits for one client only.                     *)
LEMMA WaitingOfOne ==
  ASSUME NEW c \in Clients, \A d \in Clients : d # c => InBacklog(d)' = InBacklog(d)
  PROVE  Waiting' = [Waiting EXCEPT ![c] = Waiting'[c]]
BY DEF Waiting

(* The count of dropped frames as a total, before and after a step.        *)
LEMMA CountIsTotal ==
  /\ dropped_frame_count = dropped_from_disconnected + Total(dropped_total)
  /\ dropped_frame_count' = dropped_from_disconnected' + Total(dropped_total')
<1>1. dropped_frame_count = dropped_from_disconnected + Total(dropped_total)
  BY DEF dropped_frame_count, MapThenSumSet, MapThenFoldSet, Total, SumsOf, Pick
<1>2. (dropped_frame_count = dropped_from_disconnected + Total(dropped_total))'
  BY <1>1, PTL
<1>. QED  BY <1>1, <1>2 DEF Total, SumsOf

(* No frame moves: a stutter.                                              *)
LEMMA QuietStutters ==
  ASSUME MwInv, queued = 0 \/ UNCHANGED to, UNCHANGED <<pending_frames, queued, sent>>,
         UNCHANGED <<dropped_total, dropped_from_disconnected>>, Closed' = Closed
  PROVE  UNCHANGED Stream!vars
<1>1. \A c \in Clients : InBacklog(c)' = InBacklog(c)
  BY DEF InBacklog
<1>2. Waiting' = Waiting
  BY <1>1 DEF Waiting
<1>3. dropped_frame_count' = dropped_frame_count
  BY CountIsTotal
<1>. QED  BY <1>2, <1>3 DEF Stream!vars, Waiting, Closed

(* A popped frame waits until it is sent: a stutter.                       *)
LEMMA PopStutters ==
  ASSUME MwInv, MwInv', FlushPop
  PROVE  UNCHANGED Stream!vars
<1>. DEFINE q == pending_frames[to]
<1>1. /\ to \in Clients /\ q \in Seq(Frames) /\ q # <<>> /\ queued = 0 /\ UNCHANGED to
      /\ queued' = Head(q) /\ pending_frames' = [pending_frames EXCEPT ![to] = Tail(q)]
      /\ UNCHANGED <<sent, conn, dropped_total, dropped_from_disconnected>>
  BY DEF FlushPop, MwInv, CallContext, TypeOK, callVars, history
<1>2. queued' \in Frames /\ queued' # 0
  BY DEF FlushPop, MwInv, CallContext, Frames
<1>3. ASSUME NEW c \in Clients PROVE InBacklog(c)' = InBacklog(c)
  <2>1. CASE c # to
    <3>1. pending_frames'[c] = pending_frames[c]
      BY <1>1, <2>1 DEF MwInv, TypeOK
    <3>. QED  BY <1>1, <2>1, <3>1 DEF InBacklog
  <2>2. CASE c = to
    <3>1. pending_frames'[c] = Tail(q)
      BY <1>1, <2>2 DEF MwInv, TypeOK
    <3>2. InBacklog(c)' = <<Head(q)>> \o Tail(q)
      BY <1>1, <1>2, <2>2, <3>1 DEF InBacklog
    <3>3. InBacklog(c) = q
      BY <1>1, <2>2, FrontFacts DEF InBacklog
    <3>. HIDE DEF q
    <3>4. <<Head(q)>> \o Tail(q) = q
      BY <1>1
    <3>. QED  BY <3>2, <3>3, <3>4
  <2>. QED  BY <2>1, <2>2
<1>4. Waiting' = Waiting
  BY <1>3 DEF Waiting
<1>5. dropped_frame_count' = dropped_frame_count
  BY <1>1, CountIsTotal
<1>. QED  BY <1>1, <1>4, <1>5 DEF Stream!vars, Waiting, Closed

(* drop_pending and the Close callback: the session's frames are forgotten, *)
(* or lost with the connection but for the one about to be sent.           *)
LEMMA EraseRefines ==
  ASSUME MwInv, MwInv', NEW c \in Clients, EraseBacklog(c),
         UNCHANGED <<to, queued, sent>>, Closed' = Closed,
         to = c /\ queued # 0 => c \in Closed
  PROVE  Stream!Forget(c) \/ Stream!Lose(c)
<1>1. /\ dropped_total \in [Clients -> Nat] /\ dropped_total' \in [Clients -> Nat]
      /\ dropped_total'[c] = 0 /\ dropped_total[c] \in Nat /\ dropped_from_disconnected \in Nat
      /\ \A d \in Clients : d # c => dropped_total'[d] = dropped_total[d]
      /\ dropped_from_disconnected' = dropped_from_disconnected + dropped_total[c]
  BY DEF EraseBacklog, MwInv, TypeOK
<1>2. dropped_frame_count' = dropped_frame_count
  <2>1. Total(dropped_total) + dropped_total'[c] = Total(dropped_total') + dropped_total[c]
    BY <1>1, TotalUpdate
  <2>2. Total(dropped_total) \in Nat /\ Total(dropped_total') \in Nat
    BY <1>1, TotalFacts
  <2>3. dropped_from_disconnected' + Total(dropped_total')
          = dropped_from_disconnected + Total(dropped_total)
    BY <1>1, <2>1, <2>2
  <2>4. dropped_frame_count' = dropped_from_disconnected' + Total(dropped_total')
    BY CountIsTotal
  <2>. QED  BY <2>3, <2>4, CountIsTotal
<1>3. /\ pending_frames'[c] = <<>> /\ pending_frames[c] \in Seq(Frames)
      /\ \A d \in Clients : d # c => pending_frames'[d] = pending_frames[d]
  BY DEF EraseBacklog, MwInv, TypeOK
<1>4. Waiting' = [Waiting EXCEPT ![c] = Waiting'[c]]
  <2>1. \A d \in Clients : d # c => InBacklog(d)' = InBacklog(d)
    BY <1>3 DEF InBacklog
  <2>. QED  BY <2>1, WaitingOfOne
<1>5. CASE ~(to = c /\ queued # 0)
  <2>1. Waiting'[c] = <<>>
    BY <1>3, <1>5, FrontFacts DEF Waiting, InBacklog
  <2>2. Waiting' = [Waiting EXCEPT ![c] = <<>>]
    BY <1>4, <2>1
  <2>. QED  BY <1>2, <2>2 DEF Stream!Forget, Waiting, Closed
<1>6. CASE to = c /\ queued # 0
  <2>1. Waiting[c] = <<queued>> \o pending_frames[c] /\ queued \in Frames
    BY <1>6, WaitingFacts DEF MwInv
  <2>2. Waiting[c] # <<>> /\ Head(Waiting[c]) = queued
    BY <1>3, <2>1, FrontFacts
  <2>3. Waiting'[c] = <<queued>> \o <<>>
    BY <1>3, <1>6 DEF Waiting, InBacklog
  <2>4. <<queued>> \o <<>> = <<queued>>
    BY <2>1
  <2>5. Waiting' = [Waiting EXCEPT ![c] = <<Head(Waiting[c])>>]
    BY <1>4, <2>2, <2>3, <2>4
  <2>6. Stream!Lose(c)
    BY <1>2, <1>6, <2>2, <2>5 DEF Stream!Lose, Waiting, Closed
  <2>. QED  BY <2>6
<1>. QED  BY <1>5, <1>6

(* The popped frame is put on the connection, or the connection has ended. *)
LEMMA FlushRefines ==
  ASSUME StreamInv, MwInv', FlushSend \/ FlushSendFails
  PROVE  Stream!Deliver(to) \/ Stream!Lose(to)
<1>1. /\ to \in Clients /\ queued \in Frames /\ queued # 0 /\ queued' = 0 /\ UNCHANGED to
      /\ UNCHANGED <<pending_frames, conn, dropped_total, dropped_from_disconnected>>
      /\ pending_frames[to] \in Seq(Frames)
  BY DEF FlushSend, FlushSendFails, Transmit, StreamInv, MwInv, CallContext, TypeOK, callVars, queueVars,
     Frames
<1>2. dropped_frame_count' = dropped_frame_count /\ Closed' = Closed
  BY <1>1, CountIsTotal DEF Closed
<1>3. /\ Waiting[to] # <<>> /\ Head(Waiting[to]) = queued
      /\ Tail(Waiting[to]) = pending_frames[to]
  <2>1. Waiting[to] = <<queued>> \o pending_frames[to]
    BY <1>1, WaitingFacts DEF StreamInv, MwInv
  <2>. QED  BY <1>1, <2>1, FrontFacts
<1>4. Waiting' = [Waiting EXCEPT ![to] = Tail(Waiting[to])]
  <2>1. \A d \in Clients : d # to => InBacklog(d)' = InBacklog(d)
    BY <1>1 DEF InBacklog
  <2>2. Waiting'[to] = <<>> \o pending_frames[to]
    BY <1>1 DEF Waiting, InBacklog
  <2>3. Waiting'[to] = pending_frames[to]
    BY <1>1, <2>2, FrontFacts
  <2>. QED  BY <1>1, <1>3, <2>1, <2>3, WaitingOfOne
<1>5. CASE FlushSend
  <2>1. /\ to \notin Closed
        /\ sent' = [sent EXCEPT ![to] = Append(@, Head(Waiting[to]))]
    BY <1>3, <1>5 DEF FlushSend, Transmit, Closed
  <2>. QED  BY <1>2, <1>3, <1>4, <2>1 DEF Stream!Deliver, Waiting, Closed
<1>6. CASE FlushSendFails
  <2>1. to \in Closed /\ UNCHANGED sent
    BY <1>1, <1>6 DEF FlushSendFails, StreamInv, Served, Closed
  <2>. QED  BY <1>2, <1>3, <1>4, <2>1 DEF Stream!Lose, Waiting, Closed
<1>. QED  BY <1>5, <1>6

(* The current frame is newer than all that was sent or waits.             *)
LEMMA CurrentIsNew ==
  ASSUME StreamInv, pc \in {"current", "queue"}
  PROVE  Stream!IsNew(to, frame) /\ to \in Clients /\ frame \in Frames /\ queued = 0
<1>1. to \in Clients /\ frame \in Frames /\ queued = 0
  BY DEF StreamInv, MwInv, CallContext
<1>2. AccountedFor(to) /\ pc \in Undecided
  BY <1>1 DEF StreamInv, Accounted, Undecided
<1>3. \A f \in SeqSet(sent[to]) \cup SeqSet(pending_frames[to]) : f < frame
  BY <1>2 DEF AccountedFor, Partition
<1>4. Waiting[to] = pending_frames[to]
  BY <1>1, WaitingFacts DEF StreamInv, MwInv
<1>5. \A s \in {sent[to], Waiting[to]} : \A i \in DOMAIN s : s[i] < frame
  BY <1>3, <1>4 DEF SeqSet
<1>. QED  BY <1>1, <1>5 DEF Stream!IsNew, Waiting

(* kDelivered: the current frame is put on the connection.                 *)
LEMMA CurrentRefines ==
  ASSUME StreamInv, CurrentSend
  PROVE  Stream!Pass(to, frame)
<1>1. Stream!IsNew(to, frame) /\ to \in Clients
  BY CurrentIsNew DEF CurrentSend
<1>2. /\ UNCHANGED <<pending_frames, conn, dropped_total, dropped_from_disconnected, to, queued>>
      /\ conn[to] = "open" /\ sent' = [sent EXCEPT ![to] = Append(@, frame)]
  BY DEF CurrentSend, Transmit, callVars, queueVars
<1>3. Waiting' = Waiting /\ Closed' = Closed /\ dropped_frame_count' = dropped_frame_count
  <2>1. \A c \in Clients : InBacklog(c)' = InBacklog(c)
    BY <1>2 DEF InBacklog
  <2>. QED  BY <1>2, <2>1, CountIsTotal DEF Waiting, Closed
<1>4. to \notin Closed
  BY <1>2 DEF Closed
<1>. QED  BY <1>1, <1>2, <1>3, <1>4 DEF Stream!Pass, Waiting, Closed

(* BoundedFrameQueue::push, whatever the capacity: the new frame is put at *)
(* the end, and if there are too many then, the first one goes.            *)
LEMMA PushIsKeep ==
  ASSUME NEW q \in Seq(Frames), NEW f \in Frames,
         Len(q) <= client_backlog_size, Sorted(q), \A g \in SeqSet(q) : g < f
  PROVE  LET a == Append(q, f)
             fits == Len(a) <= client_backlog_size
             dropped == (SeqSet(q) \cup {f}) \ SeqSet(Push(q, f))
         IN  /\ Push(q, f) = IF fits THEN a ELSE Tail(a)
             /\ Cardinality(dropped) = IF fits THEN 0 ELSE 1
<1>. DEFINE a == Append(q, f)
            p == Push(q, f)
            dropped == (SeqSet(q) \cup {f}) \ SeqSet(p)
<1>1. /\ a \in Seq(Frames) /\ Len(a) = Len(q) + 1 /\ Len(q) \in Nat /\ a # <<>>
      /\ \A i \in 1..Len(q) : a[i] = q[i]
      /\ a[Len(q) + 1] = f
  OBVIOUS
<1>2. SeqSet(a) = SeqSet(q) \cup {f}
  BY AppendFacts
<1>3. Sorted(a)
  <2>1. \A i \in 1..Len(q) : q[i] < f
    BY DEF SeqSet
  <2>. HIDE DEF a
  <2>. QED  BY <1>1, <2>1 DEF Sorted
<1>4. CASE Len(a) <= client_backlog_size
  <2>1. p = a
    BY <1>1, <1>4, BacklogAssumption DEF Push
  <2>2. dropped = {}
    BY <1>2, <2>1
  <2>3. Cardinality(dropped) = 0
    BY <2>2, FS_EmptySet
  <2>. QED  BY <1>4, <2>1, <2>3
<1>5. CASE ~(Len(a) <= client_backlog_size)
  <2>1. p = Tail(a)
    <3>1. Len(q) = client_backlog_size
      BY <1>1, <1>5, BacklogAssumption
    <3>2. CASE client_backlog_size = 0
      <4>1. q = <<>> /\ p = q
        BY <3>1, <3>2 DEF Push
      <4>2. Tail(Append(<<>>, f)) = <<>>
        OBVIOUS
      <4>. QED  BY <4>1, <4>2
    <3>3. CASE client_backlog_size # 0
      <4>1. p = Append(Tail(q), f) /\ q # <<>>
        BY <3>1, <3>3 DEF Push
      <4>2. Append(Tail(q), f) = Tail(Append(q, f))
        BY <4>1
      <4>. QED  BY <4>1, <4>2
    <3>. QED  BY <3>2, <3>3
  <2>2. SeqSet(a) = SeqSet(Tail(a)) \cup {Head(a)} /\ Head(a) \notin SeqSet(Tail(a))
    <3>. HIDE DEF a
    <3>. QED  BY <1>1, <1>3, TailFacts
  <2>3. dropped = {Head(a)}
    BY <1>2, <2>1, <2>2
  <2>4. Cardinality(dropped) = 1
    BY <2>3, FS_Singleton
  <2>. QED  BY <1>5, <2>1, <2>4
<1>. QED  BY <1>4, <1>5

(* kQueued: the current frame is kept, and a drop is counted.              *)
LEMMA QueueRefines ==
  ASSUME StreamInv, Queue
  PROVE  Stream!Keep(to, frame)
<1>. DEFINE q == pending_frames[to]
            a == Append(q, frame)
            fits == Len(a) <= client_backlog_size
            dropped == (SeqSet(q) \cup {frame}) \ SeqSet(Push(q, frame))
            n == IF fits THEN 0 ELSE 1
<1>1. Stream!IsNew(to, frame) /\ to \in Clients /\ frame \in Frames /\ queued = 0
  BY CurrentIsNew DEF Queue
<1>2. /\ pending_frames' = [pending_frames EXCEPT ![to] = Push(q, frame)]
      /\ dropped_total' = [dropped_total EXCEPT ![to] = @ + Cardinality(dropped)]
      /\ UNCHANGED <<sent, conn, dropped_from_disconnected, to, queued>> /\ pc = "queue"
  BY DEF Queue, callVars
<1>3. q \in Seq(Frames) /\ Len(q) <= client_backlog_size /\ Sorted(q) /\ \A g \in SeqSet(q) : g < frame
  BY <1>1, <1>2 DEF StreamInv, MwInv, TypeOK, BacklogOrder, Undecided
<1>4. Push(q, frame) = (IF fits THEN a ELSE Tail(a)) /\ Cardinality(dropped) = n
  <2>. HIDE DEF q
  <2>. QED  BY <1>1, <1>3, PushIsKeep
<1>5. Waiting[to] = q
  BY <1>1, WaitingFacts DEF StreamInv, MwInv
<1>6. Waiting' = [Waiting EXCEPT ![to] = IF fits THEN a ELSE Tail(a)]
  <2>1. Push(q, frame) \in Seq(Frames)
    <3>. HIDE DEF q
    <3>. QED  BY <1>1, <1>3, PushFacts
  <2>2. \A d \in Clients : d # to => InBacklog(d)' = InBacklog(d)
    BY <1>1, <1>2 DEF InBacklog, StreamInv, MwInv, TypeOK
  <2>3. pending_frames'[to] = Push(q, frame)
    BY <1>1, <1>2 DEF StreamInv, MwInv, TypeOK
  <2>4. Waiting'[to] = <<>> \o Push(q, frame)
    BY <1>1, <1>2, <2>3 DEF Waiting, InBacklog
  <2>5. Waiting'[to] = Push(q, frame)
    BY <2>1, <2>4, FrontFacts
  <2>. QED  BY <1>1, <1>4, <2>2, <2>5, WaitingOfOne
<1>7. dropped_frame_count' = IF fits THEN dropped_frame_count ELSE dropped_frame_count + 1
  <2>1. /\ dropped_total \in [Clients -> Nat] /\ dropped_total' \in [Clients -> Nat]
        /\ dropped_total[to] \in Nat /\ dropped_total'[to] = dropped_total[to] + n
        /\ \A d \in Clients : d # to => dropped_total'[d] = dropped_total[d]
        /\ dropped_from_disconnected \in Nat /\ n \in Nat
    <3>. HIDE DEF fits, dropped
    <3>1. n \in Nat
      OBVIOUS
    <3>. HIDE DEF n
    <3>. QED  BY <1>1, <1>2, <1>4, <3>1 DEF StreamInv, MwInv, TypeOK
  <2>2. Total(dropped_total) + dropped_total'[to] = Total(dropped_total') + dropped_total[to]
    BY <1>1, <2>1, TotalUpdate
  <2>3. Total(dropped_total) \in Nat /\ Total(dropped_total') \in Nat
    BY <2>1, TotalFacts
  <2>. HIDE DEF fits, dropped
  <2>4. Total(dropped_total') = Total(dropped_total) + n
    <3>. HIDE DEF n
    <3>. QED  BY <2>1, <2>2, <2>3
  <2>. QED  BY <1>2, <2>1, <2>3, <2>4, CountIsTotal
<1>8. Closed' = Closed
  BY <1>2 DEF Closed
<1>. QED  BY <1>1, <1>2, <1>5, <1>6, <1>7, <1>8 DEF Stream!Keep, Waiting, Closed

(* Every step of the middleware is a step of the streams of frames or      *)
(* changes nothing that they tell of.                                      *)
LEMMA StreamStep == StreamInv /\ MwInv' /\ [Next]_vars => [Stream!Next]_(Stream!vars)
<1>. SUFFICES ASSUME StreamInv, MwInv', [Next]_vars PROVE [Stream!Next]_(Stream!vars)
  OBVIOUS
<1>0. MwInv /\ Served
  BY DEF StreamInv
<1>1. CASE \/ \E c \in Clients : Connect(c) \/ Drain(c) \/ SendReply(c) \/ SendBinary(c)
           \/ FlushEnd \/ CurrentSendFails \/ CurrentCongested \/ Shed \/ QueueClientGone \/ Warn
           \/ UNCHANGED vars
  <2>1. UNCHANGED <<pending_frames, queued, sent, dropped_total, dropped_from_disconnected>>
    BY <1>1 DEF Connect, Drain, SendReply, SendBinary, FlushEnd, CurrentSendFails, CurrentCongested,
       Shed, QueueClientGone, Warn, vars, queueVars, callVars, history
  <2>2. queued = 0 \/ UNCHANGED to
    BY <1>0, <1>1 DEF Connect, Drain, SendReply, SendBinary, FlushEnd, CurrentSendFails, CurrentCongested,
       Shed, QueueClientGone, Warn, vars, callVars, MwInv, CallContext
  <2>3. Closed' = Closed
    <3>1. CASE \E c \in Clients : Connect(c)
      BY <1>0, <3>1 DEF Connect, Closed, MwInv, TypeOK
    <3>2. CASE conn' = conn
      BY <3>2 DEF Closed
    <3>. QED  BY <1>1, <3>1, <3>2 DEF Drain, SendReply, SendBinary, FlushEnd, CurrentSendFails,
            CurrentCongested, Shed, QueueClientGone, Warn, vars
  <2>. QED  BY <1>0, <2>1, <2>2, <2>3, QuietStutters
<1>2. ASSUME NEW c \in Clients, Disconnect(c) PROVE Stream!Next
  <2>1. UNCHANGED <<pending_frames, queued, to, sent, dropped_total, dropped_from_disconnected>>
    BY <1>2 DEF Disconnect, queueVars, callVars, history
  <2>2. Closed' = Closed \cup {c}
    BY <1>0, <1>2 DEF Disconnect, Closed, MwInv, TypeOK
  <2>3. Waiting' = Waiting
    <3>1. \A d \in Clients : InBacklog(d)' = InBacklog(d)
      BY <2>1 DEF InBacklog
    <3>. QED  BY <3>1 DEF Waiting
  <2>4. dropped_frame_count' = dropped_frame_count
    BY <2>1, CountIsTotal
  <2>5. Stream!Close(c)
    BY <2>1, <2>2, <2>3, <2>4 DEF Stream!Close, Waiting, Closed
  <2>. QED  BY <2>5 DEF Stream!Next
<1>3. ASSUME NEW c \in Clients, CloseDrop(c) \/ CloseErase(c) \/ DropPending(c) PROVE Stream!Next
  <2>1. EraseBacklog(c) /\ UNCHANGED <<to, queued, sent>>
    BY <1>3 DEF CloseDrop, CloseErase, DropPending, callVars
  <2>2. Closed' = Closed
    BY <1>0, <1>3 DEF CloseDrop, CloseErase, DropPending, Closed, MwInv, TypeOK
  <2>3. to = c /\ queued # 0 => c \in Closed
    BY <1>0, <1>3 DEF CloseDrop, CloseErase, DropPending, Closed, MwInv, CallContext
  <2>4. Stream!Forget(c) \/ Stream!Lose(c)
    BY <1>0, <2>1, <2>2, <2>3, EraseRefines
  <2>. QED  BY <2>4 DEF Stream!Next
<1>4. CASE FlushPop
  BY <1>0, <1>4, PopStutters
<1>5. CASE FlushSend \/ FlushSendFails
  <2>1. to \in Clients
    BY <1>0, <1>5 DEF FlushSend, FlushSendFails, MwInv, CallContext
  <2>. QED  BY <1>5, <2>1, FlushRefines DEF Stream!Next
<1>6. CASE CurrentSend
  BY <1>6, CurrentRefines, CurrentIsNew DEF CurrentSend, Stream!Next
<1>7. CASE Queue
  BY <1>7, QueueRefines, CurrentIsNew DEF Queue, Stream!Next
<1>. QED  BY <1>1, <1>2, <1>3, <1>4, <1>5, <1>6, <1>7 DEF Next, SenderStep

(* send_binary, run_backpressure, drop_pending and the Close callback      *)
(* implement the streams of FrameStream: kept frames follow in order, and  *)
(* none is missing but those counted as dropped and those that end with    *)
(* their session or connection.                                            *)
THEOREM StreamRefinement == Spec => ImplementsFrameStream
<1>1. Init => Stream!Init
  <2>. SUFFICES ASSUME Init PROVE Stream!Init
    OBVIOUS
  <2>1. Waiting = [c \in Clients |-> <<>>]
    <3>1. <<>> \o <<>> = <<>>
      OBVIOUS
    <3>. QED  BY <3>1 DEF Init, Waiting, InBacklog
  <2>2. Closed = {}
    BY DEF Init, Closed
  <2>3. dropped_frame_count = 0
    <3>. DEFINE g == [s \in SUBSET Clients |-> 0]
    <3>1. dropped_total \in [Clients -> Nat] /\ dropped_from_disconnected = 0
      BY DEF Init
    <3>2. ASSUME NEW s \in SUBSET Clients
          PROVE  g[s] = IF s = {} THEN 0 ELSE dropped_total[Pick(s)] + g[s \ {Pick(s)}]
      <4>1. s # {} => Pick(s) \in Clients
        BY DEF Pick
      <4>2. s \ {Pick(s)} \in SUBSET Clients
        OBVIOUS
      <4>. QED  BY <4>1, <4>2 DEF Init
    <3>3. SumsOf(g, dropped_total)
      BY <3>2 DEF SumsOf
    <3>4. g[Clients] = Total(dropped_total)
      <4>. HIDE DEF g
      <4>. QED  BY <3>1, <3>3, TotalFacts
    <3>. QED  BY <3>1, <3>4, CountIsTotal
  <2>. QED  BY <2>1, <2>2, <2>3 DEF Init, Stream!Init, Waiting, Closed
<1>2. Init => Served
  BY DEF Init, Served
<1>3. MwInv /\ Served /\ [Next]_vars => Served'
  <2>. SUFFICES ASSUME MwInv, Served, [Next]_vars PROVE Served'
    OBVIOUS
  <2>. QED
    BY DEF Served, MwInv, CallContext, TypeOK, Next, SenderStep, Connect, Drain, Disconnect, CloseDrop,
       CloseErase, SendReply, DropPending, SendBinary, FlushPop, FlushEnd, FlushSend, FlushSendFails,
       CurrentSend, CurrentSendFails, CurrentCongested, Shed, Queue, QueueClientGone, Warn, vars, callVars
<1>4. Spec => []StreamInv
  BY <1>2, <1>3, AccountedInvariant, PTL DEF Spec, StreamInv
<1>. QED
  BY <1>1, <1>4, StreamStep, MwInvariant, PTL DEF Spec, ImplementsFrameStream, Stream!Spec
=============================================================================
