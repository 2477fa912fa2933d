---------------------------- MODULE FrameStream ----------------------------
(***************************************************************************)
(* What the middleware promises about a client's stream of binary frames,  *)
(* with no lock, flush loop, watermark or thread in sight.  A frame is put *)
(* on the connection or kept; kept frames follow in the order in which     *)
(* they were kept; beyond Capacity the oldest is given up, and counted.    *)
(* Without being counted, frames are lost only with their session or with  *)
(* the connection, and nothing is received on a connection after that.     *)
(* WebSocketMiddleware implements this with a BoundedFrameQueue per client *)
(* that the event loop flushes and the Close callback erases.              *)
(***************************************************************************)
EXTENDS Naturals, Sequences

CONSTANTS Clients, Frames, Capacity

VARIABLES
  received,  \* received[c]: the frames put on the connection of c, in this order
  waiting,   \* waiting[c]: the frames kept for c, oldest first
  closed,    \* clients whose connection has ended
  dropped    \* the number of frames given up for lack of room

Init ==
  /\ received = [c \in Clients |-> <<>>]
  /\ waiting = [c \in Clients |-> <<>>]
  /\ closed = {}
  /\ dropped = 0

(* Frame f comes after everything received by or kept for c.               *)
IsNew(c, f) ==
  \A s \in {received[c], waiting[c]} : \A i \in DOMAIN s : s[i] < f

(* The oldest kept frame is put on the connection.                         *)
Deliver(c) ==
  /\ c \notin closed
  /\ waiting[c] # <<>>
  /\ received' = [received EXCEPT ![c] = Append(@, Head(waiting[c]))]
  /\ waiting' = [waiting EXCEPT ![c] = Tail(@)]
  /\ UNCHANGED <<closed, dropped>>

(* A new frame is put on the connection at once, whatever is kept.         *)
Pass(c, f) ==
  /\ c \notin closed
  /\ IsNew(c, f)
  /\ received' = [received EXCEPT ![c] = Append(@, f)]
  /\ UNCHANGED <<waiting, closed, dropped>>

(* A new frame is kept.                                                    *)
Keep(c, f) ==
  LET q == Append(waiting[c], f)
      fits == Len(q) <= Capacity
  IN  /\ IsNew(c, f)
      /\ waiting' = [waiting EXCEPT ![c] = IF fits THEN q ELSE Tail(q)]
      /\ dropped' = IF fits THEN dropped ELSE dropped + 1
      /\ UNCHANGED <<received, closed>>

(* The connection of c ends.                                               *)
Close(c) ==
  /\ closed' = closed \cup {c}
  /\ UNCHANGED <<received, waiting, dropped>>

(* The session of c ends: nothing is kept for it any more.                 *)
Forget(c) ==
  /\ waiting' = [waiting EXCEPT ![c] = <<>>]
  /\ UNCHANGED <<received, closed, dropped>>

(* What is kept for a connection that has ended is lost, perhaps in two    *)
(* parts: the frame about to be sent and the others.                       *)
Lose(c) ==
  /\ c \in closed
  /\ waiting[c] # <<>>
  /\ \E q \in {<<Head(waiting[c])>>, Tail(waiting[c])} : waiting' = [waiting EXCEPT ![c] = q]
  /\ UNCHANGED <<received, closed, dropped>>

Next ==
  \E c \in Clients :
    \/ Deliver(c) \/ Close(c) \/ Forget(c) \/ Lose(c)
    \/ \E f \in Frames : Pass(c, f) \/ Keep(c, f)

vars == <<received, waiting, closed, dropped>>

Spec == Init /\ [][Next]_vars
=============================================================================
