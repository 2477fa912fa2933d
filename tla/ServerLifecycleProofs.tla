----------------------- MODULE ServerLifecycleProofs -----------------------
(***************************************************************************)
(* Proofs about ServerLifecycle, for any set of connections and any length *)
(* of the incoming queue.                                                  *)
(*                                                                         *)
(* The three invariants say what holds when the server runs, is down or    *)
(* destroyed.  What leads there is LifeInv: which of the flags are set     *)
(* while the main thread is where it is (Phases), what the position of a   *)
(* connection's thread says about its client (Callbacks), and what is left *)
(* at the end if the stop thread has finished (Endings).                   *)
(***************************************************************************)
EXTENDS ServerLifecycle, TLAPS

Starting == {"new", "initialize", "listen"}
Serving  == {"running", "stopping"}
Ending   == {"clear", "clear_queue", "down", "destroyed", "gone"}

(* No connection's thread runs, and none will.                             *)
Quiet == ~ accepting /\ \A c \in Conns : conn[c] \in {"new", "ended"}

Phases ==
  /\ locked => main \in {"listen", "start"}
  /\ main \in {"listen", "start"} => locked
  /\ initialized <=> main \in Serving
  /\ main \in {"initialize", "listen", "start"} \cup Serving => on_disconnect
  /\ main \in {"noop", "close", "wait"} => ~ on_disconnect
  /\ main \in Ending => ~ on_disconnect \/ Quiet
  /\ main \in {"listen", "start"} \cup Serving => installed
  /\ accepting => main \notin Starting
  /\ main \in Starting => \A c \in Conns : conn[c] = "new"
  /\ main \in Starting \cup {"start"} =>
       clients = {} /\ pending_frames = {} /\ incoming_queue = <<>> /\ stop = "none"
  /\ pending_stop => main \in Ending \ {"gone"}
  /\ stop = "done" => Quiet

Callbacks ==
  /\ pending_frames \subseteq clients
  /\ \A c \in Conns :
       /\ main = "start" => conn[c] \in {"new", "check"}
       /\ conn[c] \in Events => event[c] = conn[c]
       /\ conn[c] \in {"cleanup", "erase"} => event[c] = "close"
       /\ conn[c] = "check" /\ main = "start" => event[c] = "open"
       /\ main = "running" =>
            /\ conn[c] = "check" /\ event[c] # "open" => c \in clients
            /\ conn[c] \in {"idle", "message", "close", "cleanup"} => c \in clients
            /\ conn[c] \in {"cleanup", "erase", "ended"} => c \in cleaned
            /\ conn[c] = "ended" => c \notin clients
       /\ main \notin Starting \cup Serving \cup {"start"} =>
            (conn[c] = "cleanup" => c \in caught)

Endings ==
  /\ main \in Ending /\ ~ pending_stop => Quiet
  /\ main \in {"clear_queue", "down", "destroyed"} /\ ~ pending_stop => clients = {} /\ pending_frames = {}
  /\ main \in {"down", "destroyed"} /\ ~ pending_stop => incoming_queue = <<>>

(* The inductive invariant.                                                *)
LifeInv == TypeOK /\ Phases /\ Callbacks /\ Endings

-----------------------------------------------------------------------------
(* The inductive invariant holds initially.                                *)
LEMMA LifeInit == ASSUME Init PROVE LifeInv
<1>. USE DEF Init, TypeOK, Phases, Callbacks, Endings, Quiet, Starting, Serving, Ending,
             Outside, Events
<1>1. TypeOK
  <2>1. incoming_queue \in Seq(Conns)  OBVIOUS
  <2>2. conn \in [Conns -> Outside \cup {"check", "cleanup", "erase"} \cup Events]  OBVIOUS
  <2>. QED  BY <2>1, <2>2
<1>2. Phases  OBVIOUS
<1>3. Callbacks  OBVIOUS
<1>4. Endings  OBVIOUS
<1>. QED  BY <1>1, <1>2, <1>3, <1>4 DEF LifeInv

(* The steps of the main thread preserve it, but for those of the loop.    *)
LEMMA MainStep ==
  ASSUME LifeInv,
         InitializeBridge \/ InitializeMiddleware \/ Listen \/ Started \/ Serve \/ Signal
           \/ ShutdownStep \/ StopAccepting \/ StopDone \/ DestroyBridge \/ DestroyMiddleware
  PROVE  LifeInv'
<1>. USE DEF LifeInv, TypeOK, Phases, Callbacks, Endings, Quiet, Starting, Serving, Ending,
             Outside, Events, mwVars, ixVars, history
<1>1. CASE InitializeBridge  BY <1>1 DEF InitializeBridge
<1>2. CASE InitializeMiddleware
  <2>1. TypeOK'  BY <1>2 DEF InitializeMiddleware
  <2>2. Phases'  BY <1>2 DEF InitializeMiddleware
  <2>3. Callbacks'  BY <1>2 DEF InitializeMiddleware
  <2>4. Endings'  BY <1>2 DEF InitializeMiddleware
  <2>. QED  BY <2>1, <2>2, <2>3, <2>4
<1>3. CASE Listen
  <2>1. CASE main' = "start"
    BY <1>3, <2>1 DEF Listen
  <2>2. CASE main' = "down"
    <3>1. Quiet' /\ accepting' = accepting
      BY <1>3, <2>2 DEF Listen
    <3>. QED  BY <1>3, <2>2, <3>1 DEF Listen
  <2>. QED  BY <1>3, <2>1, <2>2 DEF Listen
<1>4. CASE Started  BY <1>4 DEF Started
<1>5. CASE Serve  BY <1>5 DEF Serve
<1>6. CASE Signal  BY <1>6 DEF Signal
<1>7. CASE BeginShutdown  BY <1>7 DEF BeginShutdown
<1>8. CASE InstallNoop  BY <1>8 DEF InstallNoop
<1>9. CASE StartStop  BY <1>9 DEF StartStop
<1>10. CASE Stopped  BY <1>10 DEF Stopped
<1>11. CASE StopTimesOut  BY <1>11 DEF StopTimesOut
<1>12. CASE ClearClients  BY <1>12 DEF ClearClients
<1>13. CASE ClearQueue  BY <1>13 DEF ClearQueue
<1>14. CASE StopAccepting  BY <1>14 DEF StopAccepting
<1>15. CASE StopDone  BY <1>15 DEF StopDone
<1>16. CASE DestroyBridge  BY <1>16 DEF DestroyBridge
<1>17. CASE DestroyMiddleware  BY <1>17 DEF DestroyMiddleware
<1>. QED  BY <1>1, <1>2, <1>3, <1>4, <1>5, <1>6, <1>7, <1>8, <1>9, <1>10, <1>11, <1>12, <1>13,
             <1>14, <1>15, <1>16, <1>17 DEF ShutdownStep

(* So do the steps of a connection, and frames queued for its client.      *)
LEMMA ConnectionStep ==
  ASSUME LifeInv, NEW c \in Conns,
         Accept(c) \/ CallbackStep(c) \/ QueueFrame(c) \/ \E e \in Events : Receive(c, e)
  PROVE  LifeInv'
<1>. USE DEF LifeInv, TypeOK, Phases, Callbacks, Endings, Quiet, Starting, Serving, Ending,
             Outside, Events, mwVars, ixVars, history
<1>1. CASE Accept(c)
  <2>1. TypeOK'  BY <1>1 DEF Accept, Fire
  <2>2. Phases'  BY <1>1 DEF Accept, Fire
  <2>3. Callbacks'  BY <1>1 DEF Accept, Fire
  <2>4. Endings'  BY <1>1 DEF Accept, Fire
  <2>. QED  BY <2>1, <2>2, <2>3, <2>4
<1>2. CASE Check(c)  BY <1>2 DEF Check, Returned
<1>3. CASE Open(c)  BY <1>3 DEF Open, Returned
<1>4. CASE Message(c)  BY <1>4 DEF Message, Returned
<1>5. CASE Close(c)  BY <1>5 DEF Close
<1>6. CASE Cleanup(c)  BY <1>6 DEF Cleanup
<1>7. CASE Erase(c)  BY <1>7 DEF Erase, Returned
<1>8. CASE QueueFrame(c)  BY <1>8 DEF QueueFrame
<1>9. ASSUME NEW e \in Events, Receive(c, e) PROVE LifeInv'
  <2>1. TypeOK'  BY <1>9 DEF Receive, Fire
  <2>2. Phases'  BY <1>9 DEF Receive, Fire
  <2>3. Callbacks'  BY <1>9 DEF Receive, Fire
  <2>4. Endings'  BY <1>9 DEF Receive, Fire
  <2>. QED  BY <2>1, <2>2, <2>3, <2>4
<1>. QED  BY <1>1, <1>2, <1>3, <1>4, <1>5, <1>6, <1>7, <1>8, <1>9 DEF CallbackStep

(* The inductive invariant always holds.                                   *)
THEOREM Lifecycle == Spec => []LifeInv
<1>1. ASSUME LifeInv, [Next]_vars PROVE LifeInv'
  <2>1. CASE UNCHANGED vars
    BY <1>1, <2>1 DEF LifeInv, TypeOK, Phases, Callbacks, Endings, Quiet, vars, mwVars, ixVars, history
  <2>. QED  BY <1>1, <2>1, MainStep, ConnectionStep DEF Next
<1>. QED  BY LifeInit, <1>1, PTL DEF Spec

(* However early a connection comes, its client is known while the server  *)
(* runs, and once it has ended its session was cleaned up and nothing of   *)
(* it is left.                                                             *)
THEOREM NoConnectionIsMissed == Spec => []EventsAreHeard
<1>1. LifeInv => EventsAreHeard
  BY DEF LifeInv, Callbacks, EventsAreHeard
<1>. QED  BY <1>1, Lifecycle, PTL

(* A shutdown whose stop thread has finished in time leaves no connection, *)
(* client, backlog or request.                                             *)
THEOREM ShutdownLeavesNothing == Spec => []ShutdownIsClean
<1>1. LifeInv => ShutdownIsClean
  BY DEF LifeInv, TypeOK, Callbacks, Endings, Quiet, Ending, ShutdownIsClean
<1>. QED  BY <1>1, Lifecycle, PTL

(* After the destruction of BridgeServer only a cleanup that was running   *)
(* before the shutdown, and outlasts the timeout, still runs; after that   *)
(* of the middleware nothing does.                                         *)
THEOREM DestructionIsSafe == Spec => []NoCallbackAfterDestruction
<1>1. LifeInv => NoCallbackAfterDestruction
  BY DEF LifeInv, TypeOK, Phases, Callbacks, Endings, Quiet, Starting, Serving, Ending, Outside,
         Events, NoCallbackAfterDestruction
<1>. QED  BY <1>1, Lifecycle, PTL
=============================================================================
