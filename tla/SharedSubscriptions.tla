------------------------ MODULE SharedSubscriptions ------------------------
(***************************************************************************)
(* What the bridge promises about middleware subscriptions, with no        *)
(* counter, lock, session or thread in sight: every topic has a set of     *)
(* clients that hold it, a client's holdings grow or shrink in one step    *)
(* without touching anybody else's, and a DDS subscription to the topic    *)
(* exists exactly while somebody holds it.  BridgeServer implements this   *)
(* with a reference count per topic and a set of held references per       *)
(* session.                                                                *)
(***************************************************************************)
CONSTANTS Clients, Topics

VARIABLES
  holders,   \* holders[t]: the clients on whose behalf t is subscribed
  live       \* the topics with a DDS subscription

Init ==
  /\ holders = [t \in Topics |-> {}]
  /\ live = {}

(* Client c starts to hold the topics in T; the missing DDS subscriptions  *)
(* are created.                                                            *)
Acquire(c, T) ==
  /\ \A t \in T : c \notin holders[t]
  /\ holders' = [t \in Topics |-> IF t \in T THEN holders[t] \cup {c} ELSE holders[t]]
  /\ live' = live \cup T

(* Client c lets go of the topics in T; a DDS subscription nobody holds    *)
(* any more is destroyed, and no other one.                                *)
Release(c, T) ==
  /\ \A t \in T : c \in holders[t]
  /\ holders' = [t \in Topics |-> IF t \in T THEN holders[t] \ {c} ELSE holders[t]]
  /\ live' = live \ {t \in T : holders[t] = {c}}

Next ==
  \E c \in Clients, T \in SUBSET Topics : Acquire(c, T) \/ Release(c, T)

vars == <<holders, live>>

Spec == Init /\ [][Next]_vars
=============================================================================
