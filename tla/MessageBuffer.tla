--------------------------- MODULE MessageBuffer ---------------------------
(***************************************************************************)
(* app/src/message_buffer.cpp: the per-topic buffer between the ingest     *)
(* thread and the publish cycle, with its time-to-live and its store of    *)
(* retained samples for latched (transient_local) topics.  Every method    *)
(* holds mutex_ from beginning to end, so every method is one action.      *)
(*                                                                         *)
(* The clock is std::chrono::system_clock: it may be set back.  A message  *)
(* is its payload and received_at_ns; timestamp_ns, which this class only  *)
(* stores, goes with the payload.  A topic whose deque is empty has no     *)
(* entry in topic_buffers_: cleanup and move_messages erase empty deques.  *)
(***************************************************************************)
EXTENDS Integers, Sequences, FiniteSets, FiniteSetsExt

CONSTANTS
  Topics,
  Samples,              \* payloads
  max_message_age,      \* max_message_age_ns_
  ClockRange,           \* the range of uint64_t, 2^64 in the code
  MaxTime,              \* bound: the clock stays in 0..MaxTime
  NoMessage

ASSUME AgeAssumption   == max_message_age \in Nat
ASSUME ClockAssumption == MaxTime \in Nat /\ ClockRange \in Nat /\ MaxTime < ClockRange
ASSUME NoMessageAssumption == NoMessage \notin [data : Samples, received_at : 0..MaxTime]

VARIABLES
  clock,                \* now_ns()
  topic_buffers,        \* topic_buffers_
  latched_topics,       \* latched_topics_
  latched_last,         \* latched_last_, NoMessage where there is no entry
  newest                \* history: the last message added for each topic

vars == <<clock, topic_buffers, latched_topics, latched_last, newest>>

Messages == [data : Samples, received_at : 0..MaxTime]

TypeOK ==
  /\ clock \in 0..MaxTime
  /\ topic_buffers \in [Topics -> Seq(Messages)]
  /\ latched_topics \in SUBSET Topics
  /\ latched_last \in [Topics -> Messages \cup {NoMessage}]
  /\ newest \in [Topics -> Messages \cup {NoMessage}]

Init ==
  /\ clock = 0
  /\ topic_buffers = [t \in Topics |-> <<>>]
  /\ latched_topics = {}
  /\ latched_last = [t \in Topics |-> NoMessage]
  /\ newest = [t \in Topics |-> NoMessage]

-----------------------------------------------------------------------------
(* Faulty: unsigned subtraction without the test that comes first. *)
ExpiredWrapping(m) == (clock - m.received_at) % ClockRange > max_message_age

(* The age test of cleanup_old_messages.                                   *)
Expired(m) ==
  /\ clock > m.received_at
  /\ clock - m.received_at > max_message_age

(* Faulty: only the oldest message is looked at. *)
WithoutOneExpired(q) == IF q # <<>> /\ Expired(Head(q)) THEN Tail(q) ELSE q

(* cleanup_old_messages on one deque: expired messages are popped from the *)
(* front, up to the first one that is not.                                 *)
WithoutExpired(q) ==
  LET fresh == {i \in 1..Len(q) : ~Expired(q[i])}
  IN  IF fresh = {} THEN <<>> ELSE SubSeq(q, Min(fresh), Len(q))

(* add_message: the cleanup of every topic, then the retained copy for a   *)
(* latched one, then the message.                                          *)
AddMessage(t, d) ==
  LET msg == [data |-> d, received_at |-> clock]
  IN  /\ topic_buffers' = [u \in Topics |->
           IF u = t THEN Append(WithoutExpired(topic_buffers[u]), msg)
           ELSE WithoutExpired(topic_buffers[u])]
      /\ latched_last' = IF t \in latched_topics
                         THEN [latched_last EXCEPT ![t] = msg] ELSE latched_last
      /\ newest' = [newest EXCEPT ![t] = msg]
      /\ UNCHANGED <<clock, latched_topics>>

(* Faulty: does not look for a sample the ingest thread has buffered. *)
SetLatchedWithoutSeed(t) ==
  /\ latched_topics' = latched_topics \cup {t}
  /\ UNCHANGED <<clock, topic_buffers, latched_last, newest>>

(* set_latched(t, true): a sample that is already buffered is retained.    *)
SetLatched(t) ==
  /\ latched_topics' = latched_topics \cup {t}
  /\ latched_last' =
       IF latched_last[t] = NoMessage /\ topic_buffers[t] # <<>>
       THEN [latched_last EXCEPT ![t] = topic_buffers[t][Len(topic_buffers[t])]]
       ELSE latched_last
  /\ UNCHANGED <<clock, topic_buffers, newest>>

(* set_latched(t, false) *)
ClearLatched(t) ==
  /\ latched_topics' = latched_topics \ {t}
  /\ latched_last' = [latched_last EXCEPT ![t] = NoMessage]
  /\ UNCHANGED <<clock, topic_buffers, newest>>

(* get_latched_for_replay, NoMessage for nullopt.                          *)
LatchedForReplay(t) == IF topic_buffers[t] = <<>> THEN latched_last[t] ELSE NoMessage

(* move_messages: everything goes to the publish cycle; retained samples   *)
(* stay.                                                                   *)
MoveMessages ==
  /\ topic_buffers' = [t \in Topics |-> <<>>]
  /\ UNCHANGED <<clock, latched_topics, latched_last, newest>>

Clear ==
  /\ topic_buffers' = [t \in Topics |-> <<>>]
  /\ latched_topics' = {}
  /\ latched_last' = [t \in Topics |-> NoMessage]
  /\ UNCHANGED <<clock, newest>>

(* Time passes, or the clock is set, back or forth.                        *)
SetClock(now) ==
  /\ clock' = now
  /\ UNCHANGED <<topic_buffers, latched_topics, latched_last, newest>>

-----------------------------------------------------------------------------
Next ==
  \/ \E t \in Topics :
       \/ \E d \in Samples : AddMessage(t, d)
       \/ SetLatched(t)
       \/ ClearLatched(t)
  \/ MoveMessages
  \/ Clear
  \/ \E now \in 0..MaxTime : SetClock(now)

Spec == Init /\ [][Next]_vars

(* A clock that is never set back.                                         *)
SteadySpec == Init /\ [][Next /\ clock' >= clock]_vars

-----------------------------------------------------------------------------
(* Properties.                                                             *)

(* An add_message, which always changes the deque of its topic.            *)
Adding ==
  /\ topic_buffers' # topic_buffers
  /\ \E t \in Topics, d \in Samples : AddMessage(t, d)

SeqSet(q) == {q[i] : i \in DOMAIN q}

(* set_latched and add_message together: the sample a later subscriber is  *)
(* replayed is the newest of its topic, and one is retained as soon as any *)
(* sample of a latched topic is buffered, in whichever order the ingest    *)
(* thread and the subscribing thread come.                                 *)
RetainedIsNewest ==
  \A t \in Topics :
    /\ latched_last[t] # NoMessage => t \in latched_topics /\ latched_last[t] = newest[t]
    /\ t \in latched_topics /\ topic_buffers[t] # <<>> => latched_last[t] # NoMessage

(* The comment in cleanup_old_messages: a clock that is set back never     *)
(* makes a message look old; what a cleanup removes has outlived           *)
(* max_message_age by the clock as it stands.                              *)
FreshNeverPurged ==
  [][Adding =>
       \A t \in Topics : \A m \in SeqSet(topic_buffers[t]) \ SeqSet(topic_buffers'[t]) :
         clock - m.received_at > max_message_age]_vars

(* The messages of t were received one after the other and none in the     *)
(* future, by a clock that was not set back.                               *)
InOrder(t) ==
  \A i \in 1..Len(topic_buffers[t]) :
    /\ topic_buffers[t][i].received_at <= clock
    /\ \A j \in i..Len(topic_buffers[t]) :
         topic_buffers[t][i].received_at <= topic_buffers[t][j].received_at

ReceivedInOrder == \A t \in Topics : InOrder(t)

(* message_buffer.hpp: "Stale messages older than max_message_age_ns are   *)
(* automatically removed on each add_message() call", of every topic whose *)
(* messages are in order.                                                  *)
StaleRemovedByAdd ==
  [][Adding =>
       \A t \in Topics : InOrder(t) => \A m \in SeqSet(topic_buffers'[t]) :
         clock - m.received_at <= max_message_age]_vars
=============================================================================
