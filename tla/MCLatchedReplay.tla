-------------------------- MODULE MCLatchedReplay --------------------------
EXTENDS LatchedReplay, TLC

CONSTANTS c1, c2, tf, other

(* Clients are interchangeable. *)
MCSymmetry == Permutations(Clients)
MCSamples  == VersionedSamples

(* What steps and the invariants of the run depend on: not joined, and not *)
(* the newest message of a topic that is never latched.                    *)
MCView == <<clock, topic_buffers, latched_topics, latched_last, newest[LatchedTopic], ddsVars,
            holders, delivered, lost, withheld, rateVars, joinVars>>

(* Messages of the other topic meet rates during the first subscription,   *)
(* and later ones as long as no rate has been set.                         *)
MCBound ==
  \/ topic_buffers[other] = <<>>
  \/ subscription <= 1
  \/ withheld = {} /\ \A c \in Clients : interval[c] = 0 /\ last_sent[c] = 0
=============================================================================
