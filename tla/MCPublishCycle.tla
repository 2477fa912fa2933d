--------------------------- MODULE MCPublishCycle ---------------------------
(* Rates are half mHz: 1 is below the smallest rate, 9 above the largest;  *)
(* 2 and 3 are both 1 mHz, an interval of two ticks, and 4 is 2 mHz, one   *)
(* tick.                                                                   *)
EXTENDS PublishCycle, TLC

CONSTANTS c1, c2, t1

MCSymmetry == Permutations(Clients)
MCRequested == {-1, 0, 1, 3, 4, 9}
MCName == [t \in Topics |-> <<1, 2>>]

(* A light message, one that the 32-bit length cannot count and one of     *)
(* just the size of the threshold.                                         *)
MCSize == [s \in Stamps |-> CASE s = 2 -> 1 [] s = 3 -> 66 [] s = 4 -> 2]
=============================================================================
