--------------------------- MODULE MCBackpressure ---------------------------
(* Instances of Backpressure for TLC.                                      *)
EXTENDS Backpressure, TLC

CONSTANTS q1, p1, p2

(* One queue with two producers, as the output queue of the Normalizer     *)
(* with two workers.                                                       *)
Shared == p1 :> q1 @@ p2 :> q1

=============================================================================
