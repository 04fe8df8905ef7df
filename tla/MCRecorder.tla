----------------------------- MODULE MCRecorder -----------------------------
(* Instances of Recorder for TLC.                                          *)
EXTENDS Recorder, TLC

AllFaults == {"space", "mdf", "idx", "growMdf", "growIdx"}
NoFaults == {}

(* Frames of size 2 overshoot an odd RollBytes, frames of size 1 do not.   *)
Small == [s \in Symbols |-> 1]
Large == [s \in Symbols |-> 2]

=============================================================================
