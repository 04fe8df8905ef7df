-------------------------- MODULE MCControlServer --------------------------
(* Instances of ControlServer for TLC.                                     *)
EXTENDS ControlServer

CONSTANT c1

=============================================================================
