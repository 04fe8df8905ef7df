---------------------------- MODULE MCPublisher ----------------------------
(* Instances of Publisher for TLC: the clients.                            *)
EXTENDS Publisher

CONSTANTS c1, c2

=============================================================================
