---------------------------- MODULE SymbolStream ----------------------------
(***************************************************************************)
(* What the pipeline promises for each symbol: its events reach the        *)
(* recorder in the order the feed numbered them, none twice, and none is   *)
(* missing other than those dropped on the way.  Symbols are independent   *)
(* of each other.                                                          *)
(***************************************************************************)
EXTENDS Integers, Sequences

CONSTANT Symbols

VARIABLES
    produced,   \* [Symbols -> Nat]         events numbered so far
    flight,     \* [Symbols -> SUBSET Nat]  accepted, not yet delivered
    delivered   \* [Symbols -> Seq(Nat)]

vars == <<produced, flight, delivered>>

Init ==
    /\ produced = [s \in Symbols |-> 0]
    /\ flight = [s \in Symbols |-> {}]
    /\ delivered = [s \in Symbols |-> <<>>]

Produce(s) ==
    /\ produced' = [produced EXCEPT ![s] = @ + 1]
    /\ flight' = [flight EXCEPT ![s] = @ \cup {produced[s]}]
    /\ UNCHANGED delivered

(* Whatever else is in flight was produced later.                          *)
Deliver(s) ==
    /\ UNCHANGED produced
    /\ \E n \in flight[s] :
          /\ delivered' = [delivered EXCEPT ![s] = Append(@, n)]
          /\ flight' = [flight EXCEPT ![s] = @ \ {n}]
          /\ \A m \in flight[s] : n <= m

Drop(s) ==
    /\ UNCHANGED <<produced, delivered>>
    /\ \E n \in flight[s] : flight' = [flight EXCEPT ![s] = @ \ {n}]

Next == \E s \in Symbols : Produce(s) \/ Deliver(s) \/ Drop(s)

Spec == Init /\ [][Next]_vars

=============================================================================
