----------------------------- MODULE SymbolIds -----------------------------
(***************************************************************************)
(* What SymbolRegistry promises within one run of the process: the first   *)
(* question about a symbol gives it an identifier that no other symbol     *)
(* has and that is not the invalid 0, and every later question, of any     *)
(* thread, is answered with the same one.  A restart forgets everything.   *)
(***************************************************************************)
EXTENDS Integers

CONSTANT Symbols

VARIABLES
    ids,       \* the identifier of each symbol, 0 for none
    answers    \* the answers given in this run

Init ==
    /\ ids = [s \in Symbols |-> 0]
    /\ answers = {}

(* Only the identifier of s may change, and only from none.                *)
Ask(s) ==
    /\ ids' = [ids EXCEPT ![s] = ids'[s]]
    /\ ids'[s] \in Nat \ {0}
    /\ IF ids[s] # 0 THEN ids'[s] = ids[s]
                     ELSE \A o \in Symbols : ids[o] # ids'[s]
    /\ answers' = answers \union {[symbol |-> s, id |-> ids'[s]]}

Forget ==
    /\ ids' = [s \in Symbols |-> 0]
    /\ answers' = {}

Next == Forget \/ \E s \in Symbols : Ask(s)

Spec == Init /\ [][Next]_<<ids, answers>>

=============================================================================
