----------------------------- MODULE MCReplayer -----------------------------
(* Data directories and requests for Replayer.  Files have an index entry  *)
(* every second frame, as the recorder writes them with an interval of 2.  *)
EXTENDS Replayer

Good(from, n) ==
    [i \in 1..n |-> [ts |-> from + i - 1, kind |-> IF i % 2 = 1 THEN "l1" ELSE "trade", good |-> TRUE]]
Zero == [ts |-> 0, at |-> 0]
Blank == [ts |-> 0, kind |-> "l1", good |-> FALSE]

(* Two files that were closed in order.                                    *)
First == [frames |-> Good(1, 3), index |-> <<[ts |-> 2, at |-> 2]>>, start |-> 1, end |-> 3]
Second == [frames |-> Good(4, 2), index |-> <<[ts |-> 5, at |-> 2]>>, start |-> 4, end |-> 5]

(* The second file while it is recorded, or after a crash: its header has  *)
(* not been updated, the rest of both files is blank.                      *)
Unclosed == [frames |-> Append(Good(4, 2), Blank),
             index |-> <<[ts |-> 5, at |-> 2], Zero, Zero>>, start |-> 4, end |-> 4]

(* The same after a crash that lost a frame the index has an entry for.    *)
Lost == [Unclosed EXCEPT !.frames = <<@[1], Blank, Blank>>]

(* A file whose frames are not in the order of their timestamps.           *)
Swapped == [First EXCEPT !.frames = <<@[1], @[3], @[2]>>,
                         !.index = <<[ts |-> 3, at |-> 2]>>]

Directories ==
    {<<First, Second>>, <<First, Unclosed>>, <<First, Lost>>, <<Swapped, Second>>, <<>>}

All == [wild |-> TRUE, kinds |-> {"l1", "trade"}]
Trade == [wild |-> FALSE, kinds |-> {"trade"}]

(* A range over both files, one within the second, one that begins after   *)
(* what the header of the unclosed file says, one for a single topic, and  *)
(* one that is refused.                                                    *)
SomeRequests == {[from |-> 3, to |-> 4, topics |-> {All}], [from |-> 4, to |-> 9, topics |-> {All}],
                 [from |-> 5, to |-> 6, topics |-> {All}],
                 [from |-> 2, to |-> 5, topics |-> {Trade}], [from |-> 4, to |-> 4, topics |-> {All}]}

=============================================================================
