--------------------------- MODULE PipelineProofs ---------------------------
(***************************************************************************)
(* Proofs about Pipeline, for any symbols, workers, watermarks and batch   *)
(* size: the stream of every symbol stays complete and in order from the   *)
(* feed to the file, publisher and recorder are given the same stream, and *)
(* the pipeline implements SymbolStream.                                   *)
(***************************************************************************)
EXTENDS Pipeline, TLAPS

-----------------------------------------------------------------------------
(* The inductive invariant.                                                *)

(* A thread holds events exactly while it hands them on.                   *)
Holding ==
    /\ feedPc = "round" => feedTodo >= 1
    /\ routerPc = "send" <=> routerHold # <<>>
    /\ \A w \in Workers : workerPc[w] = "send" <=> workerHold[w] # <<>>
    /\ distPc \in {"fill", "publish", "store"} <=> distHold # <<>>
    /\ recPc = "write" <=> recHold # <<>>

(* No worker has an event of a symbol that is not its own.                 *)
Routed ==
    \A w \in Workers, s \in Symbols : WorkerFor[s] # w =>
        Of(part[w], s) = {} /\ Of(workerHold[w], s) = {} /\ Of(outQ[w], s) = {}

(* The publisher is stopped after the distribution thread has ended.       *)
StoppedInOrder ==
    /\ ~pubRunning => stopPc \in {"publisher", "normalizer", "stopped"}
    /\ stopPc \in {"recorder", "publisher", "normalizer", "stopped"} => distPc = "done"

(* Only events the feed has numbered are dropped.                          *)
DroppedWereNumbered == \A s \in Symbols : \A n \in dropped[s] : n < nextSeq[s]

IInv ==
    /\ TypeOK /\ Holding /\ Routed /\ StoppedInOrder /\ DroppedWereNumbered
    /\ StreamIntact /\ RecorderFollowsPublisher

-----------------------------------------------------------------------------
(* Queues.                                                                 *)

(* The number of e, if it is an event of s.                                *)
Mine(e, s) == IF e[1] = s THEN {e[2]} ELSE {}

LEMMA EventIs ==
  ASSUME NEW e \in Event
  PROVE  e[1] \in Symbols /\ e[2] \in 0..MaxSeq
  BY DEF Event

LEMMA OfIs ==
  ASSUME NEW q \in Seq(Event), NEW s
  PROVE  /\ \A n : n \in Of(q, s) <=> \E i \in 1..Len(q) : q[i][1] = s /\ q[i][2] = n
         /\ Of(q, s) \subseteq 0..MaxSeq
<1>1. DOMAIN q = 1..Len(q) /\ \A i \in 1..Len(q) : q[i] \in Event
  OBVIOUS
<1>2. \A n : n \in Of(q, s) <=> \E i \in 1..Len(q) : q[i][1] = s /\ q[i][2] = n
  BY <1>1 DEF Of
<1> QED
  BY <1>1, <1>2, EventIs

LEMMA OfEmpty == \A s : Of(<<>>, s) = {} /\ InOrder(<<>>, s)
  BY DEF Of, InOrder

LEMMA OfOne ==
  ASSUME NEW e \in Event, NEW s
  PROVE  Of(<<e>>, s) = Mine(e, s)
<1>1. DOMAIN <<e>> = {1} /\ <<e>>[1] = e
  OBVIOUS
<1> QED
  BY <1>1 DEF Of, Mine

(* The back of a queue.                                                    *)
LEMMA Appended ==
  ASSUME NEW q \in Seq(Event), NEW e \in Event, NEW s
  PROVE  /\ Append(q, e) \in Seq(Event)
         /\ Of(Append(q, e), s) = Of(q, s) \cup Mine(e, s)
         /\ InOrder(q, s) /\ Precede(Of(q, s), Mine(e, s)) => InOrder(Append(q, e), s)
<1> DEFINE r == Append(q, e)
<1>1. /\ r \in Seq(Event) /\ Len(r) = Len(q) + 1 /\ Len(q) \in Nat
      /\ \A i \in 1..Len(q) : r[i] = q[i]
      /\ r[Len(q) + 1] = e /\ DOMAIN r = 1..Len(q) + 1 /\ DOMAIN q = 1..Len(q)
  OBVIOUS
<1> HIDE DEF r
<1>2. Of(r, s) = Of(q, s) \cup Mine(e, s)
  <2>1. ASSUME NEW n \in Of(r, s) PROVE n \in Of(q, s) \cup Mine(e, s)
    <3>1. PICK i \in 1..Len(r) : r[i][1] = s /\ r[i][2] = n
      BY <1>1, <2>1, OfIs
    <3>2. CASE i \in 1..Len(q)
      BY <1>1, <3>1, <3>2, OfIs
    <3>3. CASE i = Len(q) + 1
      BY <1>1, <3>1, <3>3 DEF Mine
    <3> QED
      BY <1>1, <3>2, <3>3
  <2>2. ASSUME NEW n \in Of(q, s) PROVE n \in Of(r, s)
    <3>1. PICK i \in 1..Len(q) : q[i][1] = s /\ q[i][2] = n
      BY <2>2, OfIs
    <3>2. i \in 1..Len(r) /\ r[i][1] = s /\ r[i][2] = n
      BY <1>1, <3>1
    <3> QED
      BY <1>1, <3>2, OfIs
  <2>3. ASSUME NEW n \in Mine(e, s) PROVE n \in Of(r, s)
    <3>1. Len(q) + 1 \in 1..Len(r) /\ r[Len(q) + 1][1] = s /\ r[Len(q) + 1][2] = n
      BY <1>1, <2>3 DEF Mine
    <3> QED
      BY <1>1, <3>1, OfIs
  <2> QED
    BY <2>1, <2>2, <2>3
<1>3. ASSUME InOrder(q, s), Precede(Of(q, s), Mine(e, s)) PROVE InOrder(r, s)
  <2> SUFFICES ASSUME NEW i \in 1..Len(q) + 1, NEW j \in 1..Len(q) + 1, i < j,
                      r[i][1] = s, r[j][1] = s
               PROVE  r[i][2] < r[j][2]
    BY <1>1 DEF InOrder
  <2>1. CASE j \in 1..Len(q)
    BY <1>1, <1>3, <2>1 DEF InOrder
  <2>2. CASE j = Len(q) + 1
    <3>1. i \in 1..Len(q) /\ r[i] = q[i] /\ r[j] = e
      BY <1>1, <2>2
    <3>2. r[i][2] \in Of(q, s)
      BY <3>1, OfIs
    <3>3. r[j][2] \in Mine(e, s)
      BY <3>1 DEF Mine
    <3> QED
      BY <1>3, <3>2, <3>3 DEF Precede
  <2> QED
    BY <1>1, <2>1, <2>2
<1> QED
  BY <1>1, <1>2, <1>3 DEF r

(* A queue cut in two.                                                     *)
IsCut(q, a, b) ==
    \E k \in 0..Len(q) : a = SubSeq(q, 1, k) /\ b = SubSeq(q, k + 1, Len(q))

LEMMA Cut ==
  ASSUME NEW q \in Seq(Event), NEW s, InOrder(q, s), NEW a, NEW b, IsCut(q, a, b)
  PROVE  /\ a \in Seq(Event) /\ b \in Seq(Event)
         /\ Of(q, s) = Of(a, s) \cup Of(b, s)
         /\ Precede(Of(a, s), Of(b, s))
         /\ Of(b, s) = Of(q, s) \ Of(a, s)
         /\ InOrder(a, s) /\ InOrder(b, s)
<1>0. PICK k \in 0..Len(q) : a = SubSeq(q, 1, k) /\ b = SubSeq(q, k + 1, Len(q))
  BY DEF IsCut
<1>1. Len(q) \in Nat /\ k \in Nat /\ k <= Len(q)
  OBVIOUS
<1>2. /\ a \in Seq(Event) /\ Len(a) = k /\ DOMAIN a = 1..k /\ \A i \in 1..k : a[i] = q[i]
  BY <1>0, <1>1
<1>3. /\ b \in Seq(Event) /\ Len(b) = Len(q) - k /\ DOMAIN b = 1..Len(q) - k
      /\ \A i \in 1..Len(q) - k : b[i] = q[k + i]
  BY <1>0, <1>1
<1>4. \A i \in 1..Len(q), j \in 1..Len(q) :
         i < j /\ q[i][1] = s /\ q[j][1] = s => q[i][2] < q[j][2]
  BY DEF InOrder
<1>a. \A n : n \in Of(a, s) <=> \E i \in 1..k : a[i][1] = s /\ a[i][2] = n
  <2>1. a \in Seq(Event) /\ Len(a) = k
    BY <1>2
  <2>2. \A n : n \in Of(a, s) <=> \E i \in 1..Len(a) : a[i][1] = s /\ a[i][2] = n
    BY ONLY <2>1, OfIs
  <2> QED
    BY ONLY <2>1, <2>2, Zenon
<1>b. \A n : n \in Of(b, s) <=> \E i \in 1..Len(q) - k : b[i][1] = s /\ b[i][2] = n
  <2>1. b \in Seq(Event) /\ Len(b) = Len(q) - k
    BY <1>3
  <2>2. \A n : n \in Of(b, s) <=> \E i \in 1..Len(b) : b[i][1] = s /\ b[i][2] = n
    BY ONLY <2>1, OfIs
  <2> QED
    BY ONLY <2>1, <2>2, Zenon
<1>5. \A n \in Of(a, s) : \E i \in 1..k : q[i][1] = s /\ q[i][2] = n
  BY ONLY <1>2, <1>a
<1>6. \A n \in Of(b, s) : \E i \in k + 1..Len(q) : q[i][1] = s /\ q[i][2] = n
  <2> SUFFICES ASSUME NEW n \in Of(b, s)
               PROVE  \E i \in k + 1..Len(q) : q[i][1] = s /\ q[i][2] = n
    OBVIOUS
  <2>0. n \in Of(b, s)
    OBVIOUS
  <2>1. PICK i \in 1..Len(q) - k : b[i][1] = s /\ b[i][2] = n
    BY ONLY <2>0, <1>b
  <2>2. k + i \in k + 1..Len(q) /\ q[k + i][1] = s /\ q[k + i][2] = n
    BY <1>1, <1>3, <2>1
  <2> QED
    BY <2>2
<1>7. Precede(Of(a, s), Of(b, s))
  <2> SUFFICES ASSUME NEW n \in Of(a, s), NEW m \in Of(b, s) PROVE n < m
    BY DEF Precede
  <2>1. PICK i \in 1..k : q[i][1] = s /\ q[i][2] = n
    BY <1>5
  <2>2. PICK j \in k + 1..Len(q) : q[j][1] = s /\ q[j][2] = m
    BY <1>6
  <2>3. i \in 1..Len(q) /\ j \in 1..Len(q) /\ i < j
    BY <1>1
  <2> QED
    BY <1>4, <2>1, <2>2, <2>3
<1>8. Of(q, s) = Of(a, s) \cup Of(b, s)
  <2>1. ASSUME NEW n \in Of(q, s) PROVE n \in Of(a, s) \cup Of(b, s)
    <3>1. PICK i \in 1..Len(q) : q[i][1] = s /\ q[i][2] = n
      BY OfIs
    <3>2. CASE i <= k
      <4>1. i \in 1..k /\ a[i][1] = s /\ a[i][2] = n
        BY <1>1, <1>2, <3>1, <3>2
      <4> QED
        BY ONLY <1>a, <4>1
    <3>3. CASE i > k
      <4>1. i - k \in 1..Len(q) - k /\ k + (i - k) = i
        BY <1>1, <3>3
      <4>2. i - k \in 1..Len(q) - k /\ b[i - k][1] = s /\ b[i - k][2] = n
        BY <1>3, <3>1, <4>1
      <4> QED
        BY ONLY <1>b, <4>2
    <3> QED
      BY <1>1, <3>2, <3>3
  <2>2. ASSUME NEW n \in Of(a, s) \cup Of(b, s) PROVE n \in Of(q, s)
    <3>1. PICK i \in 1..Len(q) : q[i][1] = s /\ q[i][2] = n
      BY <1>1, <1>5, <1>6
    <3> QED
      BY <3>1, OfIs
  <2> QED
    BY <2>1, <2>2
<1>9. Of(b, s) = Of(q, s) \ Of(a, s)
  <2>1. Of(a, s) \subseteq 0..MaxSeq
    BY <1>2, OfIs
  <2>2. \A n \in Of(a, s) : n \notin Of(b, s)
    BY <1>7, <2>1 DEF Precede
  <2> QED
    BY <1>8, <2>2
<1>10. InOrder(a, s)
  BY <1>1, <1>2, <1>4 DEF InOrder
<1>11. InOrder(b, s)
  <2> SUFFICES ASSUME NEW i \in 1..Len(q) - k, NEW j \in 1..Len(q) - k, i < j,
                      b[i][1] = s, b[j][1] = s
               PROVE  b[i][2] < b[j][2]
    BY <1>3 DEF InOrder
  <2>1. k + i \in 1..Len(q) /\ k + j \in 1..Len(q) /\ k + i < k + j
    BY <1>1
  <2>2. b[i] = q[k + i] /\ b[j] = q[k + j]
    BY <1>3
  <2> QED
    BY <1>4, <2>1, <2>2
<1> QED
  BY <1>2, <1>3, <1>7, <1>8, <1>9, <1>10, <1>11

(* The front of a queue.                                                   *)
LEMMA Popped ==
  ASSUME NEW q \in Seq(Event), q # <<>>, NEW s, InOrder(q, s)
  PROVE  /\ Head(q) \in Event /\ Tail(q) \in Seq(Event) /\ InOrder(Tail(q), s)
         /\ Mine(Head(q), s) \subseteq Of(q, s)
         /\ Of(Tail(q), s) = Of(q, s) \ Mine(Head(q), s)
         /\ Precede(Mine(Head(q), s), Of(Tail(q), s))
<1>1. Len(q) \in Nat /\ Len(q) >= 1 /\ 1 \in 0..Len(q)
  OBVIOUS
<1>2. Head(q) \in Event /\ Tail(q) \in Seq(Event)
  OBVIOUS
<1>3. <<Head(q)>> = SubSeq(q, 1, 1)
  BY <1>1
<1>4. Tail(q) = SubSeq(q, 1 + 1, Len(q))
  BY <1>1
<1>5. Of(<<Head(q)>>, s) = Mine(Head(q), s)
  BY <1>2, OfOne
<1>6. IsCut(q, <<Head(q)>>, Tail(q))
  BY <1>1, <1>3, <1>4 DEF IsCut
<1>7. /\ Of(q, s) = Of(<<Head(q)>>, s) \cup Of(Tail(q), s)
      /\ Precede(Of(<<Head(q)>>, s), Of(Tail(q), s))
      /\ Of(Tail(q), s) = Of(q, s) \ Of(<<Head(q)>>, s)
      /\ InOrder(Tail(q), s)
  BY <1>6, Cut
<1> QED
  BY <1>2, <1>5, <1>7

(* A batch.                                                                *)
LEMMA Batched ==
  ASSUME NEW q \in Seq(Event), q # <<>>
  PROVE  IsCut(q, BatchOf(q), Without(q, BatchOf(q))) /\ BatchOf(q) # <<>>
<1>1. Len(q) \in Nat /\ Len(q) >= 1 /\ BatchSize \in Nat /\ BatchSize >= 1
  BY ConstantsAssumption
<1>2. PICK k \in 1..Len(q) : k = IF Len(q) < BatchSize THEN Len(q) ELSE BatchSize
  BY <1>1
<1>3. BatchOf(q) = SubSeq(q, 1, k) /\ Len(BatchOf(q)) = k
  BY <1>1, <1>2 DEF BatchOf
<1>4. Without(q, BatchOf(q)) = SubSeq(q, k + 1, Len(q))
  BY <1>3 DEF Without
<1>5. BatchOf(q) # <<>>
  BY <1>2, <1>3
<1>6. IsCut(q, BatchOf(q), Without(q, BatchOf(q)))
  <2> SUFFICES \E j \in 0..Len(q) : BatchOf(q) = SubSeq(q, 1, j)
                                   /\ Without(q, BatchOf(q)) = SubSeq(q, j + 1, Len(q))
    BY DEF IsCut
  <2>1. k \in 0..Len(q)
    BY <1>1
  <2> WITNESS k \in 0..Len(q)
  <2> QED
    BY <1>3, <1>4
<1> QED
  BY <1>5, <1>6

-----------------------------------------------------------------------------
(* The stream of one symbol.                                               *)

LEMMA StagesAre ==
  ASSUME NEW p \in Stages
  PROVE  p = 1 \/ p = 2 \/ p = 3 \/ p = 4 \/ p = 5 \/ p = 6 \/ p = 7 \/ p = 8
  BY DEF Stages

LEMMA EightStages ==
  ASSUME NEW A1, NEW A2, NEW A3, NEW A4, NEW A5, NEW A6, NEW A7, NEW A8, NEW N,
         N[1] = A1, N[2] = A2, N[3] = A3, N[4] = A4, N[5] = A5, N[6] = A6, N[7] = A7, N[8] = A8
  PROVE  A1 \cup A2 \cup A3 \cup A4 \cup A5 \cup A6 \cup A7 \cup A8 = UNION {N[p] : p \in Stages}
<1>1. 1 \in Stages /\ 2 \in Stages /\ 3 \in Stages /\ 4 \in Stages
  BY DEF Stages
<1>2. 5 \in Stages /\ 6 \in Stages /\ 7 \in Stages /\ 8 \in Stages
  BY DEF Stages
<1>3. ASSUME NEW n PROVE
        (\E p \in Stages : n \in N[p]) <=>
          n \in A1 \cup A2 \cup A3 \cup A4 \cup A5 \cup A6 \cup A7 \cup A8
  BY <1>1, <1>2, StagesAre
<1> QED
  BY <1>3

(* The numbers of the events of s, stage by stage.                         *)
Numbers(s) == [p \in Stages |-> Of(Path(s)[p], s)]

LEMMA NumbersAre ==
  ASSUME NEW s
  PROVE  LET w == WorkerFor[s]
         IN  /\ Numbers(s)[1] = Of(recHold, s) /\ Numbers(s)[2] = Of(recQ, s)
             /\ Numbers(s)[3] = Of(distHold, s) /\ Numbers(s)[4] = Of(outQ[w], s)
             /\ Numbers(s)[5] = Of(workerHold[w], s) /\ Numbers(s)[6] = Of(part[w], s)
             /\ Numbers(s)[7] = Of(routerHold, s) /\ Numbers(s)[8] = Of(feedQ, s)
  BY DEF Numbers, Path, Stages

LEMMA NumbersBecome ==
  ASSUME NEW s
  PROVE  LET w == WorkerFor[s]
         IN  /\ Numbers(s)'[1] = Of(recHold', s) /\ Numbers(s)'[2] = Of(recQ', s)
             /\ Numbers(s)'[3] = Of(distHold', s) /\ Numbers(s)'[4] = Of(outQ'[w], s)
             /\ Numbers(s)'[5] = Of(workerHold'[w], s) /\ Numbers(s)'[6] = Of(part'[w], s)
             /\ Numbers(s)'[7] = Of(routerHold', s) /\ Numbers(s)'[8] = Of(feedQ', s)
  BY DEF Numbers, Path, Stages

LEMMA FlightIs ==
  ASSUME NEW s
  PROVE  /\ InFlight(s) = UNION {Numbers(s)[p] : p \in Stages}
         /\ InFlight(s)' = UNION {Numbers(s)'[p] : p \in Stages}
<1>1. InFlight(s) = UNION {Numbers(s)[p] : p \in Stages}
  BY NumbersAre, EightStages DEF InFlight
<1>2. InFlight(s)' = UNION {Numbers(s)'[p] : p \in Stages}
  BY NumbersBecome, EightStages DEF InFlight
<1> QED
  BY <1>1, <1>2

(* A chain of sets of numbers, each before the next ones.                  *)
Chain(N) == \A p, q \in Stages : p < q => Precede(N[p], N[q])

(* Moving the first numbers of a stage to the end of the one before it     *)
(* keeps the chain.                                                        *)
LEMMA ChainMoves ==
  ASSUME NEW N \in [Stages -> SUBSET Nat], NEW M, Chain(N),
         NEW p \in Stages, NEW B \in SUBSET N[p + 1], p + 1 \in Stages,
         Precede(B, N[p + 1] \ B),
         M[p] = N[p] \cup B, M[p + 1] = N[p + 1] \ B,
         \A r \in Stages : r # p /\ r # p + 1 => M[r] = N[r]
  PROVE  Chain(M) /\ UNION {M[r] : r \in Stages} = UNION {N[r] : r \in Stages}
<1>1. ASSUME NEW q \in Stages, NEW r \in Stages, q < r, NEW n \in M[q], NEW m \in M[r]
      PROVE  n < m
  <2> USE <1>1 DEF Chain, Precede, Stages
  <2>1. CASE q = p /\ r = p + 1
    BY <2>1
  <2>2. CASE q = p /\ r # p + 1
    <3>1. M[r] = N[r] /\ p + 1 < r
      BY <2>2
    <3> QED
      BY <2>2, <3>1
  <2>3. CASE q = p + 1
    <3>1. M[r] = N[r] /\ n \in N[q]
      BY <2>3
    <3> QED
      BY <2>3, <3>1
  <2>4. CASE q # p /\ q # p + 1 /\ r = p
    <3>1. M[q] = N[q] /\ q < p + 1
      BY <2>4
    <3> QED
      BY <2>4, <3>1
  <2>5. CASE q # p /\ q # p + 1 /\ r # p
    <3>1. M[q] = N[q] /\ m \in N[r]
      BY <2>5
    <3> QED
      BY <3>1
  <2> QED
    BY <2>1, <2>2, <2>3, <2>4, <2>5
<1>2. ASSUME NEW n PROVE (\E r \in Stages : n \in M[r]) <=> (\E r \in Stages : n \in N[r])
  <2>1. ASSUME NEW r \in Stages, n \in M[r] PROVE \E q \in Stages : n \in N[q]
    <3>1. CASE r = p \/ r = p + 1
      BY <2>1, <3>1
    <3>2. CASE r # p /\ r # p + 1
      BY <2>1, <3>2
    <3> QED
      BY <3>1, <3>2
  <2>2. ASSUME NEW r \in Stages, n \in N[r] PROVE \E q \in Stages : n \in M[q]
    <3>1. CASE r = p
      BY <2>2, <3>1
    <3>2. CASE r = p + 1
      BY <2>2, <3>2
    <3>3. CASE r # p /\ r # p + 1
      BY <2>2, <3>3
    <3> QED
      BY <3>1, <3>2, <3>3
  <2> QED
    BY <2>1, <2>2
<1> QED
  BY <1>1, <1>2 DEF Chain, Precede

(* The stages of s hold its events in order.                               *)
AllInOrder(s) ==
    LET w == WorkerFor[s]
    IN  /\ InOrder(recHold, s) /\ InOrder(recQ, s) /\ InOrder(distHold, s)
        /\ InOrder(outQ[w], s) /\ InOrder(workerHold[w], s) /\ InOrder(part[w], s)
        /\ InOrder(routerHold, s) /\ InOrder(feedQ, s)

(* StreamOf in these terms.                                                *)
Recorded(s) ==
    /\ Increasing(recorded[s])
    /\ Precede(Range(recorded[s]), InFlight(s))
    /\ Range(recorded[s]) \cup InFlight(s) = (0..nextSeq[s] - 1) \ dropped[s]

LEMMA StreamIs ==
  ASSUME NEW s
  PROVE  /\ StreamOf(s) <=> Recorded(s) /\ AllInOrder(s) /\ Chain(Numbers(s))
         /\ StreamOf(s)' <=> Recorded(s)' /\ AllInOrder(s)' /\ Chain(Numbers(s)')
<1> DEFINE path == Path(s)
<1>1. /\ path[1] = recHold /\ path[2] = recQ /\ path[3] = distHold
      /\ path[4] = outQ[WorkerFor[s]] /\ path[5] = workerHold[WorkerFor[s]]
      /\ path[6] = part[WorkerFor[s]] /\ path[7] = routerHold /\ path[8] = feedQ
  BY DEF Path
<1>2. /\ path'[1] = recHold' /\ path'[2] = recQ' /\ path'[3] = distHold'
      /\ path'[4] = outQ'[WorkerFor[s]] /\ path'[5] = workerHold'[WorkerFor[s]]
      /\ path'[6] = part'[WorkerFor[s]] /\ path'[7] = routerHold' /\ path'[8] = feedQ'
  BY DEF Path
<1>3. 1 \in Stages /\ 2 \in Stages /\ 3 \in Stages /\ 4 \in Stages
  BY DEF Stages
<1>4. 5 \in Stages /\ 6 \in Stages /\ 7 \in Stages /\ 8 \in Stages
  BY DEF Stages
<1>5. (\A p \in Stages : InOrder(path[p], s)) <=> AllInOrder(s)
  <2> HIDE DEF path
  <2> QED
    BY <1>1, <1>3, <1>4, StagesAre DEF AllInOrder
<1>6. (\A p \in Stages : InOrder(path'[p], s)) <=> AllInOrder(s)'
  <2> HIDE DEF path
  <2> QED
    BY <1>2, <1>3, <1>4, StagesAre DEF AllInOrder
<1>7. StreamOf(s) <=> Recorded(s) /\ AllInOrder(s) /\ Chain(Numbers(s))
  BY <1>5 DEF StreamOf, Recorded, Chain, Numbers
<1>8. StreamOf(s)' <=> Recorded(s)' /\ AllInOrder(s)' /\ Chain(Numbers(s)')
  BY <1>6 DEF StreamOf, Recorded, Chain, Numbers
<1> QED
  BY <1>7, <1>8

LEMMA NumbersType ==
  ASSUME TypeOK, NEW s \in Symbols
  PROVE  Numbers(s) \in [Stages -> SUBSET Nat] /\ WorkerFor[s] \in Workers
<1>1. WorkerFor[s] \in Workers
  BY ConstantsAssumption
<1>2. \A q \in Seq(Event) : Of(q, s) \subseteq Nat
  <2> SUFFICES ASSUME NEW q \in Seq(Event) PROVE Of(q, s) \subseteq Nat
    OBVIOUS
  <2>1. Of(q, s) \subseteq 0..MaxSeq
    BY OfIs
  <2> QED
    BY <2>1
<1>3. ASSUME NEW p \in Stages PROVE Path(s)[p] \in Seq(Event)
  <2>1. /\ Path(s)[1] = recHold /\ Path(s)[2] = recQ /\ Path(s)[3] = distHold
        /\ Path(s)[4] = outQ[WorkerFor[s]] /\ Path(s)[5] = workerHold[WorkerFor[s]]
        /\ Path(s)[6] = part[WorkerFor[s]] /\ Path(s)[7] = routerHold /\ Path(s)[8] = feedQ
    BY DEF Path
  <2> QED
    BY <1>1, <2>1, StagesAre DEF TypeOK
<1> QED
  BY <1>1, <1>2, <1>3 DEF Numbers

(* A stage and the next.                                                   *)
LEMMA Adjacent ==
  ASSUME NEW s, StreamOf(s)
  PROVE  LET w == WorkerFor[s]
         IN  /\ Precede(Of(recHold, s), Of(recQ, s)) /\ Precede(Of(recQ, s), Of(distHold, s))
             /\ Precede(Of(distHold, s), Of(outQ[w], s))
             /\ Precede(Of(outQ[w], s), Of(workerHold[w], s))
             /\ Precede(Of(workerHold[w], s), Of(part[w], s))
             /\ Precede(Of(part[w], s), Of(routerHold, s))
             /\ Precede(Of(routerHold, s), Of(feedQ, s))
<1>1. Chain(Numbers(s))
  BY StreamIs
<1>2. \A p \in 1..7 : Precede(Numbers(s)[p], Numbers(s)[p + 1])
  BY <1>1 DEF Chain, Stages
<1>3. /\ Precede(Numbers(s)[1], Numbers(s)[2]) /\ Precede(Numbers(s)[2], Numbers(s)[3])
      /\ Precede(Numbers(s)[3], Numbers(s)[4]) /\ Precede(Numbers(s)[4], Numbers(s)[5])
      /\ Precede(Numbers(s)[5], Numbers(s)[6]) /\ Precede(Numbers(s)[6], Numbers(s)[7])
      /\ Precede(Numbers(s)[7], Numbers(s)[8])
  BY <1>2
<1> QED
  BY <1>3, NumbersAre

(* Events of s that move on from one stage to the next keep its stream.    *)
LEMMA StreamMoves ==
  ASSUME TypeOK, NEW s \in Symbols, StreamOf(s),
         NEW p \in Stages, p + 1 \in Stages,
         NEW B \in SUBSET Numbers(s)[p + 1], Precede(B, Numbers(s)[p + 1] \ B),
         Numbers(s)'[p] = Numbers(s)[p] \cup B, Numbers(s)'[p + 1] = Numbers(s)[p + 1] \ B,
         \A r \in Stages : r # p /\ r # p + 1 => Numbers(s)'[r] = Numbers(s)[r],
         AllInOrder(s)', UNCHANGED <<recorded, nextSeq, dropped>>
  PROVE  StreamOf(s)' /\ InFlight(s)' = InFlight(s)
<1>1. Chain(Numbers(s)) /\ Recorded(s) /\ Numbers(s) \in [Stages -> SUBSET Nat]
  BY StreamIs, NumbersType
<1>2. /\ Chain(Numbers(s)')
      /\ UNION {Numbers(s)'[r] : r \in Stages} = UNION {Numbers(s)[r] : r \in Stages}
  <2> DEFINE N == Numbers(s)
             M == Numbers(s)'
  <2>1. N \in [Stages -> SUBSET Nat] /\ Chain(N)
    BY <1>1
  <2>2. /\ B \in SUBSET N[p + 1] /\ Precede(B, N[p + 1] \ B)
        /\ M[p] = N[p] \cup B /\ M[p + 1] = N[p + 1] \ B
        /\ \A r \in Stages : r # p /\ r # p + 1 => M[r] = N[r]
    OBVIOUS
  <2>3. p \in Stages /\ p + 1 \in Stages
    OBVIOUS
  <2> HIDE DEF N, M
  <2>4. Chain(M) /\ UNION {M[r] : r \in Stages} = UNION {N[r] : r \in Stages}
    BY ONLY <2>1, <2>2, <2>3, ChainMoves
  <2> QED
    BY <2>4 DEF N, M
<1>3. InFlight(s)' = InFlight(s)
  BY <1>2, FlightIs
<1>4. Recorded(s)'
  BY <1>1, <1>3 DEF Recorded
<1> QED
  BY <1>2, <1>3, <1>4, StreamIs

(* Nothing about s changes.                                                *)
LEMMA StreamStays ==
  ASSUME NEW s \in Symbols, StreamOf(s), AllInOrder(s)',
         \A r \in Stages : Numbers(s)'[r] = Numbers(s)[r],
         UNCHANGED <<recorded, nextSeq, dropped>>
  PROVE  StreamOf(s)' /\ InFlight(s)' = InFlight(s)
<1>1. Chain(Numbers(s)) /\ Recorded(s)
  BY StreamIs
<1>2. Chain(Numbers(s)')
  BY <1>1 DEF Chain
<1>3. InFlight(s)' = InFlight(s)
  BY FlightIs
<1>4. Recorded(s)'
  BY <1>1, <1>3 DEF Recorded
<1> QED
  BY <1>2, <1>3, <1>4, StreamIs

(* The event at the front of q goes to the back of r, which is before it.  *)
LEMMA HandedOn ==
  ASSUME NEW q \in Seq(Event), q # <<>>, NEW r \in Seq(Event), NEW s,
         InOrder(q, s), InOrder(r, s), Precede(Of(r, s), Of(q, s))
  PROVE  LET e == Head(q)
         IN  /\ Mine(e, s) \in SUBSET Of(q, s)
             /\ Precede(Mine(e, s), Of(q, s) \ Mine(e, s))
             /\ Of(Append(r, e), s) = Of(r, s) \cup Mine(e, s) /\ InOrder(Append(r, e), s)
             /\ Of(Tail(q), s) = Of(q, s) \ Mine(e, s) /\ InOrder(Tail(q), s)
<1>1. /\ Head(q) \in Event /\ InOrder(Tail(q), s)
      /\ Mine(Head(q), s) \subseteq Of(q, s)
      /\ Of(Tail(q), s) = Of(q, s) \ Mine(Head(q), s)
      /\ Precede(Mine(Head(q), s), Of(Tail(q), s))
  BY Popped
<1>2. Precede(Of(r, s), Mine(Head(q), s))
  BY <1>1 DEF Precede
<1>3. Of(Append(r, Head(q)), s) = Of(r, s) \cup Mine(Head(q), s) /\ InOrder(Append(r, Head(q)), s)
  BY <1>1, <1>2, Appended
<1> QED
  BY <1>1, <1>3

(* An event of another symbol at the back of r.                            *)
LEMMA Foreign ==
  ASSUME NEW r \in Seq(Event), NEW e \in Event, NEW s, InOrder(r, s), e[1] # s
  PROVE  Of(Append(r, e), s) = Of(r, s) /\ InOrder(Append(r, e), s)
<1>1. Mine(e, s) = {} /\ Precede(Of(r, s), {})
  BY DEF Mine, Precede
<1>2. /\ Of(Append(r, e), s) = Of(r, s) \cup Mine(e, s)
      /\ InOrder(r, s) /\ Precede(Of(r, s), Mine(e, s)) => InOrder(Append(r, e), s)
  BY Appended
<1> QED
  BY <1>1, <1>2

(* A batch of q goes to r, which is empty.                                 *)
LEMMA TakenOver ==
  ASSUME NEW q \in Seq(Event), q # <<>>, NEW s, InOrder(q, s)
  PROVE  LET b == BatchOf(q)
         IN  /\ Of(b, s) \in SUBSET Of(q, s) /\ Precede(Of(b, s), Of(q, s) \ Of(b, s))
             /\ Of(Without(q, b), s) = Of(q, s) \ Of(b, s)
             /\ InOrder(b, s) /\ InOrder(Without(q, b), s)
<1>1. PICK b, c : b = BatchOf(q) /\ c = Without(q, BatchOf(q))
  OBVIOUS
<1>2. IsCut(q, b, c)
  BY <1>1, Batched
<1>3. /\ Of(q, s) = Of(b, s) \cup Of(c, s) /\ Precede(Of(b, s), Of(c, s))
      /\ Of(c, s) = Of(q, s) \ Of(b, s) /\ InOrder(b, s) /\ InOrder(c, s)
  BY <1>2, Cut
<1> QED
  BY <1>1, <1>3

-----------------------------------------------------------------------------
(* What every step does to the stream of a symbol.                         *)

LEMMA RouterTakeStream ==
  ASSUME IInv, NEW s \in Symbols, RouterTake
  PROVE  StreamOf(s)' /\ InFlight(s)' = InFlight(s)
<1>1. /\ feedQ \in Seq(Event) /\ feedQ # <<>> /\ StreamOf(s) /\ TypeOK
      /\ routerHold = <<>> /\ routerHold' = BatchOf(feedQ)
      /\ feedQ' = Without(feedQ, BatchOf(feedQ))
      /\ UNCHANGED <<recHold, recQ, distHold, outQ, workerHold, part, recorded, nextSeq, dropped>>
  BY DEF IInv, TypeOK, Holding, StreamIntact, RouterTake, recVars, distVars, feedVars
<1>2. AllInOrder(s) /\ InOrder(feedQ, s)
  BY <1>1, StreamIs DEF AllInOrder
<1> DEFINE B == Of(BatchOf(feedQ), s)
<1>3. /\ B \in SUBSET Of(feedQ, s) /\ Precede(B, Of(feedQ, s) \ B)
      /\ Of(feedQ', s) = Of(feedQ, s) \ B /\ Of(routerHold', s) = Of(routerHold, s) \cup B
      /\ InOrder(routerHold', s) /\ InOrder(feedQ', s)
  BY <1>1, <1>2, TakenOver, OfEmpty
<1> HIDE DEF B
<1>4. AllInOrder(s)'
  BY <1>1, <1>2, <1>3 DEF AllInOrder
<1>5. /\ B \in SUBSET Numbers(s)[8] /\ Precede(B, Numbers(s)[8] \ B)
      /\ Numbers(s)'[7] = Numbers(s)[7] \cup B /\ Numbers(s)'[8] = Numbers(s)[8] \ B
  BY <1>3, NumbersAre, NumbersBecome
<1>6. \A r \in Stages : r # 7 /\ r # 8 => Numbers(s)'[r] = Numbers(s)[r]
  BY <1>1, NumbersAre, NumbersBecome, StagesAre
<1>7. 7 \in Stages /\ 7 + 1 \in Stages /\ 7 + 1 = 8
  BY DEF Stages
<1> QED
  BY <1>1, <1>4, <1>5, <1>6, <1>7, StreamMoves

LEMMA RouterSendStream ==
  ASSUME IInv, NEW s \in Symbols, RouterSend
  PROVE  StreamOf(s)' /\ InFlight(s)' = InFlight(s)
<1> DEFINE e == Head(routerHold)
           w == WorkerFor[s]
           B == Mine(e, s)
<1>1. /\ TypeOK /\ StreamOf(s)
      /\ routerHold \in Seq(Event) /\ routerHold # <<>> /\ routerHold' = Tail(routerHold)
      /\ part' = [part EXCEPT ![WorkerFor[e[1]]] = Append(@, e)]
      /\ UNCHANGED <<recHold, recQ, distHold, outQ, workerHold, feedQ, recorded, nextSeq, dropped>>
  BY DEF IInv, TypeOK, Holding, StreamIntact, RouterSend, recVars, distVars, feedVars
<1>2. AllInOrder(s) /\ InOrder(routerHold, s) /\ InOrder(part[w], s)
  BY <1>1, StreamIs DEF AllInOrder
<1>3. w \in Workers /\ part[w] \in Seq(Event) /\ part \in [Workers -> Seq(Event)]
  BY <1>1, NumbersType DEF TypeOK
<1>4. Precede(Of(part[w], s), Of(routerHold, s))
  BY <1>1, Adjacent
<1>5. /\ B \in SUBSET Of(routerHold, s) /\ Precede(B, Of(routerHold, s) \ B)
      /\ Of(Append(part[w], e), s) = Of(part[w], s) \cup B /\ InOrder(Append(part[w], e), s)
      /\ Of(routerHold', s) = Of(routerHold, s) \ B /\ InOrder(routerHold', s)
  BY <1>1, <1>2, <1>3, <1>4, HandedOn
<1>6. Of(part'[w], s) = Of(part[w], s) \cup B /\ InOrder(part'[w], s)
  <2>1. CASE WorkerFor[e[1]] = w
    BY <1>1, <1>3, <1>5, <2>1
  <2>2. CASE WorkerFor[e[1]] # w
    BY <1>1, <1>2, <1>3, <2>2 DEF Mine
  <2> QED
    BY <2>1, <2>2
<1> HIDE DEF e, B
<1>7. AllInOrder(s)'
  BY <1>1, <1>2, <1>5, <1>6 DEF AllInOrder
<1>8. /\ B \in SUBSET Numbers(s)[7] /\ Precede(B, Numbers(s)[7] \ B)
      /\ Numbers(s)'[6] = Numbers(s)[6] \cup B /\ Numbers(s)'[7] = Numbers(s)[7] \ B
  BY <1>5, <1>6, NumbersAre, NumbersBecome
<1>9. \A r \in Stages : r # 6 /\ r # 7 => Numbers(s)'[r] = Numbers(s)[r]
  BY <1>1, NumbersAre, NumbersBecome, StagesAre, SMTT(60)
<1>10. 6 \in Stages /\ 6 + 1 \in Stages /\ 6 + 1 = 7
  BY DEF Stages
<1> QED
  BY <1>1, <1>7, <1>8, <1>9, <1>10, StreamMoves

LEMMA WorkerTakeStream ==
  ASSUME IInv, NEW s \in Symbols, NEW v \in Workers, WorkerTake(v)
  PROVE  StreamOf(s)' /\ InFlight(s)' = InFlight(s)
<1> DEFINE w == WorkerFor[s]
           B == IF v = w THEN Of(BatchOf(part[w]), s) ELSE {}
<1>1. /\ TypeOK /\ StreamOf(s)
      /\ part[v] # <<>> /\ workerHold[v] = <<>>
      /\ workerHold' = [workerHold EXCEPT ![v] = BatchOf(part[v])]
      /\ part' = [part EXCEPT ![v] = Without(part[v], BatchOf(part[v]))]
      /\ UNCHANGED <<recHold, recQ, distHold, outQ, routerHold, feedQ, recorded, nextSeq, dropped>>
  BY DEF IInv, TypeOK, Holding, StreamIntact, WorkerTake, recVars, distVars, feedVars
<1>2. AllInOrder(s) /\ InOrder(part[w], s) /\ InOrder(workerHold[w], s)
  BY <1>1, StreamIs DEF AllInOrder
<1>3. /\ w \in Workers /\ part[w] \in Seq(Event)
      /\ part \in [Workers -> Seq(Event)] /\ workerHold \in [Workers -> Seq(Event)]
  BY <1>1, NumbersType DEF TypeOK
<1>4. /\ B \in SUBSET Of(part[w], s) /\ Precede(B, Of(part[w], s) \ B)
      /\ Of(part'[w], s) = Of(part[w], s) \ B
      /\ Of(workerHold'[w], s) = Of(workerHold[w], s) \cup B
      /\ InOrder(workerHold'[w], s) /\ InOrder(part'[w], s)
  <2>1. CASE v = w
    <3>1. workerHold'[w] = BatchOf(part[w]) /\ part'[w] = Without(part[w], BatchOf(part[w]))
      BY <1>1, <1>3, <2>1
    <3> QED
      BY <1>1, <1>2, <1>3, <2>1, <3>1, TakenOver, OfEmpty
  <2>2. CASE v # w
    BY <1>1, <1>2, <1>3, <2>2 DEF Precede
  <2> QED
    BY <2>1, <2>2
<1> HIDE DEF B
<1>5. AllInOrder(s)'
  BY <1>1, <1>2, <1>4 DEF AllInOrder
<1>6. /\ B \in SUBSET Numbers(s)[6] /\ Precede(B, Numbers(s)[6] \ B)
      /\ Numbers(s)'[5] = Numbers(s)[5] \cup B /\ Numbers(s)'[6] = Numbers(s)[6] \ B
  BY <1>4, NumbersAre, NumbersBecome
<1>7. \A r \in Stages : r # 5 /\ r # 6 => Numbers(s)'[r] = Numbers(s)[r]
  BY <1>1, NumbersAre, NumbersBecome, StagesAre
<1>8. 5 \in Stages /\ 5 + 1 \in Stages /\ 5 + 1 = 6
  BY DEF Stages
<1> QED
  BY <1>1, <1>5, <1>6, <1>7, <1>8, StreamMoves

LEMMA WorkerSendStream ==
  ASSUME IInv, NEW s \in Symbols, NEW v \in Workers, WorkerSend(v)
  PROVE  StreamOf(s)' /\ InFlight(s)' = InFlight(s)
<1> DEFINE w == WorkerFor[s]
           e == Head(workerHold[w])
           B == IF v = w THEN Mine(e, s) ELSE {}
<1>1. /\ TypeOK /\ StreamOf(s) /\ workerHold[v] # <<>>
      /\ workerHold' = [workerHold EXCEPT ![v] = Tail(workerHold[v])]
      /\ outQ' = [outQ EXCEPT ![v] = Append(outQ[v], Head(workerHold[v]))]
      /\ UNCHANGED <<recHold, recQ, distHold, part, routerHold, feedQ, recorded, nextSeq, dropped>>
  BY DEF IInv, TypeOK, Holding, StreamIntact, WorkerSend, WorkerAdvance, recVars, distVars, feedVars
<1>2. AllInOrder(s) /\ InOrder(outQ[w], s) /\ InOrder(workerHold[w], s)
  BY <1>1, StreamIs DEF AllInOrder
<1>3. /\ w \in Workers /\ outQ[w] \in Seq(Event) /\ workerHold[w] \in Seq(Event)
      /\ outQ \in [Workers -> Seq(Event)] /\ workerHold \in [Workers -> Seq(Event)]
  BY <1>1, NumbersType DEF TypeOK
<1>4. Precede(Of(outQ[w], s), Of(workerHold[w], s))
  BY <1>1, Adjacent
<1>5. /\ B \in SUBSET Of(workerHold[w], s) /\ Precede(B, Of(workerHold[w], s) \ B)
      /\ Of(workerHold'[w], s) = Of(workerHold[w], s) \ B
      /\ Of(outQ'[w], s) = Of(outQ[w], s) \cup B
      /\ InOrder(workerHold'[w], s) /\ InOrder(outQ'[w], s)
  <2>1. CASE v = w
    <3>1. workerHold'[w] = Tail(workerHold[w]) /\ outQ'[w] = Append(outQ[w], e)
      BY <1>1, <1>3, <2>1
    <3> QED
      BY <1>1, <1>2, <1>3, <1>4, <2>1, <3>1, HandedOn, ZenonT(60)
  <2>2. CASE v # w
    BY <1>1, <1>2, <1>3, <2>2 DEF Precede
  <2> QED
    BY <2>1, <2>2
<1> HIDE DEF B
<1>6. AllInOrder(s)'
  BY <1>1, <1>2, <1>5 DEF AllInOrder
<1>7. /\ B \in SUBSET Numbers(s)[5] /\ Precede(B, Numbers(s)[5] \ B)
      /\ Numbers(s)'[4] = Numbers(s)[4] \cup B /\ Numbers(s)'[5] = Numbers(s)[5] \ B
  BY <1>5, NumbersAre, NumbersBecome
<1>8. \A r \in Stages : r # 4 /\ r # 5 => Numbers(s)'[r] = Numbers(s)[r]
  BY <1>1, NumbersAre, NumbersBecome, StagesAre
<1>9. 4 \in Stages /\ 4 + 1 \in Stages /\ 4 + 1 = 5
  BY DEF Stages
<1> QED
  BY <1>1, <1>6, <1>7, <1>8, <1>9, StreamMoves

(* The front of a queue of worker v is an event of a symbol of v.          *)
LEMMA FrontIsOwn ==
  ASSUME NEW q \in Seq(Event), q # <<>>, NEW v \in Workers,
         \A s \in Symbols : WorkerFor[s] # v => Of(q, s) = {}
  PROVE  Head(q) \in Event /\ WorkerFor[Head(q)[1]] = v
<1>1. Head(q) \in Event /\ Head(q) = q[1] /\ 1 \in 1..Len(q)
  OBVIOUS
<1>2. Head(q)[1] \in Symbols /\ Head(q)[2] \in Of(q, Head(q)[1])
  BY <1>1, EventIs, OfIs
<1> QED
  BY <1>1, <1>2

LEMMA DistTakeStream ==
  ASSUME IInv, NEW s \in Symbols, NEW v \in Workers, DistTake(v)
  PROVE  StreamOf(s)' /\ InFlight(s)' = InFlight(s)
<1> DEFINE w == WorkerFor[s]
           e == Head(outQ[v])
           B == Mine(e, s)
<1>1. /\ TypeOK /\ StreamOf(s) /\ outQ[v] # <<>>
      /\ distHold' = Append(distHold, e)
      /\ outQ' = [outQ EXCEPT ![v] = Tail(outQ[v])]
      /\ UNCHANGED <<recHold, recQ, workerHold, part, routerHold, feedQ, recorded, nextSeq, dropped>>
  BY DEF IInv, TypeOK, Holding, StreamIntact, DistTake, recVars, normVars, feedVars
<1>2. AllInOrder(s) /\ InOrder(outQ[w], s) /\ InOrder(distHold, s)
  BY <1>1, StreamIs DEF AllInOrder
<1>3. /\ w \in Workers /\ outQ[w] \in Seq(Event) /\ outQ[v] \in Seq(Event)
      /\ distHold \in Seq(Event) /\ outQ \in [Workers -> Seq(Event)]
  BY <1>1, NumbersType DEF TypeOK
<1>4. Precede(Of(distHold, s), Of(outQ[w], s))
  BY <1>1, Adjacent
<1>5. /\ B \in SUBSET Of(outQ[w], s) /\ Precede(B, Of(outQ[w], s) \ B)
      /\ Of(outQ'[w], s) = Of(outQ[w], s) \ B
      /\ Of(distHold', s) = Of(distHold, s) \cup B
      /\ InOrder(outQ'[w], s) /\ InOrder(distHold', s)
  <2>1. CASE v = w
    <3>1. outQ'[w] = Tail(outQ[w]) /\ distHold' = Append(distHold, Head(outQ[w]))
      BY <1>1, <1>3, <2>1
    <3>2. PICK q : q = outQ[w] /\ q \in Seq(Event) /\ q # <<>> /\ InOrder(q, s)
                   /\ Precede(Of(distHold, s), Of(q, s))
      BY <1>1, <1>2, <1>3, <1>4, <2>1
    <3>3. B = Mine(Head(q), s)
      BY <2>1, <3>2
    <3>a. /\ q \in Seq(Event) /\ q # <<>> /\ InOrder(q, s) /\ Precede(Of(distHold, s), Of(q, s))
          /\ distHold \in Seq(Event) /\ InOrder(distHold, s)
      BY <1>2, <1>3, <3>2
    <3>4. /\ Mine(Head(q), s) \in SUBSET Of(q, s)
          /\ Precede(Mine(Head(q), s), Of(q, s) \ Mine(Head(q), s))
          /\ Of(Tail(q), s) = Of(q, s) \ Mine(Head(q), s) /\ InOrder(Tail(q), s)
          /\ Of(Append(distHold, Head(q)), s) = Of(distHold, s) \cup Mine(Head(q), s)
          /\ InOrder(Append(distHold, Head(q)), s)
      BY ONLY <3>a, HandedOn
    <3> HIDE DEF B
    <3> QED
      BY <3>1, <3>2, <3>3, <3>4
  <2>2. CASE v # w
    <3>1. e \in Event /\ WorkerFor[e[1]] = v
      BY <1>1, <1>3, FrontIsOwn, SMTT(60) DEF IInv, Routed
    <3>2. e[1] # s /\ B = {}
      BY <2>2, <3>1 DEF Mine
    <3>3. Of(distHold', s) = Of(distHold, s) /\ InOrder(distHold', s)
      BY <1>1, <1>2, <1>3, <3>1, <3>2, Foreign
    <3>4. outQ'[w] = outQ[w]
      BY <1>1, <1>3, <2>2
    <3> HIDE DEF B
    <3> QED
      BY <1>2, <3>2, <3>3, <3>4 DEF Precede
  <2> QED
    BY <2>1, <2>2
<1> HIDE DEF e, B
<1>6. AllInOrder(s)'
  BY <1>1, <1>2, <1>5 DEF AllInOrder
<1>7. /\ B \in SUBSET Numbers(s)[4] /\ Precede(B, Numbers(s)[4] \ B)
      /\ Numbers(s)'[3] = Numbers(s)[3] \cup B /\ Numbers(s)'[4] = Numbers(s)[4] \ B
  BY <1>5, NumbersAre, NumbersBecome
<1>8. \A r \in Stages : r # 3 /\ r # 4 => Numbers(s)'[r] = Numbers(s)[r]
  BY <1>1, NumbersAre, NumbersBecome, StagesAre, SMTT(60)
<1>9. 3 \in Stages /\ 3 + 1 \in Stages /\ 3 + 1 = 4
  BY DEF Stages
<1> QED
  BY <1>1, <1>6, <1>7, <1>8, <1>9, StreamMoves

LEMMA DistStoreStream ==
  ASSUME IInv, NEW s \in Symbols, DistStore
  PROVE  StreamOf(s)' /\ InFlight(s)' = InFlight(s)
<1> DEFINE e == Head(distHold)
           B == Mine(e, s)
<1>1. /\ TypeOK /\ StreamOf(s) /\ distHold # <<>> /\ distHold \in Seq(Event) /\ recQ \in Seq(Event)
      /\ distHold' = Tail(distHold) /\ recQ' = Append(recQ, e)
      /\ UNCHANGED <<recHold, outQ, workerHold, part, routerHold, feedQ, recorded, nextSeq, dropped>>
  BY DEF IInv, TypeOK, Holding, StreamIntact, DistStore, recVars, normVars, feedVars
<1>2. AllInOrder(s) /\ InOrder(distHold, s) /\ InOrder(recQ, s)
  BY <1>1, StreamIs DEF AllInOrder
<1>3. Precede(Of(recQ, s), Of(distHold, s))
  BY <1>1, Adjacent
<1>4. /\ B \in SUBSET Of(distHold, s) /\ Precede(B, Of(distHold, s) \ B)
      /\ Of(distHold', s) = Of(distHold, s) \ B
      /\ Of(recQ', s) = Of(recQ, s) \cup B
      /\ InOrder(distHold', s) /\ InOrder(recQ', s)
  BY <1>1, <1>2, <1>3, HandedOn, ZenonT(60)
<1> HIDE DEF e, B
<1>5. AllInOrder(s)'
  BY <1>1, <1>2, <1>4 DEF AllInOrder
<1>6. /\ B \in SUBSET Numbers(s)[3] /\ Precede(B, Numbers(s)[3] \ B)
      /\ Numbers(s)'[2] = Numbers(s)[2] \cup B /\ Numbers(s)'[3] = Numbers(s)[3] \ B
  BY <1>4, NumbersAre, NumbersBecome
<1>7. \A r \in Stages : r # 2 /\ r # 3 => Numbers(s)'[r] = Numbers(s)[r]
  BY <1>1, NumbersAre, NumbersBecome, StagesAre, SMTT(60)
<1>8. 2 \in Stages /\ 2 + 1 \in Stages /\ 2 + 1 = 3
  BY DEF Stages
<1> QED
  BY <1>1, <1>5, <1>6, <1>7, <1>8, StreamMoves

LEMMA RecTakeStream ==
  ASSUME IInv, NEW s \in Symbols, RecTake
  PROVE  StreamOf(s)' /\ InFlight(s)' = InFlight(s)
<1> DEFINE B == Of(BatchOf(recQ), s)
<1>1. /\ recQ \in Seq(Event) /\ recQ # <<>> /\ StreamOf(s) /\ TypeOK
      /\ recHold = <<>> /\ recHold' = BatchOf(recQ)
      /\ recQ' = Without(recQ, BatchOf(recQ))
      /\ UNCHANGED <<feedQ, routerHold, distHold, outQ, workerHold, part, recorded, nextSeq, dropped>>
  BY DEF IInv, TypeOK, Holding, StreamIntact, RecTake, normVars, distVars, feedVars
<1>2. AllInOrder(s) /\ InOrder(recQ, s)
  BY <1>1, StreamIs DEF AllInOrder
<1>3. /\ B \in SUBSET Of(recQ, s) /\ Precede(B, Of(recQ, s) \ B)
      /\ Of(recQ', s) = Of(recQ, s) \ B /\ Of(recHold', s) = Of(recHold, s) \cup B
      /\ InOrder(recHold', s) /\ InOrder(recQ', s)
  BY <1>1, <1>2, TakenOver, OfEmpty
<1> HIDE DEF B
<1>4. AllInOrder(s)'
  BY <1>1, <1>2, <1>3 DEF AllInOrder
<1>5. /\ B \in SUBSET Numbers(s)[2] /\ Precede(B, Numbers(s)[2] \ B)
      /\ Numbers(s)'[1] = Numbers(s)[1] \cup B /\ Numbers(s)'[2] = Numbers(s)[2] \ B
  BY <1>3, NumbersAre, NumbersBecome
<1>6. \A r \in Stages : r # 1 /\ r # 2 => Numbers(s)'[r] = Numbers(s)[r]
  BY <1>1, NumbersAre, NumbersBecome, StagesAre
<1>7. 1 \in Stages /\ 1 + 1 \in Stages /\ 1 + 1 = 2
  BY DEF Stages
<1> QED
  BY <1>1, <1>4, <1>5, <1>6, <1>7, StreamMoves

(* The other steps of the threads leave every queue and batch alone.       *)
LEMMA QueuesStay ==
  ASSUME NEW s \in Symbols, StreamOf(s),
         UNCHANGED <<recHold, recQ, distHold, outQ, workerHold, part, routerHold, feedQ,
                     recorded, nextSeq, dropped>>
  PROVE  StreamOf(s)' /\ InFlight(s)' = InFlight(s)
<1>1. AllInOrder(s)'
  BY StreamIs DEF AllInOrder
<1>2. \A r \in Stages : Numbers(s)'[r] = Numbers(s)[r]
  BY NumbersAre, NumbersBecome, StagesAre
<1> QED
  BY <1>1, <1>2, StreamStays

(* The recording thread writes the event it holds.                         *)
LEMMA IncreasingAppend ==
  ASSUME NEW q \in Seq(0..MaxSeq), NEW n \in 0..MaxSeq
  PROVE  /\ Range(Append(q, n)) = Range(q) \cup {n}
         /\ Increasing(q) /\ Precede(Range(q), {n}) => Increasing(Append(q, n))
<1> DEFINE r == Append(q, n)
<1>1. /\ Len(r) = Len(q) + 1 /\ Len(q) \in Nat
      /\ \A i \in 1..Len(q) : r[i] = q[i]
      /\ r[Len(q) + 1] = n /\ DOMAIN r = 1..Len(q) + 1 /\ DOMAIN q = 1..Len(q)
  OBVIOUS
<1> HIDE DEF r
<1>2. Range(r) = Range(q) \cup {n}
  <2>1. ASSUME NEW m \in Range(r) PROVE m \in Range(q) \cup {n}
    <3>1. PICK i \in 1..Len(q) + 1 : r[i] = m
      BY <1>1, <2>1 DEF Range
    <3> QED
      BY <1>1, <3>1 DEF Range
  <2>2. ASSUME NEW m \in Range(q) PROVE m \in Range(r)
    <3>1. PICK i \in 1..Len(q) : q[i] = m
      BY <1>1, <2>2 DEF Range
    <3>2. i \in 1..Len(q) + 1 /\ r[i] = m
      BY <1>1, <3>1
    <3> QED
      BY <1>1, <3>2 DEF Range
  <2>3. n \in Range(r)
    <3>1. Len(q) + 1 \in 1..Len(q) + 1
      BY <1>1
    <3> QED
      BY <1>1, <3>1 DEF Range
  <2> QED
    BY <2>1, <2>2, <2>3
<1>3. ASSUME Increasing(q), Precede(Range(q), {n}) PROVE Increasing(r)
  <2> SUFFICES ASSUME NEW i \in 1..Len(q) + 1, NEW j \in 1..Len(q) + 1, i < j
               PROVE  r[i] < r[j]
    BY <1>1 DEF Increasing
  <2>1. CASE j \in 1..Len(q)
    BY <1>1, <1>3, <2>1 DEF Increasing
  <2>2. CASE j = Len(q) + 1
    <3>1. i \in 1..Len(q) /\ r[i] = q[i] /\ r[j] = n
      BY <1>1, <2>2
    <3>2. q[i] \in Range(q)
      BY <1>1, <3>1 DEF Range
    <3> QED
      BY <1>3, <3>1, <3>2 DEF Precede
  <2> QED
    BY <1>1, <2>1, <2>2
<1> QED
  BY <1>2, <1>3 DEF r

LEMMA RecWriteStream ==
  ASSUME IInv, NEW s \in Symbols, RecWrite
  PROVE  LET e == Head(recHold)
         IN  /\ StreamOf(s)' /\ e \in Event
             /\ InFlight(s)' = InFlight(s) \ Mine(e, s)
             /\ Mine(e, s) \subseteq InFlight(s)
             /\ \A n \in Mine(e, s), m \in InFlight(s) : n <= m
             /\ e[1] # s => recorded'[s] = recorded[s]
             /\ e[1] = s => recorded'[s] = Append(recorded[s], e[2])
             /\ Range(recorded'[s]) = Range(recorded[s]) \cup Mine(e, s)
<1> DEFINE e == Head(recHold)
           B == Mine(e, s)
           N == Numbers(s)
           M == Numbers(s)'
<1>1. /\ TypeOK /\ StreamOf(s) /\ recHold # <<>> /\ recHold \in Seq(Event)
      /\ recHold' = Tail(recHold) /\ recorded' = [recorded EXCEPT ![e[1]] = Append(@, e[2])]
      /\ recorded \in [Symbols -> Seq(0..MaxSeq)]
      /\ UNCHANGED <<recQ, distHold, outQ, workerHold, part, routerHold, feedQ, nextSeq, dropped>>
  BY DEF IInv, TypeOK, Holding, StreamIntact, RecWrite, distVars, normVars, feedVars
<1>2. AllInOrder(s) /\ InOrder(recHold, s) /\ Recorded(s) /\ Chain(N)
  BY <1>1, StreamIs DEF AllInOrder
<1>3. /\ e \in Event /\ InOrder(recHold', s) /\ B \subseteq Of(recHold, s)
      /\ Of(recHold', s) = Of(recHold, s) \ B /\ Precede(B, Of(recHold', s))
  BY <1>1, <1>2, Popped
<1>4. e[1] \in Symbols /\ e[2] \in 0..MaxSeq
  BY <1>3, EventIs
<1>5. AllInOrder(s)'
  BY <1>1, <1>2, <1>3 DEF AllInOrder
<1>6. M[1] = N[1] \ B /\ B \subseteq N[1] /\ \A r \in Stages : r # 1 => M[r] = N[r]
  <2>1. M[1] = N[1] \ B /\ B \subseteq N[1]
    BY <1>3, NumbersAre, NumbersBecome
  <2>2. /\ M[2] = N[2] /\ M[3] = N[3] /\ M[4] = N[4] /\ M[5] = N[5] /\ M[6] = N[6]
        /\ M[7] = N[7] /\ M[8] = N[8]
    BY <1>1, NumbersAre, NumbersBecome
  <2> HIDE DEF M, N, B
  <2> QED
    BY <2>1, <2>2, StagesAre
<1>7. N \in [Stages -> SUBSET Nat]
  BY <1>1, NumbersType
<1>8. InFlight(s) = UNION {N[p] : p \in Stages} /\ InFlight(s)' = UNION {M[p] : p \in Stages}
  BY FlightIs
<1>9. Precede(B, M[1])
  BY <1>3, NumbersBecome
<1>10. e[1] = s => B = {e[2]}
  BY DEF Mine
<1>11. e[1] # s => B = {}
  BY DEF Mine
<1> HIDE DEF e, B, N, M
<1>12. 1 \in Stages /\ \A r \in Stages : r # 1 => 1 < r
  BY DEF Stages
<1>13. Precede(B, UNION {M[p] : p \in Stages})
  BY <1>2, <1>6, <1>9, <1>12 DEF Chain, Precede
<1>14. Chain(M)
  BY <1>2, <1>6 DEF Chain, Precede
<1>15. B \subseteq Nat
  BY <1>6, <1>7, <1>12
<1>16. UNION {M[p] : p \in Stages} = (UNION {N[p] : p \in Stages}) \ B
  <2>1. \A n \in B : n \notin UNION {M[p] : p \in Stages}
    BY <1>13, <1>15 DEF Precede
  <2>2. ASSUME NEW n \in UNION {N[p] : p \in Stages}, n \notin B
        PROVE  n \in UNION {M[p] : p \in Stages}
    BY <1>6, <2>2
  <2>3. UNION {M[p] : p \in Stages} \subseteq UNION {N[p] : p \in Stages}
    BY <1>6
  <2> QED
    BY <2>1, <2>2, <2>3
<1>17. B \subseteq UNION {N[p] : p \in Stages}
  BY <1>6, <1>12
<1>18. InFlight(s)' = InFlight(s) \ B /\ B \subseteq InFlight(s) /\ Precede(B, InFlight(s)')
  BY <1>8, <1>13, <1>16, <1>17
<1>19. /\ Range(recorded'[s]) = Range(recorded[s]) \cup B /\ Increasing(recorded'[s])
       /\ e[1] # s => recorded'[s] = recorded[s]
       /\ e[1] = s => recorded'[s] = Append(recorded[s], e[2])
  <2>1. CASE e[1] = s
    <3>1. recorded'[s] = Append(recorded[s], e[2]) /\ recorded[s] \in Seq(0..MaxSeq)
      BY <1>1, <2>1
    <3>3. Precede(Range(recorded[s]), {e[2]}) /\ Increasing(recorded[s])
      BY <1>2, <1>10, <1>18, <2>1 DEF Recorded, Precede
    <3> QED
      BY <1>4, <1>10, <2>1, <3>1, <3>3, IncreasingAppend
  <2>2. CASE e[1] # s
    <3>1. recorded'[s] = recorded[s]
      BY <1>1, <2>2
    <3> QED
      BY <1>2, <1>11, <2>2, <3>1 DEF Recorded
  <2> QED
    BY <2>1, <2>2
<1>20. Recorded(s)'
  <2>1. Precede(Range(recorded'[s]), InFlight(s)')
    BY <1>2, <1>18, <1>19 DEF Recorded, Precede
  <2>2. Range(recorded'[s]) \cup InFlight(s)' = Range(recorded[s]) \cup InFlight(s)
    BY <1>18, <1>19
  <2> QED
    BY <1>1, <1>2, <1>19, <2>1, <2>2 DEF Recorded
<1>21. StreamOf(s)'
  BY <1>5, <1>14, <1>20, StreamIs DEF M
<1>22. \A n \in B, m \in InFlight(s) : n <= m
  <2> SUFFICES ASSUME NEW n \in B, NEW m \in InFlight(s) PROVE n <= m
    OBVIOUS
  <2>1. CASE m \in B
    BY <1>10, <1>11, <1>15, <2>1
  <2>2. CASE m \notin B
    <3>1. m \in InFlight(s)' /\ m \in Nat
      BY <1>7, <1>8, <1>18, <2>2
    <3> QED
      BY <1>15, <1>18, <3>1 DEF Precede
  <2> QED
    BY <2>1, <2>2
<1> QED
  BY <1>3, <1>18, <1>19, <1>21, <1>22 DEF B, e

(* A worker gives up on the event it holds.                                *)
LEMMA WorkerFailStream ==
  ASSUME IInv, NEW s \in Symbols, NEW v \in Workers, WorkerFail(v)
  PROVE  LET e == Head(workerHold[v])
         IN  /\ StreamOf(s)' /\ e \in Event
             /\ InFlight(s)' = InFlight(s) \ Mine(e, s) /\ Mine(e, s) \subseteq InFlight(s)
<1> DEFINE w == WorkerFor[s]
           e == Head(workerHold[v])
           B == Mine(e, s)
           N == Numbers(s)
           M == Numbers(s)'
<1>1. /\ TypeOK /\ StreamOf(s) /\ workerHold[v] # <<>> /\ workerHold[v] \in Seq(Event)
      /\ workerHold' = [workerHold EXCEPT ![v] = Tail(workerHold[v])]
      /\ dropped' = [dropped EXCEPT ![e[1]] = @ \cup {e[2]}]
      /\ UNCHANGED <<recHold, recQ, distHold, outQ, part, routerHold, feedQ, recorded, nextSeq>>
  BY DEF IInv, TypeOK, Holding, StreamIntact, WorkerFail, WorkerAdvance, recVars, distVars, feedVars
<1>2. AllInOrder(s) /\ InOrder(workerHold[w], s) /\ Recorded(s) /\ Chain(N)
  BY <1>1, StreamIs DEF AllInOrder
<1>3. /\ w \in Workers /\ workerHold[w] \in Seq(Event)
      /\ workerHold \in [Workers -> Seq(Event)] /\ dropped \in [Symbols -> SUBSET (0..MaxSeq)]
  BY <1>1, NumbersType DEF TypeOK
<1>4. e \in Event /\ WorkerFor[e[1]] = v /\ e[1] \in Symbols
  BY <1>1, FrontIsOwn, EventIs DEF IInv, Routed
<1>5. /\ InOrder(workerHold'[w], s) /\ B \subseteq Of(workerHold[w], s)
      /\ Of(workerHold'[w], s) = Of(workerHold[w], s) \ B
      /\ Precede(B, Of(workerHold'[w], s))
  <2>1. CASE v = w
    <3>1. workerHold'[w] = Tail(workerHold[w]) /\ e = Head(workerHold[w]) /\ workerHold[w] # <<>>
      BY <1>1, <1>3, <2>1
    <3> HIDE DEF e
    <3> QED
      BY <1>2, <1>3, <3>1, Popped
  <2>2. CASE v # w
    <3>1. B = {} /\ workerHold'[w] = workerHold[w]
      BY <1>1, <1>3, <1>4, <2>2 DEF Mine
    <3> HIDE DEF B
    <3> QED
      BY <1>2, <3>1 DEF Precede
  <2> QED
    BY <2>1, <2>2
<1>6. dropped'[s] = dropped[s] \cup B
  BY <1>1, <1>3, <1>4 DEF Mine
<1> HIDE DEF e, B
<1>7. AllInOrder(s)'
  BY <1>1, <1>2, <1>5 DEF AllInOrder
<1>8. M[5] = N[5] \ B /\ B \subseteq N[5] /\ \A r \in Stages : r # 5 => M[r] = N[r]
  <2>1. M[5] = N[5] \ B /\ B \subseteq N[5]
    BY <1>5, NumbersAre, NumbersBecome
  <2>2. /\ M[1] = N[1] /\ M[2] = N[2] /\ M[3] = N[3] /\ M[4] = N[4] /\ M[6] = N[6]
        /\ M[7] = N[7] /\ M[8] = N[8]
    BY <1>1, NumbersAre, NumbersBecome
  <2> HIDE DEF M, N
  <2> QED
    BY <2>1, <2>2, StagesAre
<1>9. N \in [Stages -> SUBSET Nat]
  BY <1>1, NumbersType
<1>10. InFlight(s) = UNION {N[p] : p \in Stages} /\ InFlight(s)' = UNION {M[p] : p \in Stages}
  BY FlightIs
<1>11. Precede(B, M[5])
  BY <1>5, NumbersBecome
<1> HIDE DEF M, N
<1>12. 5 \in Stages /\ \A r \in Stages : r # 5 => r < 5 \/ 5 < r
  BY DEF Stages
<1>13. Chain(M)
  BY <1>2, <1>8 DEF Chain, Precede
<1>14. (UNION {M[p] : p \in Stages}) = (UNION {N[p] : p \in Stages}) \ B
  <2>1. ASSUME NEW n \in B, NEW r \in Stages PROVE n \notin M[r]
    <3>0. n \in N[5] /\ n \in Nat
      BY <1>8, <1>9, <1>12
    <3>1. CASE r = 5
      BY <1>8, <3>1
    <3>2. CASE r < 5
      <4>1. M[r] = N[r] /\ Precede(N[r], N[5])
        BY <1>2, <1>8, <1>12, <3>2 DEF Chain
      <4> QED
        BY <3>0, <4>1 DEF Precede
    <3>3. CASE 5 < r
      <4>1. M[r] = N[r] /\ Precede(N[5], N[r])
        BY <1>2, <1>8, <1>12, <3>3 DEF Chain
      <4> QED
        BY <3>0, <4>1 DEF Precede
    <3> QED
      BY <1>12, <3>1, <3>2, <3>3
  <2>2. ASSUME NEW n \in UNION {N[p] : p \in Stages}, n \notin B
        PROVE  n \in UNION {M[p] : p \in Stages}
    BY <1>8, <2>2
  <2>3. UNION {M[p] : p \in Stages} \subseteq UNION {N[p] : p \in Stages}
    BY <1>8
  <2> QED
    BY <2>1, <2>2, <2>3
<1>15. InFlight(s)' = InFlight(s) \ B /\ B \subseteq InFlight(s)
  BY <1>8, <1>10, <1>12, <1>14
<1>16. Recorded(s)'
  <2>1. \A n \in Range(recorded[s]), m \in InFlight(s) : n < m
    BY <1>2 DEF Recorded, Precede
  <2>2. B \subseteq Nat
    BY <1>8, <1>9, <1>12
  <2>3. \A n \in B : n \notin Range(recorded[s])
    BY <1>15, <2>1, <2>2
  <2>4. Range(recorded[s]) \cup InFlight(s)' = ((0..nextSeq[s] - 1) \ dropped[s]) \ B
    BY <1>2, <1>15, <2>3 DEF Recorded
  <2>5. Range(recorded[s]) \cup InFlight(s)' = (0..nextSeq[s] - 1) \ dropped'[s]
    BY <1>6, <2>4
  <2>6. Precede(Range(recorded[s]), InFlight(s)')
    BY <1>15, <2>1 DEF Precede
  <2> QED
    BY <1>1, <1>2, <2>5, <2>6 DEF Recorded
<1>17. StreamOf(s)'
  BY <1>7, <1>13, <1>16, StreamIs DEF M
<1> QED
  BY <1>4, <1>15, <1>17 DEF B, e

(* The feed numbers an event of t.                                         *)
LEMMA FeedEmitStream ==
  ASSUME IInv, NEW s \in Symbols, NEW t \in Symbols, FeedEmit(t)
  PROVE  /\ StreamOf(s)'
         /\ t = s => InFlight(s)' = InFlight(s) \cup {nextSeq[s]}
         /\ t # s => InFlight(s)' = InFlight(s)
<1> DEFINE e == <<t, nextSeq[t]>>
           B == Mine(e, s)
           N == Numbers(s)
           M == Numbers(s)'
<1>1. /\ TypeOK /\ StreamOf(s) /\ feedQ \in Seq(Event) /\ nextSeq \in [Symbols -> 0..MaxSeq]
      /\ nextSeq[t] < MaxSeq /\ feedQ' = Append(feedQ, e)
      /\ nextSeq' = [nextSeq EXCEPT ![t] = @ + 1]
      /\ UNCHANGED <<recHold, recQ, distHold, outQ, workerHold, part, routerHold, recorded, dropped>>
  BY DEF IInv, TypeOK, StreamIntact, FeedEmit, distVars, normVars, recVars
<1>2. AllInOrder(s) /\ InOrder(feedQ, s) /\ Recorded(s) /\ Chain(N)
  BY <1>1, StreamIs DEF AllInOrder
<1>3. e \in Event /\ e[1] = t /\ e[2] = nextSeq[t] /\ nextSeq[s] \in Nat /\ MaxSeq \in Nat
  BY <1>1, ConstantsAssumption DEF Event
<1>4. (t = s => B = {nextSeq[s]}) /\ (t # s => B = {})
  BY <1>3 DEF Mine
<1>5. N \in [Stages -> SUBSET Nat]
  BY <1>1, NumbersType
<1>6. InFlight(s) = UNION {N[p] : p \in Stages} /\ InFlight(s)' = UNION {M[p] : p \in Stages}
  BY FlightIs
<1>7. \A n \in InFlight(s) \cup Range(recorded[s]) : n \in Nat /\ n < nextSeq[s]
  BY <1>2, <1>3 DEF Recorded
<1>8. Of(feedQ, s) \subseteq InFlight(s)
  BY DEF InFlight
<1>9. Precede(Of(feedQ, s), B)
  BY <1>4, <1>7, <1>8 DEF Precede
<1>10. Of(feedQ', s) = Of(feedQ, s) \cup B /\ InOrder(feedQ', s)
  <2> HIDE DEF e
  <2> QED
    BY <1>1, <1>2, <1>3, <1>9, Appended
<1> HIDE DEF e, B
<1>11. AllInOrder(s)'
  BY <1>1, <1>2, <1>10 DEF AllInOrder
<1>12. M[8] = N[8] \cup B /\ \A r \in Stages : r # 8 => M[r] = N[r]
  <2>1. M[8] = N[8] \cup B
    BY <1>10, NumbersAre, NumbersBecome
  <2>2. /\ M[1] = N[1] /\ M[2] = N[2] /\ M[3] = N[3] /\ M[4] = N[4] /\ M[5] = N[5]
        /\ M[6] = N[6] /\ M[7] = N[7]
    BY <1>1, NumbersAre, NumbersBecome
  <2> HIDE DEF M, N
  <2> QED
    BY <2>1, <2>2, StagesAre
<1> HIDE DEF M, N
<1>13. 8 \in Stages /\ \A r \in Stages : ~(8 < r)
  BY DEF Stages
<1>14. \A r \in Stages : Precede(N[r], B)
  BY <1>4, <1>6, <1>7 DEF Precede
<1>15. Chain(M)
  <2> SUFFICES ASSUME NEW p \in Stages, NEW q \in Stages, p < q, NEW n \in M[p], NEW m \in M[q]
               PROVE  n < m
    BY DEF Chain, Precede
  <2>1. p # 8 /\ n \in N[p]
    BY <1>12, <1>13
  <2>2. CASE m \in N[q]
    BY <1>2, <2>1, <2>2 DEF Chain, Precede
  <2>3. CASE m \in B
    BY <1>14, <2>1, <2>3 DEF Precede
  <2> QED
    BY <1>12, <2>2, <2>3
<1>16. InFlight(s)' = InFlight(s) \cup B
  BY <1>6, <1>12, <1>13
<1>17. Recorded(s)'
  <2>1. Precede(Range(recorded[s]), InFlight(s)')
    <3>1. Precede(Range(recorded[s]), InFlight(s)) /\ Precede(Range(recorded[s]), B)
      BY <1>2, <1>4, <1>7 DEF Recorded, Precede
    <3> QED
      BY <1>16, <3>1 DEF Precede
  <2>2. Range(recorded[s]) \cup InFlight(s)' = (0..nextSeq'[s] - 1) \ dropped[s]
    <3>1. CASE t = s
      <4>1. nextSeq'[s] = nextSeq[s] + 1
        BY <1>1, <3>1
      <4>2. nextSeq[s] \notin dropped[s]
        BY <1>3 DEF IInv, DroppedWereNumbered
      <4>3. Range(recorded[s]) \cup InFlight(s) = (0..nextSeq[s] - 1) \ dropped[s]
        BY <1>2 DEF Recorded
      <4>4. 0..nextSeq'[s] - 1 = (0..nextSeq[s] - 1) \cup {nextSeq[s]}
        BY <1>3, <4>1
      <4> QED
        BY <1>4, <1>16, <3>1, <4>2, <4>3, <4>4
    <3>2. CASE t # s
      <4>1. nextSeq'[s] = nextSeq[s]
        BY <1>1, <3>2
      <4> QED
        BY <1>2, <1>4, <1>16, <3>2, <4>1 DEF Recorded
    <3> QED
      BY <3>1, <3>2
  <2> QED
    BY <1>1, <1>2, <2>1, <2>2 DEF Recorded
<1>18. StreamOf(s)'
  BY <1>11, <1>15, <1>17, StreamIs DEF M
<1> QED
  BY <1>4, <1>16, <1>18

-----------------------------------------------------------------------------
(* The steps that move no event.                                           *)
Aside ==
    \/ FeedLoop \/ FeedStart \/ FeedStop \/ RouterExit \/ \E w \in Workers : WorkerExit(w)
    \/ DistTaken \/ DistPublish \/ DistExit \/ ClientWrite \/ RecExit
    \/ StartWaiting \/ StopBegin \/ StopStep

LEMMA NextCases ==
  ASSUME Next
  PROVE  \/ \E t \in Symbols : FeedEmit(t)
         \/ RouterTake \/ RouterSend
         \/ \E w \in Workers : WorkerTake(w) \/ WorkerSend(w) \/ WorkerFail(w) \/ DistTake(w)
         \/ DistStore \/ RecTake \/ RecWrite \/ Aside
  BY DEF Next, FeedStep, RouterStep, WorkerStep, DistStep, RecStep, Aside

LEMMA AsideMovesNothing ==
  ASSUME Aside
  PROVE  UNCHANGED <<recHold, recQ, distHold, outQ, workerHold, part, routerHold, feedQ,
                     recorded, nextSeq, dropped>>
<1> USE DEF feedVars, normVars, distVars, recVars, ctrlVars
<1>1. CASE FeedLoop \/ FeedStart \/ FeedStop
  BY <1>1 DEF FeedLoop, FeedStart, FeedStop
<1>2. CASE RouterExit \/ \E w \in Workers : WorkerExit(w)
  BY <1>2 DEF RouterExit, WorkerExit
<1>3. CASE DistTaken \/ DistPublish \/ DistExit \/ ClientWrite \/ RecExit
  BY <1>3 DEF DistTaken, DistPublish, DistExit, ClientWrite, RecExit
<1>4. CASE StartWaiting
  BY <1>4 DEF StartWaiting
<1>5. CASE StopBegin \/ StopStep
  BY <1>5 DEF StopBegin, StopStep, FeedJoined, DistJoined, RecorderJoined, PublisherStopped,
              NormalizerJoined, StopUnchanged
<1> QED
  BY <1>1, <1>2, <1>3, <1>4, <1>5 DEF Aside

(* Every step keeps the stream of every symbol.                            *)
LEMMA StreamStep ==
  ASSUME IInv, Next
  PROVE  StreamIntact'
<1> SUFFICES ASSUME NEW s \in Symbols PROVE StreamOf(s)'
  BY DEF StreamIntact
<1>1. ASSUME NEW t \in Symbols, FeedEmit(t) PROVE StreamOf(s)'
  BY <1>1, FeedEmitStream
<1>2. CASE RouterTake
  BY <1>2, RouterTakeStream
<1>3. CASE RouterSend
  BY <1>3, RouterSendStream
<1>4. ASSUME NEW w \in Workers, WorkerTake(w) PROVE StreamOf(s)'
  BY <1>4, WorkerTakeStream
<1>5. ASSUME NEW w \in Workers, WorkerSend(w) PROVE StreamOf(s)'
  BY <1>5, WorkerSendStream
<1>6. ASSUME NEW w \in Workers, WorkerFail(w) PROVE StreamOf(s)'
  BY <1>6, WorkerFailStream
<1>7. ASSUME NEW w \in Workers, DistTake(w) PROVE StreamOf(s)'
  BY <1>7, DistTakeStream
<1>8. CASE DistStore
  BY <1>8, DistStoreStream
<1>9. CASE RecTake
  BY <1>9, RecTakeStream
<1>10. CASE RecWrite
  BY <1>10, RecWriteStream
<1>11. CASE Aside
  BY <1>11, AsideMovesNothing, QueuesStay DEF IInv, StreamIntact
<1> QED
  BY <1>1, <1>2, <1>3, <1>4, <1>5, <1>6, <1>7, <1>8, <1>9, <1>10, <1>11, NextCases

-----------------------------------------------------------------------------
(* Types.                                                                  *)

LEMMA BatchType ==
  ASSUME NEW q \in Seq(Event), q # <<>>
  PROVE  BatchOf(q) \in Seq(Event) /\ Without(q, BatchOf(q)) \in Seq(Event) /\ BatchOf(q) # <<>>
<1>1. PICK k \in 0..Len(q) : /\ BatchOf(q) = SubSeq(q, 1, k)
                             /\ Without(q, BatchOf(q)) = SubSeq(q, k + 1, Len(q))
  BY Batched DEF IsCut
<1>2. SubSeq(q, 1, k) \in Seq(Event) /\ SubSeq(q, k + 1, Len(q)) \in Seq(Event)
  OBVIOUS
<1> QED
  BY <1>1, <1>2, Batched

LEMMA FrontType ==
  ASSUME NEW q \in Seq(Event), q # <<>>
  PROVE  /\ Head(q) \in Event /\ Tail(q) \in Seq(Event) /\ Head(q)[1] \in Symbols
         /\ Head(q)[2] \in 0..MaxSeq /\ (Len(q) = 1 <=> Tail(q) = <<>>)
<1>1. Head(q) \in Event /\ Tail(q) \in Seq(Event) /\ Len(Tail(q)) = Len(q) - 1 /\ Len(q) \in Nat
  OBVIOUS
<1>2. \A r \in Seq(Event) : Len(r) = 0 <=> r = <<>>
  OBVIOUS
<1>3. Len(Tail(q)) = 0 <=> Tail(q) = <<>>
  BY ONLY <1>1, <1>2
<1>4. Len(q) = 1 <=> Len(Tail(q)) = 0
  BY ONLY <1>1
<1> QED
  BY <1>1, <1>3, <1>4, EventIs

LEMMA AppendType ==
  ASSUME NEW q \in Seq(Event), NEW e \in Event
  PROVE  Append(q, e) \in Seq(Event) /\ Append(q, e) # <<>>
<1>1. Append(q, e) \in Seq(Event) /\ Len(Append(q, e)) = Len(q) + 1 /\ Len(q) \in Nat
  OBVIOUS
<1>2. Len(<<>>) = 0
  OBVIOUS
<1> QED
  BY <1>1, <1>2

LEMMA TypeStep ==
  ASSUME TypeOK, Holding, Next
  PROVE  TypeOK'
<1> USE DEF feedVars, normVars, distVars, recVars, ctrlVars
<1>0. /\ HighWatermark \in Nat /\ BatchSize \in Nat /\ Round \in Nat /\ MaxSeq \in Nat
      /\ MaxFeedStarts \in Nat
  BY ConstantsAssumption
<1>1. ASSUME NEW t \in Symbols, FeedEmit(t) PROVE TypeOK'
  <2>1. <<t, nextSeq[t]>> \in Event
    BY <1>0, <1>1 DEF FeedEmit, TypeOK, Event
  <2>2. feedQ' \in Seq(Event)
    BY <1>1, <2>1, AppendType DEF FeedEmit, TypeOK
  <2>3. nextSeq' \in [Symbols -> 0..MaxSeq] /\ feedTodo' \in 0..Round
    <3>1. /\ nextSeq \in [Symbols -> 0..MaxSeq] /\ nextSeq[t] < MaxSeq
          /\ nextSeq' = [nextSeq EXCEPT ![t] = @ + 1]
      BY <1>1 DEF FeedEmit, TypeOK
    <3>2. nextSeq' \in [Symbols -> 0..MaxSeq]
      BY ONLY <1>0, <3>1
    <3>3. feedTodo \in 0..Round /\ feedTodo >= 1 /\ feedTodo' = feedTodo - 1
      BY <1>1 DEF FeedEmit, TypeOK, Holding
    <3>4. feedTodo' \in 0..Round
      BY ONLY <1>0, <3>3
    <3> QED
      BY <3>2, <3>4
  <2>4. feedPc' \in {"done", "loop", "round"} /\ waiting' \in [Waiters -> BOOLEAN]
    BY <1>1 DEF FeedEmit, TypeOK, PassedBy
  <2> QED
    BY <1>1, <2>2, <2>3, <2>4, SMTT(60) DEF FeedEmit, TypeOK
<1>2. CASE RouterTake
  <2>1. routerHold' \in Seq(Event) /\ feedQ' \in Seq(Event)
    BY <1>2, BatchType DEF RouterTake, TypeOK
  <2> QED
    BY <1>2, <2>1 DEF RouterTake, TypeOK
<1>3. CASE RouterSend
  <2>1. /\ Head(routerHold) \in Event /\ routerHold' \in Seq(Event)
        /\ WorkerFor[Head(routerHold)[1]] \in Workers
    BY <1>3, FrontType, ConstantsAssumption DEF RouterSend, TypeOK, Holding
  <2>2. part' \in [Workers -> Seq(Event)]
    BY <1>3, <2>1, AppendType DEF RouterSend, TypeOK
  <2>3. waiting' \in [Waiters -> BOOLEAN] /\ routerPc' \in {"loop", "send", "done"}
    BY <1>3 DEF RouterSend, TypeOK, PassedBy
  <2> QED
    BY <1>3, <2>1, <2>2, <2>3, SMTT(60) DEF RouterSend, TypeOK
<1>4. ASSUME NEW w \in Workers, WorkerTake(w) PROVE TypeOK'
  <2>1. workerHold' \in [Workers -> Seq(Event)] /\ part' \in [Workers -> Seq(Event)]
    BY <1>4, BatchType DEF WorkerTake, TypeOK
  <2> QED
    BY <1>4, <2>1 DEF WorkerTake, TypeOK
<1>5. ASSUME NEW w \in Workers, WorkerAdvance(w)
      PROVE  /\ workerHold' \in [Workers -> Seq(Event)] /\ Head(workerHold[w]) \in Event
             /\ Head(workerHold[w])[2] \in 0..MaxSeq
             /\ workerPc' \in [Workers -> {"loop", "send", "done"}]
  BY <1>5, FrontType DEF WorkerAdvance, TypeOK, Holding
<1>6. ASSUME NEW w \in Workers, WorkerSend(w) PROVE TypeOK'
  <2>1. outQ' \in [Workers -> Seq(Event)] /\ waiting' \in [Waiters -> BOOLEAN]
    BY <1>5, <1>6, AppendType DEF WorkerSend, TypeOK, PassedBy
  <2> QED
    BY <1>5, <1>6, <2>1, SMTT(60) DEF WorkerSend, TypeOK
<1>7. ASSUME NEW w \in Workers, WorkerFail(w) PROVE TypeOK'
  <2>1. dropped' \in [Symbols -> SUBSET (0..MaxSeq)]
    BY <1>5, <1>7 DEF WorkerFail, TypeOK
  <2>2. WorkerAdvance(w) /\ UNCHANGED <<routerPc, routerHold, part, feedVars, distVars, recVars,
                                        ctrlVars, feedQ, outQ, recQ, waiting>>
    BY <1>7 DEF WorkerFail
  <2> QED
    BY <1>5, <2>1, <2>2, SMTT(60) DEF TypeOK
<1>8. ASSUME NEW w \in Workers, DistTake(w) PROVE TypeOK'
  <2>1. Head(outQ[w]) \in Event /\ Tail(outQ[w]) \in Seq(Event)
    BY <1>8, FrontType DEF DistTake, TypeOK
  <2>2. distHold' \in Seq(Event) /\ outQ' \in [Workers -> Seq(Event)]
    BY <1>8, <2>1, AppendType DEF DistTake, TypeOK
  <2> QED
    BY <1>8, <2>2, SMTT(60) DEF DistTake, TypeOK
<1>9. CASE DistStore
  <2>1. distHold' \in Seq(Event) /\ recQ' \in Seq(Event) /\ waiting' \in [Waiters -> BOOLEAN]
    BY <1>9, FrontType, AppendType DEF DistStore, TypeOK, Holding, PassedBy
  <2> QED
    BY <1>9, <2>1 DEF DistStore, TypeOK
<1>10. CASE RecTake
  <2>1. recHold' \in Seq(Event) /\ recQ' \in Seq(Event)
    BY <1>10, BatchType DEF RecTake, TypeOK
  <2> QED
    BY <1>10, <2>1 DEF RecTake, TypeOK
<1>11. CASE RecWrite
  <2>1. /\ recHold' \in Seq(Event) /\ Head(recHold)[1] \in Symbols
        /\ Head(recHold)[2] \in 0..MaxSeq
    BY <1>11, FrontType DEF RecWrite, TypeOK, Holding
  <2>2. recorded' \in [Symbols -> Seq(0..MaxSeq)]
    BY <1>11, <2>1, SMTT(60) DEF RecWrite, TypeOK
  <2> QED
    BY <1>11, <2>1, <2>2, SMTT(60) DEF RecWrite, TypeOK
<1>12. CASE Aside
  <2>1. CASE FeedLoop
    <3>1. /\ feedPc' \in {"round", "done"} /\ (feedTodo' = feedTodo \/ feedTodo' \in 1..Round)
          /\ UNCHANGED <<nextSeq, feedRunning, feedStarts, normVars, distVars, recVars, ctrlVars,
                         feedQ, outQ, recQ, waiting>>
      BY <2>1 DEF FeedLoop
    <3>2. feedTodo' \in 0..Round
      BY <1>0, <3>1 DEF TypeOK
    <3> QED
      BY <3>1, <3>2 DEF TypeOK
  <2>2. CASE FeedStart
    BY <1>0, <2>2 DEF FeedStart, TypeOK
  <2>13. CASE FeedStop
    BY <2>13, ZenonT(60) DEF FeedStop, TypeOK
  <2>3. CASE RouterExit
    BY <2>3 DEF RouterExit, TypeOK
  <2>10. ASSUME NEW w \in Workers, WorkerExit(w) PROVE TypeOK'
    BY <2>10 DEF WorkerExit, TypeOK
  <2>4. CASE DistTaken
    BY <2>4 DEF DistTaken, TypeOK
  <2>11. CASE DistExit
    BY <2>11 DEF DistExit, TypeOK
  <2>12. CASE RecExit
    BY <2>12 DEF RecExit, TypeOK
  <2>5. CASE ClientWrite
    BY <2>5 DEF ClientWrite, TypeOK
  <2>6. CASE DistPublish
    <3>1. Head(distHold)[1] \in Symbols /\ Head(distHold)[2] \in 0..MaxSeq
      BY <2>6, FrontType DEF DistPublish, TypeOK, Holding
    <3>2. published' \in [Symbols -> Seq(0..MaxSeq)]
      <4>1. \/ published' = published
            \/ published' = [published EXCEPT ![Head(distHold)[1]] = Append(@, Head(distHold)[2])]
        BY <2>6 DEF DistPublish
      <4>2. published \in [Symbols -> Seq(0..MaxSeq)]
        BY DEF TypeOK
      <4>3. PICK x \in Symbols, n \in 0..MaxSeq : x = Head(distHold)[1] /\ n = Head(distHold)[2]
        BY <3>1
      <4>4. published' = published \/ published' = [published EXCEPT ![x] = Append(@, n)]
        BY <4>1, <4>3
      <4>5. CASE published' = [published EXCEPT ![x] = Append(@, n)]
        BY <4>2, <4>5
      <4>6. CASE published' = published
        BY <4>2, <4>6
      <4> QED
        BY <4>4, <4>5, <4>6
    <3>3. clientDepth' \in Nat
      BY <2>6, SMTT(60) DEF DistPublish, TypeOK
    <3>4. waiting' \in [Waiters -> BOOLEAN]
      BY <2>6 DEF DistPublish, TypeOK, PassedBy
    <3> QED
      BY <2>6, <3>2, <3>3, <3>4, SMTT(60) DEF DistPublish, TypeOK
  <2>7. CASE StartWaiting
    <3>1. waiting' \in [Waiters -> BOOLEAN]
      BY <2>7 DEF StartWaiting, FeedPause, RouterPause, DistPause, WorkerPause, Pause, TypeOK
    <3> QED
      BY <2>7, <3>1 DEF StartWaiting, TypeOK
  <2>8. CASE StopBegin
    BY <2>8, ZenonT(60) DEF StopBegin, StopUnchanged, TypeOK, StopSteps
  <2>9. CASE StopStep
    <3>1. /\ coreRunning' \in BOOLEAN /\ normRunning' \in BOOLEAN /\ pubRunning' \in BOOLEAN
          /\ recRunning' \in BOOLEAN /\ feedRunning' \in BOOLEAN /\ stopPc' \in StopSteps
      BY <2>9 DEF StopStep, FeedJoined, DistJoined, RecorderJoined, PublisherStopped,
                  NormalizerJoined, TypeOK, StopSteps
    <3>2. StopUnchanged
      BY <2>9 DEF StopStep, FeedJoined, DistJoined, RecorderJoined, PublisherStopped,
                  NormalizerJoined
    <3> QED
      BY <3>1, <3>2 DEF StopUnchanged, TypeOK
  <2> QED
    BY <1>12, <2>1, <2>2, <2>3, <2>4, <2>5, <2>6, <2>7, <2>8, <2>9, <2>10, <2>11, <2>12, <2>13
       DEF Aside
<1> QED
  BY <1>1, <1>2, <1>3, <1>4, <1>6, <1>7, <1>8, <1>9, <1>10, <1>11, <1>12, NextCases

-----------------------------------------------------------------------------
(* The other parts of the invariant.                                       *)

LEMMA HoldingStep ==
  ASSUME TypeOK, Holding, Next
  PROVE  Holding'
<1> USE DEF feedVars, normVars, distVars, recVars, ctrlVars
<1>1. ASSUME NEW t \in Symbols, FeedEmit(t) PROVE Holding'
  <2>1. feedPc' = "round" => feedTodo' >= 1
    BY <1>1 DEF FeedEmit, TypeOK, Holding
  <2>2. UNCHANGED <<routerPc, routerHold, workerPc, workerHold, distPc, distHold, recPc, recHold>>
    BY <1>1 DEF FeedEmit
  <2> QED
    BY <2>1, <2>2 DEF Holding
<1>2. CASE RouterTake
  <2>1. routerHold' # <<>> /\ routerPc' = "send"
    BY <1>2, BatchType DEF RouterTake, TypeOK
  <2>2. UNCHANGED <<feedPc, feedTodo, workerPc, workerHold, distPc, distHold, recPc, recHold>>
    BY <1>2 DEF RouterTake
  <2> QED
    BY <2>1, <2>2 DEF Holding
<1>3. CASE RouterSend
  <2>1. routerHold' = Tail(routerHold) /\ routerPc' = IF Len(routerHold) = 1 THEN "loop" ELSE "send"
    BY <1>3 DEF RouterSend
  <2>2. UNCHANGED <<feedPc, feedTodo, workerPc, workerHold, distPc, distHold, recPc, recHold>>
    BY <1>3 DEF RouterSend
  <2>3. Len(routerHold) = 1 <=> Tail(routerHold) = <<>>
    BY <1>3, FrontType DEF RouterSend, TypeOK, Holding
  <2> QED
    BY <2>1, <2>2, <2>3 DEF Holding
<1>4. ASSUME NEW w \in Workers, WorkerTake(w) PROVE Holding'
  <2>1. /\ workerHold' = [workerHold EXCEPT ![w] = BatchOf(part[w])]
        /\ workerPc' = [workerPc EXCEPT ![w] = "send"]
        /\ UNCHANGED <<feedPc, feedTodo, routerPc, routerHold, distPc, distHold, recPc, recHold>>
    BY <1>4 DEF WorkerTake
  <2>2. BatchOf(part[w]) # <<>>
    BY <1>4, BatchType DEF WorkerTake, TypeOK
  <2> QED
    BY <2>1, <2>2 DEF Holding, TypeOK
<1>5. ASSUME NEW w \in Workers, WorkerSend(w) \/ WorkerFail(w) PROVE Holding'
  <2>1. /\ workerPc[w] = "send" /\ workerHold' = [workerHold EXCEPT ![w] = Tail(@)]
        /\ workerPc' = [workerPc EXCEPT ![w] = IF Len(workerHold[w]) = 1 THEN "loop" ELSE "send"]
    BY <1>5 DEF WorkerSend, WorkerFail, WorkerAdvance
  <2>2. UNCHANGED <<feedPc, feedTodo, routerPc, routerHold, distPc, distHold, recPc, recHold>>
    BY <1>5 DEF WorkerSend, WorkerFail
  <2>3. Len(workerHold[w]) = 1 <=> Tail(workerHold[w]) = <<>>
    BY <2>1, FrontType DEF TypeOK, Holding
  <2>4. \A v \in Workers : workerPc'[v] = "send" <=> workerHold'[v] # <<>>
    BY <2>1, <2>3 DEF Holding, TypeOK
  <2> QED
    BY <2>2, <2>4 DEF Holding
<1>6. ASSUME NEW w \in Workers, DistTake(w) PROVE Holding'
  <2>1. distHold' = Append(distHold, Head(outQ[w])) /\ distPc' = "fill" /\ outQ[w] # <<>>
    BY <1>6 DEF DistTake
  <2>2. distHold' # <<>>
    BY <2>1, FrontType, AppendType DEF TypeOK
  <2>3. UNCHANGED <<feedPc, feedTodo, routerPc, routerHold, workerPc, workerHold, recPc, recHold>>
    BY <1>6 DEF DistTake
  <2> QED
    BY <2>1, <2>2, <2>3 DEF Holding
<1>7. CASE DistStore
  <2>1. /\ distPc = "store" /\ distHold' = Tail(distHold)
        /\ distPc' = IF Len(distHold) = 1 THEN "loop" ELSE "publish"
    BY <1>7 DEF DistStore
  <2>2. Len(distHold) = 1 <=> Tail(distHold) = <<>>
    BY <2>1, FrontType DEF TypeOK, Holding
  <2>3. UNCHANGED <<feedPc, feedTodo, routerPc, routerHold, workerPc, workerHold, recPc, recHold>>
    BY <1>7 DEF DistStore
  <2> QED
    BY <2>1, <2>2, <2>3 DEF Holding
<1>8. CASE RecTake
  <2>1. recHold' # <<>> /\ recPc' = "write"
    BY <1>8, BatchType DEF RecTake, TypeOK
  <2>2. UNCHANGED <<feedPc, feedTodo, routerPc, routerHold, workerPc, workerHold, distPc, distHold>>
    BY <1>8 DEF RecTake
  <2> QED
    BY <2>1, <2>2 DEF Holding
<1>9. CASE RecWrite
  <2>1. /\ recPc = "write" /\ recHold' = Tail(recHold)
        /\ recPc' = IF Len(recHold) = 1 THEN "loop" ELSE "write"
    BY <1>9 DEF RecWrite
  <2>2. Len(recHold) = 1 <=> Tail(recHold) = <<>>
    BY <2>1, FrontType DEF TypeOK, Holding
  <2>3. UNCHANGED <<feedPc, feedTodo, routerPc, routerHold, workerPc, workerHold, distPc, distHold>>
    BY <1>9 DEF RecWrite
  <2> QED
    BY <2>1, <2>2, <2>3 DEF Holding
<1>10. CASE Aside
  <2>0. UNCHANGED <<recHold, distHold, workerHold, routerHold>>
    BY <1>10, AsideMovesNothing
  <2>1. CASE FeedLoop
    <3>1. feedPc' = "round" => feedTodo' \in 1..Round
      BY <2>1 DEF FeedLoop
    <3>2. UNCHANGED <<routerPc, workerPc, distPc, recPc>>
      BY <2>1 DEF FeedLoop
    <3> QED
      BY <2>0, <3>1, <3>2, ConstantsAssumption DEF Holding
  <2>2. CASE FeedStart \/ FeedStop \/ ClientWrite
    BY <2>0, <2>2 DEF FeedStart, FeedStop, ClientWrite, Holding
  <2>3. CASE RouterExit
    BY <2>0, <2>3 DEF RouterExit, Holding
  <2>4. ASSUME NEW w \in Workers, WorkerExit(w) PROVE Holding'
    BY <2>0, <2>4 DEF WorkerExit, Holding, TypeOK
  <2>5. CASE DistTaken \/ DistExit
    BY <2>0, <2>5 DEF DistTaken, DistExit, Holding
  <2>6. CASE DistPublish
    <3>1. distPc = "publish" /\ distPc' = "store"
      BY <2>6 DEF DistPublish
    <3>2. UNCHANGED <<feedPc, feedTodo, routerPc, workerPc, recPc>>
      BY <2>6 DEF DistPublish
    <3> QED
      BY <2>0, <3>1, <3>2 DEF Holding
  <2>7. CASE RecExit
    BY <2>0, <2>7 DEF RecExit, Holding
  <2>8. CASE StartWaiting
    BY <2>0, <2>8 DEF StartWaiting, Holding
  <2>9. CASE StopBegin \/ StopStep
    <3>1. StopUnchanged
      BY <2>9 DEF StopBegin, StopStep, FeedJoined, DistJoined, RecorderJoined, PublisherStopped,
                  NormalizerJoined
    <3> QED
      BY <2>0, <3>1 DEF StopUnchanged, Holding
  <2> QED
    BY <1>10, <2>1, <2>2, <2>3, <2>4, <2>5, <2>6, <2>7, <2>8, <2>9 DEF Aside
<1> QED
  BY <1>1, <1>2, <1>3, <1>4, <1>5, <1>6, <1>7, <1>8, <1>9, <1>10, NextCases

(* A queue without events of s.                                            *)
LEMMA NothingOf ==
  ASSUME NEW q \in Seq(Event), q # <<>>, NEW s, Of(q, s) = {}
  PROVE  /\ Head(q) \in Event /\ Head(q)[1] # s /\ Of(Tail(q), s) = {}
         /\ Of(BatchOf(q), s) = {} /\ Of(Without(q, BatchOf(q)), s) = {}
<1>1. InOrder(q, s)
  <2>1. \A i \in 1..Len(q) : q[i][1] # s
    BY OfIs, ZenonT(60)
  <2> QED
    BY <2>1 DEF InOrder
<1>2. Head(q) \in Event /\ Mine(Head(q), s) \subseteq {} /\ Of(Tail(q), s) \subseteq {}
  BY <1>1, Popped
<1>3. /\ Of(BatchOf(q), s) \in SUBSET Of(q, s)
      /\ Of(Without(q, BatchOf(q)), s) = Of(q, s) \ Of(BatchOf(q), s)
  BY <1>1, TakenOver
<1> QED
  BY <1>2, <1>3 DEF Mine

LEMMA RoutedStep ==
  ASSUME TypeOK, Holding, Routed, Next
  PROVE  Routed'
<1> USE DEF feedVars, normVars, distVars, recVars, ctrlVars
<1> SUFFICES ASSUME NEW w \in Workers, NEW s \in Symbols, WorkerFor[s] # w
             PROVE  Of(part'[w], s) = {} /\ Of(workerHold'[w], s) = {} /\ Of(outQ'[w], s) = {}
  BY DEF Routed
<1> DEFINE Goal == Of(part'[w], s) = {} /\ Of(workerHold'[w], s) = {} /\ Of(outQ'[w], s) = {}
<1>0. /\ Of(part[w], s) = {} /\ Of(workerHold[w], s) = {} /\ Of(outQ[w], s) = {}
      /\ part \in [Workers -> Seq(Event)] /\ workerHold \in [Workers -> Seq(Event)]
      /\ outQ \in [Workers -> Seq(Event)]
  BY DEF Routed, TypeOK
<1>1. CASE UNCHANGED <<part, workerHold, outQ>>
  BY <1>0, <1>1
<1>2. CASE RouterSend
  <2>1. PICK e : e = Head(routerHold) /\ e \in Event
    BY <1>2, FrontType DEF RouterSend, TypeOK, Holding
  <2>2. /\ part' = [part EXCEPT ![WorkerFor[e[1]]] = Append(@, e)]
        /\ UNCHANGED <<workerHold, outQ>>
    BY <1>2, <2>1 DEF RouterSend
  <2>3. CASE WorkerFor[e[1]] = w
    <3>1. part'[w] = Append(part[w], e) /\ e[1] # s
      BY <1>0, <2>2, <2>3
    <3>2. Of(Append(part[w], e), s) = Of(part[w], s) \cup Mine(e, s)
      BY <1>0, <2>1, Appended, ZenonT(60)
    <3> QED
      BY <1>0, <2>2, <3>1, <3>2 DEF Mine
  <2>4. CASE WorkerFor[e[1]] # w
    BY <1>0, <2>2, <2>4
  <2> QED
    BY <2>3, <2>4
<1>3. ASSUME NEW v \in Workers, WorkerTake(v) PROVE Goal
  <2>1. /\ part[v] # <<>> /\ workerHold' = [workerHold EXCEPT ![v] = BatchOf(part[v])]
        /\ part' = [part EXCEPT ![v] = Without(part[v], BatchOf(part[v]))] /\ outQ' = outQ
    BY <1>3 DEF WorkerTake
  <2>2. CASE v = w
    <3>1. Of(BatchOf(part[w]), s) = {} /\ Of(Without(part[w], BatchOf(part[w])), s) = {}
      BY <1>0, <2>1, <2>2, NothingOf
    <3> QED
      BY <1>0, <2>1, <2>2, <3>1
  <2>3. CASE v # w
    BY <1>0, <2>1, <2>3
  <2> QED
    BY <2>2, <2>3
<1>4. ASSUME NEW v \in Workers, WorkerAdvance(v)
      PROVE  /\ Of(workerHold'[w], s) = {}
             /\ v = w => Head(workerHold[v]) \in Event /\ Head(workerHold[v])[1] # s
  <2>1. workerHold[v] # <<>> /\ workerHold' = [workerHold EXCEPT ![v] = Tail(workerHold[v])]
    BY <1>4 DEF WorkerAdvance, Holding
  <2>2. CASE v = w
    <3>1. /\ Of(Tail(workerHold[w]), s) = {} /\ Head(workerHold[w]) \in Event
          /\ Head(workerHold[w])[1] # s
      BY <1>0, <2>1, <2>2, NothingOf
    <3> QED
      BY <1>0, <2>1, <2>2, <3>1
  <2>3. CASE v # w
    BY <1>0, <2>1, <2>3
  <2> QED
    BY <2>2, <2>3
<1>5. ASSUME NEW v \in Workers, WorkerSend(v) PROVE Goal
  <2>1. /\ WorkerAdvance(v) /\ part' = part
        /\ outQ' = [outQ EXCEPT ![v] = Append(outQ[v], Head(workerHold[v]))]
    BY <1>5 DEF WorkerSend
  <2>2. CASE v = w
    <3>1. PICK e : e = Head(workerHold[v]) /\ e \in Event /\ e[1] # s
      BY <1>4, <2>1, <2>2
    <3>2. Of(Append(outQ[w], e), s) = Of(outQ[w], s) \cup Mine(e, s)
      BY <1>0, <3>1, Appended
    <3>3. outQ'[w] = Append(outQ[w], e)
      BY <1>0, <2>1, <2>2, <3>1
    <3> QED
      BY <1>0, <1>4, <2>1, <3>1, <3>2, <3>3 DEF Mine
  <2>3. CASE v # w
    BY <1>0, <1>4, <2>1, <2>3
  <2> QED
    BY <2>2, <2>3
<1>6. ASSUME NEW v \in Workers, WorkerFail(v) PROVE Goal
  <2>1. WorkerAdvance(v) /\ UNCHANGED <<part, outQ>>
    BY <1>6 DEF WorkerFail
  <2> QED
    BY <1>0, <1>4, <2>1
<1>7. ASSUME NEW v \in Workers, DistTake(v) PROVE Goal
  <2>1. outQ[v] # <<>> /\ outQ' = [outQ EXCEPT ![v] = Tail(outQ[v])] /\ UNCHANGED <<part, workerHold>>
    BY <1>7 DEF DistTake
  <2>2. CASE v = w
    <3>1. Of(Tail(outQ[w]), s) = {}
      BY <1>0, <2>1, <2>2, NothingOf
    <3> QED
      BY <1>0, <2>1, <2>2, <3>1
  <2>3. CASE v # w
    BY <1>0, <2>1, <2>3
  <2> QED
    BY <2>2, <2>3
<1>8. ASSUME NEW t \in Symbols, FeedEmit(t) PROVE Goal
  BY <1>1, <1>8 DEF FeedEmit
<1>9. CASE RouterTake \/ DistStore
  BY <1>1, <1>9 DEF RouterTake, DistStore
<1>10. CASE RecTake \/ RecWrite
  BY <1>1, <1>10 DEF RecTake, RecWrite
<1>11. CASE Aside
  BY <1>1, <1>11, AsideMovesNothing
<1> QED
  BY <1>2, <1>3, <1>5, <1>6, <1>7, <1>8, <1>9, <1>10, <1>11, NextCases

LEMMA StoppedInOrderStep ==
  ASSUME TypeOK, StoppedInOrder, Next
  PROVE  StoppedInOrder'
<1> USE DEF feedVars, normVars, distVars, recVars, ctrlVars
<1>1. CASE UNCHANGED <<pubRunning, stopPc, distPc>>
  BY <1>1 DEF StoppedInOrder
<1>2. CASE UNCHANGED <<pubRunning, stopPc>> /\ distPc # "done"
  BY <1>2 DEF StoppedInOrder
<1>3. ASSUME NEW t \in Symbols, FeedEmit(t) PROVE StoppedInOrder'
  BY <1>1, <1>3 DEF FeedEmit
<1>4. CASE RouterTake \/ RouterSend
  BY <1>1, <1>4 DEF RouterTake, RouterSend
<1>5. ASSUME NEW w \in Workers, WorkerTake(w) \/ WorkerSend(w) \/ WorkerFail(w)
      PROVE  StoppedInOrder'
  BY <1>1, <1>5 DEF WorkerTake, WorkerSend, WorkerFail
<1>6. ASSUME NEW w \in Workers, DistTake(w) PROVE StoppedInOrder'
  BY <1>2, <1>6 DEF DistTake
<1>7. CASE DistStore
  BY <1>2, <1>7 DEF DistStore
<1>8. CASE RecTake \/ RecWrite
  BY <1>1, <1>8 DEF RecTake, RecWrite
<1>9. CASE Aside
  <2>1. CASE FeedLoop \/ FeedStart \/ FeedStop \/ ClientWrite
    BY <1>1, <2>1 DEF FeedLoop, FeedStart, FeedStop, ClientWrite
  <2>2. CASE RouterExit \/ RecExit \/ \E w \in Workers : WorkerExit(w)
    BY <1>1, <2>2 DEF RouterExit, RecExit, WorkerExit
  <2>3. CASE DistTaken \/ DistPublish \/ DistExit
    BY <1>2, <2>3 DEF DistTaken, DistPublish, DistExit
  <2>4. CASE StartWaiting
    BY <1>1, <2>4 DEF StartWaiting
  <2>5. CASE StopBegin \/ FeedJoined
    BY <2>5 DEF StopBegin, FeedJoined, StopUnchanged, StoppedInOrder
  <2>6. CASE DistJoined \/ RecorderJoined
    BY <2>6 DEF DistJoined, RecorderJoined, StopUnchanged, StoppedInOrder
  <2>7. CASE PublisherStopped \/ NormalizerJoined
    BY <2>7 DEF PublisherStopped, NormalizerJoined, StopUnchanged, StoppedInOrder
  <2> QED
    BY <1>9, <2>1, <2>2, <2>3, <2>4, <2>5, <2>6, <2>7 DEF Aside, StopStep
<1> QED
  BY <1>3, <1>4, <1>5, <1>6, <1>7, <1>8, <1>9, NextCases

LEMMA DroppedStep ==
  ASSUME IInv, Next
  PROVE  DroppedWereNumbered'
<1> USE DEF feedVars, normVars, distVars, recVars, ctrlVars
<1> SUFFICES ASSUME NEW s \in Symbols, NEW n \in dropped'[s] PROVE n < nextSeq'[s]
  BY DEF DroppedWereNumbered
<1>0. /\ \A m \in dropped[s] : m < nextSeq[s]
      /\ nextSeq \in [Symbols -> 0..MaxSeq] /\ dropped \in [Symbols -> SUBSET (0..MaxSeq)]
  BY DEF IInv, DroppedWereNumbered, TypeOK
<1>1. CASE UNCHANGED <<dropped, nextSeq>>
  BY <1>0, <1>1
<1>2. ASSUME NEW t \in Symbols, FeedEmit(t) PROVE n < nextSeq'[s]
  <2>1. dropped' = dropped /\ nextSeq' = [nextSeq EXCEPT ![t] = @ + 1]
    BY <1>2 DEF FeedEmit
  <2>2. nextSeq'[s] = nextSeq[s] \/ nextSeq'[s] = nextSeq[s] + 1
    BY <1>0, <2>1
  <2>3. n < nextSeq[s] /\ n \in 0..MaxSeq /\ nextSeq[s] \in 0..MaxSeq
    BY <1>0, <2>1
  <2> QED
    BY <2>2, <2>3
<1>3. ASSUME NEW w \in Workers, WorkerFail(w) PROVE n < nextSeq'[s]
  <2>1. PICK e : e = Head(workerHold[w])
    OBVIOUS
  <2>2. /\ dropped' = [dropped EXCEPT ![e[1]] = @ \cup {e[2]}] /\ nextSeq' = nextSeq
    BY <1>3, <2>1 DEF WorkerFail
  <2>3. e \in Event /\ Mine(e, s) \subseteq InFlight(s)
    BY <1>3, <2>1, WorkerFailStream
  <2>4. Recorded(s)
    BY StreamIs DEF IInv, StreamIntact
  <2>5. \A m \in InFlight(s) : m < nextSeq[s]
    BY <1>0, <2>4 DEF Recorded
  <2>6. dropped'[s] \subseteq dropped[s] \cup Mine(e, s)
    BY <1>0, <2>2, <2>3, EventIs DEF Mine
  <2> QED
    BY <1>0, <2>2, <2>3, <2>5, <2>6
<1>4. CASE RouterTake \/ RouterSend
  BY <1>1, <1>4 DEF RouterTake, RouterSend
<1>5. ASSUME NEW w \in Workers, WorkerTake(w) \/ WorkerSend(w) \/ DistTake(w)
      PROVE  n < nextSeq'[s]
  BY <1>1, <1>5 DEF WorkerTake, WorkerSend, DistTake
<1>6. CASE DistStore \/ RecTake \/ RecWrite
  BY <1>1, <1>6 DEF DistStore, RecTake, RecWrite
<1>7. CASE Aside
  BY <1>1, <1>7, AsideMovesNothing
<1> QED
  BY <1>2, <1>3, <1>4, <1>5, <1>6, <1>7, NextCases

(* RecorderFollowsPublisher, symbol by symbol.                             *)
Follows(s) == Increasing(published[s]) /\ Range(published[s]) = Stored(s) \cup InHand(s)

LEMMA FollowsStays ==
  ASSUME NEW s \in Symbols, Follows(s), UNCHANGED published,
         Stored(s)' \cup InHand(s)' = Stored(s) \cup InHand(s)
  PROVE  Follows(s)'
  BY DEF Follows

LEMMA FollowsStep ==
  ASSUME IInv, Next, NEW s \in Symbols
  PROVE  Follows(s)'
<1> USE DEF feedVars, normVars, distVars, recVars, ctrlVars
<1>0. /\ TypeOK /\ Holding /\ StreamOf(s) /\ Follows(s)
      /\ InOrder(recHold, s) /\ InOrder(recQ, s) /\ InOrder(distHold, s)
  BY StreamIs DEF IInv, StreamIntact, RecorderFollowsPublisher, Follows, AllInOrder
<1>1. CASE UNCHANGED <<published, recorded, recHold, recQ, distPc, distHold>>
  <2>1. Stored(s)' = Stored(s) /\ InHand(s)' = InHand(s)
    BY <1>1 DEF Stored, InHand
  <2> QED
    BY <1>0, <1>1, <2>1, FollowsStays
<1>2. CASE UNCHANGED <<published, recorded, recHold, recQ>> /\ distPc # "store" /\ distPc' # "store"
  <2>1. Stored(s)' = Stored(s) /\ InHand(s)' = {} /\ InHand(s) = {}
    BY <1>2 DEF Stored, InHand
  <2> QED
    BY <1>0, <1>2, <2>1, FollowsStays
<1>3. ASSUME NEW t \in Symbols, FeedEmit(t) PROVE Follows(s)'
  BY <1>1, <1>3 DEF FeedEmit
<1>4. CASE RouterTake \/ RouterSend
  BY <1>1, <1>4 DEF RouterTake, RouterSend
<1>5. ASSUME NEW w \in Workers, WorkerTake(w) \/ WorkerSend(w) \/ WorkerFail(w)
      PROVE  Follows(s)'
  BY <1>1, <1>5 DEF WorkerTake, WorkerSend, WorkerFail
<1>6. ASSUME NEW w \in Workers, DistTake(w) PROVE Follows(s)'
  BY <1>2, <1>6 DEF DistTake
<1>7. CASE DistStore
  <2>1. PICK e : e = Head(distHold)
    OBVIOUS
  <2>2. /\ distPc = "store" /\ distPc' # "store" /\ recQ' = Append(recQ, e)
        /\ UNCHANGED <<published, recorded, recHold>>
    BY <1>7, <2>1 DEF DistStore
  <2>3. e \in Event /\ recQ \in Seq(Event)
    BY <1>0, <2>1, <2>2, FrontType DEF Holding, TypeOK
  <2>4. Of(recQ', s) = Of(recQ, s) \cup Mine(e, s)
    BY <2>2, <2>3, Appended
  <2>5. InHand(s) = Mine(e, s) /\ InHand(s)' = {}
    BY <2>1, <2>2, <2>3, OfOne DEF InHand
  <2>6. Stored(s)' = Stored(s) \cup Mine(e, s)
    BY <2>2, <2>4 DEF Stored
  <2>7. Stored(s)' \cup InHand(s)' = Stored(s) \cup InHand(s)
    BY <2>5, <2>6
  <2> QED
    BY <1>0, <2>2, <2>7, FollowsStays
<1>8. CASE RecTake
  <2>1. /\ recHold = <<>> /\ recQ \in Seq(Event) /\ recQ # <<>>
        /\ recHold' = BatchOf(recQ) /\ recQ' = Without(recQ, BatchOf(recQ))
        /\ UNCHANGED <<published, recorded, distPc, distHold>>
    BY <1>0, <1>8 DEF RecTake, Holding, TypeOK
  <2>2. /\ Of(recHold', s) \in SUBSET Of(recQ, s)
        /\ Of(recQ', s) = Of(recQ, s) \ Of(recHold', s) /\ Of(recHold, s) = {}
    BY <1>0, <2>1, TakenOver, OfEmpty
  <2>3. Stored(s)' = Stored(s) /\ InHand(s)' = InHand(s)
    BY <2>1, <2>2 DEF Stored, InHand
  <2> QED
    BY <1>0, <2>1, <2>3, FollowsStays
<1>9. CASE RecWrite
  <2>1. PICK e : e = Head(recHold)
    OBVIOUS
  <2>2. /\ recHold # <<>> /\ recHold \in Seq(Event) /\ recHold' = Tail(recHold)
        /\ UNCHANGED <<published, recQ, distPc, distHold>>
    BY <1>0, <1>9 DEF RecWrite, Holding, TypeOK
  <2>3. Of(recHold', s) = Of(recHold, s) \ Mine(e, s) /\ Mine(e, s) \subseteq Of(recHold, s)
    BY <1>0, <2>1, <2>2, Popped
  <2>4. Range(recorded'[s]) = Range(recorded[s]) \cup Mine(e, s)
    BY <1>9, <2>1, RecWriteStream
  <2>5. Stored(s)' = Stored(s) /\ InHand(s)' = InHand(s)
    BY <2>2, <2>3, <2>4 DEF Stored, InHand
  <2> QED
    BY <1>0, <2>2, <2>5, FollowsStays
<1>10. CASE DistPublish
  <2>1. PICK e : e = Head(distHold)
    OBVIOUS
  <2>2. distPc = "publish" /\ distPc' = "store" /\ UNCHANGED <<recorded, recHold, recQ, distHold>>
    BY <1>10 DEF DistPublish
  <2>3. /\ distHold # <<>> /\ distHold \in Seq(Event) /\ e \in Event
        /\ e[1] \in Symbols /\ e[2] \in 0..MaxSeq
    BY <1>0, <2>1, <2>2, FrontType DEF Holding, TypeOK
  <2>4. pubRunning
    BY <2>2 DEF IInv, StoppedInOrder
  <2>5. published' = [published EXCEPT ![e[1]] = Append(@, e[2])]
    BY <1>10, <2>1, <2>4 DEF DistPublish
  <2>6. Stored(s)' = Stored(s) /\ InHand(s) = {} /\ InHand(s)' = Mine(e, s)
    BY <2>1, <2>2, <2>3, OfOne DEF Stored, InHand
  <2>7. Increasing(published[s]) /\ Range(published[s]) = Stored(s)
    BY <1>0, <2>6 DEF Follows
  <2>8. CASE e[1] = s
    <3>1. published'[s] = Append(published[s], e[2]) /\ published[s] \in Seq(0..MaxSeq)
      BY <1>0, <2>3, <2>5, <2>8 DEF TypeOK
    <3>2. Mine(e, s) = {e[2]} /\ e[2] \in Of(distHold, s)
      BY <1>0, <2>1, <2>3, <2>8, Popped DEF Mine
    <3>3. /\ Precede(Range(recorded[s]), InFlight(s)) /\ Of(distHold, s) \subseteq InFlight(s)
          /\ Chain(Numbers(s))
      BY <1>0, StreamIs DEF Recorded, InFlight
    <3>4. /\ Precede(Of(recHold, s), Of(distHold, s)) /\ Precede(Of(recQ, s), Of(distHold, s))
      <4>1. 1 \in Stages /\ 2 \in Stages /\ 3 \in Stages /\ 1 < 3 /\ 2 < 3
        BY DEF Stages
      <4>2. Precede(Numbers(s)[1], Numbers(s)[3]) /\ Precede(Numbers(s)[2], Numbers(s)[3])
        BY <3>3, <4>1 DEF Chain
      <4> QED
        BY <4>2, NumbersAre
    <3>5. Precede(Stored(s), {e[2]})
      BY <3>2, <3>3, <3>4 DEF Precede, Stored
    <3>6. Increasing(published'[s]) /\ Range(published'[s]) = Range(published[s]) \cup {e[2]}
      BY <2>3, <2>7, <3>1, <3>5, IncreasingAppend
    <3> QED
      BY <2>6, <2>7, <3>2, <3>6 DEF Follows
  <2>9. CASE e[1] # s
    <3>1. published'[s] = published[s] /\ Mine(e, s) = {}
      BY <1>0, <2>5, <2>9 DEF TypeOK, Mine
    <3> QED
      BY <2>6, <2>7, <3>1 DEF Follows
  <2> QED
    BY <2>8, <2>9
<1>11. CASE Aside /\ ~DistPublish
  <2>1. CASE FeedLoop \/ FeedStart \/ FeedStop \/ ClientWrite
    BY <1>1, <2>1 DEF FeedLoop, FeedStart, FeedStop, ClientWrite
  <2>2. CASE RouterExit \/ RecExit \/ \E w \in Workers : WorkerExit(w)
    BY <1>1, <2>2 DEF RouterExit, RecExit, WorkerExit
  <2>3. CASE DistTaken \/ DistExit
    BY <1>2, <2>3 DEF DistTaken, DistExit
  <2>4. CASE StartWaiting
    BY <1>1, <2>4 DEF StartWaiting
  <2>5. CASE StopBegin \/ StopStep
    <3>1. StopUnchanged
      BY <2>5 DEF StopBegin, StopStep, FeedJoined, DistJoined, RecorderJoined, PublisherStopped,
                  NormalizerJoined
    <3> QED
      BY <1>1, <3>1 DEF StopUnchanged
  <2> QED
    BY <1>11, <2>1, <2>2, <2>3, <2>4, <2>5 DEF Aside
<1> QED
  BY <1>3, <1>4, <1>5, <1>6, <1>7, <1>8, <1>9, <1>10, <1>11, NextCases

-----------------------------------------------------------------------------
(* The invariant.                                                          *)

LEMMA InitIInv == Init => IInv
<1> SUFFICES ASSUME Init PROVE IInv
  OBVIOUS
<1> USE DEF Init
<1>0. /\ recHold = <<>> /\ recQ = <<>> /\ distHold = <<>> /\ routerHold = <<>> /\ feedQ = <<>>
      /\ \A w \in Workers : outQ[w] = <<>> /\ workerHold[w] = <<>> /\ part[w] = <<>>
      /\ \A s \in Symbols : WorkerFor[s] \in Workers
  BY ConstantsAssumption
<1>1. TypeOK
  <2>1. /\ feedPc \in {"done", "loop", "round"} /\ feedTodo \in 0..Round
        /\ nextSeq \in [Symbols -> 0..MaxSeq] /\ clientDepth \in Nat
    BY ConstantsAssumption
  <2>2. /\ feedQ \in Seq(Event) /\ routerHold \in Seq(Event) /\ distHold \in Seq(Event)
        /\ recQ \in Seq(Event) /\ recHold \in Seq(Event)
        /\ part \in [Workers -> Seq(Event)] /\ workerHold \in [Workers -> Seq(Event)]
        /\ outQ \in [Workers -> Seq(Event)]
        /\ published \in [Symbols -> Seq(0..MaxSeq)] /\ recorded \in [Symbols -> Seq(0..MaxSeq)]
    OBVIOUS
  <2>3. /\ workerPc \in [Workers -> {"loop", "send", "done"}]
        /\ dropped \in [Symbols -> SUBSET (0..MaxSeq)] /\ waiting \in [Waiters -> BOOLEAN]
    OBVIOUS
  <2>4. feedStarts \in 0..MaxFeedStarts
    BY ConstantsAssumption
  <2> QED
    BY <2>1, <2>2, <2>3, <2>4 DEF TypeOK, StopSteps
<1>2. Holding
  BY DEF Holding
<1>3. Routed
  BY <1>0, OfEmpty DEF Routed
<1>4. StoppedInOrder /\ DroppedWereNumbered
  BY DEF StoppedInOrder, DroppedWereNumbered
<1>5. ASSUME NEW s \in Symbols
      PROVE  /\ InFlight(s) = {} /\ Range(recorded[s]) = {} /\ Increasing(recorded[s])
             /\ Range(published[s]) = {} /\ Increasing(published[s])
             /\ Stored(s) = {} /\ InHand(s) = {}
  <2>1. InFlight(s) = {}
    BY <1>0, OfEmpty DEF InFlight
  <2>2. Range(<<>>) = {} /\ Increasing(<<>>)
    BY DEF Range, Increasing
  <2>3. recorded[s] = <<>> /\ published[s] = <<>>
    OBVIOUS
  <2>4. Stored(s) = {} /\ InHand(s) = {}
    BY <1>0, <2>2, <2>3, OfEmpty DEF Stored, InHand
  <2> QED
    BY <2>1, <2>2, <2>3, <2>4
<1>6. StreamIntact
  <2> SUFFICES ASSUME NEW s \in Symbols PROVE StreamOf(s)
    BY DEF StreamIntact
  <2>1. AllInOrder(s)
    BY <1>0, OfEmpty DEF AllInOrder
  <2>2. \A p \in Stages : Numbers(s)[p] = {}
    BY <1>0, NumbersAre, StagesAre, OfEmpty
  <2>3. Chain(Numbers(s))
    BY <2>2 DEF Chain, Precede
  <2>4. Recorded(s)
    <3>1. nextSeq[s] = 0 /\ dropped[s] = {}
      OBVIOUS
    <3> QED
      BY <1>5, <3>1 DEF Recorded, Precede
  <2> QED
    BY <2>1, <2>3, <2>4, StreamIs
<1>7. RecorderFollowsPublisher
  BY <1>5 DEF RecorderFollowsPublisher
<1> QED
  BY <1>1, <1>2, <1>3, <1>4, <1>6, <1>7 DEF IInv

LEMMA NextIInv == IInv /\ [Next]_vars => IInv'
<1>1. ASSUME IInv, Next PROVE IInv'
  <2>1. TypeOK' /\ Holding' /\ Routed' /\ StoppedInOrder'
    BY <1>1, TypeStep, HoldingStep, RoutedStep, StoppedInOrderStep DEF IInv
  <2>2. DroppedWereNumbered' /\ StreamIntact'
    BY <1>1, DroppedStep, StreamStep
  <2>3. RecorderFollowsPublisher'
    BY <1>1, FollowsStep DEF RecorderFollowsPublisher, Follows
  <2> QED
    BY <2>1, <2>2, <2>3 DEF IInv
<1>2. ASSUME IInv, UNCHANGED vars PROVE IInv'
  <2> USE <1>2 DEF IInv, vars, feedVars, normVars, distVars, recVars, ctrlVars
  <2>1. TypeOK'
    BY DEF TypeOK
  <2>2. Holding' /\ Routed' /\ StoppedInOrder' /\ DroppedWereNumbered'
    BY DEF Holding, Routed, StoppedInOrder, DroppedWereNumbered
  <2>3. StreamIntact'
    BY QueuesStay DEF StreamIntact
  <2>4. RecorderFollowsPublisher'
    BY DEF RecorderFollowsPublisher, Stored, InHand
  <2> QED
    BY <2>1, <2>2, <2>3, <2>4
<1> QED
  BY <1>1, <1>2

LEMMA Inductive == Spec => []IInv
  BY InitIInv, NextIInv, PTL DEF Spec

-----------------------------------------------------------------------------
(* Every variable keeps its type.  In particular no thread takes the head  *)
(* of an empty batch, and no round of the feed emits more than it set out  *)
(* to.                                                                     *)
THEOREM TypeCorrect == Spec => []TypeOK
<1>1. IInv => TypeOK
  BY DEF IInv
<1> QED
  BY <1>1, Inductive, PTL

(* For any number of symbols and workers, any batch size and watermarks,   *)
(* and stopped at any point: the queues and batches from the feed to the   *)
(* MDF file hold the events of each symbol in order and exactly once,      *)
(* without those normalize_event threw on.                                 *)
THEOREM StreamsIntact == Spec => []StreamIntact
<1>1. IInv => StreamIntact
  BY DEF IInv
<1> QED
  BY <1>1, Inductive, PTL

(* PubServer::publish has been offered, in order, what the distribution    *)
(* thread has handed to the recorder, and at most the frame in its hand    *)
(* besides; stopping the publisher cannot come between the two.            *)
THEOREM RecorderFollows == Spec => []RecorderFollowsPublisher
<1>1. IInv => RecorderFollowsPublisher
  BY DEF IInv
<1> QED
  BY <1>1, Inductive, PTL

-----------------------------------------------------------------------------
(* The refinement.                                                         *)

LEMMA InitRefines == Init => Stream!Init
<1> SUFFICES ASSUME Init PROVE Stream!Init
  OBVIOUS
<1>1. \A s \in Symbols : WorkerFor[s] \in Workers
  BY ConstantsAssumption
<1>2. \A s \in Symbols : InFlight(s) = {}
  BY <1>1, OfEmpty DEF Init, InFlight
<1>3. [s \in Symbols |-> InFlight(s)] = [s \in Symbols |-> {}]
  BY <1>2
<1> QED
  BY <1>3 DEF Init, Stream!Init

(* Steps that neither number, drop nor write an event are invisible.       *)
LEMMA Invisible ==
  ASSUME UNCHANGED <<recorded, nextSeq>>, \A s \in Symbols : InFlight(s)' = InFlight(s)
  PROVE  UNCHANGED Stream!vars
<1>1. [s \in Symbols |-> InFlight(s)]' = [s \in Symbols |-> InFlight(s)]
  OBVIOUS
<1> QED
  BY <1>1 DEF Stream!vars

LEMMA NextRefines == IInv /\ [Next]_vars => [Stream!Next]_(Stream!vars)
<1> USE DEF feedVars, normVars, distVars, recVars, ctrlVars
<1> DEFINE flight == [s \in Symbols |-> InFlight(s)]
<1>1. ASSUME IInv, NEW t \in Symbols, FeedEmit(t) PROVE Stream!Produce(t)
  <2>1. nextSeq' = [nextSeq EXCEPT ![t] = @ + 1] /\ recorded' = recorded
    BY <1>1 DEF FeedEmit
  <2>2. \A s \in Symbols :
           InFlight(s)' = IF s = t THEN InFlight(s) \cup {nextSeq[s]} ELSE InFlight(s)
    BY <1>1, FeedEmitStream
  <2>3. flight' = [flight EXCEPT ![t] = @ \cup {nextSeq[t]}]
    BY <2>2
  <2> QED
    BY <2>1, <2>3 DEF Stream!Produce
<1>2. ASSUME IInv, RecWrite PROVE \E t \in Symbols : Stream!Deliver(t)
  <2>1. PICK e : e = Head(recHold)
    OBVIOUS
  <2>2. \A s \in Symbols : /\ e \in Event
                           /\ InFlight(s)' = InFlight(s) \ Mine(e, s)
                           /\ Mine(e, s) \subseteq InFlight(s)
                           /\ \A n \in Mine(e, s), m \in InFlight(s) : n <= m
    BY <1>2, <2>1, RecWriteStream
  <2>3. /\ recHold \in Seq(Event) /\ recHold # <<>> /\ nextSeq' = nextSeq
        /\ recorded' = [recorded EXCEPT ![e[1]] = Append(@, e[2])]
    BY <1>2, <2>1 DEF RecWrite, IInv, TypeOK, Holding
  <2>4. e[1] \in Symbols
    BY <2>1, <2>3, FrontType
  <2>5. PICK t \in Symbols : t = e[1]
    BY <2>4
  <2>n. PICK n : n = e[2]
    OBVIOUS
  <2>6. Mine(e, t) = {n} /\ \A s \in Symbols : s # t => Mine(e, s) = {}
    BY <2>5, <2>n DEF Mine
  <2>7. n \in flight[t] /\ \A m \in flight[t] : n <= m
    BY <2>2, <2>6
  <2>8. flight' = [flight EXCEPT ![t] = @ \ {n}]
    <3>1. \A s \in Symbols : InFlight(s)' = IF s = t THEN InFlight(s) \ {n} ELSE InFlight(s)
      BY <2>2, <2>6
    <3> QED
      BY <3>1
  <2>9. recorded' = [recorded EXCEPT ![t] = Append(@, n)]
    BY <2>3, <2>5, <2>n
  <2>10. Stream!Deliver(t)
    BY <2>3, <2>7, <2>8, <2>9 DEF Stream!Deliver
  <2> QED
    BY <2>10
<1>3. ASSUME IInv, NEW w \in Workers, WorkerFail(w) PROVE \E t \in Symbols : Stream!Drop(t)
  <2>1. PICK e : e = Head(workerHold[w])
    OBVIOUS
  <2>2. \A s \in Symbols : InFlight(s)' = InFlight(s) \ Mine(e, s) /\ Mine(e, s) \subseteq InFlight(s)
    BY <1>3, <2>1, WorkerFailStream
  <2>3. /\ workerHold[w] \in Seq(Event) /\ workerHold[w] # <<>> /\ UNCHANGED <<nextSeq, recorded>>
    BY <1>3 DEF WorkerFail, WorkerAdvance, IInv, TypeOK, Holding
  <2>4. e[1] \in Symbols
    BY <2>1, <2>3, FrontType
  <2>5. PICK t \in Symbols : t = e[1]
    BY <2>4
  <2>n. PICK n : n = e[2]
    OBVIOUS
  <2>6. Mine(e, t) = {n} /\ \A s \in Symbols : s # t => Mine(e, s) = {}
    BY <2>5, <2>n DEF Mine
  <2>7. n \in flight[t]
    BY <2>2, <2>6
  <2>8. flight' = [flight EXCEPT ![t] = @ \ {n}]
    <3>1. \A s \in Symbols : InFlight(s)' = IF s = t THEN InFlight(s) \ {n} ELSE InFlight(s)
      BY <2>2, <2>6
    <3> QED
      BY <3>1
  <2>9. Stream!Drop(t)
    BY <2>3, <2>7, <2>8 DEF Stream!Drop
  <2> QED
    BY <2>9
<1>4. ASSUME IInv, RouterTake \/ RouterSend PROVE UNCHANGED Stream!vars
  <2>1. UNCHANGED <<recorded, nextSeq>>
    BY <1>4 DEF RouterTake, RouterSend
  <2> QED
    BY <1>4, <2>1, RouterTakeStream, RouterSendStream, Invisible
<1>5. ASSUME IInv, NEW w \in Workers, WorkerTake(w) \/ WorkerSend(w) \/ DistTake(w)
      PROVE  UNCHANGED Stream!vars
  <2>1. UNCHANGED <<recorded, nextSeq>>
    BY <1>5 DEF WorkerTake, WorkerSend, DistTake
  <2> QED
    BY <1>5, <2>1, WorkerTakeStream, WorkerSendStream, DistTakeStream, Invisible
<1>6. ASSUME IInv, DistStore \/ RecTake PROVE UNCHANGED Stream!vars
  <2>1. UNCHANGED <<recorded, nextSeq>>
    BY <1>6 DEF DistStore, RecTake
  <2> QED
    BY <1>6, <2>1, DistStoreStream, RecTakeStream, Invisible
<1>7. ASSUME IInv, Aside \/ UNCHANGED vars PROVE UNCHANGED Stream!vars
  <2>1. UNCHANGED <<recHold, recQ, distHold, outQ, workerHold, part, routerHold, feedQ,
                    recorded, nextSeq, dropped>>
    BY <1>7, AsideMovesNothing DEF vars
  <2>2. \A s \in Symbols : InFlight(s)' = InFlight(s)
    BY <1>7, <2>1, QueuesStay DEF IInv, StreamIntact
  <2> QED
    BY <2>1, <2>2, Invisible
<1> HIDE DEF flight
<1> QED
  BY <1>1, <1>2, <1>3, <1>4, <1>5, <1>6, <1>7, NextCases DEF Stream!Next

(* What MarketDataCore does to the events of the feed is what SymbolStream *)
(* promises: the recording thread writes the events of a symbol in the     *)
(* order MockFeed numbered them, each once, and every one that             *)
(* normalisation did not give up on before it writes a later one.          *)
THEOREM Refinement == Spec => ImplementsStream
  BY InitRefines, NextRefines, Inductive, PTL DEF Spec, ImplementsStream, Stream!Spec

=============================================================================
