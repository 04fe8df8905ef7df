------------------------- MODULE BackpressureProofs -------------------------
(***************************************************************************)
(* What Backpressure guarantees for every number of controllers and        *)
(* producers and every pair of configured watermarks.                      *)
(***************************************************************************)
EXTENDS Backpressure, FiniteSetTheorems, TLAPS

(* The clamping in the constructor of QueueBackpressureController: for any *)
(* configuration the limits in force satisfy 0 <= low < high.              *)
LEMMA WatermarksOrdered == high \in Nat /\ low \in Nat /\ low < high
  BY ConstantsAssumption DEF high, low

(* The remainder of a natural number modulo the word size fits the word.   *)
LEMMA WordRange ==
  ASSUME NEW n \in Nat
  PROVE  n % WordSize \in 0..(WordSize - 1)
  BY ConstantsAssumption

(* A producer inside a batch has an item left to enqueue: without it the   *)
(* type of todo is not inductive.                                          *)
WorkLeft ==
  \A p \in Producers : pc[p] \notin {"done", "loop"} => todo[p] > 0

TypeInv == TypeOK /\ WorkLeft

(* A step of a producer's thread preserves the type invariant.             *)
LEMMA ProducerTypeInv ==
  ASSUME TypeInv, NEW p \in Producers, ProducerStep(p)
  PROVE  TypeInv'
<1> USE ConstantsAssumption DEF TypeInv, WorkLeft, TypeOK, Steps, metrics
<1>1. CASE LoopTop(p)
  BY <1>1 DEF LoopTop
<1>2. CASE CheckDepth(p)
  BY <1>2 DEF CheckDepth
<1>3. CASE Activate(p)
  BY <1>3 DEF Activate
<1>4. CASE Announce(p)
  <2>1. activeCount + 1 \in Nat
    OBVIOUS
  <2>2. (activeCount + 1) % WordSize \in 0..(WordSize - 1)
    BY <2>1, WordRange
  <2> QED
    BY <1>4, <2>2 DEF Announce
<1>5. CASE RaiseGauge(p)
  BY <1>5 DEF RaiseGauge
<1>6. CASE Poll(p)
  BY <1>6 DEF Poll
<1>7. CASE LeaveLoop(p)
  BY <1>7 DEF LeaveLoop
<1>8. CASE Release(p)
  BY <1>8 DEF Release
<1>9. CASE Retract(p)
  <2>1. activeCount + WordSize - 1 \in Nat
    OBVIOUS
  <2>2. (activeCount + WordSize - 1) % WordSize \in 0..(WordSize - 1)
    BY <2>1, WordRange
  <2> QED
    BY <1>9, <2>2 DEF Retract
<1>10. CASE LowerGauge(p)
  BY <1>10 DEF LowerGauge
<1>11. CASE Enqueue(p)
  BY <1>11 DEF Enqueue
<1> QED
  BY <1>1, <1>2, <1>3, <1>4, <1>5, <1>6, <1>7, <1>8, <1>9, <1>10, <1>11
     DEF ProducerStep

(* Every step preserves the type invariant.                                *)
LEMMA NextTypeInv ==
  ASSUME TypeInv, [Next]_vars
  PROVE  TypeInv'
<1> USE ConstantsAssumption
<1>1. ASSUME NEW p \in Producers, ProducerStep(p)
      PROVE  TypeInv'
  BY <1>1, ProducerTypeInv
<1>2. ASSUME NEW c \in Controllers, Dequeue(c)
      PROVE  TypeInv'
  BY <1>2 DEF Dequeue, TypeInv, WorkLeft, TypeOK, metrics
<1>3. ASSUME NEW c \in Controllers, Start(c)
      PROVE  TypeInv'
  BY <1>3 DEF Start, TypeInv, WorkLeft, TypeOK, metrics, Steps
<1>4. ASSUME NEW c \in Controllers, Stop(c)
      PROVE  TypeInv'
  BY <1>4 DEF Stop, TypeInv, WorkLeft, TypeOK, metrics
<1>5. CASE UNCHANGED vars
  BY <1>5 DEF TypeInv, WorkLeft, TypeOK, vars
<1> QED
  BY <1>1, <1>2, <1>3, <1>4, <1>5 DEF Next

(* The variables of Backpressure keep their types.                         *)
THEOREM TypeCorrect == Spec => []TypeOK
<1> USE ConstantsAssumption
<1>1. Init => TypeInv
  BY DEF Init, TypeInv, WorkLeft, TypeOK, Steps
<1>2. TypeInv /\ [Next]_vars => TypeInv'
  BY NextTypeInv
<1>3. TypeInv => TypeOK
  BY DEF TypeInv
<1> QED
  BY <1>1, <1>2, <1>3, PTL DEF Spec

-----------------------------------------------------------------------------
(* A controller's producers, and those committed to enqueue, can be counted. *)
LEMMA CommittedFinite ==
  ASSUME NEW c \in Controllers
  PROVE  /\ IsFiniteSet(ProducersOf(c))
         /\ Cardinality(ProducersOf(c)) \in Nat
         /\ IsFiniteSet(Committed(c))
         /\ Cardinality(Committed(c)) \in Nat
         /\ Cardinality(Committed(c)) <= Cardinality(ProducersOf(c))
<1>1. ProducersOf(c) \in SUBSET Producers
  BY DEF ProducersOf
<1>2. IsFiniteSet(ProducersOf(c))
  BY <1>1, ConstantsAssumption, FS_Subset
<1>3. Committed(c) \in SUBSET ProducersOf(c)
  BY DEF Committed
<1>4. IsFiniteSet(Committed(c)) /\ Cardinality(Committed(c)) <= Cardinality(ProducersOf(c))
  BY <1>2, <1>3, FS_Subset
<1> QED
  BY <1>2, <1>4, FS_CardinalityType

(* A producer joins Committed(c) only by reading a depth below high, and   *)
(* then one element per producer is room enough.                           *)
LEMMA JoinFits ==
  ASSUME TypeOK, TypeOK', NEW c \in Controllers, depth'[c] = depth[c], depth[c] < high
  PROVE  depth'[c] + Cardinality(Committed(c)') <= high - 1 + Cardinality(ProducersOf(c))
<1>1. /\ Cardinality(ProducersOf(c)) \in Nat
      /\ Cardinality(Committed(c)') \in Nat
      /\ Cardinality(Committed(c)') <= Cardinality(ProducersOf(c))
  <2>1. Committed(c)' \in SUBSET ProducersOf(c)
    BY DEF Committed
  <2> QED
    BY <2>1, CommittedFinite, FS_Subset, FS_CardinalityType
<1>2. depth[c] \in Nat
  BY DEF TypeOK
<1> QED
  BY <1>1, <1>2, WatermarksOrdered

(* The invariant of one controller, as a formula of its own.               *)
Fit(c) ==
  running[c] /\ Committed(c) # {} =>
    depth[c] + Cardinality(Committed(c)) <= high - 1 + Cardinality(ProducersOf(c))

(* A producer on its way into the waiting loop has seen a full queue.      *)
SawFull ==
  \A p \in Producers : pc[p] \in {"activate", "announce", "raiseGauge"} => seen[p] >= high

IInv == TypeInv /\ SawFull /\ \A c \in Controllers : Fit(c)

(* A producer's step does not touch another producer's locals, nor the     *)
(* running flags.                                                          *)
LEMMA OthersUntouched ==
  ASSUME TypeInv, NEW p \in Producers, ProducerStep(p)
  PROVE  /\ running' = running
         /\ \A q \in Producers \ {p} : pc'[q] = pc[q] /\ seen'[q] = seen[q]
         /\ \A c \in Controllers \ {GuardOf[p]} : depth'[c] = depth[c]
  BY ConstantsAssumption
     DEF TypeInv, TypeOK, ProducerStep, LoopTop, CheckDepth, Activate, Announce, RaiseGauge,
         Poll, LeaveLoop, Release, Retract, LowerGauge, Enqueue

(* A step after which the same producers are committed and the queue is as *)
(* long as before keeps the invariant, unless it starts the component.     *)
LEMMA FitFrame ==
  ASSUME NEW c \in Controllers, Fit(c),
         depth'[c] = depth[c], running'[c] => running[c],
         \A p \in ProducersOf(c) : MayEnqueue(p)' <=> MayEnqueue(p)
  PROVE  Fit(c)'
<1>1. Committed(c)' = Committed(c)
  BY DEF Committed, ProducersOf
<1>2. ProducersOf(c)' = ProducersOf(c)
  BY DEF ProducersOf
<1> QED
  BY <1>1, <1>2 DEF Fit

(* A producer's step keeps the invariant of the controller it waits on.    *)
LEMMA OwnFit ==
  ASSUME IInv, TypeInv', NEW p \in Producers, ProducerStep(p),
         NEW c \in Controllers, c = GuardOf[p]
  PROVE  Fit(c)'
<1> USE ConstantsAssumption, WatermarksOrdered DEF TypeInv, TypeOK, Steps
<1>0. c \in Controllers /\ p \in ProducersOf(c) /\ Fit(c) /\ depth[c] \in Nat /\ seen[p] \in Nat
  BY DEF IInv, ProducersOf
<1>a. \A q \in ProducersOf(c) \ {p} : MayEnqueue(q)' <=> MayEnqueue(q)
  BY OthersUntouched DEF IInv, MayEnqueue, ProducersOf
<1>b. running'[c] = running[c]
  BY OthersUntouched DEF IInv
<1>1. ASSUME depth' = depth, MayEnqueue(p)' <=> MayEnqueue(p)
      PROVE  Fit(c)'
  <2>1. \A q \in ProducersOf(c) : MayEnqueue(q)' <=> MayEnqueue(q)
    BY <1>1, <1>a
  <2> QED
    BY <1>0, <1>1, <1>b, <2>1, FitFrame
<1>2. ASSUME depth' = depth, depth[c] < high
      PROVE  Fit(c)'
  <2>1. ProducersOf(c)' = ProducersOf(c)
    BY DEF ProducersOf
  <2> QED
    BY <1>0, <1>2, <2>1, JoinFits DEF Fit, IInv
<1>3. CASE LoopTop(p)
  <2>1. depth' = depth /\ ~MayEnqueue(p) /\ ~MayEnqueue(p)'
    BY <1>3 DEF LoopTop, MayEnqueue, IInv
  <2> QED
    BY <1>1, <2>1
<1>4. CASE CheckDepth(p)
  <2>1. depth' = depth /\ ~MayEnqueue(p)
    BY <1>4 DEF CheckDepth, MayEnqueue
  <2>2. CASE depth[c] >= high
    <3>1. pc'[p] = "activate"
      BY <1>0, <1>4, <2>2 DEF CheckDepth, IInv
    <3>2. ~MayEnqueue(p)'
      BY <3>1 DEF MayEnqueue
    <3> QED
      BY <1>1, <2>1, <3>2
  <2> QED
    BY <1>0, <1>2, <2>1, <2>2
<1>5. CASE Activate(p) \/ Announce(p) \/ RaiseGauge(p)
  <2>1. depth' = depth /\ ~MayEnqueue(p) /\ seen[p] >= high
    BY <1>5 DEF Activate, Announce, RaiseGauge, MayEnqueue, IInv, SawFull
  <2>2. ~MayEnqueue(p)'
    BY <1>5, <2>1 DEF Activate, Announce, RaiseGauge, MayEnqueue, IInv
  <2> QED
    BY <1>1, <2>1, <2>2
<1>6. CASE Poll(p)
  <2>1. depth' = depth /\ ~MayEnqueue(p)
    BY <1>0, <1>6 DEF Poll, MayEnqueue
  <2>2. CASE depth[c] >= high
    <3>1. pc'[p] = "paused" /\ seen'[p] = depth[c]
      BY <1>6 DEF Poll, IInv
    <3>2. ~MayEnqueue(p)'
      BY <1>0, <2>2, <3>1 DEF MayEnqueue
    <3> QED
      BY <1>1, <2>1, <3>2
  <2> QED
    BY <1>0, <1>2, <2>1, <2>2
<1>7. CASE LeaveLoop(p)
  <2>1. CASE running[c]
    <3>1. depth' = depth /\ MayEnqueue(p) /\ MayEnqueue(p)'
      BY <1>7, <2>1 DEF LeaveLoop, MayEnqueue, IInv
    <3> QED
      BY <1>1, <3>1
  <2>2. CASE ~running[c]
    BY <1>b, <2>2 DEF Fit
  <2> QED
    BY <2>1, <2>2
<1>8. CASE Release(p) \/ Retract(p) \/ LowerGauge(p)
  <2>1. depth' = depth /\ MayEnqueue(p) /\ MayEnqueue(p)'
    BY <1>8 DEF Release, Retract, LowerGauge, MayEnqueue, IInv
  <2> QED
    BY <1>1, <2>1
<1>9. CASE Enqueue(p)
  <2>1. depth'[c] = depth[c] + 1 /\ MayEnqueue(p) /\ ~MayEnqueue(p)'
    BY <1>9 DEF Enqueue, MayEnqueue, IInv
  <2>2. Committed(c)' = Committed(c) \ {p}
    BY <2>1, <1>a, <1>0 DEF Committed, ProducersOf
  <2>3. p \in Committed(c)
    BY <2>1, <1>0 DEF Committed
  <2>4. Cardinality(Committed(c)') = Cardinality(Committed(c)) - 1
    <3>1. IsFiniteSet(Committed(c))
      BY CommittedFinite
    <3>2. Cardinality(Committed(c) \ {p}) = Cardinality(Committed(c)) - 1
      BY <2>3, <3>1, FS_RemoveElement
    <3> QED
      BY <2>2, <3>2
  <2>5. ProducersOf(c)' = ProducersOf(c)
    BY DEF ProducersOf
  <2>6. Cardinality(Committed(c)) \in Nat /\ Cardinality(ProducersOf(c)) \in Nat
    BY <1>0, CommittedFinite
  <2>7. running[c] => depth[c] + Cardinality(Committed(c)) <= high - 1 + Cardinality(ProducersOf(c))
    BY <1>0, <2>3 DEF Fit
  <2>8. running[c] => depth'[c] + Cardinality(Committed(c)') <= high - 1 + Cardinality(ProducersOf(c))
    BY <1>0, <2>1, <2>4, <2>6, <2>7
  <2> QED
    BY <1>b, <2>5, <2>8 DEF Fit
<1> QED
  BY <1>3, <1>4, <1>5, <1>6, <1>7, <1>8, <1>9 DEF ProducerStep

(* Every step preserves the inductive invariant.                           *)
LEMMA NextIInv ==
  ASSUME IInv, TypeInv', [Next]_vars
  PROVE  IInv'
<1> USE ConstantsAssumption, WatermarksOrdered
<1>1. SawFull'
  <2>1. ASSUME NEW p \in Producers, ProducerStep(p)
        PROVE  SawFull'
    BY <2>1 DEF IInv, TypeInv, TypeOK, SawFull, ProducerStep, LoopTop, CheckDepth, Activate, Announce,
           RaiseGauge, Poll, LeaveLoop, Release, Retract, LowerGauge, Enqueue
  <2>2. ASSUME NEW c \in Controllers, Dequeue(c) \/ Start(c) \/ Stop(c)
        PROVE  SawFull'
    BY <2>2 DEF IInv, TypeInv, TypeOK, SawFull, Dequeue, Start, Stop
  <2> QED
    BY <2>1, <2>2 DEF IInv, SawFull, Next, vars
<1>2. ASSUME NEW c \in Controllers
      PROVE  Fit(c)'
  <2>0. Fit(c) /\ TypeInv
    BY DEF IInv
  <2>1. ASSUME NEW p \in Producers, ProducerStep(p)
        PROVE  Fit(c)'
    <3>1. CASE c = GuardOf[p]
      BY <2>1, <3>1, OwnFit
    <3>2. CASE c # GuardOf[p]
      <4>1. depth'[c] = depth[c] /\ running'[c] = running[c]
        BY <2>0, <2>1, <3>2, OthersUntouched
      <4>2. \A q \in ProducersOf(c) : MayEnqueue(q)' <=> MayEnqueue(q)
        BY <2>0, <2>1, <3>2, OthersUntouched DEF ProducersOf, MayEnqueue
      <4> QED
        BY <2>0, <4>1, <4>2, FitFrame
    <3> QED
      BY <3>1, <3>2
  <2>2. ASSUME NEW d \in Controllers, Dequeue(d)
        PROVE  Fit(c)'
    <3>1. /\ running' = running /\ pc' = pc /\ seen' = seen
          /\ depth'[c] \in Nat /\ depth[c] \in Nat /\ depth'[c] <= depth[c]
      BY <2>0, <2>2 DEF Dequeue, TypeInv, TypeOK
    <3>2. Committed(c)' = Committed(c) /\ ProducersOf(c)' = ProducersOf(c)
      BY <3>1 DEF Committed, MayEnqueue, ProducersOf
    <3> QED
      BY <2>0, <3>1, <3>2, CommittedFinite DEF Fit
  <2>3. ASSUME NEW d \in Controllers, Start(d)
        PROVE  Fit(c)'
    <3>1. CASE c = d
      <4>1. \A q \in ProducersOf(c) : pc'[q] = "loop"
        BY <2>3, <3>1 DEF Start, ProducersOf
      <4>2. Committed(c)' = {}
        BY <4>1 DEF Committed, MayEnqueue, ProducersOf
      <4> QED
        BY <4>2 DEF Fit
    <3>2. CASE c # d
      <4>1. depth' = depth /\ running'[c] = running[c] /\ seen' = seen
        BY <2>0, <2>3, <3>2 DEF Start, TypeInv, TypeOK
      <4>2. \A q \in ProducersOf(c) : pc'[q] = pc[q]
        BY <2>3, <3>2 DEF Start, ProducersOf
      <4>3. \A q \in ProducersOf(c) : MayEnqueue(q)' <=> MayEnqueue(q)
        BY <4>1, <4>2 DEF MayEnqueue
      <4> QED
        BY <2>0, <4>1, <4>3, FitFrame
    <3> QED
      BY <3>1, <3>2
  <2>4. ASSUME NEW d \in Controllers, Stop(d)
        PROVE  Fit(c)'
    <3>1. depth' = depth /\ (running'[c] => running[c]) /\ pc' = pc /\ seen' = seen
      BY <2>0, <2>4 DEF Stop, TypeInv, TypeOK
    <3>2. \A q \in ProducersOf(c) : MayEnqueue(q)' <=> MayEnqueue(q)
      BY <3>1 DEF MayEnqueue
    <3> QED
      BY <2>0, <3>1, <3>2, FitFrame
  <2>5. CASE UNCHANGED vars
    <3>1. \A q \in ProducersOf(c) : MayEnqueue(q)' <=> MayEnqueue(q)
      BY <2>5 DEF MayEnqueue, vars
    <3> QED
      BY <2>0, <2>5, <3>1, FitFrame DEF vars
  <2> QED
    BY <2>1, <2>2, <2>3, <2>4, <2>5 DEF Next
<1> QED
  BY <1>1, <1>2 DEF IInv

(* The inductive invariant holds of every behaviour.                       *)
LEMMA Invariance == Spec => []IInv
<1>1. Init => IInv
  <2> SUFFICES ASSUME Init PROVE IInv
    OBVIOUS
  <2>1. TypeInv
    BY ConstantsAssumption DEF Init, TypeInv, WorkLeft, TypeOK, Steps
  <2>2. SawFull
    BY DEF Init, SawFull
  <2>3. \A c \in Controllers : Fit(c)
    BY DEF Init, Fit
  <2> QED
    BY <2>1, <2>2, <2>3 DEF IInv
<1>2. IInv /\ [Next]_vars => IInv'
  BY NextIInv, NextTypeInv DEF IInv
<1> QED
  BY <1>1, <1>2, PTL DEF Spec

(* However many producers share the controller, and however it is          *)
(* configured, committed enqueues fit: CommittedFit is an invariant.       *)
THEOREM CommittedEnqueuesFit == Spec => []CommittedFit
<1>1. IInv => CommittedFit
  BY DEF IInv, Fit, CommittedFit
<1> QED
  BY <1>1, Invariance, PTL

(* No enqueue of a running component takes its queue beyond high - 1 plus  *)
(* one element per producer.                                               *)
THEOREM EnqueuesBounded == Spec => EnqueueBounded
<1>1. ASSUME IInv, [Next]_vars, NEW c \in Controllers, running[c], depth'[c] > depth[c]
      PROVE  depth'[c] <= high - 1 + Cardinality(ProducersOf(c))
  <2>0. TypeOK /\ depth[c] \in Nat
    BY <1>1 DEF IInv, TypeInv, TypeOK
  <2>1. PICK p \in Producers : Enqueue(p) /\ GuardOf[p] = c
    <3>1. ASSUME NEW p \in Producers, ProducerStep(p)
          PROVE  Enqueue(p) /\ GuardOf[p] = c
      BY <1>1, <2>0, <3>1, ConstantsAssumption
         DEF TypeOK, ProducerStep, LoopTop, CheckDepth, Activate, Announce, RaiseGauge, Poll,
             LeaveLoop, Release, Retract, LowerGauge, Enqueue
    <3>2. ~\E d \in Controllers : Dequeue(d) \/ Start(d) \/ Stop(d)
      BY <1>1, <2>0 DEF TypeOK, Dequeue, Start, Stop
    <3> QED
      BY <1>1, <2>0, <3>1, <3>2 DEF Next, vars
  <2>2. depth'[c] = depth[c] + 1 /\ p \in Committed(c)
    BY <2>0, <2>1 DEF TypeOK, Enqueue, Committed, ProducersOf, MayEnqueue
  <2>3. Cardinality(Committed(c)) >= 1
    <3>1. Cardinality(Committed(c) \ {p}) = Cardinality(Committed(c)) - 1
      BY <1>1, <2>2, CommittedFinite, FS_RemoveElement
    <3>2. Cardinality(Committed(c) \ {p}) \in Nat
      BY <1>1, CommittedFinite, FS_RemoveElement, FS_CardinalityType
    <3> QED
      BY <1>1, <3>1, <3>2, CommittedFinite
  <2>4. depth[c] + Cardinality(Committed(c)) <= high - 1 + Cardinality(ProducersOf(c))
    BY <1>1, <2>2 DEF IInv, Fit
  <2> QED
    BY <1>1, <2>0, <2>2, <2>3, <2>4, CommittedFinite, WatermarksOrdered
<1>2. IInv /\ [Next]_vars =>
        [\A c \in Controllers :
           running[c] /\ depth'[c] > depth[c] =>
             depth'[c] <= high - 1 + Cardinality(ProducersOf(c))]_vars
  BY <1>1
<1> QED
  BY <1>2, Invariance, PTL DEF Spec, EnqueueBounded

-----------------------------------------------------------------------------
(* Arithmetic of the unsigned word: adding words does not change the       *)
(* remainder.                                                              *)
LEMMA WordWraps ==
  ASSUME NEW w \in 0..(WordSize - 1), NEW k \in Int
  PROVE  (w + WordSize * k) % WordSize = w
<1> WordSize \in Int /\ WordSize > 0
  BY ConstantsAssumption
<1>1. PICK x \in Int : x = w + WordSize * k
  OBVIOUS
<1>2. PICK q \in Int : x = WordSize * q + (x % WordSize)
  OBVIOUS
<1>3. PICK r \in 0..(WordSize - 1) : r = x % WordSize
  OBVIOUS
<1>4. PICK d \in Int : d = k - q
  OBVIOUS
<1>5. WordSize * d = WordSize * k - WordSize * q /\ WordSize * k \in Int /\ WordSize * q \in Int
  BY <1>4
<1>6. WordSize * d = r - w
  BY <1>1, <1>2, <1>3, <1>5
<1>7. d >= 1 => WordSize * d >= WordSize
  OBVIOUS
<1>8. d <= -1 => WordSize * d <= -WordSize
  OBVIOUS
<1>9. d = 0
  BY <1>6, <1>7, <1>8
<1>10. WordSize * d = 0
  BY <1>9
<1> QED
  BY <1>1, <1>3, <1>6, <1>10

(* The count says a + r - n, up to whole words: a controllers are active,  *)
(* r releases are still to be retracted, n activations to be announced.    *)
Balanced(a, r, n, count) ==
  \E k \in Int : a + r - n = count + WordSize * k

(* What each of the four kinds of step does to the balance.                *)
LEMMA BalanceKept ==
  ASSUME NEW a \in Int, NEW r \in Int, NEW n \in Int, NEW w \in 0..(WordSize - 1),
         Balanced(a, r, n, w)
  PROVE  /\ Balanced(a + 1, r, n + 1, w)
         /\ Balanced(a - 1, r + 1, n, w)
         /\ Balanced(a, r, n - 1, (w + 1) % WordSize)
         /\ Balanced(a, r - 1, n, (w + WordSize - 1) % WordSize)
<1> WordSize \in Int /\ WordSize > 1
  BY ConstantsAssumption
<1>1. PICK k \in Int : a + r - n = w + WordSize * k
  BY DEF Balanced
<1>2. /\ WordSize * k \in Int
      /\ WordSize * (k + 1) = WordSize * k + WordSize
      /\ WordSize * (k - 1) = WordSize * k - WordSize
  OBVIOUS
<1>3. Balanced(a + 1, r, n + 1, w) /\ Balanced(a - 1, r + 1, n, w)
  <2>1. (a + 1) + r - (n + 1) = w + WordSize * k /\ (a - 1) + (r + 1) - n = w + WordSize * k
    BY <1>1, <1>2
  <2> QED
    BY <2>1 DEF Balanced
<1>4. Balanced(a, r, n - 1, (w + 1) % WordSize)
  <2>1. CASE w + 1 < WordSize
    <3>1. (w + 1) % WordSize = w + 1
      BY <2>1
    <3>2. a + r - (n - 1) = (w + 1) + WordSize * k
      BY <1>1, <1>2
    <3> QED
      BY <3>1, <3>2 DEF Balanced
  <2>2. CASE w + 1 = WordSize
    <3>1. (w + 1) % WordSize = 0
      BY <2>2
    <3>2. a + r - (n - 1) = 0 + WordSize * (k + 1) /\ k + 1 \in Int
      BY <1>1, <1>2, <2>2
    <3> QED
      BY <3>1, <3>2 DEF Balanced
  <2> QED
    BY <2>1, <2>2
<1>5. Balanced(a, r - 1, n, (w + WordSize - 1) % WordSize)
  <2>1. CASE w = 0
    <3>1. (w + WordSize - 1) % WordSize = WordSize - 1
      BY <2>1
    <3>2. a + (r - 1) - n = (WordSize - 1) + WordSize * (k - 1) /\ k - 1 \in Int
      BY <1>1, <1>2, <2>1
    <3> QED
      BY <3>1, <3>2 DEF Balanced
  <2>2. CASE w > 0
    <3>1. (w - 1) \in 0..(WordSize - 1) /\ (w - 1) + WordSize * 1 = w + WordSize - 1
      BY <2>2
    <3>2. (w + WordSize - 1) % WordSize = w - 1
      BY <3>1, WordWraps
    <3>3. a + (r - 1) - n = (w - 1) + WordSize * k
      BY <1>1, <1>2
    <3> QED
      BY <3>2, <3>3 DEF Balanced
  <2> QED
    BY <2>1, <2>2
<1> QED
  BY <1>3, <1>4, <1>5

ActiveOnes == {c \in Controllers : active[c]}
Unsaid(step) == {p \in Producers : pc[p] = step}

(* The inductive form of CountSettles: no remainder, which would forget    *)
(* how often the word has wrapped.                                         *)
CountBalanced ==
  Balanced(Cardinality(ActiveOnes), Cardinality(Unsaid("retract")),
           Cardinality(Unsaid("announce")), activeCount)

(* These sets can be counted.                                              *)
LEMMA CountedFinite ==
  /\ IsFiniteSet(ActiveOnes) /\ Cardinality(ActiveOnes) \in Nat
  /\ \A step : IsFiniteSet(Unsaid(step)) /\ Cardinality(Unsaid(step)) \in Nat
<1>1. IsFiniteSet(ActiveOnes)
  <2>1. ActiveOnes \in SUBSET Controllers
    BY DEF ActiveOnes
  <2> QED
    BY <2>1, ConstantsAssumption, FS_Subset
<1>2. ASSUME NEW step
      PROVE  IsFiniteSet(Unsaid(step))
  <2>1. Unsaid(step) \in SUBSET Producers
    BY DEF Unsaid
  <2> QED
    BY <2>1, ConstantsAssumption, FS_Subset
<1> QED
  BY <1>1, <1>2, FS_CardinalityType

(* The steps that change neither the count nor one of the three sets.      *)
LEMMA CountFrame ==
  ASSUME CountBalanced, UNCHANGED <<active, activeCount>>,
         \A p \in Producers : \A step \in {"announce", "retract"} : pc'[p] = step <=> pc[p] = step
  PROVE  CountBalanced'
<1>1. ActiveOnes' = ActiveOnes
  BY DEF ActiveOnes
<1>2. Unsaid("announce")' = Unsaid("announce") /\ Unsaid("retract")' = Unsaid("retract")
  BY DEF Unsaid
<1> QED
  BY <1>1, <1>2 DEF CountBalanced, Balanced

(* A producer's step keeps the balance: the two that take or give up       *)
(* active_ owe the count one operation, which the next step pays.          *)
LEMMA ProducerCount ==
  ASSUME TypeInv, CountBalanced, NEW p \in Producers, ProducerStep(p)
  PROVE  CountBalanced'
<1> USE DEF TypeInv, TypeOK
<1> DEFINE a == Cardinality(ActiveOnes)
           r == Cardinality(Unsaid("retract"))
           n == Cardinality(Unsaid("announce"))
           c == GuardOf[p]
<1>0. a \in Nat /\ r \in Nat /\ n \in Nat /\ c \in Controllers
      /\ activeCount \in 0..(WordSize - 1)
  BY CountedFinite, ConstantsAssumption
<1>a. Balanced(a, r, n, activeCount)
  BY DEF CountBalanced
<1>b. /\ Balanced(a + 1, r, n + 1, activeCount)
      /\ Balanced(a - 1, r + 1, n, activeCount)
      /\ Balanced(a, r, n - 1, (activeCount + 1) % WordSize)
      /\ Balanced(a, r - 1, n, (activeCount + WordSize - 1) % WordSize)
  <2> HIDE DEF a, r, n
  <2>1. a \in Int /\ r \in Int /\ n \in Int
    BY <1>0
  <2> QED
    BY ONLY <1>0, <1>a, <2>1, BalanceKept
<1>c. ASSUME UNCHANGED <<active, activeCount>>, pc[p] \notin {"announce", "retract"},
             pc'[p] \notin {"announce", "retract"},
             \A q \in Producers \ {p} : pc'[q] = pc[q]
      PROVE  CountBalanced'
  BY <1>c, CountFrame
<1>1. CASE LoopTop(p) \/ CheckDepth(p) \/ RaiseGauge(p) \/ Poll(p) \/ LeaveLoop(p)
           \/ LowerGauge(p) \/ Enqueue(p)
  BY <1>1, <1>c
     DEF LoopTop, CheckDepth, RaiseGauge, Poll, LeaveLoop, LowerGauge, Enqueue, metrics
<1>2. CASE Activate(p)
  <2>1. CASE active[c]
    <3>1. active' = active
      BY <1>0, <1>2, <2>1 DEF Activate
    <3> QED
      BY <1>2, <1>c, <2>1, <3>1 DEF Activate, metrics
  <2>2. CASE ~active[c]
    <3>1. ActiveOnes' = ActiveOnes \cup {c} /\ c \notin ActiveOnes
      BY <1>0, <1>2, <2>2 DEF Activate, ActiveOnes
    <3>2. Unsaid("announce")' = Unsaid("announce") \cup {p} /\ p \notin Unsaid("announce")
      BY <1>2, <2>2 DEF Activate, Unsaid
    <3>3. Unsaid("retract")' = Unsaid("retract")
      BY <1>2, <2>2 DEF Activate, Unsaid
    <3>4. Cardinality(ActiveOnes') = a + 1
      BY <3>1, CountedFinite, FS_AddElement
    <3>5. Cardinality(Unsaid("announce")') = n + 1
      BY <3>2, CountedFinite, FS_AddElement
    <3>6. activeCount' = activeCount
      BY <1>2 DEF Activate, metrics
    <3> QED
      BY <1>b, <3>3, <3>4, <3>5, <3>6 DEF CountBalanced, Balanced
  <2> QED
    BY <2>1, <2>2
<1>3. CASE Announce(p)
  <2>1. Unsaid("announce")' = Unsaid("announce") \ {p} /\ p \in Unsaid("announce")
    BY <1>3 DEF Announce, Unsaid
  <2>2. Unsaid("retract")' = Unsaid("retract") /\ ActiveOnes' = ActiveOnes
    BY <1>3 DEF Announce, Unsaid, ActiveOnes
  <2>3. Cardinality(Unsaid("announce")') = n - 1
    BY <2>1, CountedFinite, FS_RemoveElement
  <2>4. activeCount' = (activeCount + 1) % WordSize
    BY <1>3 DEF Announce
  <2> QED
    BY <1>b, <2>2, <2>3, <2>4 DEF CountBalanced, Balanced
<1>4. CASE Release(p)
  <2>1. CASE active[c] /\ seen[p] <= low
    <3>1. ActiveOnes' = ActiveOnes \ {c} /\ c \in ActiveOnes
      BY <1>0, <1>4, <2>1 DEF Release, ActiveOnes
    <3>2. Unsaid("retract")' = Unsaid("retract") \cup {p} /\ p \notin Unsaid("retract")
      BY <1>4, <2>1 DEF Release, Unsaid
    <3>3. Unsaid("announce")' = Unsaid("announce")
      BY <1>4, <2>1 DEF Release, Unsaid
    <3>4. Cardinality(ActiveOnes') = a - 1
      BY <3>1, CountedFinite, FS_RemoveElement
    <3>5. Cardinality(Unsaid("retract")') = r + 1
      BY <3>2, CountedFinite, FS_AddElement
    <3>6. activeCount' = activeCount
      BY <1>4 DEF Release, metrics
    <3> QED
      BY <1>b, <3>3, <3>4, <3>5, <3>6 DEF CountBalanced, Balanced
  <2>2. CASE ~(active[c] /\ seen[p] <= low)
    <3>1. active' = active
      BY <1>0, <1>4, <2>2 DEF Release
    <3> QED
      BY <1>4, <1>c, <2>2, <3>1 DEF Release, metrics
  <2> QED
    BY <2>1, <2>2
<1>5. CASE Retract(p)
  <2>1. Unsaid("retract")' = Unsaid("retract") \ {p} /\ p \in Unsaid("retract")
    BY <1>5 DEF Retract, Unsaid
  <2>2. Unsaid("announce")' = Unsaid("announce") /\ ActiveOnes' = ActiveOnes
    BY <1>5 DEF Retract, Unsaid, ActiveOnes
  <2>3. Cardinality(Unsaid("retract")') = r - 1
    BY <2>1, CountedFinite, FS_RemoveElement
  <2>4. activeCount' = (activeCount + WordSize - 1) % WordSize
    BY <1>5 DEF Retract
  <2> QED
    BY <1>b, <2>2, <2>3, <2>4 DEF CountBalanced, Balanced
<1> QED
  BY <1>1, <1>2, <1>3, <1>4, <1>5 DEF ProducerStep

(* However many producers race, and however often the word wraps, the      *)
(* active_queue_count settles at the number of active controllers.         *)
THEOREM CountIsSettled == Spec => []CountSettles
<1>1. Init => CountBalanced
  <2> SUFFICES ASSUME Init PROVE CountBalanced
    OBVIOUS
  <2>1. ActiveOnes = {} /\ Unsaid("retract") = {} /\ Unsaid("announce") = {}
    BY DEF Init, ActiveOnes, Unsaid
  <2>2. WordSize * 0 = 0 /\ activeCount = 0
    BY ConstantsAssumption DEF Init
  <2>3. 0 + 0 - 0 = activeCount + WordSize * 0
    BY <2>2
  <2> QED
    BY <2>1, <2>3, FS_EmptySet DEF CountBalanced, Balanced
<1>2. TypeInv /\ CountBalanced /\ [Next]_vars => CountBalanced'
  <2> SUFFICES ASSUME TypeInv, CountBalanced, [Next]_vars
               PROVE  CountBalanced'
    OBVIOUS
  <2>1. ASSUME NEW p \in Producers, ProducerStep(p)
        PROVE  CountBalanced'
    BY <2>1, ProducerCount
  <2>2. ASSUME NEW c \in Controllers, Dequeue(c) \/ Stop(c)
        PROVE  CountBalanced'
    BY <2>2, CountFrame DEF Dequeue, Stop, metrics
  <2>3. ASSUME NEW c \in Controllers, Start(c)
        PROVE  CountBalanced'
    <3>1. \A p \in Producers : pc'[p] = pc[p] \/ (pc[p] = "done" /\ pc'[p] = "loop")
      BY <2>3 DEF Start, ProducersOf
    <3> QED
      BY <2>3, <3>1, CountFrame DEF Start, metrics
  <2>4. CASE UNCHANGED vars
    BY <2>4, CountFrame DEF vars
  <2> QED
    BY <2>1, <2>2, <2>3, <2>4 DEF Next
<1>3. TypeInv /\ CountBalanced => CountSettles
  <2> SUFFICES ASSUME TypeInv, CountBalanced PROVE CountSettles
    OBVIOUS
  <2>1. PICK a \in Nat : a = Cardinality(ActiveOnes)
    BY CountedFinite
  <2>2. PICK r \in Nat : r = Cardinality(Unsaid("retract"))
    BY CountedFinite
  <2>3. PICK n \in Nat : n = Cardinality(Unsaid("announce"))
    BY CountedFinite
  <2>4. PICK k \in Int : a + r - n = activeCount + WordSize * k
    BY <2>1, <2>2, <2>3 DEF CountBalanced, Balanced
  <2>5. activeCount \in 0..(WordSize - 1) /\ WordSize \in Int
    BY ConstantsAssumption DEF TypeInv, TypeOK
  <2>6. WordSize * k \in Int /\ WordSize * (k + 1) = WordSize * k + WordSize
    BY <2>5
  <2>7. a + r + WordSize - n = activeCount + WordSize * (k + 1)
    BY <2>4, <2>5, <2>6
  <2>8. (activeCount + WordSize * (k + 1)) % WordSize = activeCount
    <3>1. PICK w : w = activeCount
      OBVIOUS
    <3>2. w \in 0..(WordSize - 1) /\ k + 1 \in Int
      BY <2>5, <3>1
    <3> QED
      BY ONLY <3>1, <3>2, WordWraps
  <2> QED
    BY <2>1, <2>2, <2>3, <2>7, <2>8 DEF CountSettles, ActiveOnes, Unsaid
<1>4. Init => TypeInv
  BY ConstantsAssumption DEF Init, TypeInv, WorkLeft, TypeOK, Steps
<1>5. TypeInv /\ [Next]_vars => TypeInv'
  BY NextTypeInv
<1> QED
  BY <1>1, <1>2, <1>3, <1>4, <1>5, PTL DEF Spec

=============================================================================
