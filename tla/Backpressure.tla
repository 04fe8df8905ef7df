---------------------------- MODULE Backpressure ----------------------------
(***************************************************************************)
(* QueueBackpressureController (src/common/backpressure.hpp) around the    *)
(* concurrent queues of the pipeline.                                      *)
(*                                                                         *)
(* A controller guards one queue.  A producer thread calls                 *)
(* wait_for_capacity before every enqueue; the check and the enqueue are   *)
(* separate steps, several producers may share a controller (the           *)
(* Normalizer's workers share "normalizer_to_distributor"), and stop()     *)
(* clears the running flag under a waiting producer's feet.  One step of   *)
(* this model is one access to shared state: a depth read, a critical      *)
(* section of state_mutex_, a read-modify-write of the process-wide        *)
(* active_queue_count, a pair of gauge writes, an enqueue.                 *)
(*                                                                         *)
(* Abstractions: a queue is its length (the order of its elements is the   *)
(* Pipeline module's business) and size_approx returns it exactly; the     *)
(* counters producer_pauses and producer_resume_count, bumped where        *)
(* active_queue_count is, and the queue_depth gauges are left out.         *)
(***************************************************************************)
EXTENDS Integers, FiniteSets

CONSTANTS
    Controllers,    \* one per guarded queue
    Producers,      \* threads that enqueue into a guarded queue
    GuardOf,        \* the controller each producer waits on
    HighWatermark,  \* as configured, before the constructor's clamping
    LowWatermark,
    Batch,          \* most items a producer enqueues between two looks at running_
    WordSize,       \* active_queue_count is an unsigned word: 2^64 in the code
    MaxBacklog,     \* bound: input a producer still drains after stop(); 0 for the feed
    MaxStarts       \* bound: how often a component is started

ASSUME ConstantsAssumption ==
    /\ IsFiniteSet(Producers) /\ IsFiniteSet(Controllers)
    /\ GuardOf \in [Producers -> Controllers]
    /\ HighWatermark \in Nat /\ LowWatermark \in Nat
    /\ Batch \in Nat \ {0} /\ MaxBacklog \in Nat /\ MaxStarts \in Nat
    /\ WordSize \in Nat /\ WordSize > 1

VARIABLES
    depth,       \* [Controllers -> Nat]      elements in the guarded queue
    running,     \* [Controllers -> BOOLEAN]  running_ of the component that produces into it
    starts,      \* [Controllers -> Nat]      how often that component was started
    backlog,     \* [Producers -> Nat]        input left to drain after stop()
    active,      \* [Controllers -> BOOLEAN]  active_, under state_mutex_
    activeCount, \* active_queue_count()
    queueGauge,  \* [Controllers -> 0..1]     queue_<name>_backpressure_active
    gauge,       \* 0..1                      backpressure_active
    pc,          \* [Producers -> Steps]
    seen,        \* [Producers -> Nat]        the local variable depth
    remaining,   \* [Producers -> Nat]        the local remaining_active
    todo         \* [Producers -> Nat]        items left before running_ is looked at again

vars == <<depth, running, starts, backlog, active, activeCount, queueGauge, gauge,
          pc, seen, remaining, todo>>

metrics == <<activeCount, queueGauge, gauge>>

(* The constructor accepts any pair of watermarks and repairs it.          *)
high == IF HighWatermark = 0 THEN 1 ELSE HighWatermark
low  == IF LowWatermark >= high THEN high - 1 ELSE LowWatermark

ProducersOf(c) == {p \in Producers : GuardOf[p] = c}

Steps == {"done", "loop", "check", "activate", "announce", "raiseGauge",
          "paused", "release", "retract", "lowerGauge", "enqueue"}

TypeOK ==
    /\ depth \in [Controllers -> Nat]
    /\ running \in [Controllers -> BOOLEAN]
    /\ starts \in [Controllers -> Nat]
    /\ backlog \in [Producers -> Nat]
    /\ active \in [Controllers -> BOOLEAN]
    /\ activeCount \in 0..(WordSize - 1)
    /\ queueGauge \in [Controllers -> {0, 1}]
    /\ gauge \in {0, 1}
    /\ pc \in [Producers -> Steps]
    /\ seen \in [Producers -> Nat]
    /\ remaining \in [Producers -> Nat]
    /\ todo \in [Producers -> Nat]

Init ==
    /\ depth = [c \in Controllers |-> 0]
    /\ running = [c \in Controllers |-> FALSE]
    /\ starts = [c \in Controllers |-> 0]
    /\ backlog = [p \in Producers |-> 0]
    /\ active = [c \in Controllers |-> FALSE]
    /\ activeCount = 0
    /\ queueGauge = [c \in Controllers |-> 0]
    /\ gauge = 0
    /\ pc = [p \in Producers |-> "done"]
    /\ seen = [p \in Producers |-> 0]
    /\ remaining = [p \in Producers |-> 0]
    /\ todo = [p \in Producers |-> 0]

-----------------------------------------------------------------------------
(* The producer's thread.                                                  *)

(* The outer loop looks at running_, then commits to a whole batch of      *)
(* items: MockFeed::run_loop to one round over its symbols, the routing    *)
(* and worker threads to the events they have dequeued.  These two go on   *)
(* after stop() until their input is empty; the feed has none.             *)
LoopTop(p) ==
    /\ pc[p] = "loop"
    /\ \/ /\ running[GuardOf[p]]
          /\ \E n \in 1..Batch : todo' = [todo EXCEPT ![p] = n]
          /\ pc' = [pc EXCEPT ![p] = "check"]
          /\ UNCHANGED backlog
       \/ /\ ~running[GuardOf[p]]
          /\ \E n \in 1..Batch :
                /\ n <= backlog[p]
                /\ todo' = [todo EXCEPT ![p] = n]
                /\ backlog' = [backlog EXCEPT ![p] = @ - n]
          /\ pc' = [pc EXCEPT ![p] = "check"]
       \/ /\ ~running[GuardOf[p]] /\ backlog[p] = 0
          /\ pc' = [pc EXCEPT ![p] = "done"]
          /\ UNCHANGED <<todo, backlog>>
    /\ UNCHANGED <<depth, running, starts, active, metrics, seen, remaining>>

(* Mutant: the limit test lets a queue at its high watermark grow.         *)
CheckDepthOffByOne(p) ==
    /\ pc[p] = "check"
    /\ seen' = [seen EXCEPT ![p] = depth[GuardOf[p]]]
    /\ pc' = [pc EXCEPT ![p] = IF depth[GuardOf[p]] <= high THEN "enqueue" ELSE "activate"]
    /\ UNCHANGED <<depth, running, starts, backlog, active, metrics, remaining, todo>>

(* wait_for_capacity reads the depth and returns at once below high.       *)
CheckDepth(p) ==
    /\ pc[p] = "check"
    /\ seen' = [seen EXCEPT ![p] = depth[GuardOf[p]]]
    /\ pc' = [pc EXCEPT ![p] = IF depth[GuardOf[p]] < high THEN "enqueue" ELSE "activate"]
    /\ UNCHANGED <<depth, running, starts, backlog, active, metrics, remaining, todo>>

(* First critical section: the first producer to arrive activates.         *)
Activate(p) ==
    /\ pc[p] = "activate"
    /\ active' = [active EXCEPT ![GuardOf[p]] = TRUE]
    /\ pc' = [pc EXCEPT ![p] = IF active[GuardOf[p]] THEN "paused" ELSE "announce"]
    /\ UNCHANGED <<depth, running, starts, backlog, metrics, seen, remaining, todo>>

Announce(p) ==
    /\ pc[p] = "announce"
    /\ activeCount' = (activeCount + 1) % WordSize
    /\ pc' = [pc EXCEPT ![p] = "raiseGauge"]
    /\ UNCHANGED <<depth, running, starts, backlog, active, queueGauge, gauge, seen, remaining, todo>>

RaiseGauge(p) ==
    /\ pc[p] = "raiseGauge"
    /\ queueGauge' = [queueGauge EXCEPT ![GuardOf[p]] = 1]
    /\ gauge' = 1
    /\ pc' = [pc EXCEPT ![p] = "paused"]
    /\ UNCHANGED <<depth, running, starts, backlog, active, activeCount, seen, remaining, todo>>

(* while (depth > low): leave if not running, else sleep and read again.   *)
Poll(p) ==
    /\ pc[p] = "paused"
    /\ seen[p] > low
    /\ running[GuardOf[p]]
    /\ seen' = [seen EXCEPT ![p] = depth[GuardOf[p]]]
    /\ UNCHANGED <<depth, running, starts, backlog, active, metrics, pc, remaining, todo>>

(* Mutant: the loop does not look at running_.                             *)
LeaveLoopIgnoresStop(p) ==
    /\ pc[p] = "paused"
    /\ seen[p] <= low
    /\ pc' = [pc EXCEPT ![p] = "release"]
    /\ UNCHANGED <<depth, running, starts, backlog, active, metrics, seen, remaining, todo>>

(* Mutant: the loop waits until the queue is below the low watermark.      *)
LeaveLoopBelowLow(p) ==
    /\ pc[p] = "paused"
    /\ seen[p] < low \/ ~running[GuardOf[p]]
    /\ pc' = [pc EXCEPT ![p] = "release"]
    /\ UNCHANGED <<depth, running, starts, backlog, active, metrics, seen, remaining, todo>>

LeaveLoop(p) ==
    /\ pc[p] = "paused"
    /\ seen[p] <= low \/ ~running[GuardOf[p]]
    /\ pc' = [pc EXCEPT ![p] = "release"]
    /\ UNCHANGED <<depth, running, starts, backlog, active, metrics, seen, remaining, todo>>

(* Mutant: a producer that saw the queue low releases unconditionally.     *)
ReleaseUnconditionally(p) ==
    LET c == GuardOf[p]
        releases == seen[p] <= low
    IN  /\ pc[p] = "release"
        /\ active' = [active EXCEPT ![c] = @ /\ ~releases]
        /\ pc' = [pc EXCEPT ![p] = IF releases THEN "retract" ELSE "enqueue"]
        /\ UNCHANGED <<depth, running, starts, backlog, metrics, seen, remaining, todo>>

(* Second critical section: only a producer that saw the queue low         *)
(* releases, so one that left because of stop() leaves active_ set.        *)
Release(p) ==
    LET c == GuardOf[p]
        releases == active[c] /\ seen[p] <= low
    IN  /\ pc[p] = "release"
        /\ active' = [active EXCEPT ![c] = @ /\ ~releases]
        /\ pc' = [pc EXCEPT ![p] = IF releases THEN "retract" ELSE "enqueue"]
        /\ UNCHANGED <<depth, running, starts, backlog, metrics, seen, remaining, todo>>

(* Mutant: the count is not the wrapping unsigned word it is in C++.       *)
RetractNoWrap(p) ==
    /\ pc[p] = "retract"
    /\ remaining' = [remaining EXCEPT ![p] = activeCount]
    /\ activeCount' = activeCount - 1
    /\ pc' = [pc EXCEPT ![p] = "lowerGauge"]
    /\ UNCHANGED <<depth, running, starts, backlog, active, queueGauge, gauge, seen, todo>>

(* fetch_sub on an unsigned word returns the value it replaced.            *)
Retract(p) ==
    /\ pc[p] = "retract"
    /\ remaining' = [remaining EXCEPT ![p] = activeCount]
    /\ activeCount' = (activeCount + WordSize - 1) % WordSize
    /\ pc' = [pc EXCEPT ![p] = "lowerGauge"]
    /\ UNCHANGED <<depth, running, starts, backlog, active, queueGauge, gauge, seen, todo>>

LowerGauge(p) ==
    /\ pc[p] = "lowerGauge"
    /\ queueGauge' = [queueGauge EXCEPT ![GuardOf[p]] = 0]
    /\ gauge' = IF remaining[p] > 1 THEN 1 ELSE 0
    /\ pc' = [pc EXCEPT ![p] = "enqueue"]
    /\ UNCHANGED <<depth, running, starts, backlog, active, activeCount, seen, remaining, todo>>

(* The caller enqueues whatever wait_for_capacity decided, whose locals    *)
(* are gone.                                                               *)
Enqueue(p) ==
    /\ pc[p] = "enqueue"
    /\ depth' = [depth EXCEPT ![GuardOf[p]] = @ + 1]
    /\ todo' = [todo EXCEPT ![p] = @ - 1]
    /\ pc' = [pc EXCEPT ![p] = IF todo[p] > 1 THEN "check" ELSE "loop"]
    /\ seen' = [seen EXCEPT ![p] = 0]
    /\ remaining' = [remaining EXCEPT ![p] = 0]
    /\ UNCHANGED <<running, starts, backlog, active, metrics>>

ProducerStep(p) ==
    \/ LoopTop(p)
    \/ CheckDepth(p)
    \/ Activate(p)
    \/ Announce(p)
    \/ RaiseGauge(p)
    \/ Poll(p)
    \/ LeaveLoop(p)
    \/ Release(p)
    \/ Retract(p)
    \/ LowerGauge(p)
    \/ Enqueue(p)

-----------------------------------------------------------------------------
(* The rest of the process.                                                *)

(* The consumer of the queue; it outlives the producing component.         *)
Dequeue(c) ==
    /\ depth[c] > 0
    /\ depth' = [depth EXCEPT ![c] = @ - 1]
    /\ UNCHANGED <<running, starts, backlog, active, metrics, pc, seen, remaining, todo>>

(* start() of the producing component: running_ is set, then the threads   *)
(* are created.  stop() has joined the earlier ones before it returns.     *)
Start(c) ==
    /\ ~running[c] /\ starts[c] < MaxStarts
    /\ \A p \in ProducersOf(c) : pc[p] = "done"
    /\ running' = [running EXCEPT ![c] = TRUE]
    /\ starts' = [starts EXCEPT ![c] = @ + 1]
    /\ pc' = [p \in Producers |-> IF GuardOf[p] = c THEN "loop" ELSE pc[p]]
    /\ UNCHANGED <<depth, backlog, active, metrics, seen, remaining, todo>>

(* stop() clears running_; the join that follows is the guard of Start.    *)
Stop(c) ==
    /\ running[c]
    /\ running' = [running EXCEPT ![c] = FALSE]
    /\ \E left \in [Producers -> 0..MaxBacklog] :
          backlog' = [p \in Producers |-> IF GuardOf[p] = c THEN left[p] ELSE backlog[p]]
    /\ UNCHANGED <<depth, starts, active, metrics, pc, seen, remaining, todo>>

Next ==
    \/ \E p \in Producers : ProducerStep(p)
    \/ \E c \in Controllers : Dequeue(c) \/ Start(c) \/ Stop(c)

Spec == Init /\ [][Next]_vars

(* Threads keep being scheduled; a producer that is paused sleeps for      *)
(* pause_sleep_ and wakes up.                                              *)
ThreadFairness == \A p \in Producers : WF_vars(ProducerStep(p))

(* Nobody promises that the consumer of a queue makes progress.            *)
ThreadSpec == Spec /\ ThreadFairness

-----------------------------------------------------------------------------
(* Properties.                                                             *)

(* The last look p had at the queue lets it enqueue, and it has not done   *)
(* so yet.                                                                 *)
MayEnqueue(p) ==
    \/ pc[p] \in {"release", "retract", "lowerGauge", "enqueue"}
    \/ pc[p] = "paused" /\ seen[p] <= low

Committed(c) == {p \in ProducersOf(c) : MayEnqueue(p)}

(* The price of checking and enqueueing in two steps: while the component  *)
(* runs, the elements in the queue plus those its producers are committed  *)
(* to add never exceed high - 1 by more than one element per producer.     *)
CommittedFit ==
    \A c \in Controllers :
        running[c] /\ Committed(c) # {} =>
            depth[c] + Cardinality(Committed(c)) <= high - 1 + Cardinality(ProducersOf(c))

(* While the component runs, no enqueue takes its queue beyond high - 1    *)
(* plus one element per producer, whatever was left in the queue by        *)
(* earlier runs of the component.                                          *)
EnqueueBounded ==
    [][\A c \in Controllers :
          running[c] /\ depth'[c] > depth[c] =>
              depth'[c] <= high - 1 + Cardinality(ProducersOf(c))]_vars

(* The process-wide active_queue_count is updated outside state_mutex_.    *)
(* It still equals the number of active controllers, corrected by the      *)
(* producers caught between the critical section and the atomic operation: *)
(* no activation is counted twice, or released twice, when producers race. *)
CountSettles ==
    LET activeOnes == {c \in Controllers : active[c]}
        unsaid(step) == {p \in Producers : pc[p] = step}
    IN  activeCount = (Cardinality(activeOnes) + Cardinality(unsaid("retract"))
                         + WordSize - Cardinality(unsaid("announce"))) % WordSize

(* stop() returns: once running_ is false every producer reaches the end   *)
(* of its thread, even if it is paused on a queue nobody drains.           *)
StopJoins ==
    \A c \in Controllers :
        ~running[c] ~> \A p \in ProducersOf(c) : pc[p] = "done"

(* If the consumer of a queue keeps draining, its producers are not all    *)
(* paused forever: when one is paused, it or another one enqueues.         *)
ProducersProgress ==
    \A c \in Controllers :
        WF_vars(Dequeue(c)) =>
            ((\E p \in ProducersOf(c) : pc[p] = "paused")
                ~> \E p \in ProducersOf(c) : pc[p] = "enqueue")

=============================================================================
