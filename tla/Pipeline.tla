------------------------------ MODULE Pipeline ------------------------------
(***************************************************************************)
(* The event pipeline of MarketDataCore (src/main_core.cpp):               *)
(*                                                                         *)
(*   MockFeed -> feedQ -> routing thread -> part[w] -> worker w -> outQ    *)
(*     -> distribution thread -> subscriber queue                          *)
(*                            -> recQ -> recording thread -> MDF file      *)
(*                                                                         *)
(* and the shutdown sequence of MarketDataCore::stop.  Every arrow out of  *)
(* a thread is a wait_for_capacity followed by an enqueue.                 *)
(*                                                                         *)
(* outQ has several producers.  A moodycamel queue keeps one FIFO          *)
(* sub-queue per producing thread and dequeues from any that is not empty, *)
(* so outQ[w] is the sub-queue of worker w.                                *)
(*                                                                         *)
(* Abstractions: an event is its symbol and the sequence number the feed   *)
(* gave it; normalising keeps both (or throws); wait_for_capacity is its   *)
(* hysteresis, with the check and the enqueue in one step (the module      *)
(* Backpressure takes them apart); one subscriber stands for the deepest   *)
(* client queue; the recorder's file is a log (the module Recorder has the *)
(* files).                                                                 *)
(***************************************************************************)
EXTENDS Integers, Sequences, FiniteSets, Functions

CONSTANTS
    Symbols,
    Workers,
    WorkerFor,      \* hash(symbol) % worker_count_
    HighWatermark, LowWatermark,
    BatchSize,      \* 100 in every thread of the code
    HasClient,      \* is a client subscribed to every topic?
    Round,          \* bound: events per round of the feed
    MaxSeq,         \* bound: events per symbol
    MaxErrors,      \* bound: events normalize_event throws on
    MaxFeedStarts   \* bound: starts of the feed

ASSUME ConstantsAssumption ==
    /\ IsFiniteSet(Symbols) /\ IsFiniteSet(Workers)
    /\ WorkerFor \in [Symbols -> Workers]
    /\ HighWatermark \in Nat /\ LowWatermark \in Nat /\ LowWatermark < HighWatermark
    /\ BatchSize \in Nat \ {0} /\ Round \in Nat \ {0}
    /\ HasClient \in BOOLEAN
    /\ MaxSeq \in Nat /\ MaxErrors \in Nat /\ MaxFeedStarts \in Nat \ {0}

VARIABLES
    nextSeq,    \* [Symbols -> Nat]     SymbolState::sequence
    feedPc, feedTodo, feedRunning, feedStarts,
    feedQ,      \* feed_to_normalizer_
    normRunning, routerPc,
    routerHold, \* the routing thread's events_batch
    part,       \* [Workers -> Seq]     partition_queues_
    workerPc,
    workerHold, \* [Workers -> Seq]     each worker's events_batch
    dropped,    \* [Symbols -> SUBSET Nat]  events counted in stats_.errors
    outQ,       \* [Workers -> Seq]     normalizer_to_publisher_
    coreRunning, distPc,
    distHold,   \* the distribution thread's frames_batch
    pubRunning,
    clientDepth, \* the subscriber's send_queue_
    published,  \* [Symbols -> Seq]     what subscribers were offered
    recQ,       \* normalizer_to_recorder_
    recRunning, recPc, recHold,
    recorded,   \* [Symbols -> Seq]     what was written to the MDF file
    waiting,    \* [Waiters -> BOOLEAN] inside the loop of wait_for_capacity
    stopPc      \* how far MarketDataCore::stop has come

feedVars == <<nextSeq, feedPc, feedTodo, feedRunning, feedStarts>>
normVars == <<routerPc, routerHold, part, workerPc, workerHold, dropped>>
distVars == <<distPc, distHold, clientDepth, published>>
recVars  == <<recPc, recHold, recorded>>
ctrlVars == <<coreRunning, normRunning, pubRunning, recRunning, stopPc>>
vars == <<feedVars, normVars, distVars, recVars, ctrlVars, feedQ, outQ, recQ, waiting>>

Event == Symbols \X (0..MaxSeq)
Waiters == {"feed", "router", "dist"} \cup Workers
StopSteps == {"running", "feed", "dist", "recorder", "publisher", "normalizer", "stopped"}

TypeOK ==
    /\ nextSeq \in [Symbols -> 0..MaxSeq]
    /\ feedPc \in {"done", "loop", "round"} /\ feedTodo \in 0..Round
    /\ feedStarts \in 0..MaxFeedStarts
    /\ feedRunning \in BOOLEAN /\ normRunning \in BOOLEAN /\ coreRunning \in BOOLEAN
    /\ pubRunning \in BOOLEAN /\ recRunning \in BOOLEAN
    /\ feedQ \in Seq(Event) /\ routerHold \in Seq(Event) /\ distHold \in Seq(Event)
    /\ recQ \in Seq(Event) /\ recHold \in Seq(Event)
    /\ part \in [Workers -> Seq(Event)] /\ workerHold \in [Workers -> Seq(Event)]
    /\ outQ \in [Workers -> Seq(Event)]
    /\ routerPc \in {"loop", "send", "done"}
    /\ workerPc \in [Workers -> {"loop", "send", "done"}]
    /\ dropped \in [Symbols -> SUBSET (0..MaxSeq)]
    /\ distPc \in {"loop", "fill", "publish", "store", "done"}
    /\ clientDepth \in Nat
    /\ published \in [Symbols -> Seq(0..MaxSeq)] /\ recorded \in [Symbols -> Seq(0..MaxSeq)]
    /\ recPc \in {"loop", "write", "done"}
    /\ waiting \in [Waiters -> BOOLEAN]
    /\ stopPc \in StopSteps

(* All components have been started, the feed last.                        *)
Init ==
    /\ nextSeq = [s \in Symbols |-> 0]
    /\ feedPc = "loop" /\ feedTodo = 0 /\ feedRunning = TRUE /\ feedStarts = 1
    /\ feedQ = <<>> /\ routerHold = <<>> /\ distHold = <<>> /\ recQ = <<>> /\ recHold = <<>>
    /\ part = [w \in Workers |-> <<>>]
    /\ workerHold = [w \in Workers |-> <<>>]
    /\ outQ = [w \in Workers |-> <<>>]
    /\ normRunning = TRUE /\ coreRunning = TRUE /\ pubRunning = TRUE /\ recRunning = TRUE
    /\ routerPc = "loop" /\ workerPc = [w \in Workers |-> "loop"]
    /\ distPc = "loop" /\ recPc = "loop"
    /\ dropped = [s \in Symbols |-> {}]
    /\ clientDepth = 0
    /\ published = [s \in Symbols |-> <<>>]
    /\ recorded = [s \in Symbols |-> <<>>]
    /\ waiting = [t \in Waiters |-> FALSE]
    /\ stopPc = "running"

-----------------------------------------------------------------------------
(* Mutant: the waiting loop does not look at running.                      *)
HasCapacityIgnoresStop(t, depth, run) ==
    \/ ~waiting[t] /\ depth < HighWatermark
    \/ waiting[t] /\ depth <= LowWatermark

(* Mutant: the waiting loop ends below the low watermark only.             *)
HasCapacityBelowLow(t, depth, run) ==
    \/ ~run
    \/ ~waiting[t] /\ depth < HighWatermark
    \/ waiting[t] /\ depth < LowWatermark

(* wait_for_capacity, seen from its caller t: it goes through below the    *)
(* high watermark, or when it has been waiting and the queue is down to    *)
(* the low watermark, or as soon as the component is told to stop.         *)
HasCapacity(t, depth, run) ==
    \/ ~run
    \/ ~waiting[t] /\ depth < HighWatermark
    \/ waiting[t] /\ depth <= LowWatermark

PassedBy(t) == waiting' = [waiting EXCEPT ![t] = FALSE]

outDepth == SumFunction([w \in Workers |-> Len(outQ[w])])

(* t finds the queue it is about to enqueue into full, and starts waiting. *)
Pause(t, depth, run) ==
    /\ run /\ ~waiting[t] /\ depth >= HighWatermark
    /\ waiting' = [waiting EXCEPT ![t] = TRUE]

(* The batch a thread dequeues from a queue with one producer.             *)
BatchOf(q) == SubSeq(q, 1, IF Len(q) < BatchSize THEN Len(q) ELSE BatchSize)

(* Mutant: the last event of a batch stays in the queue.                   *)
WithoutOffByOne(q, batch) == SubSeq(q, Len(batch), Len(q))

(* What is left of the queue.                                              *)
Without(q, batch) == SubSeq(q, Len(batch) + 1, Len(q))

-----------------------------------------------------------------------------
(* MockFeed.                                                               *)

(* running_ is looked at once per round; a round then emits all its        *)
(* events.  (With the bound used up the feed idles, as with rates of 0.)   *)
FeedLoop ==
    /\ feedPc = "loop"
    /\ \/ /\ feedRunning
          /\ \E n \in 1..Round :
                /\ n <= SumFunction([s \in Symbols |-> MaxSeq - nextSeq[s]])
                /\ feedTodo' = n
          /\ feedPc' = "round"
       \/ /\ ~feedRunning
          /\ feedPc' = "done"
          /\ UNCHANGED feedTodo
    /\ UNCHANGED <<nextSeq, feedRunning, feedStarts, normVars, distVars, recVars, ctrlVars,
                   feedQ, outQ, recQ, waiting>>

(* generate_l1_event, generate_l2_event and generate_trade_event.          *)
FeedEmit(s) ==
    /\ feedPc = "round" /\ nextSeq[s] < MaxSeq
    /\ HasCapacity("feed", Len(feedQ), feedRunning)
    /\ PassedBy("feed")
    /\ feedQ' = Append(feedQ, <<s, nextSeq[s]>>)
    /\ nextSeq' = [nextSeq EXCEPT ![s] = @ + 1]
    /\ feedTodo' = feedTodo - 1
    /\ feedPc' = IF feedTodo = 1 THEN "loop" ELSE "round"
    /\ UNCHANGED <<feedRunning, feedStarts, normVars, distVars, recVars, ctrlVars, outQ, recQ>>

(* MockFeed::start and MockFeed::stop called by the control server.  The   *)
(* sequence numbers survive; stop joins the thread before start runs.      *)
FeedStart ==
    /\ stopPc = "running" /\ ~feedRunning /\ feedPc = "done"
    /\ feedStarts < MaxFeedStarts
    /\ feedStarts' = feedStarts + 1
    /\ feedRunning' = TRUE /\ feedPc' = "loop"
    /\ UNCHANGED <<nextSeq, feedTodo, normVars, distVars, recVars, ctrlVars,
                   feedQ, outQ, recQ, waiting>>

FeedStop ==
    /\ stopPc = "running" /\ feedRunning
    /\ feedRunning' = FALSE
    /\ UNCHANGED <<nextSeq, feedPc, feedTodo, feedStarts, normVars, distVars, recVars, ctrlVars,
                   feedQ, outQ, recQ, waiting>>

-----------------------------------------------------------------------------
(* Normalizer.                                                             *)

RouterTake ==
    /\ routerPc = "loop" /\ feedQ # <<>>
    /\ routerHold' = BatchOf(feedQ)
    /\ feedQ' = Without(feedQ, routerHold')
    /\ routerPc' = "send"
    /\ UNCHANGED <<part, workerPc, workerHold, dropped, feedVars, distVars, recVars, ctrlVars,
                   outQ, recQ, waiting>>

(* Mutant: events go to any worker, not to the one of their symbol.        *)
RouterSendAnywhere ==
    \E w \in Workers :
        /\ routerPc = "send"
        /\ HasCapacity("router", Len(part[w]), normRunning)
        /\ PassedBy("router")
        /\ part' = [part EXCEPT ![w] = Append(@, Head(routerHold))]
        /\ routerHold' = Tail(routerHold)
        /\ routerPc' = IF Len(routerHold) = 1 THEN "loop" ELSE "send"
        /\ UNCHANGED <<workerPc, workerHold, dropped, feedVars, distVars, recVars, ctrlVars,
                       feedQ, outQ, recQ>>

RouterSend ==
    LET e == Head(routerHold)
        w == WorkerFor[e[1]]
    IN  /\ routerPc = "send"
        /\ HasCapacity("router", Len(part[w]), normRunning)
        /\ PassedBy("router")
        /\ part' = [part EXCEPT ![w] = Append(@, e)]
        /\ routerHold' = Tail(routerHold)
        /\ routerPc' = IF Len(routerHold) = 1 THEN "loop" ELSE "send"
        /\ UNCHANGED <<workerPc, workerHold, dropped, feedVars, distVars, recVars, ctrlVars,
                       feedQ, outQ, recQ>>

RouterExit ==
    /\ routerPc = "loop" /\ ~normRunning /\ feedQ = <<>>
    /\ routerPc' = "done"
    /\ UNCHANGED <<routerHold, part, workerPc, workerHold, dropped, feedVars, distVars, recVars,
                   ctrlVars, feedQ, outQ, recQ, waiting>>

WorkerTake(w) ==
    /\ workerPc[w] = "loop" /\ part[w] # <<>>
    /\ workerHold' = [workerHold EXCEPT ![w] = BatchOf(part[w])]
    /\ part' = [part EXCEPT ![w] = Without(@, BatchOf(@))]
    /\ workerPc' = [workerPc EXCEPT ![w] = "send"]
    /\ UNCHANGED <<routerPc, routerHold, dropped, feedVars, distVars, recVars, ctrlVars,
                   feedQ, outQ, recQ, waiting>>

WorkerAdvance(w) ==
    /\ workerPc[w] = "send"
    /\ workerHold' = [workerHold EXCEPT ![w] = Tail(@)]
    /\ workerPc' = [workerPc EXCEPT ![w] = IF Len(workerHold[w]) = 1 THEN "loop" ELSE "send"]

WorkerSend(w) ==
    /\ WorkerAdvance(w)
    /\ HasCapacity(w, outDepth, normRunning)
    /\ PassedBy(w)
    /\ outQ' = [outQ EXCEPT ![w] = Append(@, Head(workerHold[w]))]
    /\ UNCHANGED <<routerPc, routerHold, part, dropped, feedVars, distVars, recVars, ctrlVars,
                   feedQ, recQ>>

(* normalize_event throws: the event is counted as an error and dropped.   *)
WorkerFail(w) ==
    LET e == Head(workerHold[w])
    IN  /\ WorkerAdvance(w)
        /\ ~waiting[w]
        /\ SumFunction([s \in Symbols |-> Cardinality(dropped[s])]) < MaxErrors
        /\ dropped' = [dropped EXCEPT ![e[1]] = @ \cup {e[2]}]
        /\ UNCHANGED <<routerPc, routerHold, part, feedVars, distVars, recVars, ctrlVars,
                       feedQ, outQ, recQ, waiting>>

(* A worker leaves when its own partition is empty, whatever the routing   *)
(* thread still holds.                                                     *)
WorkerExit(w) ==
    /\ workerPc[w] = "loop" /\ ~normRunning /\ part[w] = <<>>
    /\ workerPc' = [workerPc EXCEPT ![w] = "done"]
    /\ UNCHANGED <<routerPc, routerHold, part, workerHold, dropped, feedVars, distVars, recVars,
                   ctrlVars, feedQ, outQ, recQ, waiting>>

-----------------------------------------------------------------------------
(* The distribution thread.                                                *)

DistTake(w) ==
    /\ (distPc = "loop" /\ coreRunning) \/ distPc = "fill"
    /\ Len(distHold) < BatchSize /\ outQ[w] # <<>>
    /\ distHold' = Append(distHold, Head(outQ[w]))
    /\ outQ' = [outQ EXCEPT ![w] = Tail(@)]
    /\ distPc' = "fill"
    /\ UNCHANGED <<clientDepth, published, feedVars, normVars, recVars, ctrlVars,
                   feedQ, recQ, waiting>>

DistTaken ==
    /\ distPc = "fill"
    /\ Len(distHold) = BatchSize \/ \A w \in Workers : outQ[w] = <<>>
    /\ distPc' = "publish"
    /\ UNCHANGED <<distHold, clientDepth, published, feedVars, normVars, recVars, ctrlVars,
                   feedQ, outQ, recQ, waiting>>

(* Mutant: a frame that does not fit a subscriber's queue is dropped.      *)
DistPublishDrops ==
    LET e == Head(distHold)
        fits == pubRunning /\ clientDepth < HighWatermark
    IN  /\ distPc = "publish"
        /\ PassedBy("dist")
        /\ clientDepth' = IF fits /\ HasClient THEN clientDepth + 1 ELSE clientDepth
        /\ published' = IF fits THEN [published EXCEPT ![e[1]] = Append(@, e[2])] ELSE published
        /\ distPc' = "store"
        /\ UNCHANGED <<distHold, feedVars, normVars, recVars, ctrlVars, feedQ, outQ, recQ>>

(* PubServer::publish: a no-op once the server is stopped, else a wait on  *)
(* the deepest queue of the subscribed clients and a send to each.         *)
DistPublish ==
    LET e == Head(distHold)
    IN  /\ distPc = "publish"
        /\ HasCapacity("dist", clientDepth, pubRunning)
        /\ PassedBy("dist")
        /\ IF pubRunning
             THEN /\ clientDepth' = IF HasClient THEN clientDepth + 1 ELSE clientDepth
                  /\ published' = [published EXCEPT ![e[1]] = Append(@, e[2])]
             ELSE UNCHANGED <<clientDepth, published>>
        /\ distPc' = "store"
        /\ UNCHANGED <<distHold, feedVars, normVars, recVars, ctrlVars, feedQ, outQ, recQ>>

DistStore ==
    /\ distPc = "store"
    /\ HasCapacity("dist", Len(recQ), coreRunning)
    /\ PassedBy("dist")
    /\ recQ' = Append(recQ, Head(distHold))
    /\ distHold' = Tail(distHold)
    /\ distPc' = IF Len(distHold) = 1 THEN "loop" ELSE "publish"
    /\ UNCHANGED <<clientDepth, published, feedVars, normVars, recVars, ctrlVars, feedQ, outQ>>

DistExit ==
    /\ distPc = "loop" /\ ~coreRunning
    /\ distPc' = "done"
    /\ UNCHANGED <<distHold, clientDepth, published, feedVars, normVars, recVars, ctrlVars,
                   feedQ, outQ, recQ, waiting>>

(* Mutant: the result of try_dequeue is not looked at.                     *)
ClientWriteUnchecked ==
    /\ clientDepth' = clientDepth - 1
    /\ UNCHANGED <<distPc, distHold, published, feedVars, normVars, recVars, ctrlVars,
                   feedQ, outQ, recQ, waiting>>

(* The subscriber's write thread gets a frame out to the network.          *)
ClientWrite ==
    /\ clientDepth > 0
    /\ clientDepth' = clientDepth - 1
    /\ UNCHANGED <<distPc, distHold, published, feedVars, normVars, recVars, ctrlVars,
                   feedQ, outQ, recQ, waiting>>

-----------------------------------------------------------------------------
(* The recording thread.                                                   *)

RecTake ==
    /\ recPc = "loop" /\ recRunning /\ recQ # <<>>
    /\ recHold' = BatchOf(recQ)
    /\ recQ' = Without(recQ, recHold')
    /\ recPc' = "write"
    /\ UNCHANGED <<recorded, feedVars, normVars, distVars, ctrlVars, feedQ, outQ, waiting>>

RecWrite ==
    LET e == Head(recHold)
    IN  /\ recPc = "write"
        /\ recorded' = [recorded EXCEPT ![e[1]] = Append(@, e[2])]
        /\ recHold' = Tail(recHold)
        /\ recPc' = IF Len(recHold) = 1 THEN "loop" ELSE "write"
        /\ UNCHANGED <<feedVars, normVars, distVars, ctrlVars, feedQ, outQ, recQ, waiting>>

RecExit ==
    /\ recPc = "loop" /\ ~recRunning
    /\ recPc' = "done"
    /\ UNCHANGED <<recHold, recorded, feedVars, normVars, distVars, ctrlVars,
                   feedQ, outQ, recQ, waiting>>

-----------------------------------------------------------------------------
(* A thread starts waiting for capacity.                                   *)
FeedPause == feedPc = "round" /\ Pause("feed", Len(feedQ), feedRunning)
RouterPause ==
    routerPc = "send" /\ Pause("router", Len(part[WorkerFor[Head(routerHold)[1]]]), normRunning)
WorkerPause(w) == workerPc[w] = "send" /\ Pause(w, outDepth, normRunning)
DistPause ==
    \/ distPc = "publish" /\ Pause("dist", clientDepth, pubRunning)
    \/ distPc = "store" /\ Pause("dist", Len(recQ), coreRunning)

StartWaiting ==
    /\ FeedPause \/ RouterPause \/ DistPause \/ \E w \in Workers : WorkerPause(w)
    /\ UNCHANGED <<feedVars, normVars, distVars, recVars, ctrlVars, feedQ, outQ, recQ>>

-----------------------------------------------------------------------------
(* MarketDataCore::stop, on the main thread.                               *)

StopUnchanged == UNCHANGED <<nextSeq, feedPc, feedTodo, feedStarts, normVars, distVars, recVars,
                             feedQ, outQ, recQ, waiting>>

(* running_ is cleared and MockFeed::stop entered.                         *)
StopBegin ==
    /\ stopPc = "running"
    /\ stopPc' = "feed" /\ coreRunning' = FALSE /\ feedRunning' = FALSE
    /\ UNCHANGED <<normRunning, pubRunning, recRunning>> /\ StopUnchanged

(* The feed is joined; the join of the distribution thread begins.         *)
FeedJoined ==
    /\ stopPc = "feed" /\ feedPc = "done"
    /\ stopPc' = "dist"
    /\ UNCHANGED <<coreRunning, feedRunning, normRunning, pubRunning, recRunning>> /\ StopUnchanged

DistJoined ==
    /\ stopPc = "dist" /\ distPc = "done"
    /\ stopPc' = "recorder" /\ recRunning' = FALSE
    /\ UNCHANGED <<coreRunning, feedRunning, normRunning, pubRunning>> /\ StopUnchanged

RecorderJoined ==
    /\ stopPc = "recorder" /\ recPc = "done"
    /\ stopPc' = "publisher" /\ pubRunning' = FALSE
    /\ UNCHANGED <<coreRunning, feedRunning, normRunning, recRunning>> /\ StopUnchanged

PublisherStopped ==
    /\ stopPc = "publisher"
    /\ stopPc' = "normalizer" /\ normRunning' = FALSE
    /\ UNCHANGED <<coreRunning, feedRunning, pubRunning, recRunning>> /\ StopUnchanged

NormalizerJoined ==
    /\ stopPc = "normalizer"
    /\ routerPc = "done" /\ \A w \in Workers : workerPc[w] = "done"
    /\ stopPc' = "stopped"
    /\ UNCHANGED <<coreRunning, feedRunning, normRunning, pubRunning, recRunning>> /\ StopUnchanged

-----------------------------------------------------------------------------
FeedStep == FeedLoop \/ \E s \in Symbols : FeedEmit(s)
RouterStep == RouterTake \/ RouterSend \/ RouterExit
WorkerStep(w) == WorkerTake(w) \/ WorkerSend(w) \/ WorkerFail(w) \/ WorkerExit(w)
DistStep == (\E w \in Workers : DistTake(w)) \/ DistTaken \/ DistPublish \/ DistStore \/ DistExit
RecStep == RecTake \/ RecWrite \/ RecExit
StopStep == FeedJoined \/ DistJoined \/ RecorderJoined \/ PublisherStopped \/ NormalizerJoined

Next ==
    \/ FeedStep \/ FeedStart \/ FeedStop
    \/ RouterStep
    \/ \E w \in Workers : WorkerStep(w)
    \/ DistStep \/ ClientWrite
    \/ RecStep
    \/ StartWaiting
    \/ StopBegin \/ StopStep

Spec == Init /\ [][Next]_vars

(* The scheduler runs every thread; nobody promises that a subscriber      *)
(* reads its socket.                                                       *)
ThreadFairness ==
    /\ WF_vars(FeedStep) /\ WF_vars(RouterStep) /\ \A w \in Workers : WF_vars(WorkerStep(w))
    /\ WF_vars(DistStep) /\ WF_vars(RecStep) /\ WF_vars(StopStep)

ThreadSpec == Spec /\ ThreadFairness

(* As ThreadSpec, with subscribers that keep reading.                      *)
LiveSpec == ThreadSpec /\ WF_vars(ClientWrite)

-----------------------------------------------------------------------------
(* Properties.                                                             *)

(* The queues and batches on the way of symbol s, from the file's end.     *)
Path(s) ==
    LET w == WorkerFor[s]
    IN  <<recHold, recQ, distHold, outQ[w], workerHold[w], part[w], routerHold, feedQ>>
Stages == 1..8

(* The numbers of the events of s in a queue or batch.                     *)
Of(q, s) == {q[i][2] : i \in {j \in DOMAIN q : q[j][1] = s}}

(* The events of s between the feed and the file.                          *)
InFlight(s) ==
    LET w == WorkerFor[s]
    IN  Of(recHold, s) \cup Of(recQ, s) \cup Of(distHold, s) \cup Of(outQ[w], s)
          \cup Of(workerHold[w], s) \cup Of(part[w], s) \cup Of(routerHold, s) \cup Of(feedQ, s)

Increasing(q) == \A i, j \in DOMAIN q : i < j => q[i] < q[j]
InOrder(q, s) ==
    \A i, j \in DOMAIN q : i < j /\ q[i][1] = s /\ q[j][1] = s => q[i][2] < q[j][2]
Precede(N, M) == \A n \in N, m \in M : n < m

(* The stream of s: in order and exactly once, every event numbered so far *)
(* and not dropped.                                                        *)
StreamOf(s) ==
    LET path == Path(s)
        numbers == [p \in Stages |-> Of(path[p], s)]
    IN  /\ Increasing(recorded[s])
        /\ Precede(Range(recorded[s]), InFlight(s))
        /\ \A p \in Stages : InOrder(path[p], s)
        /\ \A p, q \in Stages : p < q => Precede(numbers[p], numbers[q])
        /\ Range(recorded[s]) \cup InFlight(s) = (0..nextSeq[s] - 1) \ dropped[s]

(* "Per-symbol ordering is preserved while allowing unrelated symbols to   *)
(* be processed concurrently": file, queues and batches along the way of a *)
(* symbol hold, in order and exactly once, every event the feed has        *)
(* numbered, except those normalisation gave up on.                        *)
StreamIntact == \A s \in Symbols : StreamOf(s)

(* What the recorder was given, and the frame in the distributor's hand    *)
(* that has been published and not yet stored.                             *)
Stored(s) == Range(recorded[s]) \cup Of(recHold, s) \cup Of(recQ, s)
InHand(s) == IF distPc = "store" THEN Of(<<Head(distHold)>>, s) ELSE {}

(* Subscribers and the recorder are given the same stream: what has been   *)
(* handed to the recorder (in the order StreamIntact says) is what was     *)
(* published, in order too, and the recorder is behind by at most the      *)
(* frame in the distributor's hand.                                        *)
RecorderFollowsPublisher ==
    \A s \in Symbols :
        Increasing(published[s]) /\ Range(published[s]) = Stored(s) \cup InHand(s)

(* Pipeline implements the abstract per-symbol stream.                     *)
Stream == INSTANCE SymbolStream
            WITH produced <- nextSeq,
                 flight <- [s \in Symbols |-> InFlight(s)],
                 delivered <- recorded
ImplementsStream == Stream!Spec

(* Every event the feed emits is eventually written, or counted as an      *)
(* error, as long as nobody stops the system.                              *)
EventuallyRecorded ==
    \A s \in Symbols, n \in 0..(MaxSeq - 1) :
        nextSeq[s] > n ~>
            \/ n \in Range(recorded[s])
            \/ n \in dropped[s]
            \/ stopPc # "running"

(* "Shutdown always completes".                                            *)
ShutdownCompletes == stopPc = "feed" ~> stopPc = "stopped"

=============================================================================
