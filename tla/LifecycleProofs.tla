--------------------------- MODULE LifecycleProofs --------------------------
(***************************************************************************)
(* Proofs about Lifecycle, for any number of signals, control requests and *)
(* threads of the feed: its types, and that main ends with nothing left    *)
(* running.                                                                *)
(***************************************************************************)
EXTENDS Lifecycle, FiniteSetTheorems, TLAPS

-----------------------------------------------------------------------------
(* The inductive invariant.                                                *)

(* Handlers count themselves at most once, when they are done.             *)
Counted == count <= Cardinality({s \in Signals : handler[s] = "done"})

(* feed_control_mutex_: one request at a time is in the feed's calls, and  *)
(* only after it has taken the mutex.                                      *)
OneRequest ==
    /\ \A r \in Requests : feedOp[r] # "none" => request[r] = "feed"
    /\ \A r, o \in Requests : request[r] = "feed" /\ request[o] = "feed" => r = o

(* The main thread: where it may be inside the feed's calls, and which     *)
(* component comes next.                                                   *)
MainInFeed ==
    /\ main \notin {"startFeed", "stopFeed", "freeFeed"} \union Ended => feedOp["main"] = "none"
    /\ main \in {"construct", "start"} => k \in 1..6

(* What still runs while the components are stopped in StopOrder.          *)
StillOn ==
    /\ main = "stop" /\ k # 1 => on \subseteq {StopOrder[j] : j \in k..6}
    /\ main \in {"construct", "request", "reset", "members", "freeFeed", "exit"} => on = {}

(* Before the core is there nothing runs.                                  *)
NothingYet ==
    main = "construct" =>
        /\ \A r \in Requests : request[r] = "none"
        /\ \A u \in FeedUsers : feedOp[u] = "none"
        /\ ~feedRunning /\ workers = {}

(* The feed between two calls: without running_ there is no thread, and    *)
(* with it at most the one in worker_thread_.                              *)
FeedIdle ==
    /\ feedRunning => workers \subseteq {workerThread}
    /\ ~feedRunning => workers = {} /\ workerThread = 0

(* The feed as long as its calls come one after the other.                 *)
OneCaller ==
    ~overlap =>
        /\ \A u, v \in FeedUsers : feedOp[u] # "none" /\ feedOp[v] # "none" => u = v
        /\ (\A u \in FeedUsers : feedOp[u] \in {"none", "start", "stop"}) => FeedIdle
        /\ \A u \in FeedUsers :
              /\ feedOp[u] = "assign" => feedRunning /\ workers = {} /\ workerThread = 0
              /\ feedOp[u] = "join" =>
                    workers \subseteq {workerThread} /\ waitsFor[u] = workerThread
              /\ feedOp[u] = "reset" => workers = {}
              /\ feedOp[u] # "joinOld"

(* ~MockFeed is the last to call stop.                                     *)
LastCall ==
    main = "freeFeed" /\ ~overlap =>
        /\ \A r \in Requests : feedOp[r] = "none"
        /\ feedOp["main"] \in {"none", "stop", "join", "reset"}
        /\ feedOp["main"] # "stop" => ~feedRunning

IInv ==
    /\ TypeOK /\ Counted /\ OneRequest /\ MainInFeed
    /\ StillOn /\ NothingYet /\ OneCaller /\ LastCall /\ CleanExit

-----------------------------------------------------------------------------
(* The steps by what they leave alone.                                     *)

(* The main thread outside of the feed's calls.                            *)
MainAlone ==
    \/ Construct \/ ConstructFails \/ StartComponent \/ FeedStarted
    \/ RunLock \/ RunTest \/ RunPark \/ IoJoined \/ NeverReturns
    \/ FeedStopped \/ StopComponent \/ StopLock \/ StopRequests \/ Reset \/ Exit

(* The main thread calling the feed.                                       *)
MainEnters == StartFeed \/ StopFeed \/ DestroyFeed

LEMMA MainAloneKeeps ==
  ASSUME MainAlone
  PROVE  UNCHANGED <<signalVars, request, feedVars>>
  BY DEF MainAlone, MainUnchanged, Construct, ConstructFails, StartComponent, FeedStarted,
         RunLock, RunTest, RunPark, IoJoined, NeverReturns, FeedStopped, StopComponent, StopLock,
         StopRequests, Reset, Exit

LEMMA MainEntersKeeps ==
  ASSUME MainEnters
  PROVE  /\ UNCHANGED <<signalVars, request, k, round, failed, on, core, mutex, requested>>
         /\ \E op \in {"start", "stop"} : EnterFeed("main", op)
         /\ \/ main = "start" /\ main' = "startFeed"
            \/ main = "stop" /\ main' = "stopFeed"
            \/ main = "members" /\ main' = "freeFeed" /\ EnterFeed("main", "stop")
  BY DEF MainEnters, MainUnchanged, MainAt, StartFeed, StopFeed, DestroyFeed

LEMMA HandlerKeeps ==
  ASSUME NEW s \in Signals, HandlerRuns(s) \/ SignalArrives(s)
  PROVE  /\ UNCHANGED <<k, round, failed, on, core, feedVars, request>>
         /\ Alive
         /\ main' \in {main, "forced"} \/ (main = "wait" /\ main' = "woken")
  BY DEF HandlerRuns, FirstSignal, LaterSignal, MarkShutdown, FindCore, HandlerSets,
         HandlerNotifies, SignalArrives, Arrives, HandlerStep, SignalUnchanged

LEMMA FeedCallKeeps ==
  ASSUME NEW u \in FeedUsers, FeedCall(u)
  PROVE  /\ UNCHANGED <<mainVars, mutex, requested, signalVars, request, overlap>>
         /\ Alive /\ feedOp[u] # "none"
  BY DEF FeedCall, FeedStep, FeedStartFlag, FeedStartThread, FeedJoinOld, FeedStopFlag, FeedJoin,
         FeedReset

LEMMA RequestKeeps ==
  ASSUME NEW r \in Requests, AcceptRequest(r) \/ HandleRequest(r) \/ FinishRequest(r)
  PROVE  UNCHANGED <<mainVars, mutex, requested, signalVars>> /\ Alive
  BY DEF AcceptRequest, HandleRequest, FinishRequest, RequestUnchanged

LEMMA NextCases ==
  ASSUME Next
  PROVE  \/ MainAlone \/ MainEnters \/ StartFails
         \/ \E s \in Signals : HandlerRuns(s) \/ SignalArrives(s)
         \/ \E r \in Requests : AcceptRequest(r) \/ HandleRequest(r) \/ FinishRequest(r)
         \/ \E u \in FeedUsers : FeedCall(u)
         \/ \E w \in 1..MaxWorkers : WorkerEnds(w)
  BY DEF Next, MainThread, MainAlone, MainEnters, FeedUsers

(* A set whose members are all the same has at most one.                   *)
LEMMA AtMostOne ==
  ASSUME NEW S, \A x, y \in S : x = y
  PROVE  Cardinality(S) <= 1
<1>1. CASE S = {}
  BY <1>1, FS_EmptySet
<1>2. CASE S # {}
  <2>1. PICK x \in S : TRUE
    BY <1>2
  <2>2. S = {x}
    BY <2>1
  <2> QED
    BY <2>2, FS_Singleton
<1> QED
  BY <1>1, <1>2

-----------------------------------------------------------------------------
(* Requests and handlers.                                                  *)

LEMMA OneRequestStep ==
  ASSUME TypeOK, OneRequest, Next
  PROVE  OneRequest'
<1> USE LifecycleAssumption DEF OneRequest, TypeOK, feedVars, FeedUsers
<1>1. CASE UNCHANGED <<request, feedOp>>
  BY <1>1
<1>2. CASE MainEnters
  BY <1>2, MainEntersKeeps DEF EnterFeed
<1>3. ASSUME NEW u \in FeedUsers, FeedCall(u) PROVE OneRequest'
  <2>1. feedOp[u] # "none" /\ UNCHANGED request
    BY <1>3, FeedCallKeeps
  <2>2. \E op : feedOp' = [feedOp EXCEPT ![u] = op]
    BY <1>3 DEF FeedCall, FeedStartFlag, FeedStartThread, FeedJoinOld, FeedStopFlag, FeedJoin,
                FeedReset
  <2> QED
    BY <2>1, <2>2
<1>4. ASSUME NEW r \in Requests, AcceptRequest(r) PROVE OneRequest'
  BY <1>4 DEF AcceptRequest
<1>5. ASSUME NEW r \in Requests, HandleRequest(r) PROVE OneRequest'
  BY <1>5 DEF HandleRequest, EnterFeed
<1>6. ASSUME NEW r \in Requests, FinishRequest(r) PROVE OneRequest'
  BY <1>6 DEF FinishRequest
<1>7. CASE MainAlone
  BY <1>1, <1>7, MainAloneKeeps
<1>8. CASE StartFails
  BY <1>1, <1>8 DEF StartFails, MainUnchanged
<1>9. ASSUME NEW s \in Signals, HandlerRuns(s) \/ SignalArrives(s)
      PROVE  OneRequest'
  BY <1>1, <1>9, HandlerKeeps
<1>10. ASSUME NEW w \in 1..MaxWorkers, WorkerEnds(w) PROVE OneRequest'
  BY <1>1, <1>10 DEF WorkerEnds
<1> QED
  BY <1>2, <1>3, <1>4, <1>5, <1>6, <1>7, <1>8, <1>9, <1>10, NextCases

(* What a step of a handler does to the set of handlers that are done.     *)
LEMMA DoneAfter ==
  ASSUME handler \in [Signals -> {"unsent", "mark", "find", "lock", "notify", "done"}],
         NEW s \in Signals, handler[s] # "done",
         NEW to, handler' = [handler EXCEPT ![s] = to]
  PROVE  {x \in Signals : handler[x] = "done"}' =
            {x \in Signals : handler[x] = "done"} \cup (IF to = "done" THEN {s} ELSE {})
  OBVIOUS

LEMMA CountedStep ==
  ASSUME TypeOK, Counted, Next
  PROVE  Counted' /\ count' \in Nat
<1> DEFINE D == {s \in Signals : handler[s] = "done"}
<1>1. IsFiniteSet(D) /\ Cardinality(D) \in Nat /\ count \in Nat
  <2>1. IsFiniteSet(Signals) /\ D \in SUBSET Signals
    BY FS_Interval, LifecycleAssumption DEF Signals
  <2> QED
    BY <2>1, FS_Subset, FS_CardinalityType DEF TypeOK
<1>2. ASSUME UNCHANGED <<handler, count>> PROVE Counted' /\ count' \in Nat
  BY <1>1, <1>2 DEF Counted
<1>3. ASSUME NEW s \in Signals, HandlerRuns(s) \/ SignalArrives(s)
      PROVE  Counted' /\ count' \in Nat
  <2>1. PICK to : /\ handler[s] # "done" /\ handler' = [handler EXCEPT ![s] = to]
                  /\ count' = count \/ (to = "done" /\ count' = count + 1)
    BY <1>3 DEF HandlerRuns, FirstSignal, LaterSignal, MarkShutdown, FindCore, HandlerSets,
                HandlerNotifies, SignalArrives, Arrives, HandlerStep
  <2>2. D' = D \cup (IF to = "done" THEN {s} ELSE {})
    BY <2>1, DoneAfter DEF TypeOK
  <2>3. s \notin D
    BY <2>1
  <2> HIDE DEF D
  <2>4. CASE to = "done"
    <3>1. D' = D \cup {s}
      BY <2>2, <2>4
    <3>2. Cardinality(D') = Cardinality(D) + 1
      BY <1>1, <2>3, <3>1, FS_AddElement
    <3> QED
      BY <1>1, <2>1, <3>2 DEF Counted, D
  <2>5. CASE to # "done"
    <3>1. D' = D
      BY <2>2, <2>5
    <3> QED
      BY <1>1, <2>1, <2>5, <3>1 DEF Counted, D
  <2> QED
    BY <2>4, <2>5
<1>4. CASE MainAlone \/ MainEnters
  BY <1>2, <1>4, MainAloneKeeps, MainEntersKeeps DEF signalVars
<1>5. CASE StartFails
  BY <1>2, <1>5 DEF StartFails, MainUnchanged, signalVars
<1>6. ASSUME NEW r \in Requests, AcceptRequest(r) \/ HandleRequest(r) \/ FinishRequest(r)
      PROVE  Counted' /\ count' \in Nat
  BY <1>2, <1>6, RequestKeeps DEF signalVars
<1>7. ASSUME NEW u \in FeedUsers, FeedCall(u) PROVE Counted' /\ count' \in Nat
  BY <1>2, <1>7, FeedCallKeeps DEF signalVars
<1>8. ASSUME NEW w \in 1..MaxWorkers, WorkerEnds(w) PROVE Counted' /\ count' \in Nat
  BY <1>2, <1>8 DEF WorkerEnds, signalVars
<1> QED
  BY <1>3, <1>4, <1>5, <1>6, <1>7, <1>8, NextCases

(* A count of some of the handlers is at most the number of signals.       *)
LEMMA CountBound ==
  ASSUME NEW n \in Nat, NEW D \in SUBSET Signals, n <= Cardinality(D)
  PROVE  n \in 0..MaxSignals
<1>1. IsFiniteSet(Signals) /\ Cardinality(Signals) <= MaxSignals /\ Cardinality(Signals) \in Nat
  <2>1. MaxSignals \in Nat /\ 1 \in Int /\ MaxSignals \in Int
    BY LifecycleAssumption
  <2>2. /\ IsFiniteSet(Signals)
        /\ Cardinality(Signals) = IF 1 > MaxSignals THEN 0 ELSE MaxSignals - 1 + 1
    BY <2>1, FS_Interval DEF Signals
  <2> QED
    BY <2>1, <2>2
<1>2. Cardinality(D) <= Cardinality(Signals) /\ Cardinality(D) \in Nat
  BY <1>1, FS_Subset, FS_CardinalityType
<1> QED
  BY <1>1, <1>2, LifecycleAssumption

-----------------------------------------------------------------------------
(* Types.                                                                  *)

(* The order in which start brings the components up.                      *)
LEMMA StartOrderIs ==
  /\ StartOrder[1] = "distributor" /\ StartOrder[2] = "normalizer"
  /\ StartOrder[3] = "publisher" /\ StartOrder[4] = "recorder"
  /\ StartOrder[5] = "control" /\ StartOrder[6] = "feed"
  BY DEF StartOrder

LEMMA StopOrderIs ==
  /\ StopOrder[1] = "feed" /\ StopOrder[2] = "distributor"
  /\ StopOrder[3] = "recorder" /\ StopOrder[4] = "publisher"
  /\ StopOrder[5] = "normalizer" /\ StopOrder[6] = "control"
  BY DEF StopOrder

LEMMA ComponentsAre ==
  Components = {"distributor", "normalizer", "publisher", "recorder", "control"}
<1>1. \A i \in 1..6 : i = 1 \/ i = 2 \/ i = 3 \/ i = 4 \/ i = 5 \/ i = 6
  OBVIOUS
<1>2. 1 \in 1..6 /\ 2 \in 1..6 /\ 3 \in 1..6 /\ 4 \in 1..6 /\ 5 \in 1..6
  OBVIOUS
<1> QED
  BY <1>1, <1>2, StartOrderIs DEF Components

(* A component that start has not come to the feed with.                   *)
LEMMA BeforeFeed ==
  ASSUME k \in 1..6, StartOrder[k] # "feed"
  PROVE  k \in 1..5 /\ StartOrder[k] \in Components
<1>1. k \in 1..5
  BY StartOrderIs
<1> QED
  BY <1>1 DEF Components

(* The main thread holds shutdown_mutex_ in these places.                  *)
Holding == {"test", "park", "request"}

LEMMA TypeStep ==
  ASSUME TypeOK, MainInFeed, Next, count' \in 0..MaxSignals,
         (Cardinality({r \in Requests : feedOp[r] # "none"}) <= 1)'
  PROVE  TypeOK'
<1> USE DEF TypeOK, mainVars, signalVars, feedVars
<1>0. (mutex = TRUE /\ main \in Holding) \/ (mutex = FALSE /\ main \notin Holding)
  BY DEF Holding
<1>1. ASSUME UNCHANGED <<signalVars, feedVars, request>>,
             main' \in {"construct", "start", "startFeed", "run", "test", "park",
                        "wait", "woken", "io", "stop", "stopFeed", "request", "reset",
                        "members", "freeFeed", "hung"} \union Ended,
             k' \in 1..7, round' \in 1..2, on' \subseteq Components,
             failed' \in BOOLEAN, core' \in BOOLEAN, requested' \in BOOLEAN,
             (mutex' = TRUE /\ main' \in Holding) \/ (mutex' = FALSE /\ main' \notin Holding)
      PROVE  TypeOK'
  <2>1. mutex' \in BOOLEAN /\ (mutex' <=> main' \in {"test", "park", "request"})
    BY <1>1 DEF Holding
  <2> QED
    BY <1>1, <2>1
<1>2. CASE MainAlone
  <2>1. UNCHANGED <<signalVars, request, feedVars>>
    BY <1>2, MainAloneKeeps
  <2>2. CASE StartComponent
    <3>1. k \in 1..5 /\ StartOrder[k] \in Components
      BY <2>2, BeforeFeed DEF StartComponent, MainAt, MainInFeed
    <3> QED
      BY <1>0, <1>1, <2>1, <2>2, <3>1 DEF StartComponent, MainAt, Holding
  <2>3. CASE Construct
    BY <1>0, <1>1, <2>1, <2>3 DEF Construct, MainAt, Holding
  <2>4. CASE ConstructFails
    BY <1>0, <1>1, <2>1, <2>4 DEF ConstructFails, MainAt, Holding, Ended
  <2>5. CASE FeedStarted
    BY <1>0, <1>1, <2>1, <2>5 DEF FeedStarted, MainAt, Holding
  <2>6. CASE RunLock
    BY <1>0, <1>1, <2>1, <2>6 DEF RunLock, MainAt, Holding
  <2>7. CASE RunTest
    <3>1. CASE requested
      <4>1. /\ main' = "io" /\ mutex' = FALSE
            /\ UNCHANGED <<k, round, failed, on, core, requested>>
        BY <2>7, <3>1 DEF RunTest
      <4>2. /\ failed' \in BOOLEAN /\ requested' \in BOOLEAN /\ core' \in BOOLEAN
            /\ on' \subseteq Components /\ round' \in 1..2
        BY <4>1
      <4>3. (mutex' = TRUE /\ main' \in Holding) \/ (mutex' = FALSE /\ main' \notin Holding)
        BY <4>1 DEF Holding
      <4>4. k' \in 1..7
        BY <4>1
      <4> HIDE DEF TypeOK
      <4> QED
        BY <1>1, <2>1, <4>1, <4>2, <4>3, <4>4
    <3>2. CASE ~requested
      BY <1>0, <1>1, <2>1, <2>7, <3>2 DEF RunTest, MainAt, Holding
    <3> QED
      BY <3>1, <3>2
  <2>8. CASE RunPark
    BY <1>0, <1>1, <2>1, <2>8 DEF RunPark, MainAt, Holding
  <2>9. CASE FeedStopped
    BY <1>0, <1>1, <2>1, <2>9 DEF FeedStopped, MainAt, Holding
  <2>10. CASE StopComponent
    BY <1>0, <1>1, <2>1, <2>10 DEF StopComponent, MainAt, Holding
  <2>11. CASE StopLock
    BY <1>0, <1>1, <2>1, <2>11 DEF StopLock, MainAt, Holding
  <2>12. CASE StopRequests
    BY <1>0, <1>1, <2>1, <2>12 DEF StopRequests, MainAt, Holding
  <2>13. CASE Reset
    <3>1. /\ core' = FALSE /\ round' = 2 /\ main' = "stop" /\ k' = 1 /\ main = "reset"
          /\ UNCHANGED <<failed, on, mutex, requested>>
      BY <2>13 DEF Reset, MainAt
    <3>2. mutex' = FALSE
      BY <1>0, <3>1 DEF Holding
    <3>3. failed' \in BOOLEAN /\ requested' \in BOOLEAN /\ on' \subseteq Components
      BY <3>1
    <3>4. (mutex' = TRUE /\ main' \in Holding) \/ (mutex' = FALSE /\ main' \notin Holding)
      BY <3>1, <3>2 DEF Holding
    <3>5. k' \in 1..7 /\ round' \in 1..2
      BY <3>1
    <3>6. core' \in BOOLEAN
      BY <3>1
    <3> HIDE DEF TypeOK
    <3> QED
      BY <1>1, <2>1, <3>1, <3>3, <3>4, <3>5, <3>6
  <2>14. CASE Exit
    BY <1>0, <1>1, <2>1, <2>14 DEF Exit, MainAt, Holding, Ended
  <2>15. CASE IoJoined
    BY <1>0, <1>1, <2>1, <2>15 DEF IoJoined, MainAt, Holding
  <2>16. CASE NeverReturns
    BY <1>0, <1>1, <2>1, <2>16 DEF NeverReturns, MainAt, Holding
  <2> QED
    BY <1>2, <2>2, <2>3, <2>4, <2>5, <2>6, <2>7, <2>8, <2>9, <2>10, <2>11, <2>12, <2>13,
       <2>14, <2>15, <2>16 DEF MainAlone
(* Calls of the feed.                                                      *)
<1>3. ASSUME UNCHANGED <<mutex, requested, signalVars, k, round, failed, on, core>>,
             main' = main \/ (main' \in {"startFeed", "stopFeed", "freeFeed"} /\ ~mutex),
             NEW u \in FeedUsers, NEW op \in {"start", "stop"}, EnterFeed(u, op),
             request' \in [Requests -> {"none", "accepted", "feed", "done"}]
      PROVE  TypeOK'
  <2>1. overlap' \in BOOLEAN
    BY <1>3 DEF EnterFeed
  <2>2. feedOp' \in [FeedUsers -> {"none", "start", "assign", "joinOld", "stop", "join",
                                   "reset"}]
    BY <1>3 DEF EnterFeed
  <2>3. UNCHANGED <<feedRunning, workerThread, workers, waitsFor>>
    BY <1>3 DEF EnterFeed
  <2>4. main' \in {"construct", "start", "startFeed", "run", "test", "park", "wait", "woken",
                   "io", "stop", "stopFeed", "request", "reset", "members", "freeFeed",
                   "hung"} \union Ended
    BY <1>3
  <2>5. mutex' \in BOOLEAN /\ (mutex' <=> main' \in {"test", "park", "request"})
    BY <1>0, <1>3 DEF Holding
  <2> QED
    BY <1>3, <2>1, <2>2, <2>3, <2>4, <2>5
<1>4. CASE MainEnters
  <2>1. "main" \in FeedUsers /\ ~mutex
    BY <1>4, MainEntersKeeps DEF FeedUsers
  <2> QED
    BY <1>3, <1>4, <2>1, MainEntersKeeps
<1>5. ASSUME NEW r \in Requests, HandleRequest(r) PROVE TypeOK'
  <2>1. request' \in [Requests -> {"none", "accepted", "feed", "done"}]
    BY <1>5 DEF HandleRequest
  <2>2. PICK op \in {"start", "stop"} : EnterFeed(r, op)
    BY <1>5 DEF HandleRequest
  <2>3. UNCHANGED <<main, mutex, requested, signalVars, k, round, failed, on, core>>
    BY <1>5 DEF HandleRequest, RequestUnchanged
  <2>4. r \in FeedUsers
    BY DEF FeedUsers
  <2> QED
    BY <1>0, <1>3, <2>1, <2>2, <2>3, <2>4 DEF Holding
<1>6. ASSUME NEW r \in Requests, AcceptRequest(r) \/ FinishRequest(r) PROVE TypeOK'
  <2>1. request' \in [Requests -> {"none", "accepted", "feed", "done"}]
    BY <1>6 DEF AcceptRequest, FinishRequest
  <2>2. UNCHANGED <<mainVars, mutex, requested, signalVars, feedVars>>
    BY <1>6 DEF AcceptRequest, FinishRequest, RequestUnchanged
  <2> QED
    BY <2>1, <2>2
<1>7. CASE StartFails
  <2>1. k \in 1..6 /\ ~mutex
    BY <1>7 DEF StartFails, MainAt, MainInFeed
  <2>2. on' \subseteq Components /\ feedRunning' \in BOOLEAN
    <3>1. CASE StartOrder[k] = "feed"
      BY <1>7, <3>1 DEF StartFails
    <3>2. CASE StartOrder[k] # "feed"
      BY <1>7, <2>1, <3>2, BeforeFeed DEF StartFails
    <3> QED
      BY <3>1, <3>2
  <2> QED
    BY <1>7, <2>1, <2>2 DEF StartFails, MainUnchanged
<1>8. ASSUME NEW u \in FeedUsers, FeedCall(u) PROVE TypeOK'
  <2>1. UNCHANGED <<mainVars, mutex, requested, signalVars, request, overlap>>
    BY <1>8, FeedCallKeeps
  <2>2. /\ feedRunning' \in BOOLEAN /\ workers' \subseteq 1..MaxWorkers
        /\ workerThread' \in 0..MaxWorkers
        /\ feedOp' \in [FeedUsers -> {"none", "start", "assign", "joinOld", "stop", "join",
                                      "reset"}]
        /\ waitsFor' \in [FeedUsers -> 0..MaxWorkers]
    <3> USE LifecycleAssumption
    <3>1. CASE FeedStartFlag(u)
      BY <3>1 DEF FeedStartFlag
    <3>2. CASE FeedStartThread(u)
      <4>1. PICK w \in 1..MaxWorkers : workers' = workers \union {w} /\ workerThread' = w
        BY <3>2 DEF FeedStartThread, NewWorkers
      <4>2. feedOp' \in [FeedUsers -> {"none", "start", "assign", "joinOld", "stop", "join",
                                       "reset"}]
        BY <3>2 DEF FeedStartThread
      <4>3. waitsFor' \in [FeedUsers -> 0..MaxWorkers] /\ feedRunning' = feedRunning
        BY <3>2 DEF FeedStartThread
      <4> QED
        BY <4>1, <4>2, <4>3
    <3>3. CASE FeedJoinOld(u)
      BY <3>3 DEF FeedJoinOld
    <3>4. CASE FeedStopFlag(u)
      BY <3>4 DEF FeedStopFlag
    <3>5. CASE FeedJoin(u)
      BY <3>5 DEF FeedJoin
    <3>6. CASE FeedReset(u)
      BY <3>6 DEF FeedReset
    <3> QED
      BY <1>8, <3>1, <3>2, <3>3, <3>4, <3>5, <3>6 DEF FeedCall
  <2> QED
    BY <2>1, <2>2
<1>9. ASSUME NEW w \in 1..MaxWorkers, WorkerEnds(w) PROVE TypeOK'
  BY <1>9 DEF WorkerEnds
<1>10. ASSUME NEW s \in Signals, HandlerRuns(s) \/ SignalArrives(s)
       PROVE  TypeOK'
  <2>1. UNCHANGED <<k, round, failed, on, core, feedVars, request>>
    BY <1>10, HandlerKeeps
  <2>2. /\ main' \in {main, "forced"} \/ (main = "wait" /\ main' = "woken")
        /\ \/ main' = "forced" /\ mutex' = FALSE
           \/ mutex' = mutex /\ (main' = main \/ (main = "wait" /\ main' = "woken"))
    <3>1. CASE LaterSignal(s)
      <4>1. CASE count >= 1
        <5>1. (count < 1) = FALSE
          BY <4>1
        <5>2. mutex' = (mutex /\ FALSE) /\ main' = "forced"
          BY <3>1, <4>1, <5>1 DEF LaterSignal
        <5> QED
          BY <5>2
      <4>2. CASE ~(count >= 1)
        <5>1. (count < 1) = TRUE
          BY <4>2
        <5>2. mutex' = (mutex /\ TRUE) /\ main' = main
          BY <3>1, <4>2, <5>1 DEF LaterSignal
        <5> QED
          BY <5>2
      <4> QED
        BY <4>1, <4>2
    <3>2. CASE ~LaterSignal(s)
      BY <1>10, <3>2 DEF HandlerRuns, FirstSignal, MarkShutdown, FindCore, HandlerSets,
                         HandlerNotifies, SignalArrives, Arrives, SignalUnchanged
    <3> QED
      BY <3>1, <3>2
  <2>3. /\ handler' \in [Signals -> {"unsent", "mark", "find", "lock", "notify", "done"}]
        /\ hOn' \in [Signals -> {"main", "other"}]
    BY <1>10 DEF HandlerRuns, FirstSignal, LaterSignal, MarkShutdown, FindCore, HandlerSets,
                 HandlerNotifies, SignalArrives, Arrives, HandlerStep
  <2>4. requested' \in BOOLEAN /\ inProgress' \in BOOLEAN /\ ignored' \in BOOLEAN
    BY <1>10 DEF HandlerRuns, FirstSignal, LaterSignal, MarkShutdown, FindCore, HandlerSets,
                 HandlerNotifies, SignalArrives, Arrives
  <2>5. main' \in {"construct", "start", "startFeed", "run", "test", "park", "wait", "woken",
                   "io", "stop", "stopFeed", "request", "reset", "members", "freeFeed",
                   "hung"} \union Ended
    BY <2>2 DEF Ended
  <2>6. mutex' \in BOOLEAN /\ (mutex' <=> main' \in {"test", "park", "request"})
    <3>1. mutex' = TRUE \/ mutex' = FALSE
      BY <1>0, <2>2
    <3>2. mutex' = TRUE <=> main' \in Holding
      <4> HIDE DEF TypeOK
      <4> QED
        BY <1>0, <2>2 DEF Holding
    <3> HIDE DEF TypeOK
    <3> QED
      BY <3>1, <3>2 DEF Holding
  <2> QED
    BY <2>1, <2>3, <2>4, <2>5, <2>6
<1> QED
  BY <1>2, <1>4, <1>5, <1>6, <1>7, <1>8, <1>9, <1>10, NextCases

-----------------------------------------------------------------------------
(* The main thread and the components.                                     *)

LEMMA MainInFeedStep ==
  ASSUME TypeOK, MainInFeed, Next
  PROVE  MainInFeed'
<1> USE LifecycleAssumption DEF MainInFeed, feedVars, mainVars, Ended
<1>1. CASE MainAlone
  <2>1. UNCHANGED feedOp
    BY <1>1, MainAloneKeeps
  <2>2. CASE StartComponent
    <3>1. k \in 1..5
      BY <2>2, BeforeFeed DEF StartComponent, MainAt
    <3> QED
      BY <2>1, <2>2, <3>1 DEF StartComponent, MainAt
  <2>3. CASE Construct
    <3>1. k' = k /\ main' = "start" /\ main = "construct"
      BY <2>3 DEF Construct, MainAt
    <3> QED
      BY <2>1, <3>1
  <2>4. CASE ~StartComponent /\ ~Construct
    BY <1>1, <2>1, <2>4
       DEF MainAlone, ConstructFails, FeedStarted, RunLock, RunTest, RunPark, IoJoined,
           NeverReturns, FeedStopped, StopComponent, StopLock, StopRequests, Reset, Exit, MainAt
  <2> QED
    BY <2>2, <2>3, <2>4
<1>2. CASE MainEnters
  BY <1>2, MainEntersKeeps DEF EnterFeed
<1>3. CASE StartFails
  BY <1>3 DEF StartFails, MainAt
<1>4. ASSUME NEW s \in Signals, HandlerRuns(s) \/ SignalArrives(s)
      PROVE  MainInFeed'
  BY <1>4, HandlerKeeps
<1>5. ASSUME NEW r \in Requests, AcceptRequest(r) \/ HandleRequest(r) \/ FinishRequest(r)
      PROVE  MainInFeed'
  <2>1. feedOp'["main"] = feedOp["main"]
    BY <1>5 DEF AcceptRequest, HandleRequest, FinishRequest, EnterFeed, TypeOK, FeedUsers
  <2> QED
    BY <1>5, <2>1, RequestKeeps
<1>6. ASSUME NEW u \in FeedUsers, FeedCall(u) PROVE MainInFeed'
  <2>1. UNCHANGED <<main, k>> /\ feedOp[u] # "none"
    BY <1>6, FeedCallKeeps
  <2>2. PICK op : feedOp' = [feedOp EXCEPT ![u] = op]
    BY <1>6 DEF FeedCall, FeedStartFlag, FeedStartThread, FeedJoinOld, FeedStopFlag, FeedJoin,
                FeedReset
  <2>3. u # "main" => feedOp'["main"] = feedOp["main"]
    BY <2>2 DEF TypeOK, FeedUsers
  <2> QED
    BY <2>1, <2>3
<1>7. ASSUME NEW w \in 1..MaxWorkers, WorkerEnds(w) PROVE MainInFeed'
  BY <1>7 DEF WorkerEnds
<1> QED
  BY <1>1, <1>2, <1>3, <1>4, <1>5, <1>6, <1>7, NextCases

(* Stopping the component whose turn it is leaves those after it.          *)
LEMMA StopNext ==
  ASSUME k \in 2..6, on \subseteq {StopOrder[j] : j \in k..6}
  PROVE  on \ {StopOrder[k]} \subseteq {StopOrder[j] : j \in (k + 1)..6}
  OBVIOUS

LEMMA StillOnStep ==
  ASSUME TypeOK, StillOn, NothingYet, Next
  PROVE  StillOn'
<1> USE DEF StillOn, mainVars
<1>1. CASE MainAlone
  <2>1. CASE StopComponent
    <3>1. on' \subseteq {StopOrder[j] : j \in (k + 1)..6}
      <4>1. CASE k = 1
        BY <2>1, <4>1 DEF StopComponent
      <4>2. CASE k # 1
        BY <2>1, <4>2, StopNext DEF StopComponent, MainAt
      <4> QED
        BY <4>1, <4>2
    <3> QED
      BY <2>1, <3>1 DEF StopComponent, MainAt
  <2>2. CASE FeedStopped
    <3>1. on \subseteq {StopOrder[j] : j \in 2..6}
      <4>1. 2 \in 2..6 /\ 3 \in 2..6 /\ 4 \in 2..6 /\ 5 \in 2..6 /\ 6 \in 2..6
        OBVIOUS
      <4>2. on \subseteq {"distributor", "normalizer", "publisher", "recorder", "control"}
        BY ComponentsAre DEF TypeOK
      <4> QED
        BY <4>1, <4>2, StopOrderIs
    <3> QED
      BY <2>2, <3>1 DEF FeedStopped, MainAt
  <2>3. CASE StopLock
    <3>1. on = {}
      BY <2>3 DEF StopLock, MainAt
    <3> QED
      BY <2>3, <3>1 DEF StopLock
  <2>4. CASE ~StopComponent /\ ~FeedStopped /\ ~StopLock
    BY <1>1, <2>4 DEF MainAlone, Construct, ConstructFails, StartComponent, FeedStarted, RunLock,
                      RunTest, RunPark, IoJoined, NeverReturns, StopRequests, Reset, Exit, MainAt
  <2> QED
    BY <2>1, <2>2, <2>3, <2>4
<1>2. CASE MainEnters
  BY <1>2, MainEntersKeeps
<1>3. CASE StartFails
  BY <1>3 DEF StartFails, MainAt
<1>4. ASSUME NEW s \in Signals, HandlerRuns(s) \/ SignalArrives(s)
      PROVE  StillOn'
  BY <1>4, HandlerKeeps
<1>5. ASSUME NEW r \in Requests, AcceptRequest(r) \/ HandleRequest(r) \/ FinishRequest(r)
      PROVE  StillOn'
  BY <1>5, RequestKeeps
<1>6. ASSUME NEW u \in FeedUsers, FeedCall(u) PROVE StillOn'
  BY <1>6, FeedCallKeeps
<1>7. ASSUME NEW w \in 1..MaxWorkers, WorkerEnds(w) PROVE StillOn'
  BY <1>7 DEF WorkerEnds
<1> QED
  BY <1>1, <1>2, <1>3, <1>4, <1>5, <1>6, <1>7, NextCases

LEMMA NothingYetStep ==
  ASSUME TypeOK, NothingYet, StillOn, Next
  PROVE  NothingYet'
<1> USE DEF NothingYet, mainVars, feedVars
<1>1. CASE MainAlone
  BY <1>1, MainAloneKeeps
     DEF MainAlone, Construct, ConstructFails, StartComponent, FeedStarted, RunLock, RunTest,
         RunPark, IoJoined, NeverReturns, FeedStopped, StopComponent, StopLock, StopRequests,
         Reset, Exit, MainAt
<1>2. CASE MainEnters
  BY <1>2, MainEntersKeeps
<1>3. CASE StartFails
  BY <1>3 DEF StartFails
<1>4. ASSUME NEW s \in Signals, HandlerRuns(s) \/ SignalArrives(s)
      PROVE  NothingYet'
  BY <1>4, HandlerKeeps
<1>5. ASSUME NEW r \in Requests, AcceptRequest(r) \/ HandleRequest(r) \/ FinishRequest(r),
             main' = "construct"
      PROVE  FALSE
  <2>1. main = "construct"
    BY <1>5, RequestKeeps
  <2> QED
    BY <1>5, <2>1 DEF AcceptRequest, HandleRequest, FinishRequest, StillOn
<1>6. ASSUME NEW u \in FeedUsers, FeedCall(u) PROVE NothingYet'
  BY <1>6, FeedCallKeeps
<1>7. ASSUME NEW w \in 1..MaxWorkers, WorkerEnds(w) PROVE NothingYet'
  BY <1>7 DEF WorkerEnds
<1> QED
  BY <1>1, <1>2, <1>3, <1>4, <1>5, <1>6, <1>7, NextCases

-----------------------------------------------------------------------------
(* The feed.                                                               *)

(* The worker thread that start makes is a new one.                        *)
LEMMA NewWorkerStarts ==
  ASSUME NEW u \in FeedUsers, FeedStartThread(u)
  PROVE  workerThread' \in 1..MaxWorkers /\ workers' = workers \union {workerThread'}
  BY DEF FeedStartThread, NewWorkers

LEMMA OneCallerFeedCall ==
  ASSUME TypeOK, OneCaller, NEW u \in FeedUsers, FeedCall(u)
  PROVE  OneCaller'
<1> SUFFICES ASSUME ~overlap' PROVE OneCaller'
  BY DEF OneCaller
<1>1. /\ ~overlap /\ feedOp[u] # "none"
  BY FeedCallKeeps
<1>2. \A v \in FeedUsers : v # u => feedOp[v] = "none"
  BY <1>1 DEF OneCaller
<1>3. PICK op : feedOp' = [feedOp EXCEPT ![u] = op]
  BY DEF FeedCall, FeedStartFlag, FeedStartThread, FeedJoinOld, FeedStopFlag, FeedJoin, FeedReset
<1>4. feedOp'[u] = op /\ \A v \in FeedUsers : v # u => feedOp'[v] = "none"
  BY <1>2, <1>3 DEF TypeOK
<1>5. SUFFICES /\ op \in {"none", "start", "stop"} => FeedIdle'
               /\ op = "assign" => feedRunning' /\ workers' = {} /\ workerThread' = 0
               /\ op = "join" => workers' \subseteq {workerThread'} /\ waitsFor'[u] = workerThread'
               /\ op = "reset" => workers' = {}
               /\ op # "joinOld"
  BY <1>4 DEF OneCaller
<1>6. feedOp[u] \in {"none", "start", "stop"} => FeedIdle
  BY <1>1, <1>2 DEF OneCaller
<1>7. CASE FeedStartFlag(u)
  <2>1. op = IF feedRunning THEN "none" ELSE "assign"
    BY <1>4, <1>7 DEF FeedStartFlag, TypeOK
  <2> QED
    BY <1>6, <1>7, <2>1 DEF FeedStartFlag, FeedStep, FeedIdle
<1>8. CASE FeedStartThread(u)
  <2>1. feedRunning /\ workers = {} /\ workerThread = 0
    BY <1>1, <1>8 DEF FeedStartThread, FeedStep, OneCaller
  <2>2. op = "none"
    BY <1>4, <1>8, <2>1 DEF FeedStartThread, TypeOK
  <2>3. workers' = {workerThread'} /\ feedRunning'
    BY <1>8, <2>1, NewWorkerStarts DEF FeedStartThread
  <2> QED
    BY <2>2, <2>3 DEF FeedIdle
<1>9. CASE FeedJoinOld(u)
  BY <1>1, <1>9 DEF FeedJoinOld, FeedStep, OneCaller
<1>10. CASE FeedStopFlag(u)
  <2>1. FeedIdle /\ workers' = workers /\ workerThread' = workerThread /\ ~feedRunning'
    BY <1>6, <1>10 DEF FeedStopFlag, FeedStep
  <2>2. CASE feedRunning
    <3>1. op = "join" /\ waitsFor'[u] = workerThread
      BY <1>4, <1>10, <2>2 DEF FeedStopFlag, TypeOK
    <3> QED
      BY <2>1, <2>2, <3>1 DEF FeedIdle
  <2>3. CASE ~feedRunning
    <3>1. op = "none"
      BY <1>4, <1>10, <2>3 DEF FeedStopFlag, TypeOK
    <3> QED
      BY <2>1, <2>3, <3>1 DEF FeedIdle
  <2> QED
    BY <2>2, <2>3
<1>11. CASE FeedJoin(u)
  <2>1. op = "reset"
    BY <1>4, <1>11 DEF FeedJoin, TypeOK
  <2>2. workers \subseteq {workerThread} /\ waitsFor[u] = workerThread /\ waitsFor[u] \notin workers
    BY <1>1, <1>11 DEF FeedJoin, FeedStep, OneCaller
  <2>3. workers' = {}
    BY <1>11, <2>2 DEF FeedJoin
  <2> QED
    BY <2>1, <2>3
<1>12. CASE FeedReset(u)
  <2>1. workers = {}
    BY <1>1, <1>12 DEF FeedReset, FeedStep, OneCaller
  <2>2. op = "none" /\ workerThread' = 0 /\ workers' = {}
    BY <1>4, <1>12, <2>1 DEF FeedReset, TypeOK
  <2> QED
    BY <2>2 DEF FeedIdle
<1> QED
  BY <1>7, <1>8, <1>9, <1>10, <1>11, <1>12 DEF FeedCall

(* A call that comes while nobody else is in the feed finds it idle.       *)
LEMMA OneCallerEnters ==
  ASSUME TypeOK, OneCaller, NEW u \in FeedUsers, NEW op \in {"start", "stop"},
         EnterFeed(u, op), feedOp[u] = "none"
  PROVE  OneCaller'
<1> SUFFICES ASSUME ~overlap' PROVE OneCaller'
  BY DEF OneCaller
<1>1. ~overlap /\ \A v \in FeedUsers : feedOp[v] = "none"
  BY DEF EnterFeed
<1>2. FeedIdle
  BY <1>1 DEF OneCaller
<1>3. FeedIdle'
  BY <1>2 DEF FeedIdle, EnterFeed
<1>4. feedOp'[u] = op /\ \A v \in FeedUsers : v # u => feedOp'[v] = "none"
  BY <1>1 DEF EnterFeed, TypeOK
<1> QED
  BY <1>3, <1>4 DEF OneCaller

LEMMA OneCallerStep ==
  ASSUME TypeOK, OneRequest, MainInFeed, OneCaller, Next
  PROVE  OneCaller'
<1> USE DEF feedVars
<1>1. ASSUME UNCHANGED feedVars PROVE OneCaller'
  BY <1>1 DEF OneCaller, FeedIdle
<1>2. CASE MainEnters
  <2>1. "main" \in FeedUsers /\ feedOp["main"] = "none"
    BY <1>2, MainEntersKeeps DEF MainInFeed, Ended, FeedUsers
  <2>2. PICK op \in {"start", "stop"} : EnterFeed("main", op)
    BY <1>2, MainEntersKeeps
  <2> QED
    BY <2>1, <2>2, OneCallerEnters
<1>3. ASSUME NEW r \in Requests, HandleRequest(r) PROVE OneCaller'
  <2>1. r \in FeedUsers /\ feedOp[r] = "none"
    BY <1>3 DEF HandleRequest, OneRequest, FeedUsers
  <2>2. PICK op \in {"start", "stop"} : EnterFeed(r, op)
    BY <1>3 DEF HandleRequest
  <2> QED
    BY <2>1, <2>2, OneCallerEnters
<1>4. ASSUME NEW r \in Requests, AcceptRequest(r) \/ FinishRequest(r) PROVE OneCaller'
  BY <1>1, <1>4 DEF AcceptRequest, FinishRequest
<1>5. CASE MainAlone
  BY <1>1, <1>5, MainAloneKeeps
<1>6. CASE StartFails
  <2>1. UNCHANGED <<workerThread, workers, feedOp, waitsFor, overlap>>
    BY <1>6 DEF StartFails
  <2>2. feedRunning' = feedRunning \/ (~feedRunning /\ feedRunning' = TRUE)
    BY <1>6 DEF StartFails
  <2> QED
    BY <2>1, <2>2 DEF OneCaller, FeedIdle
<1>7. ASSUME NEW s \in Signals, HandlerRuns(s) \/ SignalArrives(s)
      PROVE  OneCaller'
  BY <1>1, <1>7, HandlerKeeps
<1>8. ASSUME NEW w \in 1..MaxWorkers, WorkerEnds(w) PROVE OneCaller'
  <2>1. /\ UNCHANGED <<feedRunning, workerThread, feedOp, waitsFor, overlap>>
        /\ workers' \subseteq workers
    BY <1>8 DEF WorkerEnds
  <2> QED
    BY <2>1 DEF OneCaller, FeedIdle
<1> QED
  BY <1>2, <1>3, <1>4, <1>5, <1>6, <1>7, <1>8, OneCallerFeedCall, NextCases

LEMMA LastCallStep ==
  ASSUME TypeOK, OneCaller, LastCall, Next
  PROVE  LastCall'
<1> SUFFICES ASSUME main' = "freeFeed", ~overlap' PROVE LastCall'
  BY DEF LastCall
<1> USE LifecycleAssumption DEF feedVars, mainVars
<1>1. ASSUME main = "freeFeed", UNCHANGED <<feedRunning, feedOp, overlap>> PROVE LastCall'
  BY <1>1 DEF LastCall
<1>2. CASE MainAlone
  BY <1>2 DEF MainAlone, Construct, ConstructFails, StartComponent, FeedStarted, RunLock, RunTest,
              RunPark, IoJoined, NeverReturns, FeedStopped, StopComponent, StopLock, StopRequests,
              Reset, Exit, MainAt
<1>3. CASE MainEnters
  <2>1. EnterFeed("main", "stop")
    BY <1>3, MainEntersKeeps
  <2>2. feedOp'["main"] = "stop" /\ \A r \in Requests : feedOp'[r] = "none"
    BY <2>1 DEF EnterFeed, TypeOK, FeedUsers
  <2> QED
    BY <2>2 DEF LastCall
<1>4. CASE StartFails
  BY <1>4 DEF StartFails
<1>5. ASSUME NEW s \in Signals, HandlerRuns(s) \/ SignalArrives(s)
      PROVE  LastCall'
  BY <1>1, <1>5, HandlerKeeps
<1>6. ASSUME NEW r \in Requests, AcceptRequest(r) \/ HandleRequest(r) \/ FinishRequest(r)
      PROVE  LastCall'
  <2>1. main = "freeFeed"
    BY <1>6, RequestKeeps
  <2> QED
    BY <1>1, <1>6, <2>1 DEF AcceptRequest, HandleRequest, FinishRequest
<1>7. ASSUME NEW u \in FeedUsers, FeedCall(u) PROVE LastCall'
  <2>1. main = "freeFeed" /\ ~overlap /\ feedOp[u] # "none"
    BY <1>7, FeedCallKeeps
  <2>2. /\ \A r \in Requests : feedOp[r] = "none"
        /\ feedOp["main"] \in {"none", "stop", "join", "reset"}
        /\ feedOp["main"] # "stop" => ~feedRunning
    BY <2>1 DEF LastCall
  <2>3. u = "main"
    BY <2>1, <2>2 DEF FeedUsers
  <2>4. SUFFICES ASSUME NEW op, feedOp' = [feedOp EXCEPT !["main"] = op],
                        op \in {"none", "join", "reset"}, ~feedRunning'
                 PROVE  LastCall'
    <3>1. CASE FeedStopFlag(u)
      BY <2>3, <2>4, <3>1 DEF FeedStopFlag
    <3>2. CASE FeedJoin(u)
      BY <2>2, <2>3, <2>4, <3>2 DEF FeedJoin, FeedStep
    <3>3. CASE FeedReset(u)
      <4>1. workers = {}
        BY <2>1, <3>3 DEF FeedReset, FeedStep, OneCaller
      <4> QED
        BY <2>2, <2>3, <2>4, <3>3, <4>1 DEF FeedReset, FeedStep
    <3>4. ~FeedStartFlag(u) /\ ~FeedStartThread(u) /\ ~FeedJoinOld(u)
      BY <2>2, <2>3 DEF FeedStartFlag, FeedStartThread, FeedJoinOld, FeedStep
    <3> QED
      BY <1>7, <3>1, <3>2, <3>3, <3>4 DEF FeedCall
  <2>5. feedOp'["main"] = op /\ \A r \in Requests : feedOp'[r] = "none"
    BY <2>2, <2>4 DEF TypeOK, FeedUsers
  <2> QED
    BY <2>4, <2>5 DEF LastCall
<1>8. ASSUME NEW w \in 1..MaxWorkers, WorkerEnds(w) PROVE LastCall'
  BY <1>1, <1>8 DEF WorkerEnds
<1> QED
  BY <1>2, <1>3, <1>4, <1>5, <1>6, <1>7, <1>8, NextCases

LEMMA CleanExitStep ==
  ASSUME TypeOK, StillOn, NothingYet, OneCaller, LastCall, Next
  PROVE  CleanExit'
<1> SUFFICES ASSUME main' = "exit" PROVE CleanExit'
  BY DEF CleanExit
<1> USE DEF feedVars, mainVars
<1>1. CASE Exit
  <2>1. on = {} /\ main = "freeFeed" /\ feedOp["main"] = "none" /\ UNCHANGED <<on, feedVars>>
    BY <1>1 DEF Exit, MainAt, StillOn
  <2>2. ASSUME ~overlap PROVE workers = {} /\ ~feedRunning
    <3>1. ~feedRunning /\ \A u \in FeedUsers : feedOp[u] = "none"
      BY <2>1, <2>2 DEF LastCall, FeedUsers
    <3>2. FeedIdle
      BY <2>2, <3>1 DEF OneCaller
    <3> QED
      BY <3>1, <3>2 DEF FeedIdle
  <2> QED
    BY <2>1, <2>2 DEF CleanExit
<1>2. CASE ConstructFails
  <2>1. main = "construct" /\ UNCHANGED <<on, feedVars>>
    BY <1>2 DEF ConstructFails, MainAt
  <2> QED
    BY <2>1 DEF CleanExit, StillOn, NothingYet
<1>3. CASE MainAlone /\ ~Exit /\ ~ConstructFails
  BY <1>3 DEF MainAlone, Construct, StartComponent, FeedStarted, RunLock, RunTest, RunPark,
              IoJoined, NeverReturns,
              FeedStopped, StopComponent, StopLock, StopRequests, Reset, MainAt
<1>4. CASE MainEnters
  BY <1>4, MainEntersKeeps
<1>5. CASE StartFails
  BY <1>5 DEF StartFails
<1>6. ASSUME NEW s \in Signals, HandlerRuns(s) \/ SignalArrives(s)
      PROVE  FALSE
  BY <1>6, HandlerKeeps DEF Alive, Ended
<1>7. ASSUME NEW r \in Requests, AcceptRequest(r) \/ HandleRequest(r) \/ FinishRequest(r)
      PROVE  FALSE
  BY <1>7, RequestKeeps DEF Alive, Ended
<1>8. ASSUME NEW u \in FeedUsers, FeedCall(u) PROVE FALSE
  BY <1>8, FeedCallKeeps DEF Alive, Ended
<1>9. ASSUME NEW w \in 1..MaxWorkers, WorkerEnds(w) PROVE FALSE
  BY <1>9 DEF WorkerEnds, Alive, Ended
<1> QED
  BY <1>1, <1>2, <1>3, <1>4, <1>5, <1>6, <1>7, <1>8, <1>9, NextCases

-----------------------------------------------------------------------------
(* The invariant.                                                          *)

LEMMA InitIInv == Init => IInv
<1> SUFFICES ASSUME Init PROVE IInv
  OBVIOUS
<1> USE LifecycleAssumption DEF Init
<1>1. Cardinality({r \in Requests : feedOp[r] # "none"}) <= 1
  BY AtMostOne DEF FeedUsers
<1>2. 0 <= Cardinality({s \in Signals : handler[s] = "done"})
  <2>1. {s \in Signals : handler[s] = "done"} = {}
    OBVIOUS
  <2> QED
    BY <2>1, FS_EmptySet
<1>3. TypeOK
  <2>1. mutex <=> main \in {"test", "park", "request"}
    OBVIOUS
  <2>2. k \in 1..7 /\ round \in 1..2 /\ count \in 0..MaxSignals /\ workerThread \in 0..MaxWorkers
    OBVIOUS
  <2>3. /\ hOn \in [Signals -> {"main", "other"}]
        /\ handler \in [Signals -> {"unsent", "mark", "find", "lock", "notify", "done"}]
        /\ waitsFor \in [FeedUsers -> 0..MaxWorkers]
    OBVIOUS
  <2> QED
    BY <1>1, <2>1, <2>2, <2>3 DEF TypeOK
<1>4. OneRequest /\ MainInFeed /\ StillOn /\ NothingYet /\ LastCall /\ CleanExit
  BY DEF OneRequest, MainInFeed, StillOn, NothingYet, LastCall, CleanExit, FeedUsers
<1>5. OneCaller
  BY DEF OneCaller, FeedIdle
<1>6. Counted
  BY <1>2 DEF Counted
<1> QED
  BY <1>3, <1>4, <1>5, <1>6 DEF IInv

LEMMA NextIInv == IInv /\ [Next]_vars => IInv'
<1>1. ASSUME IInv, Next PROVE IInv'
  <2> USE <1>1
  <2>1. OneRequest' /\ Counted' /\ count' \in Nat
    BY OneRequestStep, CountedStep DEF IInv
  <2>2. count' \in 0..MaxSignals
    <3>1. {s \in Signals : handler'[s] = "done"} \in SUBSET Signals
      OBVIOUS
    <3> QED
      BY <2>1, <3>1, CountBound DEF Counted
  <2>3. (Cardinality({r \in Requests : feedOp[r] # "none"}) <= 1)'
    <3>1. \A r, o \in {x \in Requests : feedOp'[x] # "none"} : r = o
      BY <2>1 DEF OneRequest
    <3> QED
      BY <3>1, AtMostOne
  <2>4. TypeOK'
    BY <2>2, <2>3, TypeStep DEF IInv
  <2>5. MainInFeed' /\ StillOn' /\ NothingYet'
    BY MainInFeedStep, StillOnStep, NothingYetStep DEF IInv
  <2>6. OneCaller' /\ LastCall' /\ CleanExit'
    BY OneCallerStep, LastCallStep, CleanExitStep DEF IInv
  <2> QED
    BY <2>1, <2>4, <2>5, <2>6 DEF IInv
<1>2. ASSUME IInv, UNCHANGED vars PROVE IInv'
  <2> USE <1>2 DEF IInv, vars, mainVars, signalVars, feedVars
  <2>1. TypeOK'
    BY DEF TypeOK
  <2>2. Counted' /\ OneRequest' /\ MainInFeed' /\ StillOn' /\ NothingYet'
    BY DEF Counted, OneRequest, MainInFeed, StillOn, NothingYet
  <2>3. OneCaller' /\ LastCall' /\ CleanExit'
    BY DEF OneCaller, FeedIdle, LastCall, CleanExit
  <2> QED
    BY <2>1, <2>2, <2>3
<1> QED
  BY <1>1, <1>2

LEMMA Inductive == Spec => []IInv
  BY InitIInv, NextIInv, PTL DEF Spec

(* Every variable keeps its type: in particular the main thread has        *)
(* shutdown_mutex_ exactly where run and request_shutdown take it, and at  *)
(* most one request is inside the feed's start or stop.                    *)
THEOREM TypeCorrect == Spec => []TypeOK
<1>1. IInv => TypeOK
  BY DEF IInv
<1> QED
  BY <1>1, Inductive, PTL

(* However the start ended, and whenever signals and feed requests came:   *)
(* a main that returns has stopped every component, and if the calls of    *)
(* the feed's start and stop did not overlap its worker thread is joined.  *)
THEOREM ExitsClean == Spec => []CleanExit
<1>1. IInv => CleanExit
  BY DEF IInv
<1> QED
  BY <1>1, Inductive, PTL

=============================================================================
