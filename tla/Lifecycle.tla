----------------------------- MODULE Lifecycle -----------------------------
(***************************************************************************)
(* The life of the process (main_core.cpp): main, the start and stop of    *)
(* the components, run(), the signal handler, and the feed's own start and *)
(* stop (feed/mock_feed.cpp), which main and the control server's request  *)
(* threads call.                                                           *)
(*                                                                         *)
(* A component other than the feed starts and stops in one step here, or   *)
(* its stop never returns: under which conditions is the subject of its    *)
(* own module (Pipeline, Publisher, ControlServer).  A signal handler      *)
(* runs on the main thread, which it interrupts between any two steps, or  *)
(* on another one.  shutdown_mutex_ is held over several steps only by the *)
(* main thread.  The feed's stop and the worker's end are steps of their   *)
(* own.  Request threads are detached: they may go on until the components *)
(* are destroyed.                                                          *)
(***************************************************************************)
EXTENDS Integers, Sequences, FiniteSets

CONSTANTS
    MaxSignals,   \* bound: signals sent to the process
    Requests,     \* bound: requests to /feeds/start and /feeds/stop
    MaxWorkers    \* bound: threads of the feed at one time

ASSUME LifecycleAssumption ==
    /\ MaxSignals \in Nat /\ MaxWorkers \in Nat \ {0}
    /\ "main" \notin Requests

VARIABLES
    main, k, round,   \* main thread: place, component, which call of stop
    failed,           \* a component failed to start
    on,               \* components that run, the feed left out
    core,             \* g_core points to the core
    mutex,            \* shutdown_mutex_ is held by the main thread
    requested,        \* shutdown_requested_
    inProgress,       \* g_shutdown_in_progress
    count,            \* g_signal_count
    handler, hOn,     \* signal handlers: place and thread
    feedRunning,      \* running_ of the feed
    workerThread,     \* worker_thread_, 0 for null
    workers,          \* worker threads that live
    feedOp, waitsFor, \* place in MockFeed::start or stop; thread joined
    request,          \* request threads of the control server
    ignored,          \* observed: a handler found no core to stop
    overlap           \* observed: two threads were in start or stop at once

mainVars == <<main, k, round, failed, on, core>>
signalVars == <<inProgress, count, handler, hOn, ignored>>
feedVars == <<feedRunning, workerThread, workers, feedOp, waitsFor,
              overlap>>
vars == <<mainVars, mutex, requested, signalVars, feedVars, request>>

StartOrder == <<"distributor", "normalizer", "publisher", "recorder",
                "control", "feed">>
StopOrder == <<"feed", "distributor", "recorder", "publisher", "normalizer",
               "control">>
Components == {StartOrder[i] : i \in 1..6} \ {"feed"}
Signals == 1..MaxSignals
FeedUsers == Requests \union {"main"}
Ended == {"exit", "forced"}

(* Every variable holds a value the code can give it; the main thread has  *)
(* shutdown_mutex_ exactly where it should, and requests enter the feed    *)
(* one at a time (feed_control_mutex_).                                    *)
TypeOK ==
    /\ main \in {"construct", "start", "startFeed", "run", "test", "park",
                 "wait", "woken", "io", "stop", "stopFeed", "request", "reset",
                 "members", "freeFeed", "hung"} \union Ended
    /\ k \in 1..7 /\ round \in 1..2
    /\ on \subseteq Components
    /\ failed \in BOOLEAN /\ core \in BOOLEAN /\ mutex \in BOOLEAN
    /\ requested \in BOOLEAN /\ inProgress \in BOOLEAN /\ ignored \in BOOLEAN
    /\ feedRunning \in BOOLEAN /\ overlap \in BOOLEAN
    /\ mutex <=> main \in {"test", "park", "request"}
    /\ count \in 0..MaxSignals
    /\ handler \in [Signals -> {"unsent", "mark", "find", "lock", "notify",
                                "done"}]
    /\ hOn \in [Signals -> {"main", "other"}]
    /\ workers \subseteq 1..MaxWorkers
    /\ workerThread \in 0..MaxWorkers
    /\ feedOp \in [FeedUsers -> {"none", "start", "assign", "joinOld", "stop",
                                 "join", "reset"}]
    /\ waitsFor \in [FeedUsers -> 0..MaxWorkers]
    /\ request \in [Requests -> {"none", "accepted", "feed", "done"}]
    /\ Cardinality({r \in Requests : feedOp[r] # "none"}) <= 1

Init ==
    /\ main = "construct" /\ k = 1 /\ round = 1
    /\ failed = FALSE /\ on = {} /\ core = FALSE
    /\ mutex = FALSE /\ requested = FALSE
    /\ inProgress = FALSE /\ count = 0 /\ ignored = FALSE
    /\ handler = [s \in Signals |-> "unsent"]
    /\ hOn = [s \in Signals |-> "other"]
    /\ feedRunning = FALSE /\ workerThread = 0 /\ workers = {}
    /\ feedOp = [u \in FeedUsers |-> "none"]
    /\ waitsFor = [u \in FeedUsers |-> 0]
    /\ overlap = FALSE
    /\ request = [r \in Requests |-> "none"]

Alive == main \notin Ended

HandlerOnMain == \E s \in Signals : hOn[s] = "main"
                                    /\ handler[s] \notin {"unsent", "done"}

-----------------------------------------------------------------------------
(* MockFeed::start and MockFeed::stop, called by u.                        *)

EnterFeed(u, op) ==
    /\ feedOp' = [feedOp EXCEPT ![u] = op]
    /\ overlap' = (overlap \/ \E v \in FeedUsers \ {u} : feedOp[v] # "none")
    /\ UNCHANGED <<feedRunning, workerThread, workers, waitsFor>>

FeedStep(u, from) ==
    /\ Alive /\ feedOp[u] = from
    /\ u = "main" => ~HandlerOnMain
    /\ UNCHANGED <<mainVars, mutex, requested, signalVars, request, overlap>>

(* running_.exchange(true): the rest is for the caller that changed it.    *)
FeedStartFlag(u) ==
    /\ FeedStep(u, "start")
    /\ feedRunning' = TRUE
    /\ feedOp' = [feedOp EXCEPT ![u] = IF feedRunning THEN "none" ELSE "assign"]
    /\ UNCHANGED <<workerThread, workers, waitsFor>>

(* Names that stand for no thread.                                        *)
NewWorkers ==
    1..MaxWorkers \ (workers \union {workerThread}
                      \union {waitsFor[u] : u \in FeedUsers})

(* A new thread; the assignment destroys, and so joins, an old one.        *)
FeedStartThread(u) ==
    /\ FeedStep(u, "assign")
    /\ NewWorkers # {}
    /\ LET w == CHOOSE w \in NewWorkers : TRUE
       IN  workers' = workers \union {w} /\ workerThread' = w
    /\ waitsFor' = [waitsFor EXCEPT ![u] = workerThread]
    /\ feedOp' = [feedOp EXCEPT ![u] = IF workerThread = 0 THEN "none"
                                       ELSE "joinOld"]
    /\ UNCHANGED feedRunning

FeedJoinOld(u) ==
    /\ FeedStep(u, "joinOld") /\ waitsFor[u] \notin workers
    /\ feedOp' = [feedOp EXCEPT ![u] = "none"]
    /\ waitsFor' = [waitsFor EXCEPT ![u] = 0]
    /\ UNCHANGED <<feedRunning, workerThread, workers>>

FeedStopFlag(u) ==
    /\ FeedStep(u, "stop")
    /\ feedRunning' = FALSE
    /\ IF feedRunning
       THEN /\ waitsFor' = [waitsFor EXCEPT ![u] = workerThread]
            /\ feedOp' = [feedOp EXCEPT ![u] = "join"]
       ELSE /\ feedOp' = [feedOp EXCEPT ![u] = "none"]
            /\ UNCHANGED waitsFor
    /\ UNCHANGED <<workerThread, workers>>

FeedJoin(u) ==
    /\ FeedStep(u, "join") /\ waitsFor[u] \notin workers
    /\ feedOp' = [feedOp EXCEPT ![u] = "reset"]
    /\ waitsFor' = [waitsFor EXCEPT ![u] = 0]
    /\ UNCHANGED <<feedRunning, workerThread, workers>>

(* worker_thread_.reset().  If another thread has assigned it meanwhile,   *)
(* reset destroys, and so joins, that one.                                 *)
FeedReset(u) ==
    /\ FeedStep(u, "reset")
    /\ workerThread' = 0
    /\ IF workerThread \in workers
       THEN /\ waitsFor' = [waitsFor EXCEPT ![u] = workerThread]
            /\ feedOp' = [feedOp EXCEPT ![u] = "joinOld"]
       ELSE /\ feedOp' = [feedOp EXCEPT ![u] = "none"]
            /\ UNCHANGED waitsFor
    /\ UNCHANGED <<feedRunning, workers>>

FeedCall(u) ==
    \/ FeedStartFlag(u) \/ FeedStartThread(u) \/ FeedJoinOld(u)
    \/ FeedStopFlag(u) \/ FeedJoin(u) \/ FeedReset(u)

(* run_loop looks at running_ between two rounds and nowhere else.         *)
WorkerEnds(w) ==
    /\ Alive /\ w \in workers /\ ~feedRunning
    /\ workers' = workers \ {w}
    /\ UNCHANGED <<mainVars, mutex, requested, signalVars, feedRunning,
                   workerThread, feedOp, waitsFor, overlap, request>>

-----------------------------------------------------------------------------
(* Requests for the feed, each in a detached thread of its own.            *)

RequestUnchanged == UNCHANGED <<mainVars, mutex, requested, signalVars>>

AcceptRequest(r) ==
    /\ Alive /\ request[r] = "none" /\ "control" \in on
    /\ request' = [request EXCEPT ![r] = "accepted"]
    /\ RequestUnchanged /\ UNCHANGED feedVars

(* handle_feeds_start and handle_feeds_stop: under feed_control_mutex_.    *)
HandleRequest(r) ==
    /\ Alive /\ main \notin {"members", "freeFeed"}
    /\ request[r] = "accepted"
    /\ \A o \in Requests : request[o] # "feed"
    /\ request' = [request EXCEPT ![r] = "feed"]
    /\ \E op \in {"start", "stop"} : EnterFeed(r, op)
    /\ RequestUnchanged

FinishRequest(r) ==
    /\ Alive /\ request[r] = "feed" /\ feedOp[r] = "none"
    /\ request' = [request EXCEPT ![r] = "done"]
    /\ RequestUnchanged /\ UNCHANGED feedVars

-----------------------------------------------------------------------------
(* The main thread.                                                        *)

MainAt(place) == main = place /\ ~HandlerOnMain

MainUnchanged == UNCHANGED <<signalVars, request>>

(* g_core is set when the constructor is done.                             *)
Construct ==
    /\ MainAt("construct")
    /\ main' = "start" /\ core' = TRUE
    /\ MainUnchanged
    /\ UNCHANGED <<k, round, failed, on, mutex, requested, feedVars>>

StartComponent ==
    /\ MainAt("start") /\ StartOrder[k] # "feed"
    /\ on' = on \union {StartOrder[k]}
    /\ k' = k + 1
    /\ MainUnchanged
    /\ UNCHANGED <<main, round, failed, core, mutex, requested, feedVars>>

(* A configuration or a constructor that throws: main returns.             *)
ConstructFails ==
    /\ MainAt("construct")
    /\ main' = "exit"
    /\ MainUnchanged
    /\ UNCHANGED <<k, round, failed, on, core, mutex, requested, feedVars>>

(* A start that throws, after or before it got anything going, makes start *)
(* call stop.  The feed's has set running_ when its thread cannot be made. *)
StartFails ==
    /\ MainAt("start")
    /\ failed' = TRUE
    /\ IF StartOrder[k] = "feed"
       THEN ~feedRunning /\ feedRunning' = TRUE /\ UNCHANGED on
       ELSE on' \in {on, on \union {StartOrder[k]}} /\ UNCHANGED feedRunning
    /\ main' = "stop" /\ k' = 1
    /\ MainUnchanged
    /\ UNCHANGED <<round, core, mutex, requested, workerThread, workers, feedOp,
                   waitsFor, overlap>>

StartFeed ==
    /\ MainAt("start") /\ StartOrder[k] = "feed"
    /\ main' = "startFeed"
    /\ EnterFeed("main", "start")
    /\ MainUnchanged
    /\ UNCHANGED <<k, round, failed, on, core, mutex, requested>>

FeedStarted ==
    /\ MainAt("startFeed") /\ feedOp["main"] = "none"
    /\ main' = "run"
    /\ MainUnchanged
    /\ UNCHANGED <<k, round, failed, on, core, mutex, requested, feedVars>>

(* run(): the wait for shutdown_requested_ under shutdown_mutex_.          *)
RunLock ==
    /\ MainAt("run") \/ MainAt("woken")
    /\ main' = "test" /\ mutex' = TRUE
    /\ MainUnchanged
    /\ UNCHANGED <<k, round, failed, on, core, requested, feedVars>>

(* Mutant: no lock.unlock() after the wait.                                *)
RunTestKeepsLock ==
    /\ MainAt("test")
    /\ main' = IF requested THEN "io" ELSE "park"
    /\ MainUnchanged
    /\ UNCHANGED <<k, round, failed, on, core, mutex, requested, feedVars>>

RunTest ==
    /\ MainAt("test")
    /\ \/ ~requested /\ main' = "park" /\ UNCHANGED mutex
       \/ requested /\ main' = "io" /\ mutex' = FALSE
    /\ MainUnchanged
    /\ UNCHANGED <<k, round, failed, on, core, requested, feedVars>>

RunPark ==
    /\ MainAt("park")
    /\ main' = "wait" /\ mutex' = FALSE
    /\ MainUnchanged
    /\ UNCHANGED <<k, round, failed, on, core, requested, feedVars>>

(* The end of run(): the IO threads are joined.                            *)
IoJoined ==
    /\ MainAt("io")
    /\ main' = "stop" /\ k' = 1
    /\ MainUnchanged
    /\ UNCHANGED <<round, failed, on, core, mutex, requested, feedVars>>

(* stop(), called by start, by main after run, and by the destructor.      *)
StopFeed ==
    /\ MainAt("stop") /\ k = 1
    /\ main' = "stopFeed"
    /\ EnterFeed("main", "stop")
    /\ MainUnchanged
    /\ UNCHANGED <<k, round, failed, on, core, mutex, requested>>

FeedStopped ==
    /\ MainAt("stopFeed") /\ feedOp["main"] = "none"
    /\ main' = "stop" /\ k' = 2
    /\ MainUnchanged
    /\ UNCHANGED <<round, failed, on, core, mutex, requested, feedVars>>

StopComponent ==
    /\ MainAt("stop") /\ k \in 2..6
    /\ on' = on \ {StopOrder[k]}
    /\ k' = k + 1
    /\ MainUnchanged
    /\ UNCHANGED <<main, round, failed, core, mutex, requested, feedVars>>

(* A join that never returns: of an IO thread, which may itself be joining *)
(* a write thread, of the distribution thread, which may wait in publish,  *)
(* or in the stop of the publisher or the control server.  A stop of a     *)
(* component that does not run returns at once.                            *)
NeverReturns ==
    /\ \/ MainAt("io")
       \/ /\ MainAt("stop") /\ k \in 2..6
          /\ StopOrder[k] \in on \cap {"distributor", "publisher", "control"}
    /\ main' = "hung"
    /\ MainUnchanged
    /\ UNCHANGED <<k, round, failed, on, core, mutex, requested, feedVars>>

StopLock ==
    /\ MainAt("stop") /\ k = 7
    /\ main' = "request" /\ mutex' = TRUE
    /\ MainUnchanged
    /\ UNCHANGED <<k, round, failed, on, core, requested, feedVars>>

StopRequests ==
    /\ MainAt("request")
    /\ requested' = TRUE /\ mutex' = FALSE
    /\ main' = IF round = 1 THEN "reset" ELSE "members"
    /\ MainUnchanged
    /\ UNCHANGED <<k, round, failed, on, core, feedVars>>

(* g_core.reset(): the pointer is cleared, then the destructor runs.       *)
Reset ==
    /\ MainAt("reset")
    /\ core' = FALSE /\ round' = 2
    /\ main' = "stop" /\ k' = 1
    /\ MainUnchanged
    /\ UNCHANGED <<failed, on, mutex, requested, feedVars>>

(* Mutant: no stop in ~MockFeed.                                           *)
DestroyFeedOnly ==
    /\ MainAt("members")
    /\ main' = "freeFeed"
    /\ MainUnchanged
    /\ UNCHANGED <<k, round, failed, on, core, mutex, requested, feedVars>>

(* The members are destroyed: ~MockFeed stops the feed.                    *)
DestroyFeed ==
    /\ MainAt("members")
    /\ main' = "freeFeed"
    /\ EnterFeed("main", "stop")
    /\ MainUnchanged
    /\ UNCHANGED <<k, round, failed, on, core, mutex, requested>>

Exit ==
    /\ MainAt("freeFeed") /\ feedOp["main"] = "none"
    /\ main' = "exit"
    /\ MainUnchanged
    /\ UNCHANGED <<k, round, failed, on, core, mutex, requested, feedVars>>

MainThread ==
    \/ Construct \/ StartComponent \/ StartFeed \/ FeedStarted
    \/ RunLock \/ RunTest \/ RunPark \/ IoJoined
    \/ StopFeed \/ FeedStopped \/ StopComponent \/ StopLock \/ StopRequests
    \/ Reset \/ DestroyFeed \/ Exit \/ FeedCall("main")

-----------------------------------------------------------------------------
(* signal_handler.                                                         *)

HandlerStep(s, from, to) ==
    /\ Alive /\ handler[s] = from
    /\ handler' = [handler EXCEPT ![s] = to]
    /\ hOn' = [hOn EXCEPT ![s] = IF to = "done" THEN "other" ELSE @]

SignalUnchanged ==
    UNCHANGED <<k, round, failed, on, core, mutex, feedVars, request>>

(* A signal arrives and its handler tests g_shutdown_in_progress.          *)
Arrives(s, to) ==
    /\ Alive /\ handler[s] = "unsent"
    /\ s > 1 => handler[s - 1] # "unsent"
    /\ handler' = [handler EXCEPT ![s] = to]

(* Until the first component starts there is no other thread to take it;   *)
(* two first signals on the main thread are left out.                      *)
FirstSignal(s, t) ==
    /\ Arrives(s, "mark") /\ ~inProgress
    /\ IF t = "main" THEN ~HandlerOnMain ELSE main # "construct"
    /\ hOn' = [hOn EXCEPT ![s] = t]
    /\ SignalUnchanged
    /\ UNCHANGED <<main, requested, inProgress, count, ignored>>

(* g_signal_count.fetch_add(1) >= 1: std::_Exit.                           *)
LaterSignal(s) ==
    /\ Arrives(s, "done") /\ inProgress
    /\ count' = count + 1
    /\ main' = IF count >= 1 THEN "forced" ELSE main
    /\ mutex' = (mutex /\ count < 1)
    /\ UNCHANGED <<hOn, k, round, failed, on, core, feedVars, request, requested,
                   inProgress, ignored>>

SignalArrives(s) ==
    LaterSignal(s) \/ \E t \in {"main", "other"} : FirstSignal(s, t)

(* g_shutdown_in_progress is set.                                          *)
MarkShutdown(s) ==
    /\ HandlerStep(s, "mark", "find")
    /\ inProgress' = TRUE
    /\ SignalUnchanged /\ UNCHANGED <<main, requested, count, ignored>>

(* request_shutdown is called if there is a core.                          *)
FindCore(s) ==
    /\ HandlerStep(s, "find", IF core THEN "lock" ELSE "done")
    /\ ignored' = (ignored \/ ~core)
    /\ SignalUnchanged /\ UNCHANGED <<main, requested, inProgress, count>>

(* Mutant: the flag is set without the mutex.                              *)
HandlerSetsUnlocked(s) ==
    /\ HandlerStep(s, "lock", "notify")
    /\ requested' = TRUE
    /\ SignalUnchanged /\ UNCHANGED <<main, inProgress, count, ignored>>

(* request_shutdown: set the flag under shutdown_mutex_, then notify.  On  *)
(* the main thread a lock that thread holds itself is never released.      *)
HandlerSets(s) ==
    /\ ~mutex
    /\ HandlerStep(s, "lock", "notify")
    /\ requested' = TRUE
    /\ SignalUnchanged /\ UNCHANGED <<main, inProgress, count, ignored>>

HandlerNotifies(s) ==
    /\ HandlerStep(s, "notify", "done")
    /\ main' = IF main = "wait" THEN "woken" ELSE main
    /\ SignalUnchanged
    /\ UNCHANGED <<requested, inProgress, count, ignored>>

HandlerRuns(s) ==
    \/ MarkShutdown(s) \/ FindCore(s) \/ HandlerSets(s) \/ HandlerNotifies(s)

-----------------------------------------------------------------------------
Next ==
    \/ MainThread \/ ConstructFails \/ StartFails \/ NeverReturns
    \/ \E s \in Signals : HandlerRuns(s) \/ SignalArrives(s)
    \/ \E r \in Requests : AcceptRequest(r) \/ HandleRequest(r)
                           \/ FeedCall(r) \/ FinishRequest(r)
    \/ \E w \in 1..MaxWorkers : WorkerEnds(w)

Spec == Init /\ [][Next]_vars

(* Every thread that can go on does; signals, requests, failing starts and *)
(* joins that never return come or do not come.                            *)
Fairness ==
    /\ WF_vars(MainThread)
    /\ \A s \in Signals : WF_vars(HandlerRuns(s))
    /\ \A r \in Requests : WF_vars(FeedCall(r) \/ FinishRequest(r))
    /\ \A w \in 1..MaxWorkers : WF_vars(WorkerEnds(w))

LiveSpec == Spec /\ Fairness

-----------------------------------------------------------------------------
(* A process that comes to the end of main has stopped every component,    *)
(* also after a start that failed half way, and no thread of the feed is   *)
(* left, also if a late request started it again, unless two threads were  *)
(* in the feed's start or stop at once.                                    *)
CleanExit ==
    main = "exit" => on = {} /\ (~overlap => workers = {} /\ ~feedRunning)

(* The handler waits for a mutex that the thread it interrupted holds.     *)
SelfLocked ==
    \E s \in Signals : handler[s] = "lock" /\ hOn[s] = "main" /\ mutex

(* A shutdown that was asked for, or a start that failed, ends the process *)
(* or leaves main in a join that never returns (ControlServerStop shows    *)
(* one), unless the handler found no core yet or locked itself up, or the  *)
(* feed was started and stopped at once.  So no request for a shutdown is  *)
(* lost between the handler, shutdown_mutex_ and the wait in run.          *)
ShutdownEnds ==
    (inProgress \/ failed) ~>
        (main \in Ended \/ main = "hung" \/ ignored \/ SelfLocked \/ overlap)

=============================================================================
