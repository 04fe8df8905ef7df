--------------------------- MODULE ControlServer ---------------------------
(***************************************************************************)
(* The control server (ctrl/control_server.cpp): its two listeners, the    *)
(* metrics broadcast, the WebSocket clients with a writer thread each, and *)
(* start and stop.                                                         *)
(*                                                                         *)
(* Threads: the main thread (start, stop), one accept loop per listener,   *)
(* the broadcast thread, one detached session thread per WebSocket         *)
(* connection and one writer thread per client.  queue_mutex of a client   *)
(* is held over several steps only by its writer, between the test of the  *)
(* wait's predicate and the wait (writer state "parking"); every other     *)
(* critical section under it is one step.  ws_connections_mutex_ is held   *)
(* over several steps only by stop (wsMutex).                              *)
(*                                                                         *)
(* Spurious wake-ups are left out: one would test the predicate and wait   *)
(* again, and nothing may rely on one.  HTTP requests are the environment  *)
(* of the modules of the components they reach; here a connection to the   *)
(* HTTP port only takes the accept loop round.                             *)
(***************************************************************************)
EXTENDS Integers, Sequences, FiniteSets, SequencesExt

CONSTANTS
    Clients,      \* WebSocket clients that may connect, once each
    MaxPending,   \* max_pending_messages (64 in the code)
    MaxTicks,     \* bound: payloads broadcast; later rounds only clean up
    CloseWakes    \* does closing a socket abort an accept blocked on it?
                  \* FALSE on Linux, TRUE on Windows

ASSUME ControlServerAssumption ==
    /\ MaxPending \in Nat \ {0}
    /\ MaxTicks \in Nat
    /\ CloseWakes \in BOOLEAN

VARIABLES
    up,           \* FALSE once std::terminate or a fault ended the process
    running,      \* running_
    acceptor,     \* http_acceptor_ and ws_acceptor_
    loop,         \* http_thread_ and ws_accept_thread_
    caster,       \* metrics_thread_
    snapshot,     \* clients_snapshot: the references it holds
    todo,         \* the clients of the snapshot not yet offered the payload
    tick,         \* the payload of this round
    main,         \* where the main thread is in start or stop
    at,           \* what it is stopping: a listener, a client or None
    wsMutex,      \* ws_connections_mutex_ is held by stop
    listed,       \* ws_connections_
    session,      \* handle_websocket_session, per client
    clientRunning, pending, writer, hand,   \* MetricsWsClient
    peer,         \* the other end of the connection
    wire,         \* observed: what the client was sent, in order
    offers,       \* observed: what enqueue accepted
    missed        \* observed: stop notified while the writer was parking

serverVars == <<running, acceptor, loop>>
castVars == <<caster, snapshot, todo, tick>>
mainVars == <<main, at, wsMutex>>
clientVars == <<clientRunning, pending, writer, hand>>
observed == <<wire, offers, missed>>
vars == <<up, serverVars, castVars, mainVars, listed, session, clientVars,
          peer, observed>>

Listeners == {"http", "ws"}
None == "none"
Payloads == 1..MaxTicks
WriterLives == {"check", "pred", "parking", "waiting", "write", "closing",
                "leaving"}

(* Every variable holds a value the code can give it; in particular no     *)
(* client's queue grows past its limit and no payload is sent out of the   *)
(* writer's hand that was not taken from the queue.                        *)
TypeOK ==
    /\ up \in BOOLEAN /\ running \in BOOLEAN /\ wsMutex \in BOOLEAN
    /\ acceptor \in [Listeners -> {"null", "open", "closed"}]
    /\ loop \in [Listeners -> {None, "check", "enter", "accept", "ended"}]
    /\ caster \in {None, "sleep", "prune", "offer", "ended"}
    /\ snapshot \subseteq Clients /\ todo \subseteq snapshot
    /\ tick \in 0..MaxTicks
    /\ main \in {"idle", "http", "serving", "close", "reset", "join",
                 "metrics", "lock", "clients", "notify", "joinWriter", "done"}
    /\ at \in Listeners \union Clients \union {None}
    /\ listed \subseteq Clients
    /\ session \in [Clients -> {None, "handshake", "listing", "ended"}]
    /\ clientRunning \in [Clients -> BOOLEAN]
    /\ pending \in [Clients -> Seq(Payloads)]
    /\ \A c \in Clients : Len(pending[c]) <= MaxPending
    /\ writer \in [Clients -> WriterLives \union {None, "ended"}]
    /\ hand \in [Clients -> Payloads \union {0}]
    /\ \A c \in Clients : hand[c] # 0 <=> writer[c] = "write"
    /\ peer \in [Clients -> {"reading", "stuck", "gone"}]
    /\ wire \in [Clients -> Seq(Payloads)]
    /\ offers \in [Clients -> SUBSET Payloads]
    /\ missed \in [Clients -> BOOLEAN]

Init ==
    /\ up = TRUE /\ running = FALSE
    /\ acceptor = [l \in Listeners |-> "null"]
    /\ loop = [l \in Listeners |-> None]
    /\ caster = None /\ snapshot = {} /\ todo = {} /\ tick = 0
    /\ main = "idle" /\ at = None /\ wsMutex = FALSE
    /\ listed = {}
    /\ session = [c \in Clients |-> None]
    /\ clientRunning = [c \in Clients |-> TRUE]
    /\ pending = [c \in Clients |-> <<>>]
    /\ writer = [c \in Clients |-> None]
    /\ hand = [c \in Clients |-> 0]
    /\ peer = [c \in Clients |-> "reading"]
    /\ wire = [c \in Clients |-> <<>>]
    /\ offers = [c \in Clients |-> {}]
    /\ missed = [c \in Clients |-> FALSE]

-----------------------------------------------------------------------------
(* The writer thread of a client.                                          *)

WriterStep(c, from, to) ==
    /\ up /\ writer[c] = from
    /\ writer' = [writer EXCEPT ![c] = to]

WriterUnchanged ==
    UNCHANGED <<serverVars, castVars, mainVars, listed, session, peer>>

(* The condition of the loop.  The stop token is set by stop only after    *)
(* the flag was cleared, so it adds nothing to the flag.                   *)
LoopCheck(c) ==
    /\ WriterStep(c, "check", IF clientRunning[c] THEN "pred" ELSE "closing")
    /\ WriterUnchanged
    /\ UNCHANGED <<up, clientRunning, pending, hand, observed>>

(* Under queue_mutex: the predicate of the wait, and what follows the wait *)
(* when it holds.                                                          *)
TestPredicate(c) ==
    /\ up /\ writer[c] = "pred"
    /\ \/ /\ clientRunning[c] /\ pending[c] = <<>>
          /\ writer' = [writer EXCEPT ![c] = "parking"]
          /\ UNCHANGED <<pending, hand>>
       \/ /\ ~clientRunning[c]
          /\ writer' = [writer EXCEPT ![c] = "closing"]
          /\ UNCHANGED <<pending, hand>>
       \/ /\ clientRunning[c] /\ pending[c] # <<>>
          /\ writer' = [writer EXCEPT ![c] = "write"]
          /\ hand' = [hand EXCEPT ![c] = Head(pending[c])]
          /\ pending' = [pending EXCEPT ![c] = Tail(@)]
    /\ WriterUnchanged
    /\ UNCHANGED <<up, clientRunning, observed>>

(* wait releases queue_mutex and blocks, in one step.                      *)
Park(c) ==
    /\ WriterStep(c, "parking", "waiting")
    /\ WriterUnchanged
    /\ UNCHANGED <<up, clientRunning, pending, hand, observed>>

WriteSucceeds(c) ==
    /\ peer[c] = "reading"
    /\ WriterStep(c, "write", "check")
    /\ wire' = [wire EXCEPT ![c] = Append(@, hand[c])]
    /\ hand' = [hand EXCEPT ![c] = 0]
    /\ WriterUnchanged
    /\ UNCHANGED <<up, clientRunning, pending, offers, missed>>

WriteFails(c) ==
    /\ peer[c] = "gone"
    /\ WriterStep(c, "write", "closing")
    /\ hand' = [hand EXCEPT ![c] = 0]
    /\ clientRunning' = [clientRunning EXCEPT ![c] = FALSE]
    /\ WriterUnchanged
    /\ UNCHANGED <<up, pending, observed>>

(* The closing handshake waits for the peer.                               *)
CloseSocket(c) ==
    /\ peer[c] # "stuck"
    /\ WriterStep(c, "closing", "leaving")
    /\ clientRunning' = [clientRunning EXCEPT ![c] = FALSE]
    /\ WriterUnchanged
    /\ UNCHANGED <<up, pending, hand, observed>>

(* Who else holds a shared_ptr to the client.                              *)
Referenced(c) == c \in listed \union snapshot \/ session[c] = "listing"

(* The thread function ends and its closure drops `self`.  If that was the *)
(* last reference, the client's destructor runs here: stop() returns at    *)
(* once, and ~jthread joins the thread it runs on, which throws out of a   *)
(* destructor.                                                             *)
Leave(c) ==
    /\ WriterStep(c, "leaving", "ended")
    /\ up' = Referenced(c)
    /\ WriterUnchanged
    /\ UNCHANGED <<clientRunning, pending, hand, observed>>

Writer(c) ==
    \/ LoopCheck(c) \/ TestPredicate(c) \/ Park(c) \/ WriteSucceeds(c)
    \/ WriteFails(c) \/ CloseSocket(c) \/ Leave(c)

-----------------------------------------------------------------------------
(* The accept loops and the session threads.                               *)

LoopStep(l, from, to) ==
    /\ up /\ loop[l] = from
    /\ loop' = [loop EXCEPT ![l] = to]

ListenerUnchanged ==
    UNCHANGED <<running, acceptor, castVars, mainVars, listed, clientVars,
                peer, observed>>

ListenerCheck(l) ==
    /\ LoopStep(l, "check", IF running THEN "enter" ELSE "ended")
    /\ ListenerUnchanged /\ UNCHANGED <<up, session>>

(* The call of accept: it blocks on an open socket, fails on a closed one  *)
(* and goes through a null pointer once stop has reset the acceptor.       *)
EnterAccept(l) ==
    /\ LoopStep(l, "enter", IF acceptor[l] = "open" THEN "accept" ELSE "ended")
    /\ up' = (acceptor[l] # "null")
    /\ ListenerUnchanged /\ UNCHANGED session

AcceptFails(l) ==
    /\ acceptor[l] = "open"
    /\ LoopStep(l, "accept", IF running THEN "check" ELSE "ended")
    /\ ListenerUnchanged /\ UNCHANGED <<up, session>>

AcceptAborted(l) ==
    /\ CloseWakes /\ acceptor[l] # "open"
    /\ LoopStep(l, "accept", "ended")
    /\ ListenerUnchanged /\ UNCHANGED <<up, session>>

AcceptHttp ==
    /\ LoopStep("http", "accept", "check")
    /\ ListenerUnchanged /\ UNCHANGED <<up, session>>

(* A blocked accept goes on to return connections after the socket was     *)
(* closed, unless the close aborts it.                                     *)
AcceptWs(c) ==
    /\ LoopStep("ws", "accept", "check")
    /\ session[c] = None
    /\ session' = [session EXCEPT ![c] = "handshake"]
    /\ ListenerUnchanged /\ UNCHANGED up

SessionUnchanged ==
    UNCHANGED <<up, serverVars, castVars, mainVars, clientRunning, pending,
                hand, peer, observed>>

(* Read error, other target, no upgrade, failed handshake.                 *)
HandshakeFails(c) ==
    /\ up /\ session[c] = "handshake"
    /\ session' = [session EXCEPT ![c] = "ended"]
    /\ SessionUnchanged /\ UNCHANGED <<listed, writer>>

StartClient(c) ==
    /\ up /\ session[c] = "handshake"
    /\ session' = [session EXCEPT ![c] = "listing"]
    /\ writer' = [writer EXCEPT ![c] = "check"]
    /\ SessionUnchanged /\ UNCHANGED listed

ListClient(c) ==
    /\ up /\ session[c] = "listing" /\ ~wsMutex
    /\ session' = [session EXCEPT ![c] = "ended"]
    /\ listed' = listed \union {c}
    /\ SessionUnchanged /\ UNCHANGED writer

-----------------------------------------------------------------------------
(* The broadcast thread.                                                   *)

CastUnchanged ==
    UNCHANGED <<up, serverVars, mainVars, session, clientRunning, hand, peer,
                wire, missed>>

(* The sleep of a second and the test of running_ after it.                *)
CastWakes ==
    /\ up /\ caster = "sleep"
    /\ caster' = IF running THEN "prune" ELSE "ended"
    /\ CastUnchanged
    /\ UNCHANGED <<snapshot, todo, tick, listed, pending, writer, offers>>

(* Mutant: clients that failed are not taken out.                          *)
StillRunningAll(cs) == cs

StillRunning(cs) == {c \in cs : clientRunning[c]}

TakeSnapshot ==
    /\ up /\ caster = "prune" /\ ~wsMutex
    /\ caster' = "offer"
    /\ listed' = StillRunning(listed)
    /\ snapshot' = listed'
    /\ todo' = IF tick < MaxTicks THEN listed' ELSE {}
    /\ tick' = IF tick < MaxTicks THEN tick + 1 ELSE tick
    /\ CastUnchanged
    /\ UNCHANGED <<pending, writer, offers>>

(* notify_one and notify_all: a client's condition variable has its writer *)
(* as only waiter.                                                         *)
Notified(c) == IF writer[c] = "waiting" THEN "pred" ELSE writer[c]

(* Mutant: at the limit the newest message goes.                           *)
EnqueuedDropNewest(q, m) ==
    Append(IF Len(q) >= MaxPending THEN Front(q) ELSE q, m)

(* Mutant: the limit is off by one.                                        *)
EnqueuedOneMore(q, m) == Append(IF Len(q) > MaxPending THEN Tail(q) ELSE q, m)

(* deque after enqueue: at the limit the oldest message goes.              *)
Enqueued(q, m) == Append(IF Len(q) >= MaxPending THEN Tail(q) ELSE q, m)

(* Mutant: enqueue does not take queue_mutex.                              *)
QueueMutexIgnored(c) == TRUE

QueueMutexFree(c) == writer[c] # "parking"

(* enqueue under queue_mutex, for a client of the snapshot.  When it       *)
(* refuses, the client is not running and the stop() that follows returns  *)
(* at once.                                                                *)
Offer(c) ==
    /\ up /\ caster = "offer" /\ c \in todo
    /\ QueueMutexFree(c)
    /\ todo' = todo \ {c}
    /\ \/ /\ clientRunning[c]
          /\ pending' = [pending EXCEPT ![c] = Enqueued(@, tick)]
          /\ offers' = [offers EXCEPT ![c] = @ \union {tick}]
          /\ writer' = [writer EXCEPT ![c] = Notified(c)]
       \/ /\ ~clientRunning[c]
          /\ UNCHANGED <<pending, offers, writer>>
    /\ CastUnchanged
    /\ UNCHANGED <<caster, snapshot, tick, listed>>

(* The second clean-up, and the end of the snapshot.                       *)
EndRound ==
    /\ up /\ caster = "offer" /\ todo = {} /\ ~wsMutex
    /\ caster' = "sleep"
    /\ listed' = StillRunning(listed)
    /\ snapshot' = {}
    /\ CastUnchanged
    /\ UNCHANGED <<todo, tick, pending, writer, offers>>

-----------------------------------------------------------------------------
(* The main thread: start and stop.                                        *)

MainStep(from, to) == up /\ main = from /\ main' = to

MainUnchanged ==
    UNCHANGED <<up, snapshot, todo, tick, session, pending, hand, peer, wire,
                offers>>

ClientsUnchanged == UNCHANGED <<clientRunning, writer, missed>>

(* stop() from its first step on: what start does when it fails.           *)
BeginStop ==
    /\ main' = "close" /\ at' = "http"
    /\ running' = FALSE

StartHttp ==
    /\ up /\ main = "idle"
    /\ acceptor' = [acceptor EXCEPT !["http"] = "open"]
    /\ \/ /\ running' = TRUE
          /\ loop' = [loop EXCEPT !["http"] = "check"]
          /\ main' = "http" /\ UNCHANGED at
       \/ BeginStop /\ UNCHANGED loop
    /\ MainUnchanged /\ ClientsUnchanged
    /\ UNCHANGED <<caster, wsMutex, listed>>

StartWs ==
    /\ up /\ main = "http"
    /\ acceptor' = [acceptor EXCEPT !["ws"] = "open"]
    /\ \/ /\ main' = "serving"
          /\ loop' = [loop EXCEPT !["ws"] = "check"]
          /\ caster' = "sleep"
          /\ UNCHANGED <<running, at>>
       \/ BeginStop /\ UNCHANGED <<loop, caster>>
    /\ MainUnchanged /\ ClientsUnchanged
    /\ UNCHANGED <<wsMutex, listed>>

StopServer ==
    /\ up /\ main = "serving"
    /\ BeginStop
    /\ MainUnchanged /\ ClientsUnchanged
    /\ UNCHANGED <<acceptor, loop, caster, wsMutex, listed>>

(* An acceptor that was never made is skipped; so is a thread.             *)
CloseAcceptor(l) ==
    /\ MainStep("close", "reset") /\ at = l
    /\ acceptor' = [acceptor EXCEPT ![l] = IF @ = "open" THEN "closed" ELSE @]
    /\ MainUnchanged /\ ClientsUnchanged
    /\ UNCHANGED <<running, loop, caster, at, wsMutex, listed>>

ResetAcceptor(l) ==
    /\ MainStep("reset", "join") /\ at = l
    /\ acceptor' = [acceptor EXCEPT ![l] = "null"]
    /\ MainUnchanged /\ ClientsUnchanged
    /\ UNCHANGED <<running, loop, caster, at, wsMutex, listed>>

JoinListener(l) ==
    /\ up /\ main = "join" /\ at = l
    /\ loop[l] \in {None, "ended"}
    /\ main' = IF l = "http" THEN "close" ELSE "metrics"
    /\ at' = IF l = "http" THEN "ws" ELSE None
    /\ MainUnchanged /\ ClientsUnchanged
    /\ UNCHANGED <<serverVars, caster, wsMutex, listed>>

JoinMetrics ==
    /\ MainStep("metrics", "lock")
    /\ caster \in {None, "ended"}
    /\ MainUnchanged /\ ClientsUnchanged
    /\ UNCHANGED <<serverVars, caster, at, wsMutex, listed>>

LockConnections ==
    /\ MainStep("lock", "clients")
    /\ wsMutex' = TRUE
    /\ MainUnchanged /\ ClientsUnchanged
    /\ UNCHANGED <<serverVars, caster, at, listed>>

(* client->stop() for the next client: it returns at once for one whose    *)
(* flag is already down.                                                   *)
StopClient(c) ==
    /\ MainStep("clients", "notify")
    /\ c \in listed /\ clientRunning[c]
    /\ at' = c
    /\ clientRunning' = [clientRunning EXCEPT ![c] = FALSE]
    /\ MainUnchanged
    /\ UNCHANGED <<serverVars, caster, wsMutex, listed, writer, missed>>

(* Mutant: stop relies on request_stop to wake the writer.                 *)
NotifyForgotten(c) ==
    /\ MainStep("notify", "joinWriter") /\ at = c
    /\ MainUnchanged /\ ClientsUnchanged
    /\ UNCHANGED <<serverVars, caster, at, wsMutex, listed>>

(* notify_all, without queue_mutex, and request_stop.                      *)
NotifyWriter(c) ==
    /\ MainStep("notify", "joinWriter") /\ at = c
    /\ writer' = [writer EXCEPT ![c] = Notified(c)]
    /\ missed' = [missed EXCEPT ![c] = writer[c] = "parking"]
    /\ MainUnchanged
    /\ UNCHANGED <<serverVars, caster, at, wsMutex, listed, clientRunning>>

JoinWriter(c) ==
    /\ MainStep("joinWriter", "clients") /\ at = c
    /\ writer[c] = "ended"
    /\ at' = None
    /\ MainUnchanged /\ ClientsUnchanged
    /\ UNCHANGED <<serverVars, caster, wsMutex, listed>>

(* Mutant: the list is cleared without stopping the clients.               *)
ClearOnly ==
    /\ MainStep("clients", "done")
    /\ listed' = {}
    /\ wsMutex' = FALSE
    /\ MainUnchanged /\ ClientsUnchanged
    /\ UNCHANGED <<serverVars, caster, at>>

ClearConnections ==
    /\ MainStep("clients", "done")
    /\ StillRunning(listed) = {}
    /\ listed' = {}
    /\ wsMutex' = FALSE
    /\ MainUnchanged /\ ClientsUnchanged
    /\ UNCHANGED <<serverVars, caster, at>>

-----------------------------------------------------------------------------
(* The other end of a connection stops reading, reads again or goes.       *)
Peer(c) ==
    /\ up /\ session[c] # None /\ peer[c] # "gone"
    /\ \E p \in {"reading", "stuck", "gone"} \ {peer[c]} :
           peer' = [peer EXCEPT ![c] = p]
    /\ UNCHANGED <<up, serverVars, castVars, mainVars, listed, session,
                   clientVars, observed>>

MainThread ==
    \/ StartHttp \/ StartWs \/ JoinMetrics \/ LockConnections
    \/ ClearConnections
    \/ \E l \in Listeners : CloseAcceptor(l) \/ ResetAcceptor(l)
                            \/ JoinListener(l)
    \/ \E c \in Clients : StopClient(c) \/ NotifyWriter(c) \/ JoinWriter(c)

Listener(l) == ListenerCheck(l) \/ EnterAccept(l) \/ AcceptAborted(l)

Caster ==
    \/ CastWakes \/ TakeSnapshot \/ EndRound
    \/ \E c \in Clients : Offer(c)

Environment ==
    \/ StopServer \/ AcceptHttp
    \/ \E l \in Listeners : AcceptFails(l)
    \/ \E c \in Clients : AcceptWs(c) \/ HandshakeFails(c) \/ StartClient(c)
                          \/ Peer(c)

Next ==
    \/ MainThread \/ Caster \/ Environment
    \/ \E l \in Listeners : Listener(l)
    \/ \E c \in Clients : Writer(c) \/ ListClient(c)

Spec == Init /\ [][Next]_vars

(* Every thread that can go on does.  Peers, connections and the call of   *)
(* stop are the environment's.                                             *)
Fairness ==
    /\ WF_vars(MainThread)
    /\ WF_vars(Caster)
    /\ \A l \in Listeners : WF_vars(Listener(l))
    /\ \A c \in Clients : WF_vars(Writer(c)) /\ WF_vars(ListClient(c))

LiveSpec == Spec /\ Fairness

-----------------------------------------------------------------------------
Increasing(q) == \A i, j \in DOMAIN q : i < j => q[i] < q[j]
Precede(N, M) == \A n \in N, m \in M : n < m

(* The payload in the writer's hand, and all that was sent or waits.       *)
Held(c) == {hand[c]} \ {0}
Sent(c) == ToSet(wire[c]) \union Held(c) \union ToSet(pending[c])

(* What a client is sent, and what waits for it, is in the order of the    *)
(* broadcasts and without repeats; a payload that is missing was pushed    *)
(* out by MaxPending newer ones (enqueue drops the oldest), so a client    *)
(* that reads again always finds the newest.                               *)
FreshInOrder ==
    \A c \in Clients :
        /\ Increasing(wire[c]) /\ Increasing(pending[c])
        /\ Precede(ToSet(wire[c]), Held(c) \union ToSet(pending[c]))
        /\ Precede(Held(c), ToSet(pending[c]))
        /\ clientRunning[c] =>
               \A m \in offers[c] \ Sent(c) :
                   Cardinality({n \in offers[c] : n > m}) >= MaxPending

(* Once stop has returned no client is served any more, but for one that   *)
(* its session thread put, or is about to put, into the cleared list.      *)
StopClosesListed ==
    main = "done" =>
        \A c \in Clients :
            writer[c] \in WriterLives \ {"closing", "leaving"} =>
                c \in listed \/ session[c] = "listing"

(* A queue that is not empty brings its writer to a write: enqueue never   *)
(* loses the writer's wake-up.                                             *)
QueuedIsTaken ==
    \A c \in Clients :
        pending[c] # <<>> ~>
            (writer[c] = "write" \/ ~clientRunning[c] \/ ~up)

(* A client whose connection failed does not stay in the list, unless the  *)
(* server is being stopped.                                                *)
BrokenIsUnlisted ==
    \A c \in Clients :
        (c \in listed /\ ~clientRunning[c]) ~>
            (c \notin listed \/ ~running \/ ~up)

(* What keeps stop from returning: a writer that missed the notification,  *)
(* which stop gives without queue_mutex, or a peer that takes neither      *)
(* payload nor closing handshake.                                          *)
Hung(c) ==
    \/ missed[c] /\ writer[c] = "waiting"
    \/ writer[c] \in {"write", "closing"} /\ peer[c] = "stuck"

(* stop returns, where closing a socket aborts an accept, unless one of    *)
(* the clients hangs.                                                      *)
StopReturns ==
    (main = "close") ~> (main = "done" \/ ~up \/ \E c \in Clients : Hung(c))

(* "Shutdown always completes" (docs/ARCHITECTURE.md:216).                 *)
ShutdownCompletes == (main = "close") ~> (main = "done")

=============================================================================
