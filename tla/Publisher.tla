------------------------------ MODULE Publisher ------------------------------
(***************************************************************************)
(* PubServer and its ClientConnections (src/publisher/pub_server.cpp):     *)
(* accepting, authenticating and subscribing, the write thread of every    *)
(* connection with its circuit breaker, disconnects, the heartbeat thread, *)
(* publish, and stop.                                                      *)
(*                                                                         *)
(* The IO threads run the accept and read handlers; run() joins them       *)
(* before MarketDataCore::stop calls PubServer::stop.  A ClientConnection  *)
(* may be stopped by its read handler, by its write thread or by the       *)
(* server; whoever clears running_ first joins the write thread.  No lock  *)
(* joins send_frame's test of running_ to its enqueue, so these are two    *)
(* steps of publish and of the heartbeat thread.  The heartbeat thread and *)
(* stop hold clients_mutex_ over several steps; whoever else takes it does *)
(* so in one.                                                              *)
(*                                                                         *)
(* Abstractions: a send queue is its length; one topic, to which a client  *)
(* is subscribed or not; the cache of latest frames is left out.  publish  *)
(* copies clients_ and filters it in one step, in one thread.  A read      *)
(* handler's send_frame is one step: in between, only the write thread     *)
(* could stop the connection, and that is the end of the process.          *)
(* ClientConnection::stop clears running_ and closes the socket in one     *)
(* step, before it joins.                                                  *)
(***************************************************************************)
EXTENDS Integers, FiniteSets, FiniteSetsExt

CONSTANTS
    Clients,            \* TCP connections ever made
    MaxConnections,     \* MAX_CONNECTIONS
    MaxWriteFailures,   \* MAX_CONSECUTIVE_FAILURES of write_loop
    HighWatermark, LowWatermark,
    MaxEvents           \* bound: control messages, publishes, heartbeat rounds, departures

ASSUME ConstantsAssumption ==
    /\ IsFiniteSet(Clients)
    /\ MaxConnections \in Nat \ {0} /\ MaxWriteFailures \in Nat \ {0}
    /\ HighWatermark \in Nat \ {0}
    /\ LowWatermark \in Nat /\ LowWatermark < HighWatermark
    /\ MaxEvents \in Nat

VARIABLES
    up,         \* running_ of the PubServer
    io,         \* are the IO threads running?
    clients,    \* clients_
    mutex,      \* who holds clients_mutex_ between two steps
    \* PubServer::stop
    serverPc,
    toStop,     \* the clients its loop has not come to
    joining,    \* the client whose write thread it joins (at most one)
    \* of every ClientConnection
    peer,       \* the other end: "absent", "connected" or "gone"
    socket,     \* [Clients -> BOOLEAN]  is socket_ open?
    running, authenticated, subscribed,
    depth,      \* [Clients -> Nat]      send_queue_
    writer,     \* [Clients -> {...}]    the write thread
    hold,       \* [Clients -> Nat]      frames left in its batch
    failures,   \* [Clients -> Nat]      consecutive_failures
    reader,     \* [Clients -> {...}]    the read handler
    \* publish and the heartbeat thread
    pubPc, waiting, beatPc,
    todo,       \* [Senders -> SUBSET Clients]  clients to send to
    sending,    \* [Senders -> SUBSET Clients]  in send_frame, running_ tested (at most one)
    events,     \* events of MaxEvents so far
    aborted     \* std::terminate has been called: nothing happens any more

serverVars == <<up, io, clients, mutex, serverPc, toStop, joining>>
connVars == <<peer, socket, running, authenticated, subscribed, depth, writer, hold, failures, reader>>
sendVars == <<pubPc, waiting, beatPc, todo, sending>>
vars == <<serverVars, connVars, sendVars, events, aborted>>

Senders == {"publish", "heartbeat"}

TypeOK ==
    /\ up \in BOOLEAN /\ io \in BOOLEAN /\ waiting \in BOOLEAN /\ aborted \in BOOLEAN
    /\ mutex \in {"free", "heartbeat", "stop"}
    /\ serverPc \in {"running", "lock", "clients", "heartbeat", "stopped"}
    /\ clients \subseteq Clients /\ toStop \subseteq Clients /\ joining \subseteq Clients
    /\ peer \in [Clients -> {"absent", "connected", "gone"}]
    /\ socket \in [Clients -> BOOLEAN] /\ running \in [Clients -> BOOLEAN]
    /\ authenticated \in [Clients -> BOOLEAN] /\ subscribed \in [Clients -> BOOLEAN]
    /\ depth \in [Clients -> Nat] /\ hold \in [Clients -> Nat]
    /\ failures \in [Clients -> 0..MaxWriteFailures]
    /\ writer \in [Clients -> {"none", "loop", "selfJoin", "done"}]
    /\ reader \in [Clients -> {"none", "reading", "joining", "done"}]
    /\ pubPc \in {"idle", "lock", "wait", "send"}
    /\ beatPc \in {"sleep", "lock", "send", "done"}
    /\ todo \in [Senders -> SUBSET Clients] /\ sending \in [Senders -> SUBSET Clients]
    /\ events \in Nat

Init ==
    LET none(x) == [c \in Clients |-> x]
    IN  /\ up = TRUE /\ io = TRUE /\ clients = {} /\ mutex = "free"
        /\ serverPc = "running" /\ toStop = {} /\ joining = {}
        /\ peer = none("absent") /\ socket = none(FALSE) /\ running = none(FALSE)
        /\ authenticated = none(FALSE) /\ subscribed = none(FALSE)
        /\ depth = none(0) /\ writer = none("none") /\ hold = none(0) /\ failures = none(0)
        /\ reader = none("none")
        /\ pubPc = "idle" /\ waiting = FALSE /\ beatPc = "sleep"
        /\ todo = [s \in Senders |-> {}] /\ sending = [s \in Senders |-> {}]
        /\ events = 0 /\ aborted = FALSE

-----------------------------------------------------------------------------
(* The accept handler adds the connection to clients_ and starts it.       *)
Accept(c) ==
    /\ ~aborted /\ io /\ up /\ mutex = "free" /\ peer[c] = "absent"
    /\ Cardinality(clients) < MaxConnections
    /\ peer' = [peer EXCEPT ![c] = "connected"]
    /\ clients' = clients \cup {c}
    /\ socket' = [socket EXCEPT ![c] = TRUE]
    /\ running' = [running EXCEPT ![c] = TRUE]
    /\ writer' = [writer EXCEPT ![c] = "loop"]
    /\ reader' = [reader EXCEPT ![c] = "reading"]
    /\ UNCHANGED <<up, io, mutex, serverPc, toStop, joining, authenticated, subscribed, depth,
                   hold, failures, sendVars, events, aborted>>

(* At the limit the new socket is closed, and nothing is left of it.       *)
Refuse ==
    /\ ~aborted /\ io /\ up /\ mutex = "free"
    /\ Cardinality(clients) >= MaxConnections
    /\ UNCHANGED vars

(* What clients, publishing threads and the clock bring about, up to the   *)
(* bound.                                                                  *)
Event == events < MaxEvents /\ events' = events + 1

(* The other end goes away: closed, crashed or cut off.                    *)
Leave(c) ==
    /\ ~aborted /\ Event /\ peer[c] = "connected"
    /\ peer' = [peer EXCEPT ![c] = "gone"]
    /\ UNCHANGED <<serverVars, socket, running, authenticated, subscribed, depth, writer, hold,
                   failures, reader, sendVars, aborted>>

-----------------------------------------------------------------------------
(* The read handler.                                                       *)

Reads(c) ==
    /\ ~aborted /\ Event /\ io /\ reader[c] = "reading" /\ peer[c] = "connected" /\ running[c]
    /\ UNCHANGED <<serverVars, peer, writer, hold, failures, sendVars, aborted>>

(* The acknowledgement goes the way of every frame: only to a client that  *)
(* has authenticated.                                                      *)
Acknowledge(c) == depth' = [depth EXCEPT ![c] = IF authenticated'[c] THEN @ + 1 ELSE @]

(* "auth" with the right token.                                            *)
Authenticate(c) ==
    /\ Reads(c)
    /\ authenticated' = [authenticated EXCEPT ![c] = TRUE]
    /\ Acknowledge(c)
    /\ UNCHANGED <<socket, running, subscribed, reader>>

(* "subscribe": refused before authentication.                             *)
Subscribe(c) ==
    /\ Reads(c)
    /\ subscribed' = [subscribed EXCEPT ![c] = @ \/ authenticated[c]]
    /\ UNCHANGED <<socket, running, authenticated, reader>>
    /\ Acknowledge(c)

Unsubscribe(c) ==
    /\ Reads(c)
    /\ subscribed' = [subscribed EXCEPT ![c] = FALSE]
    /\ UNCHANGED <<socket, running, authenticated, reader>>
    /\ Acknowledge(c)

(* ClientConnection::stop called by the read handler, for a wrong token,   *)
(* which is acknowledged first, or for a read error: it returns at once    *)
(* when the connection has been stopped, else it joins the write thread.   *)
StopByReader(c) ==
    /\ running' = [running EXCEPT ![c] = FALSE]
    /\ socket' = [socket EXCEPT ![c] = FALSE]
    /\ reader' = [reader EXCEPT ![c] = IF running[c] THEN "joining" ELSE "done"]

BadToken(c) ==
    /\ Reads(c)
    /\ StopByReader(c)
    /\ UNCHANGED <<authenticated, subscribed>>
    /\ Acknowledge(c)

ReadError(c) ==
    /\ ~aborted /\ io /\ reader[c] = "reading"
    /\ peer[c] = "gone" \/ ~socket[c]
    /\ StopByReader(c)
    /\ UNCHANGED <<serverVars, peer, authenticated, subscribed, depth, writer, hold, failures,
                   sendVars, events, aborted>>

ReaderJoined(c) ==
    /\ ~aborted /\ reader[c] = "joining" /\ writer[c] = "done"
    /\ reader' = [reader EXCEPT ![c] = "done"]
    /\ UNCHANGED <<serverVars, peer, socket, running, authenticated, subscribed, depth, writer,
                   hold, failures, sendVars, events, aborted>>

-----------------------------------------------------------------------------
(* The write thread.                                                       *)

WriterUnchanged ==
    UNCHANGED <<serverVars, peer, authenticated, subscribed, reader, sendVars, events>>

WriterTake(c) ==
    /\ ~aborted /\ writer[c] = "loop" /\ running[c] /\ hold[c] = 0 /\ depth[c] > 0
    /\ hold' = [hold EXCEPT ![c] = depth[c]]
    /\ depth' = [depth EXCEPT ![c] = 0]
    /\ UNCHANGED <<socket, running, writer, failures, aborted>>
    /\ WriterUnchanged

(* A write that succeeds; the system may accept it although the other end  *)
(* is gone.                                                                *)
WriterSend(c) ==
    /\ ~aborted /\ writer[c] = "loop" /\ hold[c] > 0 /\ socket[c]
    /\ hold' = [hold EXCEPT ![c] = @ - 1]
    /\ failures' = [failures EXCEPT ![c] = 0]
    /\ UNCHANGED <<socket, running, depth, writer, aborted>>
    /\ WriterUnchanged

(* Mutant: the circuit breaker opens one failure late.                     *)
WriterFailOneMore(c) ==
    LET last == failures[c] + 1 > MaxWriteFailures
    IN  /\ ~aborted /\ writer[c] = "loop" /\ hold[c] > 0
        /\ ~socket[c] \/ peer[c] = "gone"
        /\ hold' = [hold EXCEPT ![c] = IF last THEN 0 ELSE @ - 1]
        /\ failures' = [failures EXCEPT ![c] = @ + 1]
        /\ running' = [running EXCEPT ![c] = @ /\ ~last]
        /\ socket' = [socket EXCEPT ![c] = @ /\ ~last]
        /\ writer' = [writer EXCEPT ![c] = CASE ~last -> "loop"
                                             [] last /\ running[c] -> "selfJoin"
                                             [] OTHER -> "done"]
        /\ UNCHANGED <<depth, aborted>>
        /\ WriterUnchanged

(* A write that fails.  The last of MaxWriteFailures in a row calls stop,  *)
(* which returns at once if somebody else has stopped the connection.      *)
WriterFail(c) ==
    LET last == failures[c] + 1 >= MaxWriteFailures
    IN  /\ ~aborted /\ writer[c] = "loop" /\ hold[c] > 0
        /\ ~socket[c] \/ peer[c] = "gone"
        /\ hold' = [hold EXCEPT ![c] = IF last THEN 0 ELSE @ - 1]
        /\ failures' = [failures EXCEPT ![c] = @ + 1]
        /\ running' = [running EXCEPT ![c] = @ /\ ~last]
        /\ socket' = [socket EXCEPT ![c] = @ /\ ~last]
        /\ writer' = [writer EXCEPT ![c] = CASE ~last -> "loop"
                                             [] last /\ running[c] -> "selfJoin"
                                             [] OTHER -> "done"]
        /\ UNCHANGED <<depth, aborted>>
        /\ WriterUnchanged

(* If nobody has, stop joins the thread it runs on: join throws, nothing   *)
(* catches, and the process is terminated.                                 *)
WriterSelfJoin(c) ==
    /\ ~aborted /\ writer[c] = "selfJoin"
    /\ aborted' = TRUE
    /\ UNCHANGED <<socket, running, depth, writer, hold, failures>>
    /\ WriterUnchanged

(* Mutant: the write thread leaves only when its queue is empty.           *)
WriterExitDrained(c) ==
    /\ ~aborted /\ writer[c] = "loop" /\ ~running[c] /\ hold[c] = 0 /\ depth[c] = 0
    /\ writer' = [writer EXCEPT ![c] = "done"]
    /\ UNCHANGED <<socket, running, depth, hold, failures, aborted>>
    /\ WriterUnchanged

WriterExit(c) ==
    /\ ~aborted /\ writer[c] = "loop" /\ ~running[c] /\ hold[c] = 0
    /\ writer' = [writer EXCEPT ![c] = "done"]
    /\ UNCHANGED <<socket, running, depth, hold, failures, aborted>>
    /\ WriterUnchanged

-----------------------------------------------------------------------------
(* send_frame, of publish and of the heartbeat thread.                     *)

SendUnchanged ==
    UNCHANGED <<serverVars, peer, socket, running, authenticated, subscribed, writer, hold,
                failures, reader, aborted>>

(* May s send to the next of its clients?                                  *)
Sends(s) ==
    /\ ~aborted /\ sending[s] = {}
    /\ IF s = "publish" THEN pubPc = "send" ELSE beatPc = "send"

(* Mutant: send_frame does not look at running_.                           *)
SendTestAuthenticated(s, c) ==
    /\ Sends(s) /\ c \in todo[s]
    /\ todo' = [todo EXCEPT ![s] = @ \ {c}]
    /\ sending' = [sending EXCEPT ![s] = IF authenticated[c] THEN {c} ELSE {}]
    /\ UNCHANGED <<events, pubPc, waiting, beatPc, depth>>
    /\ SendUnchanged

(* The test of running_ and authenticated_: an early return, or on to the  *)
(* encoding.                                                               *)
SendTest(s, c) ==
    /\ Sends(s) /\ c \in todo[s]
    /\ todo' = [todo EXCEPT ![s] = @ \ {c}]
    /\ sending' = [sending EXCEPT ![s] = IF running[c] /\ authenticated[c] THEN {c} ELSE {}]
    /\ UNCHANGED <<events, pubPc, waiting, beatPc, depth>>
    /\ SendUnchanged

SendEnqueue(s, c) ==
    /\ ~aborted /\ c \in sending[s]
    /\ depth' = [depth EXCEPT ![c] = @ + 1]
    /\ sending' = [sending EXCEPT ![s] = {}]
    /\ UNCHANGED <<events, pubPc, waiting, beatPc, todo>>
    /\ SendUnchanged

-----------------------------------------------------------------------------
(* publish, on the distribution thread or the playback thread of a replay. *)

PublishBegin ==
    /\ ~aborted /\ Event /\ pubPc = "idle" /\ up
    /\ pubPc' = "lock"
    /\ UNCHANGED <<waiting, beatPc, todo, sending, depth>>
    /\ SendUnchanged

PublishSnapshot ==
    /\ ~aborted /\ pubPc = "lock" /\ mutex = "free"
    /\ todo' = [todo EXCEPT !["publish"] = {c \in clients : authenticated[c] /\ subscribed[c]}]
    /\ pubPc' = "wait"
    /\ UNCHANGED <<events, waiting, beatPc, sending, depth>>
    /\ SendUnchanged

(* The depth wait_for_capacity is given.                                   *)
maxDepth == Max({depth[c] : c \in todo["publish"]} \cup {0})

PublishPause ==
    /\ ~aborted /\ pubPc = "wait" /\ up /\ ~waiting /\ maxDepth >= HighWatermark
    /\ waiting' = TRUE
    /\ UNCHANGED <<events, pubPc, beatPc, todo, sending, depth>>
    /\ SendUnchanged

(* Mutant: waits for the queues to be below the low watermark.             *)
PublishGoBelowLow ==
    /\ ~aborted /\ pubPc = "wait"
    /\ \/ ~up
       \/ ~waiting /\ maxDepth < HighWatermark
       \/ waiting /\ maxDepth < LowWatermark
    /\ pubPc' = "send" /\ waiting' = FALSE
    /\ UNCHANGED <<events, beatPc, todo, sending, depth>>
    /\ SendUnchanged

PublishGo ==
    /\ ~aborted /\ pubPc = "wait"
    /\ \/ ~up
       \/ ~waiting /\ maxDepth < HighWatermark
       \/ waiting /\ maxDepth <= LowWatermark
    /\ pubPc' = "send" /\ waiting' = FALSE
    /\ UNCHANGED <<events, beatPc, todo, sending, depth>>
    /\ SendUnchanged

PublishReturn ==
    /\ ~aborted /\ pubPc = "send" /\ todo["publish"] = {} /\ sending["publish"] = {}
    /\ pubPc' = "idle"
    /\ UNCHANGED <<events, waiting, beatPc, todo, sending, depth>>
    /\ SendUnchanged

-----------------------------------------------------------------------------
(* heartbeat_loop: under clients_mutex_, clients that have not             *)
(* authenticated are dropped and the others are sent a heartbeat.          *)

BeatUnchanged ==
    UNCHANGED <<up, io, serverPc, toStop, joining, connVars, pubPc, waiting, sending, aborted>>

BeatWake ==
    /\ ~aborted /\ Event /\ beatPc = "sleep" /\ up
    /\ beatPc' = "lock"
    /\ UNCHANGED <<clients, mutex, todo>>
    /\ BeatUnchanged

BeatLock ==
    /\ ~aborted /\ beatPc = "lock" /\ mutex = "free"
    /\ mutex' = "heartbeat" /\ beatPc' = "send"
    /\ clients' = {c \in clients : authenticated[c]}
    /\ todo' = [todo EXCEPT !["heartbeat"] = clients']
    /\ UNCHANGED events
    /\ BeatUnchanged

BeatUnlock ==
    /\ ~aborted /\ beatPc = "send" /\ todo["heartbeat"] = {} /\ sending["heartbeat"] = {}
    /\ mutex' = "free" /\ beatPc' = "sleep"
    /\ UNCHANGED <<clients, todo, events>>
    /\ BeatUnchanged

BeatEnd ==
    /\ ~aborted /\ beatPc = "sleep" /\ ~up
    /\ beatPc' = "done"
    /\ UNCHANGED <<clients, mutex, todo, events>>
    /\ BeatUnchanged

-----------------------------------------------------------------------------
(* Shutdown: run() stops and joins the IO threads, and with them every     *)
(* handler.                                                                *)
IoStop ==
    /\ ~aborted /\ io /\ \A c \in Clients : reader[c] # "joining"
    /\ io' = FALSE
    /\ UNCHANGED <<up, clients, mutex, serverPc, toStop, joining, connVars, sendVars, events,
                   aborted>>

(* PubServer::stop.                                                        *)

StopUnchanged ==
    UNCHANGED <<io, peer, authenticated, subscribed, depth, writer, hold, failures, reader,
                sendVars, events, aborted>>

ServerStop ==
    /\ ~aborted /\ ~io /\ up
    /\ up' = FALSE /\ serverPc' = "lock"
    /\ UNCHANGED <<clients, mutex, toStop, joining, socket, running>>
    /\ StopUnchanged

StopLock ==
    /\ ~aborted /\ serverPc = "lock" /\ mutex = "free"
    /\ mutex' = "stop" /\ serverPc' = "clients" /\ toStop' = clients
    /\ UNCHANGED <<up, clients, joining, socket, running>>
    /\ StopUnchanged

(* ClientConnection::stop of the next client: it returns at once when the  *)
(* connection has been stopped, else it joins the write thread.            *)
StopClient(c) ==
    /\ ~aborted /\ serverPc = "clients" /\ joining = {} /\ c \in toStop
    /\ toStop' = toStop \ {c}
    /\ joining' = IF running[c] THEN {c} ELSE {}
    /\ running' = [running EXCEPT ![c] = FALSE]
    /\ socket' = [socket EXCEPT ![c] = FALSE]
    /\ UNCHANGED <<up, clients, mutex, serverPc>>
    /\ StopUnchanged

StopJoined(c) ==
    /\ ~aborted /\ c \in joining /\ writer[c] = "done"
    /\ joining' = {}
    /\ UNCHANGED <<up, clients, mutex, serverPc, toStop, socket, running>>
    /\ StopUnchanged

(* Mutant: the heartbeat thread is joined with clients_mutex_ held.        *)
StopUnlockLate ==
    /\ ~aborted /\ serverPc = "clients" /\ toStop = {} /\ joining = {}
    /\ clients' = {} /\ serverPc' = "heartbeat"
    /\ UNCHANGED <<up, mutex, toStop, joining, socket, running>>
    /\ StopUnchanged

StopUnlock ==
    /\ ~aborted /\ serverPc = "clients" /\ toStop = {} /\ joining = {}
    /\ clients' = {} /\ mutex' = "free" /\ serverPc' = "heartbeat"
    /\ UNCHANGED <<up, toStop, joining, socket, running>>
    /\ StopUnchanged

StopReturn ==
    /\ ~aborted /\ serverPc = "heartbeat" /\ beatPc = "done"
    /\ serverPc' = "stopped"
    /\ UNCHANGED <<up, clients, mutex, toStop, joining, socket, running>>
    /\ StopUnchanged

WriterStep(c) ==
    WriterTake(c) \/ WriterSend(c) \/ WriterFail(c) \/ WriterSelfJoin(c) \/ WriterExit(c)
ReaderStep(c) ==
    Authenticate(c) \/ Subscribe(c) \/ Unsubscribe(c) \/ BadToken(c) \/ ReadError(c)
SendStep(s) == \E c \in Clients : SendTest(s, c) \/ SendEnqueue(s, c)
PublishStep ==
    PublishSnapshot \/ PublishPause \/ PublishGo \/ PublishReturn \/ SendStep("publish")
BeatStep == BeatLock \/ BeatUnlock \/ BeatEnd \/ SendStep("heartbeat")
StopStep ==
    StopLock \/ StopUnlock \/ StopReturn \/ \E c \in Clients : StopClient(c) \/ StopJoined(c)

Next ==
    \/ \E c \in Clients :
          Accept(c) \/ Leave(c) \/ ReaderStep(c) \/ ReaderJoined(c) \/ WriterStep(c)
    \/ Refuse
    \/ PublishBegin \/ PublishStep
    \/ BeatWake \/ BeatStep
    \/ IoStop \/ ServerStop \/ StopStep

Spec == Init /\ [][Next]_vars

(* Threads are scheduled, and a connected client reads its socket, so that *)
(* a write to it returns.                                                  *)
LiveSpec ==
    /\ Spec
    /\ \A c \in Clients :
          WF_vars(WriterStep(c)) /\ WF_vars(ReadError(c) \/ ReaderJoined(c))
    /\ WF_vars(PublishStep) /\ WF_vars(BeatStep) /\ WF_vars(StopStep)

-----------------------------------------------------------------------------
(* Properties.                                                             *)

(* When its read handler or the server stops a connection, the write       *)
(* thread ends and the join comes back, as long as clients read.  The      *)
(* write thread that stops its own connection (writer "selfJoin") is no    *)
(* such case: its join takes the process down.                             *)
DisconnectCompletes ==
    \A c \in Clients :
        writer[c] = "loop" /\ ~running[c] ~>
            aborted \/ (writer[c] = "done" /\ reader[c] # "joining" /\ c \notin joining)

(* The frames queued for c or about to be: publish and the heartbeat       *)
(* thread each have at most one past the test of running_.                 *)
Pending(c) ==
    depth[c] + (IF c \in sending["publish"] THEN 1 ELSE 0)
             + (IF c \in sending["heartbeat"] THEN 1 ELSE 0)

(* What is bound for a connection that has been stopped only shrinks:      *)
(* whatever snapshot of the clients it works on, no sender takes the       *)
(* connection up again, and so at most one frame of publish and one of the *)
(* heartbeat thread are queued after the stop.  A write thread that stops  *)
(* itself is left out: an acknowledgement may fall before its join.        *)
StoppedOnlyDrains ==
    [][\A c \in Clients : ~running[c] /\ writer[c] # "selfJoin" => Pending(c)' <= Pending(c)]_vars

(* PubServer::stop returns: it joins the write threads one by one with     *)
(* clients_mutex_ held, then the heartbeat thread, which may be waiting    *)
(* for that mutex; publish and the other clients go on meanwhile.          *)
StopReturns == ~up ~> serverPc = "stopped" \/ aborted

(* publish returns unless the server is up and a client it is about to     *)
(* serve has disconnected with frames in its queue.                        *)
Stuck(c) == up /\ ~running[c] /\ depth[c] > LowWatermark
PublishReturnsToTheLiving ==
    pubPc # "idle" ~> pubPc = "idle" \/ aborted \/ \E c \in todo["publish"] : Stuck(c)

=============================================================================
